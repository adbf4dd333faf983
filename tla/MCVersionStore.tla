---------------------------- MODULE MCVersionStore ----------------------------
(* Two fields of two values, so that two edits can touch different parts of  *)
(* a page; each .cfg chooses which writers run.                              *)
EXTENDS VersionStore, TLC

CONSTANTS title, body, old, new, w1, w2, b1, b2, p1, s1, r1

MCFields == {title, body}
OneField == {title}
MCValues == {old, new}
None0 == {}
OneSaver == {w1}
TwoSavers == {w1, w2}
OneBatcher == {b1}
TwoBatchers == {b1, b2}
OneSession == {s1}
OnePublisher == {p1}
OneReverter == {r1}

SaverSymmetry == Permutations(TwoSavers)
ContentSymmetry == Permutations(MCFields) \cup Permutations(MCValues)
WriterSymmetry == Permutations(TwoBatchers) \cup ContentSymmetry
=============================================================================
