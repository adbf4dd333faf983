---------------------------- MODULE MCDocumentSync ----------------------------
(* One document, two or three edits; each .cfg chooses what can go wrong.     *)
EXTENDS DocumentSync, TLC

CONSTANTS i1, i2, d1, f1, f2, c1

Nobody == {}
OneInsert == {i1}
TwoInserts == {i1, i2}
SecondInsert == {i2}
OneDelete == {d1}
OneFlusher == {f1}
TwoFlushers == {f1, f2}
OneCompleter == {c1}
Alike == Permutations({i1, i2})
=============================================================================
