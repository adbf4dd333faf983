---------------------------- MODULE MCEditSessions ----------------------------
(* Two agents; each .cfg chooses the sessions they ask for.                   *)
EXTENDS EditSessions, TLC

CONSTANTS s1, s2, s3, a1, a2, t1, t2, t3, top, bottom

\* s3 is another session of the agent and the turn of s1, over both regions.
OwnerOf == [s \in Sessions |-> IF s = s2 THEN a2 ELSE a1]
TurnOf == [s \in Sessions |-> IF s = s2 THEN t2 ELSE t1]
OneTurn == [s \in Sessions |-> IF s = s2 THEN None ELSE t1]
RegionsOf == [s \in Sessions |-> CASE s = s1 -> {top} [] s = s2 -> {bottom}
                                   [] OTHER -> {top, bottom}]
=============================================================================
