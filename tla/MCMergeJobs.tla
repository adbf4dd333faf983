------------------------------ MODULE MCMergeJobs ------------------------------
(* Instances of MergeJobs for TLC. *)
EXTENDS MergeJobs

TwoDocs == {1, 2}
OneDoc == {1}
Second == {2}
TwoJobs == {1, 2}
OnlySource == <<{"take-source"}, {"take-source"}>>
Mixed == <<{"take-source", None}, {"take-target"}>>
AllEvents == EventKinds
================================================================================
