----------------------------- MODULE MCMediaStore -----------------------------
(* An asset and its second version; each .cfg chooses its origin and who       *)
(* finalizes what.                                                             *)
EXTENDS MediaStore, TLC

CONSTANTS a1, u1, u2, c1, c2, c3, p1, p2

AssetOfUpload == [u \in Uploads |-> a1]

\* c1 and c2 finalize the first upload, c3 its second version.
UploadOfCall == [c \in Calls |-> IF c = c3 THEN u2 ELSE u1]
=============================================================================
