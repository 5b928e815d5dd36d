---------------------------- MODULE MCBlobUpload ----------------------------
(* Instances of BlobUpload for TLC.                                         *)
EXTENDS BlobUpload, TLC

CONSTANTS p1, p2, r1, r2

(* Two pushes, to different repositories.                                   *)
MCRepository == (p1 :> r1) @@ (p2 :> r2)
=============================================================================
