--------------------------- MODULE MCBlobDownload ---------------------------
(* Instances of BlobDownload for TLC.                                       *)
EXTENDS BlobDownload, TLC

(* Pulls are interchangeable; downloads are taken in order.                 *)
Symmetry == Permutations(Pulls)
=============================================================================
