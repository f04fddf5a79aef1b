--------------------------- MODULE MCDirectUpload ---------------------------
(* DirectUpload as TLC checks it: liveness forbids the symmetry of requests. *)
EXTENDS DirectUpload
=============================================================================
