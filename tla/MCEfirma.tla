------------------------------ MODULE MCEfirma ------------------------------
(* One custody, two workers that may use it and the reconcilers of the cfg. *)
EXTENDS Efirma, TLC
=============================================================================
