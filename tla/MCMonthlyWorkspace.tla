------------------------- MODULE MCMonthlyWorkspace -------------------------
(* One month with the editors, documents and workers of the cfg. *)
EXTENDS MonthlyWorkspace, TLC
=============================================================================
