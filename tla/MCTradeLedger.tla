---------------------------- MODULE MCTradeLedger ----------------------------
(***************************************************************************)
(* TaxReports for TLC.  Handlers are interchangeable; ids are not (their   *)
(* order decides which same-day lot is sold first).                        *)
(***************************************************************************)
EXTENDS TaxReports

Symmetry == Permutations(Requests)
=============================================================================
