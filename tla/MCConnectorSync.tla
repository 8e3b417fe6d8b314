-------------------------- MODULE MCConnectorSync --------------------------
(***************************************************************************)
(* Small instances of ConnectorSync for TLC.  The scheduler loops are      *)
(* interchangeable; the runs without a liveness property use that.         *)
(***************************************************************************)
EXTENDS ConnectorSync, TLC

LoopsAreAlike == Permutations(Schedulers)
============================================================================
