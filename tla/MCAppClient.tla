---------------------------- MODULE MCAppClient ----------------------------
(***************************************************************************)
(* AppClient on the two-investor instance of MCVault, without a cooldown.  *)
(***************************************************************************)
EXTENDS AppClient, MCVault

MCAppTerms == {Term(1, 0)}

AppTradingSpec == TradingInit /\ [][AppNext /\ UNCHANGED oracleVars]_vars

=============================================================================
