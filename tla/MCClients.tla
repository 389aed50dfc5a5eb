----------------------------- MODULE MCClients ------------------------------
(* The programs to check: all, or one that shows a finding. *)
EXTENDS Clients

MCAll == Exchanges \cup {any1, any2}
MCCex == {cexwss}
MCCoin == {coin}
=============================================================================
