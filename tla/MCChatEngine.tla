----------------------------- MODULE MCChatEngine -----------------------------
(* ChatEngine with friends that TLC may exchange.                          *)
EXTENDS ChatEngine, TLC

Symmetry == Permutations(Users)

=============================================================================
