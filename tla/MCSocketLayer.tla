--------------------------- MODULE MCSocketLayer ---------------------------
(* SocketLayer for TLC: the attempts are interchangeable.                  *)
EXTENDS SocketLayer, TLC

Symmetry == Permutations(Attempts)
=============================================================================
