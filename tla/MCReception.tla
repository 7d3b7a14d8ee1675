---------------------------- MODULE MCReception ----------------------------
(***************************************************************************)
(* Reception with a user who sends before a heartbeat is due, or with one  *)
(* who sends nothing and a heartbeat: a message and a heartbeat each wait  *)
(* for an answer, and with both the states are too many.  Pushed messages  *)
(* and lost connections are the same for either.                           *)
(***************************************************************************)
EXTENDS Reception

VARIABLE sends \* whether the user sends

EitherInit == sends \in BOOLEAN /\ Init

EitherNext ==
    /\ \/ Socket \/ Delegate \/ Push \/ Break
       \/ sends /\ \E msg \in Message : SendMessage(msg)
       \/ ~sends /\ HeartBeat
    /\ UNCHANGED sends

Either == EitherInit /\ [][EitherNext]_<<sends, vars>>

=============================================================================
