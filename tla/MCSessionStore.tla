--------------------------- MODULE MCSessionStore ---------------------------
(* SessionStore with two platforms, of which one authorises logins, and    *)
(* interchangeable flows                                                   *)
EXTENDS SessionStore, TLC

Cases == <<"weibo", "apple">>
Symmetry == Permutations(Flows)

(* The user has an old backup, which lacks a platform; who does not use it *)
(* has none.                                                               *)
SmallInit == Init /\ backup = [keys EXCEPT !["weibo"] = Foreign]
SmallSpec == SmallInit /\ [][Next]_vars

=============================================================================
