------------------------------- MODULE MCChat -------------------------------
(* Two gateways, sockets a1 and a2 on the first and b1 on the second, two  *)
(* users who know their own passwords.                                     *)
EXTENDS ChatSystem, TLC

CONSTANTS g1, g2, a1, a2, b1, pw1, pw2

TwoGateways == [s \in Ws |-> IF s = b1 THEN g2 ELSE g1]
OneGateway  == [s \in Ws |-> g1]

Passwords == (1 :> pw1) @@ (2 :> pw2)

(* Two users with one password, where who logs in as whom does not matter. *)
SamePassword == [u \in Uids |-> pw1]

(* Only user 1 has user 2 in the list: the state a failed AcceptFriend-    *)
(* Request leaves.                                                         *)
OneWay == {<<1, 2>>}

NoRows == {}

(* A row nobody sent, as a statement broken by its content may leave it.   *)
StrayRow == {[id |-> 7, mid |-> 0, from |-> 2, to |-> 1, body |-> "q"]}

(* Three unread messages for user 2. *)
ThreeRows ==
    {[id |-> i, mid |-> i, from |-> 1, to |-> 2, body |-> "x"] : i \in 1..3}

=============================================================================
