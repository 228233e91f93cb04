------------------------------ MODULE MCFriends -----------------------------
(* Friend requests with named users and threads.                           *)
EXTENDS FriendRequests, TLC

CONSTANTS t1, t2, u1, u2

(* Users and threads are interchangeable. *)
Symmetry == Permutations(Threads) \cup Permutations(Uids)

=============================================================================
