------------------------------ MODULE Mailbox -------------------------------
(***************************************************************************)
(* What the message path promises its users, without gateways, calls,      *)
(* statements or crashes: a box to which messages are added, under ids of  *)
(* their own and between friends only, where they stay as they are, and    *)
(* from which a user gets some of the messages addressed to him.           *)
(*                                                                         *)
(* It does not promise that an acknowledged message is in the box, nor     *)
(* that a user can get all of his: runs ack_without_store and              *)
(* sync_complete show that the code does neither.                          *)
(***************************************************************************)
CONSTANTS
    Users,      \* users, with 0 for a client that has not logged in
    Contacts,   \* pairs of users the first of whom may write to the second
    Seed        \* the box at the start

VARIABLES
    box,        \* messages that are kept
    got         \* got[u]: messages user u has been given

MailboxInit ==
    /\ box = Seed
    /\ got = [u \in Users |-> {}]

Post(m) ==
    /\ \A k \in box : k.id # m.id
    /\ <<m.from, m.to>> \in Contacts
    /\ box' = box \cup {m}
    /\ UNCHANGED got

Give(u, msgs) ==
    /\ msgs \subseteq {m \in box : m.to = u}
    /\ got' = [got EXCEPT ![u] = @ \cup msgs]
    /\ UNCHANGED box

MailboxNext ==
    \/ \E m \in box' \ box : Post(m)
    \/ \E u \in Users : \E msgs \in SUBSET box : Give(u, msgs)

MailboxSpec == MailboxInit /\ [][MailboxNext]_<<box, got>>

=============================================================================
