----------------------------- MODULE MCAccounts -----------------------------
(* One connection on each of two gateways.  Two names, of which the second *)
(* applies with the address of the first and no password, or with an       *)
(* address that has a quote in it.                                         *)
EXTENDS Accounts

CONSTANTS g1, g2, c1, c2, n1, n2, e1, quoted, pw1

TwoGateways == [c \in Clients |-> IF c = c2 THEN g2 ELSE g1]

Application(n, e, p) == [name |-> n, email |-> e, pw |-> p]

SomeApplications ==
    {Application(n1, e1, pw1), Application(n2, e1, Empty),
     Application(n2, quoted, pw1)}

=============================================================================
