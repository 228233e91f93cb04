----------------------------- MODULE ConnAlloc ------------------------------
(***************************************************************************)
(* What a connection pool promises to the request handlers: a handler that *)
(* asks gets a connection nobody else has, or is refused; a connection     *)
(* that is given back becomes free or disappears.  Nothing is said of how  *)
(* threads wait or of when connections are opened.                         *)
(***************************************************************************)
EXTENDS FiniteSets

CONSTANTS Threads, Conns, NoConn

VARIABLES
    free,       \* connections that exist and belong to no thread
    held,       \* held[t]: the connection of thread t, or NoConn
    asking      \* threads inside Acquire

allocVars == <<free, held, asking>>

(* Before any request some connections may be open already. *)
Init ==
    /\ free \in SUBSET Conns
    /\ held = [t \in Threads |-> NoConn]
    /\ asking = {}

(* Acquire is called. *)
Ask(t) ==
    /\ t \notin asking
    /\ held[t] = NoConn
    /\ asking' = asking \cup {t}
    /\ UNCHANGED <<free, held>>

(* Acquire returns a connection: a free one, or a new one. *)
Grant(t) ==
    /\ t \in asking
    /\ \E c \in Conns :
          /\ \A u \in Threads : held[u] # c
          /\ held' = [held EXCEPT ![t] = c]
          /\ free' = free \ {c}
    /\ asking' = asking \ {t}

(* Acquire returns nullptr. *)
Refuse(t) ==
    /\ t \in asking
    /\ asking' = asking \ {t}
    /\ UNCHANGED <<free, held>>

(* The guard is destroyed: the connection becomes free, or is closed. *)
GiveBack(t) ==
    /\ held[t] # NoConn
    /\ free' = free \/ free' = free \cup {held[t]}
    /\ held' = [held EXCEPT ![t] = NoConn]
    /\ UNCHANGED asking

Next == \E t \in Threads : Ask(t) \/ Grant(t) \/ Refuse(t) \/ GiveBack(t)

Spec == Init /\ [][Next]_allocVars

=============================================================================
