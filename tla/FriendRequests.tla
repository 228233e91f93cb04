--------------------------- MODULE FriendRequests ---------------------------
(***************************************************************************)
(* Friend requests on the logic server: SendFriendRequest,                 *)
(* RespondFriendRequest (logic_server/main.cc:198-228) and the statements  *)
(* behind them on t_friend_request and t_friend (pool_db_client.cc).       *)
(*                                                                         *)
(* Accepting a request takes four statements outside any transaction, each *)
(* of which is an action here: calls on other gRPC threads, failures and   *)
(* crashes happen in between.  A thread keeps its place and the local      *)
(* variables of AcceptFriendRequest in call[t].                            *)
(*                                                                         *)
(* t_friend is a set of pairs: an insert of a present pair changes nothing *)
(* (ON CONFLICT DO NOTHING), and no operation removes a pair.              *)
(*                                                                         *)
(* The reason of a request is left out, and taken to have no quote in it:  *)
(* it is put into the INSERT as it is (pool_db_client.cc:111-112), and     *)
(* with one the statement may be another one.                              *)
(***************************************************************************)
EXTENDS Integers, Sequences

CONSTANTS
    Threads,    \* gRPC threads that serve friend calls
    Uids,       \* user ids
    MaxReqs,    \* bound: rows of t_friend_request
    Faulty      \* statements may fail and the process may crash

ASSUME FriendAssumption == MaxReqs \in Nat /\ Faulty \in BOOLEAN

VARIABLES
    reqs,       \* t_friend_request; the id of a row is its place
    friends,    \* t_friend: pairs <<uid, friend_uid>>
    call,       \* call[t]: where thread t is in AcceptFriendRequest
    begun,      \* history: requests an accept has found pending
    refused,    \* history: requests rejected before any accept found them
    accepted,   \* history: requests whose accept was answered with success
    failed      \* history: a statement of an accept has failed, or a crash

vars == <<reqs, friends, call, begun, refused, accepted, failed>>
histories == <<begun, refused, accepted, failed>>

(* The status column. *)
PENDING  == 0
ACCEPTED == 1
REJECTED == 2

FriendRequest == [from : Uids, to : Uids, status : {PENDING, ACCEPTED, REJECTED}]

Idle == [pc |-> "idle"]
CallState == {Idle} \cup
    [pc : {"ins1", "ins2", "update"}, id : Nat, from : Uids, to : Uids,
     ok1 : BOOLEAN]

Ids == 1..Len(reqs)

Init ==
    /\ reqs = <<>>
    /\ friends = {}
    /\ call = [t \in Threads |-> Idle]
    /\ begun = {}
    /\ refused = {}
    /\ accepted = {}
    /\ failed = FALSE

-----------------------------------------------------------------------------
(* Faulty variant of SendFriendRequest: no value for the status column.    *)
SendFriendRequestNull(from, to) ==
    /\ Len(reqs) < MaxReqs
    /\ reqs' = Append(reqs, [from |-> from, to |-> to, status |-> -1])
    /\ UNCHANGED <<friends, call, histories>>

(* SendFriendRequest: one INSERT, with the default of the status column.   *)
(* Nothing stops a user from asking twice, or from asking himself.         *)
SendFriendRequest(from, to) ==
    /\ Len(reqs) < MaxReqs
    /\ reqs' = Append(reqs, [from |-> from, to |-> to, status |-> PENDING])
    /\ UNCHANGED <<friends, call, histories>>

(* Faulty variant of AcceptSelect: without "AND status=0".                 *)
AcceptSelectAny(t, id) ==
    /\ call[t] = Idle
    /\ call' = [call EXCEPT ![t] = [pc |-> "ins1", id |-> id,
                   from |-> reqs[id].from, to |-> reqs[id].to, ok1 |-> FALSE]]
    /\ begun' = begun \cup {id}
    /\ UNCHANGED <<reqs, friends, refused, accepted, failed>>

(* RespondFriendRequest with accept: the SELECT of AcceptFriendRequest.  A *)
(* request that is not pending, or a failed query, ends the call with an   *)
(* error and changes nothing.                                              *)
AcceptSelect(t, id) ==
    /\ call[t] = Idle
    /\ reqs[id].status = PENDING
    /\ call' = [call EXCEPT ![t] = [pc |-> "ins1", id |-> id,
                   from |-> reqs[id].from, to |-> reqs[id].to, ok1 |-> FALSE]]
    /\ begun' = begun \cup {id}
    /\ UNCHANGED <<reqs, friends, refused, accepted, failed>>

(* A statement is done or not, and reported successful or not; it is never *)
(* reported successful without effect.                                     *)
Outcome == {o \in [done : BOOLEAN, ok : BOOLEAN] :
               /\ o.ok => o.done
               /\ ~Faulty => o.ok}

Insert(pair, done) == friends' = IF done THEN friends \cup {pair} ELSE friends

(* ins1: the receiver enters the sender's list.  Its result is looked at   *)
(* only after ins2 has been run as well.                                   *)
AcceptIns1(t) ==
    LET c == call[t] IN
    /\ c.pc = "ins1"
    /\ \E o \in Outcome :
          /\ Insert(<<c.from, c.to>>, o.done)
          /\ call' = [call EXCEPT ![t].pc = "ins2", ![t].ok1 = o.ok]
          /\ failed' = (failed \/ ~o.ok)
    /\ UNCHANGED <<reqs, begun, refused, accepted>>

(* Faulty variants of AcceptIns2: only its own result decides; the pair of *)
(* ins1 is inserted again.                                                 *)
AcceptIns2Alone(t) ==
    LET c == call[t] IN
    /\ c.pc = "ins2"
    /\ \E o \in Outcome :
          /\ Insert(<<c.to, c.from>>, o.done)
          /\ call' = [call EXCEPT ![t] =
                        IF o.ok THEN [c EXCEPT !.pc = "update"] ELSE Idle]
          /\ failed' = (failed \/ ~o.ok)
    /\ UNCHANGED <<reqs, begun, refused, accepted>>

AcceptIns2Same(t) ==
    LET c == call[t] IN
    /\ c.pc = "ins2"
    /\ \E o \in Outcome :
          /\ Insert(<<c.from, c.to>>, o.done)
          /\ call' = [call EXCEPT ![t] =
                        IF c.ok1 /\ o.ok THEN [c EXCEPT !.pc = "update"]
                                         ELSE Idle]
          /\ failed' = (failed \/ ~o.ok)
    /\ UNCHANGED <<reqs, begun, refused, accepted>>

(* ins2: the sender enters the receiver's list.  If either insert failed   *)
(* the call ends with an error, and what the other did stays.              *)
AcceptIns2(t) ==
    LET c == call[t] IN
    /\ c.pc = "ins2"
    /\ \E o \in Outcome :
          /\ Insert(<<c.to, c.from>>, o.done)
          /\ call' = [call EXCEPT ![t] =
                        IF c.ok1 /\ o.ok THEN [c EXCEPT !.pc = "update"]
                                         ELSE Idle]
          /\ failed' = (failed \/ ~o.ok)
    /\ UNCHANGED <<reqs, begun, refused, accepted>>

(* UPDATE t_friend_request SET status=v WHERE id=id: the table afterwards. *)
WithStatus(id, v) == [reqs EXCEPT ![id].status = v]

(* The UPDATE that marks the request accepted, whatever its status is now. *)
(* Its result is ignored and the call answers success.                     *)
AcceptUpdate(t) ==
    LET c == call[t] IN
    /\ c.pc = "update"
    /\ \E o \in Outcome :
          /\ reqs' = IF o.done THEN WithStatus(c.id, ACCEPTED) ELSE reqs
          /\ failed' = (failed \/ ~o.ok)
    /\ call' = [call EXCEPT ![t] = Idle]
    /\ accepted' = accepted \cup {c.id}
    /\ UNCHANGED <<friends, begun, refused>>

(* RespondFriendRequest without accept: one UPDATE that does not look at   *)
(* the status (an accepted request can be rejected afterwards).  A failed  *)
(* statement is answered with success, too, and changes nothing.           *)
Reject(id) ==
    /\ reqs' = WithStatus(id, REJECTED)
    /\ refused' = IF id \in begun THEN refused ELSE refused \cup {id}
    /\ UNCHANGED <<friends, call, begun, accepted, failed>>

(* The logic server dies and is started again; committed statements stay.  *)
Crash ==
    /\ Faulty
    /\ call # [t \in Threads |-> Idle]
    /\ call' = [t \in Threads |-> Idle]
    /\ failed' = TRUE
    /\ UNCHANGED <<reqs, friends, begun, refused, accepted>>

AcceptStep(t) == AcceptIns1(t) \/ AcceptIns2(t) \/ AcceptUpdate(t)

Next ==
    \/ \E from, to \in Uids : SendFriendRequest(from, to)
    \/ \E t \in Threads, id \in Ids : AcceptSelect(t, id)
    \/ \E t \in Threads : AcceptStep(t)
    \/ \E id \in Ids : Reject(id)
    \/ Crash

Spec == Init /\ [][Next]_vars

(* ListFriends and AreFriends.                                             *)
ListFriends(uid) == {f \in Uids : <<uid, f>> \in friends}

-----------------------------------------------------------------------------
(* The variables have their types.                                         *)
TypeOK ==
    /\ reqs \in Seq(FriendRequest)
    /\ friends \in SUBSET (Uids \X Uids)
    /\ call \in [Threads -> CallState]
    /\ begun \in SUBSET Nat
    /\ refused \in SUBSET Nat
    /\ accepted \in SUBSET Nat
    /\ failed \in BOOLEAN

(* A request that is marked accepted, or whose accept was answered with    *)
(* success, has made both users friends of each other, whatever statement  *)
(* failed, whichever calls ran at the same time and wherever the process   *)
(* died.  So a half-made friendship is never marked accepted, and the      *)
(* accept can be tried again (pool_db_client.cc:161-173).                  *)
AcceptedIsFriends ==
    \A id \in Ids :
        (reqs[id].status = ACCEPTED \/ id \in accepted) =>
            /\ reqs[id].to \in ListFriends(reqs[id].from)
            /\ reqs[id].from \in ListFriends(reqs[id].to)

(* Two users are friends only through a request between them that some     *)
(* accept found pending.  A request rejected before any accept had read it *)
(* never makes friends; one rejected while an accept is running may.       *)
FriendsOnlyByAccept ==
    \A p \in friends :
        \E id \in begun \ refused :
            /\ id \in Ids
            /\ p \in {<<reqs[id].from, reqs[id].to>>,
                      <<reqs[id].to, reqs[id].from>>}

(* Without failures friendship is mutual except for the pair an accept has *)
(* just inserted and whose reverse it inserts next, even when both users   *)
(* have asked each other and both accept at the same time.                 *)
FriendsMutual ==
    ~failed => \A p \in friends :
        \/ p[1] \in ListFriends(p[2])
        \/ \E t \in Threads : /\ call[t].pc = "ins2"
                              /\ p = <<call[t].from, call[t].to>>

(* An UPDATE that fails leaves a request pending whose accept was answered *)
(* with success (pool_db_client.cc:170-173), and it can be accepted again: *)
(* by then that changes nothing, on whichever thread, however the first    *)
(* accept ended and whatever failed on the way.                            *)
ReacceptHarmless ==
    [][\A t \in Threads :
          (/\ call[t] # Idle
           /\ call[t].id \in accepted
           /\ call'[t] # call[t]) => UNCHANGED friends]_vars

=============================================================================
