---------------------------- MODULE FriendProofs ----------------------------
(***************************************************************************)
(* Proofs about FriendRequests, for any users, threads, number of requests *)
(* and failures.                                                           *)
(*                                                                         *)
(* The two safety properties are not inductive by themselves.  FInv adds   *)
(* what a running accept knows: the request it reads still has the users   *)
(* it read, it was pending when it was read (so it is not among the        *)
(* refused ones), and the inserts reported successful are in t_friend.     *)
(***************************************************************************)
EXTENDS FriendRequests, TLAPS

(* What thread t knows while it accepts a request.                         *)
AcceptKnows(t) ==
    LET c == call[t] IN
    c.pc # "idle" =>
        /\ c.id \in Ids
        /\ c.id \in begun \ refused
        /\ c.from = reqs[c.id].from
        /\ c.to = reqs[c.id].to
        /\ c.pc = "ins2" /\ c.ok1 => <<c.from, c.to>> \in friends
        /\ c.pc = "update" => /\ <<c.from, c.to>> \in friends
                              /\ <<c.to, c.from>> \in friends

(* The histories speak of existing requests; a refused one is not pending. *)
HistoriesOK ==
    /\ begun \subseteq Ids
    /\ accepted \subseteq Ids
    /\ refused \subseteq Ids
    /\ \A id \in refused : reqs[id].status # PENDING

FInv ==
    /\ TypeOK
    /\ \A t \in Threads : AcceptKnows(t)
    /\ HistoriesOK
    /\ AcceptedIsFriends
    /\ FriendsOnlyByAccept

(* Insert adds a pair of users or nothing. *)
LEMMA InsertType ==
    ASSUME TypeOK, NEW from \in Uids, NEW to \in Uids, NEW done \in BOOLEAN,
           Insert(<<from, to>>, done)
    PROVE  /\ friends' \in SUBSET (Uids \X Uids)
           /\ friends \subseteq friends'
           /\ \A p \in friends' : p \in friends \/ p = <<from, to>>
           /\ done => <<from, to>> \in friends'
  BY DEF Insert, TypeOK

(* An UPDATE of the status column leaves the rest of the table alone. *)
LEMMA SetStatus ==
    ASSUME reqs \in Seq(FriendRequest), NEW id \in Ids,
           NEW v \in {PENDING, ACCEPTED, REJECTED}
    PROVE  /\ WithStatus(id, v) \in Seq(FriendRequest)
           /\ Len(WithStatus(id, v)) = Len(reqs)
           /\ WithStatus(id, v)[id].status = v
           /\ \A i \in Ids : /\ WithStatus(id, v)[i].from = reqs[i].from
                             /\ WithStatus(id, v)[i].to = reqs[i].to
                             /\ i # id => WithStatus(id, v)[i] = reqs[i]
<1> DEFINE row == [reqs[id] EXCEPT !.status = v]
<1>1. \A i \in Ids : reqs[i] \in FriendRequest
  BY DEF Ids
<1>2. /\ row \in FriendRequest
      /\ row.from = reqs[id].from /\ row.to = reqs[id].to /\ row.status = v
  BY <1>1 DEF FriendRequest
<1>3. WithStatus(id, v) = [i \in 1..Len(reqs) |-> IF i = id THEN row ELSE reqs[i]]
  BY DEF WithStatus, Ids
<1> HIDE DEF row
<1>4. \A i \in Ids : WithStatus(id, v)[i] = IF i = id THEN row ELSE reqs[i]
  BY <1>3 DEF Ids
<1>5. WithStatus(id, v) \in Seq(FriendRequest)
      /\ Len(WithStatus(id, v)) = Len(reqs)
  BY <1>1, <1>2, <1>3 DEF Ids
<1> QED
  BY <1>2, <1>4, <1>5

(* Every step of FriendRequests keeps FInv. *)
LEMMA FStep == FInv /\ [Next]_vars => FInv'
<1> SUFFICES ASSUME FInv, [Next]_vars PROVE FInv'
  OBVIOUS
<1> USE FriendAssumption
<1>1. ASSUME NEW from \in Uids, NEW to \in Uids, SendFriendRequest(from, to)
      PROVE  FInv'
  <2>1. /\ reqs' \in Seq(FriendRequest)
        /\ Len(reqs') = Len(reqs) + 1
        /\ \A id \in Ids : reqs'[id] = reqs[id]
        /\ reqs'[Len(reqs')].status = PENDING
    BY <1>1 DEF SendFriendRequest, FInv, TypeOK, FriendRequest, Ids, PENDING
  <2>2. Ids \subseteq Ids' /\ \A id \in Ids' : id \in Ids \/ id = Len(reqs')
    BY <2>1, <1>1 DEF Ids, FInv, TypeOK
  <2>3. /\ UNCHANGED <<friends, call, begun, refused, accepted, failed>>
        /\ \A id \in Nat : id = Len(reqs') => id \notin Ids
    BY <1>1, <2>1 DEF SendFriendRequest, histories, Ids, FInv, TypeOK
  <2>4. TypeOK'
    BY <2>1, <2>3 DEF FInv, TypeOK
  <2>5. ASSUME NEW t \in Threads PROVE AcceptKnows(t)'
    BY <2>1, <2>2, <2>3 DEF FInv, AcceptKnows
  <2>6. HistoriesOK'
    BY <2>1, <2>2, <2>3 DEF FInv, HistoriesOK
  <2>7. AcceptedIsFriends'
    <3> SUFFICES ASSUME NEW id \in Ids',
                        reqs'[id].status = ACCEPTED \/ id \in accepted'
                 PROVE  /\ reqs'[id].to \in ListFriends(reqs[id].from)'
                        /\ reqs'[id].from \in ListFriends(reqs[id].to)'
      BY DEF AcceptedIsFriends
    <3>1. id \in Ids
      BY <2>1, <2>2, <2>3 DEF FInv, HistoriesOK, ACCEPTED, PENDING
    <3> QED
      BY <3>1, <2>1, <2>3 DEF FInv, AcceptedIsFriends, ListFriends
  <2>8. FriendsOnlyByAccept'
    BY <2>1, <2>2, <2>3 DEF FInv, FriendsOnlyByAccept
  <2> QED
    BY <2>4, <2>5, <2>6, <2>7, <2>8 DEF FInv
<1>2. ASSUME NEW t \in Threads, NEW id \in Ids, AcceptSelect(t, id)
      PROVE  FInv'
  <2>1. /\ reqs[id] \in FriendRequest /\ id \in Nat
        /\ reqs[id].status = PENDING
        /\ UNCHANGED <<reqs, friends, refused, accepted, failed>>
        /\ begun' = begun \cup {id}
        /\ Ids' = Ids
        /\ call' = [call EXCEPT ![t] = [pc |-> "ins1", id |-> id,
                   from |-> reqs[id].from, to |-> reqs[id].to, ok1 |-> FALSE]]
    BY <1>2 DEF AcceptSelect, FInv, TypeOK, Ids
  <2>2. id \notin refused
    BY <2>1 DEF FInv, HistoriesOK
  <2>3. TypeOK'
    BY <2>1 DEF FInv, TypeOK, CallState, FriendRequest
  <2>4. ASSUME NEW u \in Threads PROVE AcceptKnows(u)'
    BY <2>1, <2>2, <2>4 DEF FInv, AcceptKnows, TypeOK
  <2>5. HistoriesOK'
    BY <2>1 DEF FInv, HistoriesOK
  <2>6. AcceptedIsFriends'
    BY <2>1 DEF FInv, AcceptedIsFriends, ListFriends
  <2>7. FriendsOnlyByAccept'
    BY <2>1, <2>2 DEF FInv, FriendsOnlyByAccept
  <2> QED
    BY <2>3, <2>4, <2>5, <2>6, <2>7 DEF FInv
<1>3. ASSUME NEW t \in Threads, AcceptIns1(t) PROVE FInv'
  <2> DEFINE c == call[t]
  <2>1. PICK o \in Outcome :
           /\ Insert(<<c.from, c.to>>, o.done)
           /\ call' = [call EXCEPT ![t].pc = "ins2", ![t].ok1 = o.ok]
    BY <1>3 DEF AcceptIns1
  <2>2. /\ c.pc = "ins1"
        /\ c \in [pc : {"ins1", "ins2", "update"}, id : Nat, from : Uids,
                  to : Uids, ok1 : BOOLEAN]
        /\ o.done \in BOOLEAN /\ o.ok \in BOOLEAN /\ (o.ok => o.done)
        /\ UNCHANGED <<reqs, begun, refused, accepted>>
        /\ failed' \in BOOLEAN
        /\ Ids' = Ids
    BY <1>3 DEF AcceptIns1, FInv, TypeOK, CallState, Idle, Outcome, histories,
                Ids
  <2>3. /\ friends' \in SUBSET (Uids \X Uids)
        /\ friends \subseteq friends'
        /\ \A p \in friends' : p \in friends \/ p = <<c.from, c.to>>
        /\ o.ok => <<c.from, c.to>> \in friends'
    BY <2>1, <2>2, InsertType DEF FInv
  <2>4. TypeOK'
    BY <2>1, <2>2, <2>3 DEF FInv, TypeOK, CallState
  <2>5. ASSUME NEW u \in Threads PROVE AcceptKnows(u)'
    <3>1. CASE u = t
      <4>1. AcceptKnows(t)
        BY DEF FInv
      <4> QED
        BY <4>1, <3>1, <2>1, <2>2, <2>3 DEF FInv, AcceptKnows, TypeOK
    <3>2. CASE u # t
      BY <3>2, <2>1, <2>2, <2>3 DEF FInv, AcceptKnows, TypeOK
    <3> QED
      BY <3>1, <3>2
  <2>6. HistoriesOK'
    BY <2>2 DEF FInv, HistoriesOK
  <2>7. AcceptedIsFriends'
    BY <2>2, <2>3 DEF FInv, AcceptedIsFriends, ListFriends
  <2>8. FriendsOnlyByAccept'
    <3> SUFFICES ASSUME NEW p \in friends'
                 PROVE  \E id \in begun \ refused :
                            /\ id \in Ids
                            /\ p \in {<<reqs[id].from, reqs[id].to>>,
                                      <<reqs[id].to, reqs[id].from>>}
      BY <2>2 DEF FriendsOnlyByAccept
    <3>1. CASE p \in friends
      BY <3>1 DEF FInv, FriendsOnlyByAccept
    <3>2. CASE p \notin friends
      <4>1. AcceptKnows(t)
        BY DEF FInv
      <4>2. /\ c.id \in Ids /\ c.id \in begun \ refused
            /\ p \in {<<reqs[c.id].from, reqs[c.id].to>>,
                      <<reqs[c.id].to, reqs[c.id].from>>}
        BY <4>1, <3>2, <2>2, <2>3 DEF AcceptKnows
      <4> QED
        BY <4>2
    <3> QED
      BY <3>1, <3>2
  <2> QED
    BY <2>4, <2>5, <2>6, <2>7, <2>8 DEF FInv
<1>4. ASSUME NEW t \in Threads, AcceptIns2(t) PROVE FInv'
  <2> DEFINE c == call[t]
  <2>1. PICK o \in Outcome :
           /\ Insert(<<c.to, c.from>>, o.done)
           /\ call' = [call EXCEPT ![t] =
                         IF c.ok1 /\ o.ok THEN [c EXCEPT !.pc = "update"]
                                          ELSE Idle]
    BY <1>4 DEF AcceptIns2
  <2>2. /\ c.pc = "ins2"
        /\ c \in [pc : {"ins1", "ins2", "update"}, id : Nat, from : Uids,
                  to : Uids, ok1 : BOOLEAN]
        /\ o.done \in BOOLEAN /\ o.ok \in BOOLEAN /\ (o.ok => o.done)
        /\ UNCHANGED <<reqs, begun, refused, accepted>>
        /\ failed' \in BOOLEAN
        /\ Ids' = Ids
    BY <1>4 DEF AcceptIns2, FInv, TypeOK, CallState, Idle, Outcome, histories,
                Ids
  <2>3. /\ friends' \in SUBSET (Uids \X Uids)
        /\ friends \subseteq friends'
        /\ \A p \in friends' : p \in friends \/ p = <<c.to, c.from>>
        /\ o.ok => <<c.to, c.from>> \in friends'
    BY <2>1, <2>2, InsertType DEF FInv
  <2>4. TypeOK'
    BY <2>1, <2>2, <2>3 DEF FInv, TypeOK, CallState
  <2>5. ASSUME NEW u \in Threads PROVE AcceptKnows(u)'
    <3>1. CASE u = t /\ c.ok1 /\ o.ok
      <4>1. AcceptKnows(t)
        BY DEF FInv
      <4>2. call'[t] = [c EXCEPT !.pc = "update"]
        BY <3>1, <2>1 DEF FInv, TypeOK
      <4> QED
        BY <4>1, <4>2, <3>1, <2>2, <2>3 DEF AcceptKnows
    <3>2. CASE u = t /\ ~(c.ok1 /\ o.ok)
      BY <3>2, <2>1 DEF FInv, AcceptKnows, TypeOK, Idle
    <3>3. CASE u # t
      BY <3>3, <2>1, <2>2, <2>3 DEF FInv, AcceptKnows, TypeOK
    <3> QED
      BY <3>1, <3>2, <3>3
  <2>6. HistoriesOK'
    BY <2>2 DEF FInv, HistoriesOK
  <2>7. AcceptedIsFriends'
    BY <2>2, <2>3 DEF FInv, AcceptedIsFriends, ListFriends
  <2>8. FriendsOnlyByAccept'
    <3> SUFFICES ASSUME NEW p \in friends'
                 PROVE  \E id \in begun \ refused :
                            /\ id \in Ids
                            /\ p \in {<<reqs[id].from, reqs[id].to>>,
                                      <<reqs[id].to, reqs[id].from>>}
      BY <2>2 DEF FriendsOnlyByAccept
    <3>1. CASE p \in friends
      BY <3>1 DEF FInv, FriendsOnlyByAccept
    <3>2. CASE p \notin friends
      <4>1. AcceptKnows(t)
        BY DEF FInv
      <4>2. /\ c.id \in Ids /\ c.id \in begun \ refused
            /\ p \in {<<reqs[c.id].from, reqs[c.id].to>>,
                      <<reqs[c.id].to, reqs[c.id].from>>}
        BY <4>1, <3>2, <2>2, <2>3 DEF AcceptKnows
      <4> QED
        BY <4>2
    <3> QED
      BY <3>1, <3>2
  <2> QED
    BY <2>4, <2>5, <2>6, <2>7, <2>8 DEF FInv
<1>5. ASSUME NEW t \in Threads, AcceptUpdate(t) PROVE FInv'
  <2> DEFINE c == call[t]
  <2>1. /\ c.pc = "update"
        /\ c \in [pc : {"ins1", "ins2", "update"}, id : Nat, from : Uids,
                  to : Uids, ok1 : BOOLEAN]
        /\ UNCHANGED <<friends, begun, refused>>
        /\ failed' \in BOOLEAN
        /\ call' = [call EXCEPT ![t] = Idle]
        /\ accepted' = accepted \cup {c.id}
        /\ \/ reqs' = reqs
           \/ reqs' = WithStatus(c.id, ACCEPTED)
    BY <1>5 DEF AcceptUpdate, FInv, TypeOK, CallState, Idle
  <2>2. /\ c.id \in Ids
        /\ c.id \in begun \ refused
        /\ <<reqs[c.id].from, reqs[c.id].to>> \in friends
        /\ <<reqs[c.id].to, reqs[c.id].from>> \in friends
    BY <2>1 DEF FInv, AcceptKnows
  <2>3. /\ reqs' \in Seq(FriendRequest)
        /\ Len(reqs') = Len(reqs)
        /\ \A id \in Ids : /\ reqs'[id].from = reqs[id].from
                           /\ reqs'[id].to = reqs[id].to
                           /\ id # c.id => reqs'[id] = reqs[id]
                           /\ reqs[id].from \in Uids /\ reqs[id].to \in Uids
    <3>1. reqs \in Seq(FriendRequest) /\ \A id \in Ids : reqs[id] \in FriendRequest
      BY DEF FInv, TypeOK, Ids
    <3>2. \A id \in Ids : reqs[id].from \in Uids /\ reqs[id].to \in Uids
      BY <3>1 DEF FriendRequest
    <3> HIDE DEF c
    <3>3. CASE reqs' = reqs
      BY <3>1, <3>2, <3>3
    <3>4. CASE reqs' = WithStatus(c.id, ACCEPTED)
      BY <3>1, <3>2, <3>4, <2>2, SetStatus
    <3> QED
      BY <2>1, <3>3, <3>4
  <2>4. Ids' = Ids
    BY <2>3 DEF Ids
  <2>5. TypeOK'
    BY <2>1, <2>3 DEF FInv, TypeOK, CallState
  <2>6. ASSUME NEW u \in Threads PROVE AcceptKnows(u)'
    BY <2>1, <2>3, <2>4 DEF FInv, AcceptKnows, TypeOK, Idle
  <2>7. HistoriesOK'
    BY <2>1, <2>2, <2>3, <2>4 DEF FInv, HistoriesOK
  <2>8. AcceptedIsFriends'
    <3> SUFFICES ASSUME NEW id \in Ids,
                        reqs'[id].status = ACCEPTED \/ id \in accepted'
                 PROVE  /\ <<reqs[id].from, reqs[id].to>> \in friends
                        /\ <<reqs[id].to, reqs[id].from>> \in friends
      BY <2>1, <2>3, <2>4 DEF AcceptedIsFriends, ListFriends
    <3>1. CASE id = c.id
      BY <3>1, <2>2
    <3>2. CASE id # c.id
      BY <3>2, <2>1, <2>3 DEF FInv, AcceptedIsFriends, ListFriends
    <3> QED
      BY <3>1, <3>2
  <2>9. FriendsOnlyByAccept'
    BY <2>1, <2>3, <2>4 DEF FInv, FriendsOnlyByAccept
  <2> QED
    BY <2>5, <2>6, <2>7, <2>8, <2>9 DEF FInv
<1>6. ASSUME NEW id \in Ids, Reject(id) PROVE FInv'
  <2>1. /\ reqs' = WithStatus(id, REJECTED)
        /\ UNCHANGED <<friends, call, begun, accepted, failed>>
        /\ refused' = IF id \in begun THEN refused ELSE refused \cup {id}
        /\ id \in Nat
    BY <1>6 DEF Reject, Ids
  <2>2. /\ reqs' \in Seq(FriendRequest)
        /\ Len(reqs') = Len(reqs)
        /\ reqs'[id].status = REJECTED
        /\ \A i \in Ids : /\ reqs'[i].from = reqs[i].from
                          /\ reqs'[i].to = reqs[i].to
                          /\ i # id => reqs'[i] = reqs[i]
    <3>1. reqs \in Seq(FriendRequest) /\ id \in 1..Len(reqs)
          /\ REJECTED \in {PENDING, ACCEPTED, REJECTED}
      BY DEF FInv, TypeOK, Ids
    <3> QED
      BY <2>1, <3>1, SetStatus DEF Ids
  <2>3. Ids' = Ids /\ begun \ refused' = begun \ refused
    BY <2>1, <2>2 DEF Ids
  <2>4. TypeOK'
    BY <2>1, <2>2 DEF FInv, TypeOK
  <2>5. ASSUME NEW u \in Threads PROVE AcceptKnows(u)'
    BY <2>1, <2>2, <2>3 DEF FInv, AcceptKnows
  <2>6. HistoriesOK'
    <3>1. refused' \subseteq refused \cup {id} /\ REJECTED # PENDING
      BY <2>1 DEF REJECTED, PENDING
    <3>2. begun' = begun /\ accepted' = accepted
      BY <2>1
    <3> QED
      BY <3>1, <3>2, <2>2, <2>3 DEF FInv, HistoriesOK
  <2>7. AcceptedIsFriends'
    <3> SUFFICES ASSUME NEW i \in Ids,
                        reqs'[i].status = ACCEPTED \/ i \in accepted
                 PROVE  /\ reqs'[i].to \in ListFriends(reqs'[i].from)
                        /\ reqs'[i].from \in ListFriends(reqs'[i].to)
      BY <2>1, <2>3 DEF AcceptedIsFriends, ListFriends
    <3>1. reqs[i].status = ACCEPTED \/ i \in accepted
      BY <2>2 DEF REJECTED, ACCEPTED
    <3>2. /\ reqs[i].to \in ListFriends(reqs[i].from)
          /\ reqs[i].from \in ListFriends(reqs[i].to)
      BY <3>1 DEF FInv, AcceptedIsFriends
    <3> QED
      BY <3>2, <2>2
  <2>8. FriendsOnlyByAccept'
    <3>1. friends' = friends /\ begun' \ refused' = begun \ refused
      BY <2>1, <2>3
    <3> QED
      BY <3>1, <2>2, <2>3 DEF FInv, FriendsOnlyByAccept
  <2> QED
    BY <2>4, <2>5, <2>6, <2>7, <2>8 DEF FInv
<1>7. CASE Crash
  <2>1. /\ call' = [t \in Threads |-> Idle]
        /\ UNCHANGED <<reqs, friends, begun, refused, accepted>>
        /\ failed' \in BOOLEAN
        /\ Ids' = Ids
    BY <1>7 DEF Crash, histories, Ids
  <2>2. TypeOK' /\ \A t \in Threads : AcceptKnows(t)'
    BY <2>1 DEF FInv, TypeOK, CallState, AcceptKnows, Idle
  <2>3. HistoriesOK' /\ AcceptedIsFriends' /\ FriendsOnlyByAccept'
    BY <2>1 DEF FInv, HistoriesOK, AcceptedIsFriends, FriendsOnlyByAccept,
                ListFriends
  <2> QED
    BY <2>2, <2>3 DEF FInv
<1>8. CASE UNCHANGED vars
  BY <1>8 DEF vars, FInv, TypeOK, AcceptKnows, HistoriesOK, AcceptedIsFriends,
              FriendsOnlyByAccept, ListFriends, Ids
<1> QED
  BY <1>1, <1>2, <1>3, <1>4, <1>5, <1>6, <1>7, <1>8 DEF Next, AcceptStep

(* FInv holds in every reachable state. *)
THEOREM FriendInvariant == Spec => []FInv
<1>1. Init => FInv
  <2> SUFFICES ASSUME Init PROVE FInv
    OBVIOUS
  <2>1. TypeOK
    <3>0. reqs \in Seq(FriendRequest)
      BY DEF Init
    <3>1. failed \in BOOLEAN
      BY DEF Init
    <3>2. call \in [Threads -> CallState]
      BY DEF Init, CallState
    <3> QED
      BY <3>0, <3>1, <3>2 DEF Init, TypeOK
  <2>2. \A t \in Threads : AcceptKnows(t)
    BY DEF Init, AcceptKnows, Idle
  <2>3. Ids = {}
    BY DEF Init, Ids
  <2>4. HistoriesOK
    BY DEF Init, HistoriesOK
  <2>5. AcceptedIsFriends
    BY <2>3 DEF AcceptedIsFriends
  <2>6. FriendsOnlyByAccept
    BY DEF Init, FriendsOnlyByAccept
  <2> QED
    BY <2>1, <2>2, <2>4, <2>5, <2>6 DEF FInv
<1> QED
  BY <1>1, FStep, PTL DEF Spec

(* Type correctness. *)
THEOREM FriendTypeCorrect == Spec => []TypeOK
  BY FriendInvariant, PTL DEF FInv

(* A request marked or answered as accepted has made both users friends of *)
(* each other, for any number of users, threads and requests.              *)
THEOREM AcceptsMakeFriends == Spec => []AcceptedIsFriends
  BY FriendInvariant, PTL DEF FInv

(* Friends are made only by accepting a request that was pending.          *)
THEOREM FriendsByAccept == Spec => []FriendsOnlyByAccept
  BY FriendInvariant, PTL DEF FInv

-----------------------------------------------------------------------------
(***************************************************************************)
(* Without failures.  FriendsMutual is not inductive: AcceptIns2 ends the  *)
(* exception for the pair of its thread, and the pair it adds has its      *)
(* reverse in t_friend only because ins1 succeeded.  QInv adds that.       *)
(***************************************************************************)
Mutual(p) ==
    \/ <<p[2], p[1]>> \in friends
    \/ \E t \in Threads : /\ call[t].pc = "ins2"
                          /\ p = <<call[t].from, call[t].to>>

QInv ==
    ~failed =>
        /\ \A p \in friends : Mutual(p)
        /\ \A t \in Threads : call[t].pc = "ins2" => call[t].ok1

(* A statement that is reported successful was done; failed remembers one  *)
(* that was not.                                                           *)
LEMMA OutcomeFacts ==
    ASSUME NEW o \in Outcome
    PROVE  o.done \in BOOLEAN /\ o.ok \in BOOLEAN /\ (o.ok => o.done)
  BY DEF Outcome

(* Every step keeps QInv. *)
LEMMA QStep ==
    ASSUME FInv, QInv, Next \/ UNCHANGED vars
    PROVE  QInv'
<1>0. /\ TypeOK /\ HistoriesOK /\ \A t \in Threads : AcceptKnows(t)
      /\ failed \in BOOLEAN
  BY DEF FInv, TypeOK
<1> SUFFICES ASSUME ~failed' PROVE QInv'
  BY DEF QInv
<1>1. ASSUME NEW from \in Uids, NEW to \in Uids, SendFriendRequest(from, to)
      PROVE  QInv'
  <2>1. /\ UNCHANGED <<friends, call, begun, refused, accepted, failed>>
        /\ \A id \in Ids : reqs'[id] = reqs[id]
    BY <1>0, <1>1 DEF SendFriendRequest, histories, Ids, TypeOK
  <2> QED
    BY <1>0, <2>1 DEF QInv, Mutual, HistoriesOK
<1>2. ASSUME NEW t \in Threads, NEW id \in Ids, AcceptSelect(t, id)
      PROVE  QInv'
  <2>1. /\ UNCHANGED <<reqs, friends, refused, accepted, failed>>
        /\ call[t].pc = "idle" /\ call'[t].pc = "ins1"
        /\ \A u \in Threads : u # t => call'[u] = call[u]
    BY <1>0, <1>2 DEF AcceptSelect, TypeOK, Idle
  <2>2. \A p \in friends' : Mutual(p)'
    BY <2>1 DEF QInv, Mutual
  <2> QED
    BY <2>1, <2>2 DEF QInv
<1>3. ASSUME NEW t \in Threads, AcceptIns1(t) PROVE QInv'
  <2> DEFINE c == call[t]
  <2>1. PICK o \in Outcome :
           /\ Insert(<<c.from, c.to>>, o.done)
           /\ call' = [call EXCEPT ![t].pc = "ins2", ![t].ok1 = o.ok]
           /\ failed' = (failed \/ ~o.ok)
    BY <1>3 DEF AcceptIns1
  <2>2. /\ c \in [pc : {"ins1", "ins2", "update"}, id : Nat, from : Uids,
                  to : Uids, ok1 : BOOLEAN]
        /\ c.pc = "ins1"
        /\ UNCHANGED <<reqs, begun, refused, accepted>>
    BY <1>0, <1>3 DEF AcceptIns1, TypeOK, CallState, Idle
  <2>3. ~failed /\ o.ok
    BY <1>0, <2>1, OutcomeFacts
  <2>4. /\ call'[t].pc = "ins2" /\ call'[t].ok1
        /\ call'[t].from = c.from /\ call'[t].to = c.to
        /\ \A u \in Threads : u # t => call'[u] = call[u]
    BY <1>0, <2>1, <2>2, <2>3 DEF TypeOK
  <2>5. /\ friends \subseteq friends'
        /\ \A p \in friends' : p \in friends \/ p = <<c.from, c.to>>
    BY <1>0, <2>1, <2>2, OutcomeFacts, InsertType
  <2>6. ASSUME NEW p \in friends' PROVE Mutual(p)'
    <3>1. CASE p = <<c.from, c.to>>
      BY <3>1, <2>4 DEF Mutual
    <3>2. CASE p \in friends
      <4>1. Mutual(p)
        BY <2>3, <3>2 DEF QInv
      <4> QED
        BY <4>1, <2>2, <2>4, <2>5 DEF Mutual
    <3> QED
      BY <2>5, <3>1, <3>2
  <2> QED
    BY <2>2, <2>3, <2>4, <2>6 DEF QInv
<1>4. ASSUME NEW t \in Threads, AcceptIns2(t) PROVE QInv'
  <2> DEFINE c == call[t]
  <2>1. PICK o \in Outcome :
           /\ Insert(<<c.to, c.from>>, o.done)
           /\ call' = [call EXCEPT ![t] =
                         IF c.ok1 /\ o.ok THEN [c EXCEPT !.pc = "update"]
                                          ELSE Idle]
           /\ failed' = (failed \/ ~o.ok)
    BY <1>4 DEF AcceptIns2
  <2>2. /\ c \in [pc : {"ins1", "ins2", "update"}, id : Nat, from : Uids,
                  to : Uids, ok1 : BOOLEAN]
        /\ c.pc = "ins2"
        /\ UNCHANGED <<reqs, begun, refused, accepted>>
    BY <1>0, <1>4 DEF AcceptIns2, TypeOK, CallState, Idle
  <2>3. ~failed /\ o.ok
    BY <1>0, <2>1, OutcomeFacts
  <2>4. c.ok1 /\ <<c.from, c.to>> \in friends
    BY <1>0, <2>2, <2>3 DEF QInv, AcceptKnows
  <2>5. /\ call'[t].pc = "update"
        /\ \A u \in Threads : u # t => call'[u] = call[u]
    BY <1>0, <2>1, <2>2, <2>3, <2>4 DEF TypeOK
  <2>6. /\ friends \subseteq friends'
        /\ <<c.to, c.from>> \in friends'
        /\ \A p \in friends' : p \in friends \/ p = <<c.to, c.from>>
    BY <1>0, <2>1, <2>2, <2>3, OutcomeFacts, InsertType
  <2>7. ASSUME NEW p \in friends' PROVE Mutual(p)'
    <3>1. CASE p = <<c.to, c.from>>
      BY <3>1, <2>4, <2>6 DEF Mutual
    <3>2. CASE p = <<c.from, c.to>>
      BY <3>2, <2>6 DEF Mutual
    <3>3. CASE p \in friends /\ p # <<c.from, c.to>>
      <4>1. Mutual(p)
        BY <2>3, <3>3 DEF QInv
      <4> QED
        BY <4>1, <3>3, <2>5, <2>6 DEF Mutual
    <3> QED
      BY <2>6, <3>1, <3>2, <3>3
  <2> QED
    BY <2>2, <2>3, <2>5, <2>7 DEF QInv
<1>5. ASSUME NEW t \in Threads, AcceptUpdate(t) PROVE QInv'
  <2> DEFINE c == call[t]
  <2>1. PICK o \in Outcome :
           /\ reqs' = IF o.done THEN WithStatus(c.id, ACCEPTED) ELSE reqs
           /\ failed' = (failed \/ ~o.ok)
    BY <1>5 DEF AcceptUpdate
  <2>2. ~failed /\ reqs' = WithStatus(c.id, ACCEPTED)
    BY <1>0, <2>1, OutcomeFacts
  <2>3. /\ c.pc = "update"
        /\ call' = [call EXCEPT ![t] = Idle]
        /\ accepted' = accepted \cup {c.id}
        /\ UNCHANGED <<friends, begun, refused>>
    BY <1>5 DEF AcceptUpdate
  <2>4. /\ call'[t].pc = "idle"
        /\ \A u \in Threads : u # t => call'[u] = call[u]
    BY <1>0, <2>3 DEF TypeOK, Idle
  <2>8. ASSUME NEW p \in friends' PROVE Mutual(p)'
    <3>1. Mutual(p) /\ friends' = friends
      BY <2>2, <2>3 DEF QInv
    <3>2. \A u \in Threads : call[u].pc = "ins2" => u # t
      BY <2>3
    <3> QED
      BY <3>1, <3>2, <2>4 DEF Mutual
  <2> QED
    BY <2>2, <2>4, <2>8 DEF QInv
<1>6. ASSUME NEW id \in Ids, Reject(id) PROVE QInv'
  <2>1. /\ reqs' = WithStatus(id, REJECTED)
        /\ UNCHANGED <<friends, call, begun, accepted, failed>>
    BY <1>6 DEF Reject
  <2> QED
    BY <2>1 DEF QInv, Mutual
<1>7. CASE Crash
  BY <1>7 DEF Crash, QInv
<1>8. CASE UNCHANGED vars
  BY <1>8 DEF vars, QInv, Mutual
<1> QED
  BY <1>1, <1>2, <1>3, <1>4, <1>5, <1>6, <1>7, <1>8 DEF Next, AcceptStep

(* QInv holds in every reachable state. *)
THEOREM QuietInvariant == Spec => []QInv
<1>1. Init => QInv
  BY DEF Init, QInv, Idle
<1>2. FInv /\ QInv /\ [Next]_vars => QInv'
  BY QStep
<1> QED
  BY <1>1, <1>2, FriendInvariant, PTL DEF Spec

(* Without failures friendship is mutual, except for the pair an accept    *)
(* has just inserted, for any number of accepts at the same time.          *)
THEOREM FriendshipMutual == Spec => []FriendsMutual
<1>1. FInv /\ QInv => FriendsMutual
  <2> SUFFICES ASSUME FInv, QInv, ~failed, NEW p \in friends
               PROVE  \/ p[1] \in ListFriends(p[2])
                      \/ \E t \in Threads :
                            /\ call[t].pc = "ins2"
                            /\ p = <<call[t].from, call[t].to>>
    BY DEF FriendsMutual
  <2>1. Mutual(p) /\ p[1] \in Uids
    BY DEF QInv, FInv, TypeOK
  <2> QED
    BY <2>1 DEF Mutual, ListFriends
<1> QED
  BY <1>1, FriendInvariant, QuietInvariant, PTL

-----------------------------------------------------------------------------
(* An insert of a pair that is there changes nothing.                      *)
LEMMA InsertPresent ==
    ASSUME NEW p \in friends, NEW done, Insert(p, done)
    PROVE  friends' = friends
  BY DEF Insert

(* Accepting again what was answered with success changes no friends       *)
(* (pool_db_client.cc:149-173), for any number of threads and failures.    *)
THEOREM ReacceptsHarmless == Spec => ReacceptHarmless
<1> DEFINE Quiet == \A t \in Threads :
                       (/\ call[t] # Idle
                        /\ call[t].id \in accepted
                        /\ call'[t] # call[t]) => UNCHANGED friends
<1>1. FInv /\ [Next]_vars => [Quiet]_vars
  <2> SUFFICES ASSUME FInv, Next, NEW t \in Threads, call[t] # Idle,
                      call[t].id \in accepted, call'[t] # call[t]
               PROVE  friends' = friends
    OBVIOUS
  <2>1. call \in [Threads -> CallState]
    BY DEF FInv, TypeOK
  <2>2. /\ <<call[t].from, call[t].to>> \in friends
        /\ <<call[t].to, call[t].from>> \in friends
    <3>1. AcceptKnows(t) /\ call[t].pc # "idle"
      BY <2>1 DEF FInv, CallState, Idle
    <3>2. /\ call[t].id \in Ids
          /\ call[t].from = reqs[call[t].id].from
          /\ call[t].to = reqs[call[t].id].to
      BY <3>1 DEF AcceptKnows
    <3> QED
      BY <3>2 DEF FInv, AcceptedIsFriends, ListFriends
  <2>3. ASSUME NEW u \in Threads, AcceptStep(u) PROVE friends' = friends
    <3>1. u = t
      BY <2>1, <2>3 DEF AcceptStep, AcceptIns1, AcceptIns2, AcceptUpdate
    <3>2. CASE AcceptIns1(t)
      BY <2>2, <3>2, InsertPresent DEF AcceptIns1
    <3>3. CASE AcceptIns2(t)
      BY <2>2, <3>3, InsertPresent DEF AcceptIns2
    <3>4. CASE AcceptUpdate(t)
      BY <3>4 DEF AcceptUpdate
    <3> QED
      BY <2>3, <3>1, <3>2, <3>3, <3>4 DEF AcceptStep
  <2> QED
    BY <2>3 DEF Next, SendFriendRequest, AcceptSelect, Reject, Crash, histories
<1> QED
  BY <1>1, FriendInvariant, PTL DEF Spec, ReacceptHarmless

=============================================================================
