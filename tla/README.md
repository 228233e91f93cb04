# XLetsChat in TLA+

Models, model-checking runs and proofs for the XLetsChat server
(`src/`): a WebSocket gateway and a gRPC logic server over PostgreSQL, Redis and
SeaweedFS. The modules are written from the source; file and line references in
the comments are to `src/server/...`, `src/proto/...` and `src/readme.md`.

## 1. The system

| Component | State | Operations | Interacts with |
|---|---|---|---|
| Gateway (`server/gateway/main.cc`) | open sockets, `PerSocketData::uid`, `SessionManager::sessions_` (uid to socket, under a mutex) | `.open`, `.message` (0x1001 login, 0x1003 send, 0x1006 sync, 0x1008 upload URL), `.close`, HTTP register and login; `PushMsg` on gRPC threads | calls LogicService synchronously from its only event-loop thread; is called back by the logic server |
| Logic server (`server/logic_server/main.cc`) | none of its own | Login, SendMsg, SyncMsg, RegisterUser, HttpLogin, GetUploadUrl, SendFriendRequest, RespondFriendRequest, ListFriends, GetFriendRequests, on gRPC threads | statements on PostgreSQL and Redis through the pools; PushMsg to a gateway |
| Pools (`db_pool.cc`, `redis_pool.cc`) | `idle_`, `total_created_`, a mutex, a condition variable | constructor, Acquire with a deadline, Release | shared by all handler threads |
| Database clients (`pool_db_client.cc`, `pool_redis_client.cc`) | tables t_user, t_chat_msg, t_friend_request, t_friend; Redis keys | one or several statements per operation, never in a transaction | pools |
| Upload (`s3_client.h`) | `object_fid_map_` (object key to file id, under a mutex) | GetPresignedPutUrl, GetDownloadUrl, CheckConnectivity, over blocking HTTP | SeaweedFS master |
| Packet codec (`gateway/packet.h`) | none | EncodeHeader, DecodeHeader | message handlers |
| Config, start-up | read once | `Config::Load`, `RunServer`, `main` | environment, exit codes |

What is hard here, and would hardly be tested:

* the pools are left unlocked while a thread connects, waits, or is about to
  notify;
* a gateway's event loop blocks in a call whose handler calls back into the
  same gateway; pushes arrive after their deadline, on another thread, for a
  socket that may have closed or been reopened in the meantime;
* handlers are sequences of independent statements, any of which can fail, and
  the process can die between two of them;
* texts of clients are put into SQL as they are, so a quote in one makes the
  statement another one; the empty token of a client looks like a failed query;
* the length in a login header is not compared with the frame, so the parser may
  read beyond it;
* the clock, the serial key and the cursor are three different notions of
  message id;
* accept and reject of a friend request race over four statements;
* a Redis context is opened before AUTH is known to succeed;
* e-mail addresses are not unique, and the login takes any row;
* an upload key is made from the clock, written to a map in one critical
  section and looked up in another; responses of the storage may be cut;
* a process may end at every step of its start-up, one thread of a gateway
  while another already serves clients.

What makes each part correct: an exact connection count and exclusive
connections (pools); a session table that names exactly the live, logged-in
sockets (gateway); only authentic, permitted messages stored, at most once,
delivered to their addressee, and an acknowledgement that means something
(message path); mutual friendship made by accepting only (friends); accounts
that are stored when acknowledged, and logins that name the right one
(accounts); upload and download URLs of a reply that name the same, fresh file
(uploads); headers that decode to what was encoded (packets); processes that
serve completely or end (start-up).
`PROJECT.json` lists the hazards line by line with the properties that cover
them.

## 2. Modules

| Module | Models | Uses |
|---|---|---|
| `ConnPool` | `DbPool`: one action per critical section | |
| `ConnAlloc` | abstract specification of a pool: ask, grant, refuse, give back | |
| `Wire` | the RPC interfaces and message types | |
| `Gateway` | sockets, session table, handlers, PushMsg | `Wire` |
| `LogicServer` | Login, SendMsg, SyncMsg, one action per statement | `Wire` |
| `ChatSystem` | gateways and logic server composed | `Gateway`, `LogicServer` |
| `FriendRequests` | friend requests, one action per statement | |
| `RedisPool` | `RedisPool`: `ConnPool` with AUTH and the life of the contexts | `ConnPool` |
| `Mailbox` | abstract specification of the message path: post, give | |
| `Accounts` | HTTP register and login, t_user, token keys | |
| `Packet` | header codec, reply header, length arithmetic | |
| `Startup` | start-up and end of both kinds of process | |
| `Uploads` | command 0x1008, GetUploadUrl, the storage client, composed with start-up | `Packet`, `Startup` |
| `ConnPoolProofs`, `RedisPoolProofs`, `ChatProofs`, `StoreProofs`, `FriendProofs`, `AccountsProofs`, `PacketProofs`, `UploadsProofs` | theorems | the modules above |
| `MCRedisPool`, `MCChat`, `MCFriends`, `MCAccounts`, `MCUploads` | instances for TLC | |

Definitions called "Faulty variant of ..." are not part of the model: each
alters one operation the way a plausible mistake would, and is used to confirm
that the property it is listed with in `PROJECT.json` (`mutants`) notices.

### 2.1 ConnPool

`idle`, `total` are `idle_`, `total_created_`; `pc[t]`, `conn[t]` are a thread's
place in Acquire, the query or Release, and the connection its `ConnGuard`
holds. A critical section is one action: `TakeIdle`, `StartCreate`, `Wait` are
the three ways through the loop of Acquire; `CreateOk`/`CreateFails` follow the
unlocked `CreateConn`; `WaitTimesOut`, `WakesSpuriously`, `NotifyOne` end a wait
and `GiveUp` is the timeout seen after the mutex has been taken again. The
deadline is a nondeterministic event per call (`DeadlinePasses`). `ServerDrops`
is the database closing a connection; this is noticed only by the next
statement (`Exec`), because `PQstatus` is a client-side field. `missed` is a
history variable set by the two steps that may forget a free connection. The
counter is an integer, not a 64-bit word: `Accounting` shows it never goes
below zero, so the word never wraps.

`RedisPool` uses the same actions, since the constructor, Acquire and Release
of the two classes are the same statements. Its CreateConn is split: `Connect`
(the context is open and AUTH under way, `raw[t]`), then `AuthOk` or
`ConnectOrAuthFails`. `opened` follows redisConnect and redisFree, so that a
leak or a use after free is a difference between `opened` and the contexts
somebody has. `password` is chosen in the initial state; without one the module
is DbPool, which is why one run serves both pools. The module is put together
from ConnPool's actions, so that each of its steps is one of them or leaves the
pool's variables alone; that is a lemma of the proofs and no property.

### 2.2 Gateway, LogicServer, ChatSystem

A gateway handler is two actions, `Recv...` up to the synchronous call and
`Finish...` from its return; in between `cur[g]` is its socket and no other
callback of that gateway can run (`LoopFree`). `rpc[g]` is the call under way.
The close callback is two actions as well: `Close` (the connection is gone and
the loop is inside the callback of `cur[g]`) and `CloseEnd` (RemoveSession), with
pushes possible in between. `RecvLoginCrash` is the login frame whose header
gives a wrong length and whose parsing ends the process, with all its connections
and its table; if the parser survives, what it has read is a login like any
other, or none. A socket is the address of a WebSocket object and can be reused after a close.
`PushMsg` runs at any time; `send` from a foreign thread may or may not deliver.
`told` and `have` are what the clients of a user have learned: the message ids
in replies, and synchronised messages. `sends` counts accepted message requests
and is bounded by `MaxSends`.

In the logic server `h[g]` is the handler that serves gateway `g`: its next
statement and the local `msg_id`. `unsaved` is the history of messages whose
`SaveMessage` has returned false, and `proved` that of users whose password was
presented. With `Faulty` every statement may
fail (no pooled connection, an error, a connection lost before or after the
statement took effect: an insert may be done and reported failed) and the process
may die and be restarted (`LogicCrash`): its handlers vanish and the calls fail at the gateways.
`GetUserPassword`, `AreFriends`, `Get` are sets of possible results; the empty
password that a failed query gives is also a token a client may present
(`NoPassword`). `SaveMessage` puts the content of a message between quotes as it
is. For a content without a quote that is an INSERT (`InsertMsg`); for one of
`Quoted` it is another statement or none, after which any of the rows may be gone
and any of `OtherRows` there (`OtherStatement`). The clock
advances by `Tick`; two handlers may read the same value, so the msg_id is not
unique, whatever the readme's schema says of it.

Two facts about the code shape these modules. First, Login writes
`IM:USER:SESS<uid>` and SendMsg reads `IM:USER:SESS:<uid>`, so in a fresh
deployment no push ever starts. To exercise the push path, `SeedRoutes` names
users for whom the key that SendMsg reads (the one the readme documents) is
already in the shared Redis, where nothing in this code deletes it. Second, the
session table is only right for clients that keep a discipline the server does
not enforce: `OneLoginPerSocket` (a connection logs in at most once) and
`OneSocketPerUid` (a user has one connection per gateway). Both are constants:
each property is checked with exactly the discipline it needs, and runs
`relogin` and `two_devices` show what happens without. In the same way the
properties of the stored messages are those of clients whose messages have no
quote in them (`Quoted = {}`), which nothing in the server enforces either; run
`loop_freed`, whose property does not need it, has messages that do.

`Mailbox` is what the message path promises, and no more: messages are added
under fresh ids, between friends only, stay unchanged, and users are given
messages from the box that are addressed to them. `ChatSystem` implements it
(`ImplementsMailbox`) with the table, as clients see its rows, for the box and
`have` for what users were given; all other steps (calls, pushes, failures,
crashes) are stutters. It deliberately does not promise that an acknowledged
message is in the box or that all can be fetched, which runs `ack_without_store`
and `sync_complete` refute.

### 2.3 FriendRequests

`reqs` is t_friend_request (the id is the position), `friends` the set of pairs
in t_friend. A call of RespondFriendRequest with accept runs SELECT, two
INSERTs, the check of both results, and an UPDATE whose result is ignored
(`AcceptSelect`, `AcceptIns1`, `AcceptIns2`, `AcceptUpdate`); a reject is one
UPDATE that does not look at the status. A thread that finds no pending request,
and a failed SELECT or single statement, changes nothing and is not a step.
`begun`, `refused`, `accepted`, `failed` are histories. The text of a request
(`reason`) is left out and taken to have no quote in it. The tables are external; t_friend
is assumed to have a key on the pair, as `ON CONFLICT DO NOTHING` presupposes.

### 2.4 Accounts

`http[c]` is the request of an HTTP connection and how far it is: its body
arrives while the event loop serves others (`Post`), the last piece makes the
call and blocks the loop (`BodyComplete`, `loop[g]`), the handler of the logic
server runs its statements (`RegisterUser`; `CheckUser`, `SetToken`), and
`Finish` writes the response. `live` are the connections whose response object
may still be used; `Aborted` is onAborted. An insert may take effect and be
reported failed, never the reverse. The query by e-mail has no ORDER BY, so
`CheckUser` takes any row with the address. `regs` and `logged` are what clients
have been told with code 200. Names, passwords and addresses are put between
quotes in the two statements; with one of `Quoted` the statement is refused, or it
is another one (`OtherStatement`): t_user loses any rows and gains any of
`OtherRows`, and any row is returned. `altered` remembers this, and the
properties of the data are stated for as long as it is false; those of the
connections and of progress hold in any case. The tables are external: a serial key, unique
names, no constraint on e-mail.

### 2.5 Packet, Startup, Uploads

`Packet` has the codec as operators on sequences of bytes and the length checks
in the arithmetic of the code: `size_t` modulo `U64`, the parameter of
ParseFromArray as a signed 32-bit value. `ByteBase` is the number of values of a
byte; TLC runs it with 4 because its integers have 32 bits, the theorems hold
for every base.

`Startup` gives the logic server the phases down, loading, loaded, checked, up,
and a gateway two threads: main (down, loading, loaded, serving) and the detached
RunGrpcServer (starting, listening). `LogicLoadFails` and `GatewayLoadFails` (a
configuration file that cannot be read or parsed), `LogicStartFails` (a port in an
endpoint that is no number, a silent storage with exit code 42, a null server),
`ListenFails` (the port is taken) and `PushFails` (a null server) are the ways to
end while starting; `GatewayKilled` and `LogicCrash` the end at any time. Starting
a process (`LogicBegin`, `GatewayBegin`) is external and always possible.

`Uploads` numbers the calls of GetUploadUrl. A call is its handler in the logic
server: `MakeKey` (the clock is read), `Assign` (the HTTP request, outside the
mutex), `Insert` and `Lookup` (the two critical sections), `Reply`. A response
of the storage is whole, cut inside the file id (ExtractJsonValue then returns
its beginning), or useless. The n-th call is assigned file n; a URL is its file
id. When the logic server dies, its handlers and the map are gone; when a
gateway dies, the handler that served it runs to its end for nobody
(`NoGateway`). Calls before a login are possible: command 0x1008 does not look
at the uid.

## 3. Runs

Passing runs:

| Run | Checks | Instance and why it is enough |
|---|---|---|
| `pool` | `TypeOK`, `Accounting`, `ExclusiveUse`, `IdleHealthy`, `PoolBound`, `NoLostWakeup`, `ContextsOwned`, `AcquireReturns`, `ImplementsAlloc` | 3 threads, 3 handles, min 1, max 2, with and without AUTH: two threads can overshoot the limit, one waits while two hold, one can be notified while another gives up, two can be in AUTH at once |
| `sessions` | `PushReachesOwner`, `LoggedInReachable`, `CallerStays`, `InboxOwn`, `PushAfterStore` | 1 gateway, 2 sockets, 2 users, 2 sends at 2 clock readings, faults, late pushes, pushes inside a close, address reuse, ends of the gateway by an overlong login header; clients that log in once per connection and have one connection each (the proofs of `PushReachesOwner` and `InboxOwn` do not need the latter) |
| `message_store` | `TypeOK`, `StoredBetweenFriends`, `SenderAuthentic`, `SyncOwn`, `StoredAtMostOnce`, `ImplementsMailbox` | 2 gateways with one socket each, so that two handlers interleave in the logic server; 2 sends, one-sided friendship, three tokens (two passwords and the empty one), no quotes, faults and crashes |
| `loop_freed` | `LoopFreed` | 2 gateways, 1 send of a message with a quote that may leave a row of another sender, two users with one password (who logs in as whom does not matter here), faults; fairness below |
| `friends` | `TypeOK`, `AcceptedIsFriends`, `FriendsOnlyByAccept`, `FriendsMutual`, `ReacceptHarmless` | 2 threads, 2 users, 3 requests (in both directions, repeated, or of a user to himself), faults and crashes; `FriendsMutual` speaks of behaviours without failures so far |
| `accounts` | `TypeOK`, `AnswersLive`, `RegistrationsKept`, `LoginFindsOwn`, `TokenAccepted`, `Answered` | 2 gateways with one connection each, so that two handlers interleave; 2 names, the second applying with the address of the first and no password, or with an address that has a quote in it; an empty and another password; faults, aborts, statements changed by the quote, and crashes. `OtherRows` is empty: what a changed statement may add is not needed to reach each of its effects on the replies |
| `uploads` | `TypeOK`, `PairUnlessClash`, `FidNotShared`, `ReplyMatches`, `LengthCheckExact`, `PushServed` | 2 gateways, 2 calls, 2 clock ticks: the calls may make the same key or different ones, and interleave at every critical section; frames whose header says 0, 11, the true length, one more, and the largest length; both processes fail at every phase of starting, die at any time and restart |

Runs that show a disagreement between the code and what the repository says of
it (`findings` in `PROJECT.json` quotes the lines):

| Run | Property | What TLC shows |
|---|---|---|
| `route` | `RouteNamesGateway` | the route written by Login is not under the key SendMsg reads (and is a constant address) |
| `ack_without_store` | `AckImpliesStored` | success is answered for a message whose insert failed |
| `sync_complete` | `SyncComplete` | beyond the limit no known cursor reaches the remaining messages |
| `relogin` | `PushReachesOwner` | a second login on a socket leaves a dangling table entry |
| `two_devices` | `LoggedInReachable` | closing the older of two connections hides the newer |

What run `pool` says beyond "it works": `max_pool_` is not a bound on the
number of connections (threads that connect at the same time overshoot it); the
true bound is the number of handler threads or `min_pool_` (`PoolBound`). The
health check in Acquire never finds anything, because Release already keeps
failed connections out (`IdleHealthy`). A thread can sleep beside an idle
connection only after some CreateConn failed or some Acquire timed out
(`NoLostWakeup`); what that costs is at most the deadline (`AcquireReturns`). But
a thread that is itself connecting may never come back: neither PQconnectdb nor
redisConnect nor AUTH has a timeout here, and the deadline of Acquire does not
cover them.

What `sessions` says: between the end of a connection and the erasing of its
entry a push may be sent to the socket, but to no other (`PushReachesOwner`). What
`message_store` says: the empty token, which equals the result of a failed
password query, never logs anybody in, and a stored or pushed message always
names a user whose password was presented (`SenderAuthentic`).

What `friends` says: a failure can leave a one-sided friendship or a request that
is pending although its accept was answered with success; the first is never
marked accepted, and accepting the second again changes nothing
(`AcceptedIsFriends`, `ReacceptHarmless`). Friends whose request is marked
rejected are possible, by a reject while the accept is running.

What `uploads` says beyond that: after a clash of keys, the download URL of one
reply names the file of the other call, but never the upload URL
(`PairUnlessClash`, `FidNotShared`); an error reply always means that the
storage assigned nothing that could be read.
`accounts`: a shared address may log a client in as another account only if
that account has the same password (`LoginFindsOwn`); the empty token of an
account without password, and no other, is refused by the WebSocket login
(`TokenAccepted`).

Bounds: `MaxCalls`, `MaxTick`, `MaxSends`, `MaxClock`, `MaxReqs` cap counters in guards; `Limit` stands
for the LIMIT 100 of the query; `Epoch` keeps clock readings above serial keys,
as nanoseconds since 1970 are. Connections, threads, users and passwords are
model values or small numbers. The constants of `MCChat*.cfg` that are not used
in an instance (sockets, passwords) are only names.

Fairness. `RedisPool!RedisFairness`: a thread in the loop or the wait of Acquire
is scheduled, and the deadline of a pending Acquire passes. Nothing is assumed of
connecting and AUTH, which have no timeout and need not end, of the other handlers
(they may keep their connections for ever), of notifications or of spurious
wakeups.
`Accounts!Fairness`: statements of a handler and the rest of the route run or
fail; clients owe nothing. `Uploads!FairSpec`: the detached thread of a gateway
runs, and gets its server or not; nothing else, because `HttpGet` waits in
`recv` without a timeout, so that no upload is certain to be answered.
`ChatSystem!Fairness`: weak fairness of
the handler serving each gateway, whose statements end or fail and whose push
has a deadline of two seconds, and of the rest of the gateway's handler after
the call, and of the close callback. Nothing is assumed of clients, of pushes being
delivered, or of the absence of crashes. That statements end or fail is an
assumption about PostgreSQL and Redis in `Accounts!Fairness` and
`ChatSystem!Fairness`: PQexec and redisCommand are called without a timeout, so
against a database that accepts a statement and stays silent for ever neither
`Answered` nor `LoopFreed` holds.

## 4. Proofs

Every safety property of the passing runs is also a theorem, for every value of
the constants that satisfies the named assumptions (`PoolAssumption`,
`WireAssumption`, `GatewayAssumption`, `LogicAssumption`, `FriendAssumption`,
`AccountsAssumption`, `PacketAssumption`, `UploadsAssumption`), which TLC
evaluates on every run. Some have a discipline of the clients as a hypothesis:
one login per connection (`PushesReachOwner`, `InboxesOwn`), one connection per
user (`LoggedInUsersReachable`), no quotes in messages (`StoredFriends`,
`SendersAuthentic`, and all of `StoreProofs`). `RegistrationsStay`, `LoginsFindOwn`
and `TokensAccepted` hold for any clients, but speak of the behaviour up to the
first statement that a quote has changed. All others hold for any clients.

* `ConnPoolProofs`. The inductive invariant `IInv` joins the type invariant,
  `Accounting`, `ExclusiveUse`, `IdleHealthy` and what the other two need: that
  connections and threads on their way to one are bounded together, and that
  while somebody waits every free connection or place has somebody coming for
  it. Each action is a step; the cardinality facts about sets of threads
  (`Holders`, the waiting ones) are lemmas. `PoolImplementsAlloc` maps every
  step to a step of `ConnAlloc` or to a stutter: `TakeIdle` and `CreateOk` are
  grants, `GiveUp` a refusal, `Release` gives back.
* `RedisPoolProofs`. Every step of the Redis pool is a step of `ConnPool` or
  leaves its variables alone (the lemma `RedisImplementsPool`), so `IInv` carries
  over.
  `RInv` adds, context by context, that the open ones are those that are idle,
  held or in AUTH, that these do not overlap, and that a context is in AUTH only
  with a password and in a thread that is connecting; the last is why a
  connection without AUTH cannot be given a context already in AUTH.
* `ChatProofs`. `ChatTypeCorrect` is needed by all others. `SInv` adds to the
  session properties that a gateway has a waiting socket while a call is under
  way, that this socket is open and unchanged, that a socket being closed has no
  call, and, for clients that
  log in once, that a login under way is that of a socket without uid; this is
  why an entry is never left behind. `AInv` follows a uid from the password
  check, where the empty password of a failed query is told from a stored one, to
  the stored row: a socket's uid, a request's `from`, a push, a row
  and an inbox entry all name a proved user; a handler past the friend check
  has the pair in the friend list; a sync reply matches its request.
  `PushesReachOwner` and `InboxesOwn` assume `OneLoginPerSocket`, without which
  run `relogin` refutes them. `LoggedInUsersReachable` assumes
  `OneSocketPerUid`, without which run `two_devices` refutes it, and not
  `OneLoginPerSocket`, which the run has too. Its invariant `LInv` says that the
  entry of a logged-in uid points to that very socket (that there is an entry is
  not inductive: closing another socket could erase it), and that no other
  socket takes the uid while a login waits for its answer.
* `StoreProofs`. `MInv` bounds what is in flight: ids in the table are below
  the serial key; a handler past its INSERT has its row in the table or was told
  of a failure, and so it is with every push and every message received; a sync reply holds rows of the table; and rows together
  with requests that have not reached their INSERT are at most the requests
  accepted. The last is what makes `StoredAtMostOnce` inductive: a failed
  or lost call gives up its place, and an INSERT turns a place into a row. With
  `MInv`, every step is a step of `Mailbox` or a stutter
  (`MailboxImplemented`): the INSERT posts, under an id that is fresh because of
  the serial key, and the end of a sync gives, from the box, because replies
  hold rows and rows stay.
* `FriendProofs`. `FInv` adds what a running accept knows: its request is
  unchanged except for the status, was found pending and so is not refused,
  and the inserts reported successful are in the table. `QInv` is about
  behaviours in which no statement has failed: a pair without its reverse is
  that of a thread between its two inserts, whose first has succeeded.
  `ReacceptsHarmless` needs no more than `FInv`: an accepted request has both
  pairs, pairs are never removed, so the inserts of a second accept insert what is
  there.
* `AccountsProofs`. `AccInv` says of a reply that waits for the event loop what
  the properties say of the clients' histories: its row is in t_user and is the
  one it names. It needs that the ids in t_user are distinct and no larger than
  the number of rows, so that the next serial key is fresh, and that rows are never
  changed or removed, all of it until a quote changes a statement; afterwards it
  says only that the table is finite and the histories empty.
* `PacketProofs`. The byte-order conversions are inverse on every value of
  their width, fields do not overlap, hence the round trip; the length check is
  exact because adding HEADER_LEN undoes the wrap of subtracting it, as a
  32-bit length is far below the 64-bit modulus. A length below HEADER_LEN
  wraps in the subtraction and comes back as a small negative `int`.
* `UploadsProofs`. `UInv` follows a file id through assign, insert and lookup:
  a call's id is its own or a cut one; an entry of the map is an id some call
  was given for that key, and so is what a call has read from it; the entry a
  call is about to read is not empty. The last holds because an insert only
  overwrites, and because the process that loses the map loses its handlers with
  it (`CallsOwned`, a conjunct of `UInv`). The reply's bytes come from `PacketProofs`.
  `UploadsAssumption` says that a frame is shorter than 2^31 (the WebSocket
  server is set up with 16 KiB, gateway/main.cc:114), which the conversion to
  `int` needs, and that the size of a reply (two URLs and a code) fits in its
  32-bit length field.

Only model-checked: the liveness properties (`AcquireReturns`, `LoopFreed`,
`Answered`, `PushServed`), because the prover does not handle fairness and
ENABLED. The findings are counterexamples and need no proof.

## 5. Not modelled

Abstracted away in what is modelled: logs and texts; SQL text, except that a quote in
it changes the statement; URL, endpoint and
JSON strings, of which only the file id counts; the destructors of the pools
(they run at process exit); CORS headers and the OPTIONS route; the damage a
`send` on a freed socket could do to memory.

Not modelled, and why:

* Group messages: `SaveGroupMessage` and `GetGroupMsgs` have no caller.
* The composition of friend requests with the message path: no command of the
  gateway reaches the friend RPCs, so no client of this system can change the
  list while messages are sent; `Friends` is a constant of `LogicServer`.
* The commit order of serial keys: it matters to a client with a cursor, and no
  reply tells a client one (`SyncComplete`).
* In the message path, a handler that goes on after its caller has died (in
  `Uploads` it does): a gateway that dies while it waits takes its sockets, table
  and waiting call with it, which is the initial state of another gateway. The end
  of a gateway that is not waiting is modelled (`RecvLoginCrash`).
* Keys and default values of the YAML file. The readme documents
  `SEAWEED_MASTER_ENDPOINT` and `SEAWEED_PUBLIC_ENDPOINT` as environment
  variables (readme.md:184-185); the code reads both endpoints from the
  configuration file only. No state depends on it.
* Liveness of uploads: `HttpGet` has no timeout.
* Build and deployment files.
