------------------------------ MODULE Accounts ------------------------------
(***************************************************************************)
(* Accounts: the HTTP routes /api/register and /api/login of the gateway   *)
(* (gateway/main.cc:282-369) and the handlers RegisterUser and HttpLogin   *)
(* of the logic server behind them (logic_server/main.cc:150-176), over    *)
(* t_user and the token keys in Redis.                                     *)
(*                                                                         *)
(* The body of a request arrives in pieces while the event loop serves     *)
(* other clients; with the last piece the handler calls the logic server   *)
(* and blocks the loop until it has written the response.                  *)
(*                                                                         *)
(* t_user is external: a serial key, and names that are unique.  E-mail    *)
(* addresses are not.                                                      *)
(*                                                                         *)
(* The texts of the clients are put between quotes in the statements and   *)
(* not escaped (pool_db_client.cc:75, 89).  A statement whose text has a   *)
(* quote in it is refused by the database, or runs as another statement:   *)
(* Quoted are such texts, OtherRows what it may store or return, and       *)
(* altered says that it has happened: from then on t_user can hold         *)
(* anything, and the histories, of which nothing can be said any more, are *)
(* empty.                                                                  *)
(***************************************************************************)
EXTENDS Integers, FiniteSets

CONSTANTS
    Gateways,       \* gateway processes
    Clients,        \* HTTP connections
    GwOf,           \* GwOf[c]: the gateway of connection c
    NoClient,       \* no connection
    Names, Emails,  \* user names and e-mail addresses
    Passwords,      \* passwords, among them the empty one
    Empty,          \* the empty string
    Applications,   \* what clients register: name, e-mail and password
    Quoted,         \* texts with a quote in them
    OtherRows,      \* rows a statement broken by its text may leave or find
    Faulty          \* statements may fail and the logic server may crash

(* A row of t_user.                                                        *)
User == [id : Nat \ {0}, name : Names, email : Emails, pw : Passwords]

ASSUME AccountsAssumption ==
    /\ NoClient \notin Clients
    /\ GwOf \in [Clients -> Gateways]
    /\ Empty \in Passwords
    /\ Applications \subseteq [name : Names, email : Emails, pw : Passwords]
    /\ Quoted \subseteq Names \cup Emails \cup Passwords
    /\ OtherRows \subseteq User
    /\ IsFiniteSet(OtherRows)
    /\ Faulty \in BOOLEAN

VARIABLES
    http,       \* http[c]: the request of connection c and how far it is
    loop,       \* loop[g]: the connection whose handler blocks gateway g
    live,       \* connections whose response object may be used
    users,      \* t_user
    tokens,     \* Redis: pairs of a uid and its IM:USER:TOKEN value
    altered,    \* history: a text with a quote has changed a statement
    regs,       \* history: registrations answered with code 200
    logged      \* the last login answered with code 200, if any

vars == <<http, loop, live, users, tokens, altered, regs, logged>>
tables == <<users, tokens, altered>>
histories == <<regs, logged>>

Routes == {"register", "login"}
Form == [register |-> Applications,
         login    |-> [email : Emails, pw : Passwords]]
(* RegisterRes and HttpLoginRes; err is 0 or 1.                            *)
Res == [err : {0, 1}, uid : Nat, token : Passwords]
NoRes == [err |-> 1, uid |-> 0, token |-> Empty]

Idle == [st |-> "idle"]
Request ==
    {Idle} \cup [st : {"body"}, route : Routes]
           \cup [st : {"call", "token", "ok", "fail"}, route : Routes,
                 form : Form.register \cup Form.login, res : Res]

Init ==
    /\ http = [c \in Clients |-> Idle]
    /\ loop = [g \in Gateways |-> NoClient]
    /\ live = {}
    /\ users = {}
    /\ tokens = {}
    /\ altered = FALSE
    /\ regs = {}
    /\ logged = {}

-----------------------------------------------------------------------------
LoopFree(c) == loop[GwOf[c]] = NoClient

(* .post: the handler is set up with a buffer of its own.                  *)
Post(c, route) ==
    /\ LoopFree(c)
    /\ http[c] = Idle
    /\ http' = [http EXCEPT ![c] = [st |-> "body", route |-> route]]
    /\ live' = live \cup {c}
    /\ UNCHANGED <<loop, tables, histories>>

(* Faulty variant of Aborted: it does not wait for the event loop.         *)
AbortedAnyTime(c) ==
    /\ c \in live
    /\ live' = live \ {c}
    /\ http' = [http EXCEPT ![c] = IF @.st = "body" THEN Idle ELSE @]
    /\ UNCHANGED <<loop, tables, histories>>

(* onAborted: the client has gone; the response may not be used any more.  *)
Aborted(c) ==
    /\ LoopFree(c)
    /\ c \in live
    /\ live' = live \ {c}
    /\ http' = [http EXCEPT ![c] = Idle]
    /\ UNCHANGED <<loop, tables, histories>>

(* onData with the last piece of a body that is a form: the call.          *)
BodyComplete(c, form) ==
    /\ LoopFree(c)
    /\ http[c].st = "body"
    /\ form \in Form[http[c].route]
    /\ http' = [http EXCEPT ![c] = [st |-> "call", route |-> http[c].route,
                                    form |-> form, res |-> NoRes]]
    /\ loop' = [loop EXCEPT ![GwOf[c]] = c]
    /\ UNCHANGED <<live, tables, histories>>

(* onData with the last piece of anything else: code 400, no call.         *)
BodyInvalid(c) ==
    /\ LoopFree(c)
    /\ http[c].st = "body"
    /\ http' = [http EXCEPT ![c] = Idle]
    /\ live' = live \ {c}
    /\ UNCHANGED <<loop, tables, histories>>

(* The handler of c is at this step of this call.                          *)
Serving(c, route, step) == http[c].st = step /\ http[c].route = route

(* The handler goes on to step st with this reply.                         *)
Goto(c, st, res) ==
    http' = [http EXCEPT ![c].st = st, ![c].res = res]

(* INSERT INTO t_user ... RETURNING id.                                    *)
NewUser(form) ==
    [id |-> Cardinality(users) + 1, name |-> form.name,
     email |-> form.email, pw |-> form.pw]

(* Faulty variant of RegisterUser: the result of the insert is not seen.   *)
RegisterUserUnchecked(c) ==
    LET u == NewUser(http[c].form) IN
    /\ Serving(c, "register", "call")
    /\ users' \in {users, users \cup {u}}
    /\ Goto(c, "ok", [err |-> 0, uid |-> u.id, token |-> Empty])
    /\ UNCHANGED <<loop, live, tokens, altered, histories>>

(* The statement of RegisterUser as it is meant: refused if the name is    *)
(* taken; it takes effect or not, and is reported or not, but is not       *)
(* reported without effect.                                                *)
InsertUser(c, u) ==
    \E done, ok \in BOOLEAN :
        /\ done => \A v \in users : v.name # u.name
        /\ ok => done
        /\ (~Faulty /\ \A v \in users : v.name # u.name) => ok
        /\ users' = IF done THEN users \cup {u} ELSE users
        /\ Goto(c, "ok", IF ok
                         THEN [err |-> 0, uid |-> u.id, token |-> Empty]
                         ELSE NoRes)
        /\ UNCHANGED <<altered, histories>>

(* A statement broken by a quote is refused, ...                           *)
Refused(c) ==
    /\ Goto(c, "ok", NoRes)
    /\ UNCHANGED <<users, altered, histories>>

(* ... or changes and returns what its text makes it.                      *)
OtherStatement ==
    /\ users' \in SUBSET (users \cup OtherRows)
    /\ altered' = TRUE
    /\ regs' = {} /\ logged' = {}

(* RegisterUser and CreateUser.                                            *)
RegisterUser(c) ==
    LET form == http[c].form
        u == NewUser(form)
        hasQuote == {form.name, form.email, form.pw} \cap Quoted # {} IN
    /\ Serving(c, "register", "call")
    /\ \/ ~hasQuote /\ InsertUser(c, u)
       \/ hasQuote /\ Refused(c)
       \/ /\ hasQuote /\ OtherStatement
          /\ \E v \in users \cup OtherRows \cup {u} :
                Goto(c, "ok", [err |-> 0, uid |-> v.id, token |-> Empty])
    /\ UNCHANGED <<loop, live, tokens>>

WithEmail(e) == {u \in users : u.email = e}

(* Faulty variants of CheckUser: another column is sent as the token; the  *)
(* uid is taken from another row of the result.                            *)
CheckUserNoToken(c) ==
    LET form == http[c].form IN
    /\ Serving(c, "login", "call")
    /\ \E u \in WithEmail(form.email) :
          /\ u.pw = form.pw
          /\ \E v \in users : Goto(c, "token", [err |-> 0, uid |-> u.id, token |-> v.pw])
    /\ UNCHANGED <<loop, live, tables, histories>>

CheckUserOtherRow(c) ==
    LET form == http[c].form IN
    /\ Serving(c, "login", "call")
    /\ \E u, v \in WithEmail(form.email) :
          /\ u.pw = form.pw
          /\ Goto(c, "token", [err |-> 0, uid |-> v.id, token |-> u.pw])
    /\ UNCHANGED <<loop, live, tables, histories>>

(* CheckUserByEmail has got row u first; only its password is compared.    *)
Compare(c, u) ==
    IF u.pw = http[c].form.pw
    THEN Goto(c, "token", [err |-> 0, uid |-> u.id, token |-> u.pw])
    ELSE Goto(c, "ok", NoRes)

(* HttpLogin and CheckUserByEmail: the query has no order, so any row with *)
(* the address may come first.  The password is not part of the query.     *)
CheckUser(c) ==
    LET email == http[c].form.email
        hit == WithEmail(email) IN
    /\ Serving(c, "login", "call")
    /\ \/ /\ email \notin Quoted
          /\ \E u \in hit : Compare(c, u)
          /\ UNCHANGED <<users, altered, histories>>
       \/ /\ Faulty \/ hit = {} \/ email \in Quoted
          /\ Refused(c)
       \/ /\ email \in Quoted /\ OtherStatement
          /\ \E u \in users \cup OtherRows : Compare(c, u)
    /\ UNCHANGED <<loop, live, tokens>>

(* HttpLogin: the token is written to Redis; the result is not looked at.  *)
SetToken(c) ==
    LET res == http[c].res
        old == {t \in tokens : t[1] = res.uid} IN
    /\ Serving(c, "login", "token")
    /\ \/ tokens' = (tokens \ old) \cup {<<res.uid, http[c].form.pw>>}
       \/ Faulty /\ UNCHANGED tokens
    /\ Goto(c, "ok", res)
    /\ UNCHANGED <<loop, live, users, altered, histories>>

(* The logic server dies and is started again: the calls fail.             *)
Crash ==
    /\ Faulty
    /\ \E c \in Clients : http[c].st \in {"call", "token"}
    /\ http' = [c \in Clients |-> IF http[c].st \in {"call", "token"}
                                  THEN [http[c] EXCEPT !.st = "fail"]
                                  ELSE http[c]]
    /\ UNCHANGED <<loop, live, tables, histories>>

(* What a client learns from code 200.                                     *)
Learn(c) ==
    LET form == http[c].form
        res == http[c].res IN
    \/ /\ ~altered /\ http[c].route = "register"
       /\ regs' = regs \cup {[form |-> form, uid |-> res.uid]}
       /\ UNCHANGED logged
    \/ /\ ~altered /\ http[c].route = "login"
       /\ logged' = {[form |-> form, uid |-> res.uid, token |-> res.token]}
       /\ UNCHANGED regs
    \/ altered /\ UNCHANGED histories

(* The response is written and the event loop is free again.               *)
End(c) ==
    /\ http' = [http EXCEPT ![c] = Idle]
    /\ loop' = [loop EXCEPT ![GwOf[c]] = NoClient]
    /\ live' = live \ {c}
    /\ UNCHANGED tables

(* Faulty variants of Finish: err_code is not looked at; nothing is        *)
(* written when the call has failed.                                       *)
FinishUnchecked(c) ==
    /\ http[c].st \in {"ok", "fail"}
    /\ Learn(c)
    /\ End(c)

FinishOkOnly(c) ==
    /\ http[c].st = "ok"
    /\ End(c)
    /\ UNCHANGED histories

(* Code 200 if the call has succeeded, else code 500.                      *)
Finish(c) ==
    /\ http[c].st \in {"ok", "fail"}
    /\ IF http[c].st = "ok" /\ http[c].res.err = 0
       THEN Learn(c)
       ELSE UNCHANGED histories
    /\ End(c)

HandlerStep(c) == RegisterUser(c) \/ CheckUser(c) \/ SetToken(c) \/ Finish(c)

Next ==
    \/ \E c \in Clients, r \in Routes : Post(c, r)
    \/ \E c \in Clients, f \in Form.register \cup Form.login :
          BodyComplete(c, f)
    \/ \E c \in Clients : Aborted(c) \/ BodyInvalid(c)
    \/ \E c \in Clients : HandlerStep(c)
    \/ Crash

Spec == Init /\ [][Next]_vars

(* Statements of the handlers and the rest of the route run or fail.       *)
Fairness == \A c \in Clients : WF_vars(HandlerStep(c))

FairSpec == Spec /\ Fairness

-----------------------------------------------------------------------------
(* The variables have their types; uids told to clients are positive.      *)
TypeOK ==
    /\ http \in [Clients -> Request]
    /\ loop \in [Gateways -> Clients \cup {NoClient}]
    /\ live \in SUBSET Clients
    /\ users \in SUBSET User
    /\ tokens \in SUBSET (Nat \X Passwords)
    /\ altered \in BOOLEAN
    /\ regs \in SUBSET [form : Form.register, uid : Nat \ {0}]
    /\ logged \in SUBSET [form : Form.login, uid : Nat \ {0},
                          token : Passwords]

(* A response is written only while its connection is alive: the lambda of *)
(* onData keeps res, and onAborted cannot run between the last piece and   *)
(* res->end (gateway/main.cc:287-326, 332-368).                            *)
AnswersLive ==
    \A c \in Clients : http[c] # Idle =>
        /\ c \in live
        /\ http[c].st # "body" => loop[GwOf[c]] = c

(* A registration answered with code 200 has stored the account, under a   *)
(* uid nobody else was told, whatever other registrations ran at the same  *)
(* time and whichever calls failed, as long as no statement has been       *)
(* changed by a quote in its text (pool_db_client.cc:75, 89).              *)
RegistrationsKept == ~altered =>
    /\ \A r \in regs : \E u \in users :
          u.id = r.uid /\ u.name = r.form.name
                       /\ u.email = r.form.email /\ u.pw = r.form.pw
    /\ \A r, q \in regs : r.uid = q.uid => r = q

(* A login answered with code 200 names an account with the address and    *)
(* the password of the client; and if the address belongs to one account   *)
(* only, it is the one its registration was told, although the query       *)
(* (pool_db_client.cc:89) takes any row.  A statement changed by a quote   *)
(* in its text voids this: the query can then return any row.              *)
LoginFindsOwn == ~altered =>
    \A l \in logged :
        /\ \E u \in users :
              u.id = l.uid /\ u.email = l.form.email /\ u.pw = l.form.pw
        /\ \A r \in regs :
              (/\ r.form.email = l.form.email
               /\ Cardinality(WithEmail(l.form.email)) = 1)
                  => l.uid = r.uid

(* What Login (logic_server/main.cc:65-66) accepts on a WebSocket.         *)
WsAccepts(uid, token) ==
    \E u \in users : u.id = uid /\ u.pw # Empty /\ u.pw = token

(* The uid and token of an HTTP login are accepted by the WebSocket login  *)
(* (the sequence of readme.md:199-204), but the empty token of an account  *)
(* registered with an empty password, which HttpLogin takes, never is: the *)
(* two handlers disagree on exactly these accounts.  (Unless a statement   *)
(* has been changed by a quote in its text.)                               *)
TokenAccepted == ~altered =>
    \A l \in logged : WsAccepts(l.uid, l.token) <=> l.token # Empty

(* Every complete request is answered, and its gateway goes on serving,    *)
(* also when the logic server dies in the middle.                          *)
Answered == \A c \in Clients : http[c].st = "call" ~> http[c] = Idle

=============================================================================
