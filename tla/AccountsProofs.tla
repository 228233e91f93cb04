--------------------------- MODULE AccountsProofs ---------------------------
(***************************************************************************)
(* Proofs about Accounts, for any connections, gateways, applications and  *)
(* failures.                                                               *)
(*                                                                         *)
(* The properties speak of what clients were told (regs, logged) and of    *)
(* t_user; in between, a reply waits in http[c] while other registrations  *)
(* change the table.  AccInv says of such a reply what the properties say  *)
(* of the histories, and of the table that its ids are those handed out by *)
(* the serial key, so that a new one is fresh.  Of a table that a changed  *)
(* statement has touched it says only that it is finite.                   *)
(***************************************************************************)
EXTENDS Accounts, TLAPS, FiniteSetTheorems

(* The states of a request after its call was made.                        *)
Called == {"call", "token", "ok", "fail"}

(* Row u is the account registered with form under uid.                    *)
IsAccount(u, uid, form) ==
    /\ u.id = uid /\ u.name = form.name
    /\ u.email = form.email /\ u.pw = form.pw

(* Row u is the account a login with form found.                           *)
IsLogin(u, uid, form, token) ==
    /\ u.id = uid /\ u.email = form.email /\ u.pw = form.pw /\ u.pw = token

(* Ids are not used twice, and the serial key is above all of them.        *)
UsersOK ==
    /\ IsFiniteSet(users)
    /\ ~altered =>
          /\ \A u \in users : u.id <= Cardinality(users)
          /\ \A u, v \in users : u.id = v.id => u = v

(* A request has a form of its route, and a reply that promises an account *)
(* has its row in the table, unless that has been changed otherwise.       *)
ReplyOK(x, table, other) ==
    x.st \in Called =>
        /\ x.form \in Form[x.route]
        /\ (~other /\ x.st = "ok" /\ x.route = "register" /\ x.res.err = 0) =>
              \E u \in table : IsAccount(u, x.res.uid, x.form)
        /\ (/\ ~other /\ x.st \in {"token", "ok"}
            /\ x.route = "login" /\ x.res.err = 0) =>
              \E u \in table : IsLogin(u, x.res.uid, x.form, x.res.token)

HistoriesOK ==
    /\ altered => regs = {} /\ logged = {}
    /\ \A r \in regs : \E u \in users : IsAccount(u, r.uid, r.form)
    /\ \A l \in logged : \E u \in users : IsLogin(u, l.uid, l.form, l.token)

AccInv ==
    /\ TypeOK
    /\ AnswersLive
    /\ UsersOK
    /\ \A c \in Clients : ReplyOK(http[c], users, altered)
    /\ HistoriesOK

(* What a request has in it, by its state.                                 *)
LEMMA RequestParts ==
    ASSUME NEW x \in Request
    PROVE  /\ x.st \in {"idle", "body"} \cup Called
           /\ x = Idle <=> x.st = "idle"
           /\ x.st = "body" => x.route \in Routes
           /\ x.st \in Called =>
                 /\ x.route \in Routes
                 /\ x.form \in Form.register \cup Form.login
                 /\ x.res \in Res
                 /\ x = [st |-> x.st, route |-> x.route, form |-> x.form,
                         res |-> x.res]
BY DEF Request, Idle, Called

(* A record with a state, a route, a form and a reply is a request.        *)
LEMMA CalledRequest ==
    ASSUME NEW st \in Called, NEW route \in Routes,
           NEW form \in Form.register \cup Form.login, NEW res \in Res
    PROVE  [st |-> st, route |-> route, form |-> form, res |-> res] \in Request
BY DEF Request, Called

(* The forms of the two routes.                                            *)
LEMMA Forms ==
    /\ Form["register"] = Applications
    /\ Form["login"] = [email : Emails, pw : Passwords]
    /\ Form.register = Applications
    /\ Form.login = [email : Emails, pw : Passwords]
    /\ NoRes \in Res
BY AccountsAssumption DEF Form, NoRes, Res

(* A step that changes the request of one connection, and at most adds     *)
(* rows to t_user, keeps what is known of replies; a changed statement     *)
(* leaves nothing to know.                                                 *)
LEMMA RepliesKept ==
    ASSUME AccInv, NEW c \in Clients, NEW x,
           http' = [http EXCEPT ![c] = x],
           altered' \/ (users \subseteq users' /\ ~altered),
           ReplyOK(x, users', altered')
    PROVE  \A d \in Clients : ReplyOK(http'[d], users', altered')
<1>1. \A d \in Clients : http'[d] = IF d = c THEN x ELSE http[d]
  BY DEF AccInv, TypeOK
<1>2. SUFFICES ASSUME NEW d \in Clients PROVE ReplyOK(http'[d], users', altered')
  OBVIOUS
<1>3. CASE d = c
  <2>1. http'[d] = x
    BY <1>1, <1>3
  <2>. QED  BY <2>1 DEF ReplyOK
<1>4. CASE d # c
  <2>1. http'[d] = http[d] /\ ReplyOK(http[d], users, altered)
    BY <1>1, <1>4 DEF AccInv
  <2>. QED  BY <2>1 DEF ReplyOK
<1>. QED  BY <1>3, <1>4

(* The handler of c goes on: only the state and the reply change.          *)
LEMMA GotoEffect ==
    ASSUME TypeOK, NEW c \in Clients, http[c].st \in Called,
           NEW st, NEW res, Goto(c, st, res)
    PROVE  http' = [http EXCEPT ![c] =
                      [st |-> st, route |-> http[c].route,
                       form |-> http[c].form, res |-> res]]
<1>1. http \in [Clients -> Request]
  BY DEF TypeOK
<1>2. http[c] = [st |-> http[c].st, route |-> http[c].route,
                 form |-> http[c].form, res |-> http[c].res]
  BY <1>1, RequestParts
<1> DEFINE y == [st |-> st, route |-> http[c].route,
                 form |-> http[c].form, res |-> res]
<1>3. /\ http' \in [Clients -> {http'[d] : d \in Clients}]
      /\ \A d \in Clients \ {c} : http'[d] = http[d]
  BY <1>1 DEF Goto
<1>4. http'[c] = y
  BY <1>1, <1>2 DEF Goto
<1>. HIDE DEF y
<1>5. http' = [http EXCEPT ![c] = y]
  BY <1>1, <1>3, <1>4
<1>. QED  BY <1>5 DEF y

(* Nothing is stored and nobody is told anything.                          *)
LEMMA TablesKept ==
    ASSUME AccInv, UNCHANGED <<users, altered, regs, logged>>
    PROVE  UsersOK' /\ HistoriesOK'
<1>1. UsersOK'
  BY DEF AccInv, UsersOK
<1>2. HistoriesOK'
  BY DEF AccInv, HistoriesOK
<1>. QED  BY <1>1, <1>2

(* A request arrives.                                                      *)
LEMMA PostKeeps ==
    ASSUME AccInv, NEW c \in Clients, NEW route \in Routes, Post(c, route)
    PROVE  AccInv'
<1> DEFINE x == [st |-> "body", route |-> route]
<1>1. /\ http' = [http EXCEPT ![c] = x] /\ live' = live \cup {c}
      /\ UNCHANGED <<loop, users, tokens, altered, regs, logged>>
  BY DEF Post, tables, histories
<1>2. x \in Request /\ x.st = "body"
  BY DEF Request
<1>. HIDE DEF x
<1>3. http \in [Clients -> Request]
  BY DEF AccInv, TypeOK
<1>4. TypeOK'
  BY <1>1, <1>2, <1>3 DEF AccInv, TypeOK
<1>5. AnswersLive'
  BY <1>1, <1>2, <1>3 DEF AccInv, AnswersLive
<1>6. ReplyOK(x, users', altered')
  BY <1>2 DEF ReplyOK, Called
<1>. QED  BY <1>1, <1>4, <1>5, <1>6, RepliesKept, TablesKept DEF AccInv

(* A request ends before its call: aborted, or not a form.                 *)
LEMMA DropKeeps ==
    ASSUME AccInv, NEW c \in Clients, Aborted(c) \/ BodyInvalid(c)
    PROVE  AccInv'
<1>1. /\ http' = [http EXCEPT ![c] = Idle] /\ live' = live \ {c}
      /\ UNCHANGED <<loop, users, tokens, altered, regs, logged>>
  BY DEF Aborted, BodyInvalid, tables, histories
<1>2. Idle \in Request /\ Idle.st = "idle"
  BY DEF Request, Idle
<1>3. http \in [Clients -> Request]
  BY DEF AccInv, TypeOK
<1>4. TypeOK'
  BY <1>1, <1>2, <1>3 DEF AccInv, TypeOK
<1>5. AnswersLive'
  BY <1>1, <1>2, <1>3 DEF AccInv, AnswersLive
<1>6. ReplyOK(Idle, users', altered')
  BY <1>2 DEF ReplyOK, Called
<1>. QED  BY <1>1, <1>4, <1>5, <1>6, RepliesKept, TablesKept DEF AccInv

(* The body is complete: the loop was free, so no other handler of the     *)
(* gateway has made its call.                                              *)
LEMMA BodyKeeps ==
    ASSUME AccInv, NEW c \in Clients, NEW form, BodyComplete(c, form)
    PROVE  AccInv'
<1> DEFINE x == [st |-> "call", route |-> http[c].route, form |-> form,
                 res |-> NoRes]
<1>1. /\ http' = [http EXCEPT ![c] = x] /\ loop' = [loop EXCEPT ![GwOf[c]] = c]
      /\ http[c].st = "body" /\ loop[GwOf[c]] = NoClient
      /\ form \in Form[http[c].route]
      /\ UNCHANGED <<live, users, tokens, altered, regs, logged>>
  BY DEF BodyComplete, LoopFree, tables, histories
<1>2. http \in [Clients -> Request]
  BY DEF AccInv, TypeOK
<1>3. http[c].route \in Routes /\ http[c] # Idle
  BY <1>1, <1>2, RequestParts DEF Idle
<1>4. form \in Form.register \cup Form.login
  BY <1>1, <1>3 DEF Routes
<1>5. x \in Request /\ x.st = "call" /\ x.route = http[c].route /\ x.form = form
  BY <1>3, <1>4, Forms, CalledRequest DEF Called
<1>. HIDE DEF x
<1>6. TypeOK'
  BY <1>1, <1>2, <1>5, AccountsAssumption DEF AccInv, TypeOK
<1>7. AnswersLive'
  <2>1. SUFFICES ASSUME NEW d \in Clients, http'[d] # Idle
                 PROVE  /\ d \in live'
                        /\ http'[d].st # "body" => loop'[GwOf[d]] = d
    BY DEF AnswersLive
  <2>2. CASE d = c
    BY <1>1, <1>2, <1>3, <1>5, <2>2, AccountsAssumption
       DEF AccInv, AnswersLive, TypeOK
  <2>3. CASE d # c
    <3>1. http'[d] = http[d]
      BY <1>1, <1>2, <2>3
    <3>2. d \in live /\ (http[d].st # "body" => loop[GwOf[d]] = d)
      BY <2>1, <3>1 DEF AccInv, AnswersLive
    <3>3. http[d].st # "body" => GwOf[d] # GwOf[c]
      BY <1>1, <3>2, AccountsAssumption
    <3>. QED  BY <1>1, <3>1, <3>2, <3>3, AccountsAssumption DEF AccInv, TypeOK
  <2>. QED  BY <2>2, <2>3
<1>8. ReplyOK(x, users', altered')
  BY <1>1, <1>5 DEF ReplyOK
<1>. QED  BY <1>1, <1>6, <1>7, <1>8, RepliesKept, TablesKept DEF AccInv

(* A handler goes on: the connection, its form and the loop stay.          *)
LEMMA GotoKeepsLive ==
    ASSUME AccInv, NEW c \in Clients, http[c].st \in Called,
           NEW st \in Called, NEW res \in Res, Goto(c, st, res),
           UNCHANGED <<loop, live>>
    PROVE  http' \in [Clients -> Request] /\ AnswersLive'
<1> DEFINE x == [st |-> st, route |-> http[c].route, form |-> http[c].form,
                 res |-> res]
<1>1. http \in [Clients -> Request] /\ http' = [http EXCEPT ![c] = x]
  BY GotoEffect DEF AccInv, TypeOK
<1>2. x \in Request /\ x.st \in Called
  BY <1>1, RequestParts, CalledRequest
<1>3. http[c] # Idle /\ http[c].st # "body"
  BY DEF Idle, Called
<1>. HIDE DEF x
<1>4. c \in live /\ loop[GwOf[c]] = c
  BY <1>3 DEF AccInv, AnswersLive
<1>. QED  BY <1>1, <1>2, <1>4 DEF AccInv, AnswersLive

(* The handler goes on after a statement changed by its text: the table is *)
(* finite, and nothing else is said.                                       *)
LEMMA OtherKeeps ==
    ASSUME AccInv, NEW c \in Clients, http[c].st \in Called,
           NEW st \in Called, NEW res \in Res, Goto(c, st, res),
           OtherStatement, UNCHANGED <<loop, live, tokens>>
    PROVE  AccInv'
<1> DEFINE x == [st |-> st, route |-> http[c].route, form |-> http[c].form,
                 res |-> res]
<1>1. http' = [http EXCEPT ![c] = x]
  BY GotoEffect DEF AccInv
<1>2. x.st = st /\ x.route = http[c].route /\ x.form = http[c].form
  OBVIOUS
<1>3. http' \in [Clients -> Request] /\ AnswersLive'
  BY GotoKeepsLive
<1>4. /\ users' \subseteq users \cup OtherRows /\ altered' = TRUE
      /\ regs' = {} /\ logged' = {}
  BY DEF OtherStatement
<1>. HIDE DEF x
<1>5. TypeOK'
  BY <1>3, <1>4, AccountsAssumption DEF AccInv, TypeOK
<1>6. UsersOK'
  <2>1. IsFiniteSet(users \cup OtherRows)
    BY FS_Union, AccountsAssumption DEF AccInv, UsersOK
  <2>2. IsFiniteSet(users')
    BY <1>4, <2>1, FS_Subset
  <2>. QED  BY <1>4, <2>2 DEF UsersOK
<1>7. ReplyOK(x, users', altered')
  <2>1. http[c].form \in Form[http[c].route]
    BY DEF AccInv, ReplyOK
  <2>. QED  BY <1>2, <1>4, <2>1 DEF ReplyOK
<1>8. HistoriesOK'
  BY <1>4 DEF HistoriesOK
<1>. QED  BY <1>1, <1>3, <1>4, <1>5, <1>6, <1>7, <1>8, RepliesKept DEF AccInv

(* The insert as it is meant: the new row has the next value of the serial *)
(* key, which no row has, so the reply names its own account only.         *)
LEMMA InsertKeeps ==
    ASSUME AccInv, NEW c \in Clients, Serving(c, "register", "call"),
           InsertUser(c, NewUser(http[c].form)),
           UNCHANGED <<loop, live, tokens>>
    PROVE  AccInv'
<1> DEFINE form == http[c].form
           u == NewUser(form)
<1>1. /\ http[c].st = "call" /\ http[c].route = "register"
      /\ http[c].st \in Called
      /\ UNCHANGED <<loop, live, tokens, altered, regs, logged>>
  BY DEF InsertUser, Serving, histories, Called
<1>2. PICK done \in BOOLEAN, ok \in BOOLEAN :
         /\ ok => done
         /\ users' = IF done THEN users \cup {u} ELSE users
         /\ Goto(c, "ok", IF ok
                          THEN [err |-> 0, uid |-> u.id, token |-> Empty]
                          ELSE NoRes)
  BY DEF InsertUser
<1> DEFINE res == IF ok THEN [err |-> 0, uid |-> u.id, token |-> Empty]
                        ELSE NoRes
           x == [st |-> "ok", route |-> "register", form |-> form, res |-> res]
<1>3. IsFiniteSet(users) /\ Cardinality(users) \in Nat
  BY FS_CardinalityType DEF AccInv, UsersOK
<1>4. form \in Applications
  BY <1>1, Forms DEF AccInv, ReplyOK
<1>5. /\ u \in User /\ u.id = Cardinality(users) + 1
      /\ IsAccount(u, u.id, form)
  BY <1>3, <1>4, AccountsAssumption DEF NewUser, User, IsAccount
<1>6. res \in Res /\ (res.err = 0 => ok /\ res.uid = u.id)
  <2>1. u.id \in Nat /\ Empty \in Passwords
    BY <1>5, AccountsAssumption DEF User
  <2>2. CASE ok
    BY <2>1, <2>2 DEF Res
  <2>3. CASE ~ok
    BY <2>3, Forms DEF NoRes
  <2>. QED  BY <2>2, <2>3
<1>. HIDE DEF u, form, res
<1>7. Goto(c, "ok", res) /\ "ok" \in Called
  BY <1>2 DEF res, Called
<1>8. http' = [http EXCEPT ![c] = x]
  BY <1>1, <1>7, GotoEffect DEF AccInv, form
<1>9. http' \in [Clients -> Request] /\ AnswersLive'
  BY <1>1, <1>6, <1>7, GotoKeepsLive
<1>10. users \subseteq users' /\ users' \subseteq users \cup {u}
       /\ (ok => u \in users')
  BY <1>2
<1>11. TypeOK'
  BY <1>1, <1>5, <1>9, <1>10 DEF AccInv, TypeOK
<1>12. UsersOK'
  <2>1. CASE users' = users
    BY <1>1, <2>1 DEF AccInv, UsersOK
  <2>2. CASE users' = users \cup {u} /\ altered
    <3>1. IsFiniteSet(users') /\ altered'
      BY <1>1, <1>3, <2>2, FS_AddElement
    <3>. QED  BY <3>1 DEF UsersOK
  <2>3. CASE users' = users \cup {u} /\ ~altered
    <3>1. \A v \in users : v.id \in Nat /\ v.id <= Cardinality(users)
      BY <2>3 DEF AccInv, TypeOK, User, UsersOK
    <3>2. u \notin users
      BY <1>3, <1>5, <3>1
    <3>3. IsFiniteSet(users') /\ Cardinality(users') = Cardinality(users) + 1
      BY <1>3, <2>3, <3>2, FS_AddElement
    <3>4. \A v \in users' : v.id <= Cardinality(users')
      BY <1>3, <1>5, <2>3, <3>1, <3>3
    <3>5. \A v \in users : v.id # u.id
      BY <1>3, <1>5, <3>1
    <3>6. \A v, w \in users' : v.id = w.id => v = w
      BY <2>3, <3>5 DEF AccInv, UsersOK
    <3>. QED  BY <3>3, <3>4, <3>6 DEF UsersOK
  <2>. QED  BY <1>2, <2>1, <2>2, <2>3
<1>13. ReplyOK(x, users', altered')
  <2>1. /\ x.st = "ok" /\ x.route = "register" /\ x.form = form /\ x.res = res
    OBVIOUS
  <2>. HIDE DEF x
  <2>2. form \in Form["register"]
    BY <1>4, Forms
  <2>3. res.err = 0 => \E v \in users' : IsAccount(v, res.uid, form)
    BY <1>5, <1>6, <1>10
  <2>. QED  BY <2>1, <2>2, <2>3 DEF ReplyOK
<1>14. HistoriesOK'
  BY <1>1, <1>10 DEF AccInv, HistoriesOK
<1>. HIDE DEF x
<1>15. \A d \in Clients : ReplyOK(http'[d], users', altered')
  BY <1>1, <1>8, <1>10, <1>13, RepliesKept
<1>. QED  BY <1>9, <1>11, <1>12, <1>14, <1>15 DEF AccInv

(* The handler goes on with a reply that is true of the table.             *)
LEMMA ReplyKeeps ==
    ASSUME AccInv, NEW c \in Clients, http[c].st \in Called,
           NEW st \in Called, NEW res \in Res, Goto(c, st, res),
           ReplyOK([st |-> st, route |-> http[c].route,
                    form |-> http[c].form, res |-> res], users, altered),
           UNCHANGED <<loop, live, users, tokens, altered, regs, logged>>
    PROVE  AccInv'
<1> DEFINE x == [st |-> st, route |-> http[c].route, form |-> http[c].form,
                 res |-> res]
<1>1. http' = [http EXCEPT ![c] = x]
  BY GotoEffect DEF AccInv
<1>2. http' \in [Clients -> Request] /\ AnswersLive'
  BY GotoKeepsLive
<1>3. TypeOK'
  BY <1>2 DEF AccInv, TypeOK
<1>4. ReplyOK(x, users, altered)
  OBVIOUS
<1>. HIDE DEF x
<1>5. ReplyOK(x, users', altered')
  BY <1>4
<1>. QED  BY <1>1, <1>2, <1>3, <1>5, RepliesKept, TablesKept DEF AccInv

(* The reply of a failed call promises nothing.                            *)
LEMMA NoResKeeps ==
    ASSUME AccInv, NEW c \in Clients, http[c].st \in Called,
           Goto(c, "ok", NoRes),
           UNCHANGED <<loop, live, users, tokens, altered, regs, logged>>
    PROVE  AccInv'
<1> DEFINE x == [st |-> "ok", route |-> http[c].route, form |-> http[c].form,
                 res |-> NoRes]
<1>1. x.st = "ok" /\ x.route = http[c].route /\ x.form = http[c].form
      /\ x.res.err = 1
  BY DEF NoRes
<1>2. http[c].form \in Form[http[c].route]
  BY DEF AccInv, ReplyOK
<1>3. ReplyOK(x, users, altered)
  <2>. HIDE DEF x
  <2>. QED  BY <1>1, <1>2 DEF ReplyOK
<1>4. NoRes \in Res /\ "ok" \in Called
  BY Forms DEF Called
<1>. QED  BY <1>3, <1>4, ReplyKeeps

(* RegisterUser: the insert, a refused statement or another one.           *)
LEMMA RegisterKeeps ==
    ASSUME AccInv, NEW c \in Clients, RegisterUser(c)
    PROVE  AccInv'
<1> DEFINE u == NewUser(http[c].form)
<1>1. /\ Serving(c, "register", "call") /\ http[c].st \in Called
      /\ UNCHANGED <<loop, live, tokens>>
  BY DEF RegisterUser, Serving, Called
<1>2. ASSUME Refused(c) PROVE AccInv'
  BY <1>1, <1>2, NoResKeeps DEF Refused, histories
<1>3. ASSUME OtherStatement, NEW v \in users \cup OtherRows \cup {u},
             Goto(c, "ok", [err |-> 0, uid |-> v.id, token |-> Empty])
      PROVE  AccInv'
  <2> DEFINE res == [err |-> 0, uid |-> v.id, token |-> Empty]
  <2>1. IsFiniteSet(users) /\ Cardinality(users) \in Nat
    BY FS_CardinalityType DEF AccInv, UsersOK
  <2>2. u.id \in Nat
    BY <2>1 DEF NewUser
  <2>3. v.id \in Nat
    BY <1>3, <2>2, AccountsAssumption DEF AccInv, TypeOK, User
  <2>4. res \in Res
    BY <2>3, AccountsAssumption DEF Res
  <2>5. Goto(c, "ok", res) /\ "ok" \in Called
    BY <1>3 DEF Called
  <2>. HIDE DEF res
  <2>. QED  BY <1>1, <1>3, <2>4, <2>5, OtherKeeps
<1>4. \/ InsertUser(c, u)
      \/ Refused(c)
      \/ /\ OtherStatement
         /\ \E v \in users \cup OtherRows \cup {u} :
               Goto(c, "ok", [err |-> 0, uid |-> v.id, token |-> Empty])
  BY DEF RegisterUser
<1>. QED  BY <1>1, <1>2, <1>3, <1>4, InsertKeeps

(* HttpLogin: the reply names the row that was compared.                   *)
LEMMA CheckKeeps ==
    ASSUME AccInv, NEW c \in Clients, CheckUser(c)
    PROVE  AccInv'
<1> DEFINE form == http[c].form
<1>1. /\ http[c].st = "call" /\ http[c].route = "login"
      /\ http[c].st \in Called
      /\ UNCHANGED <<loop, live, tokens>>
  BY DEF CheckUser, Serving, Called
<1>2. form \in Form["login"]
  BY <1>1 DEF AccInv, ReplyOK
<1>3. ASSUME Refused(c) PROVE AccInv'
  BY <1>1, <1>3, NoResKeeps DEF Refused, histories
<1>4. ASSUME NEW u \in WithEmail(form.email), Compare(c, u),
             UNCHANGED <<users, altered, histories>>
      PROVE  AccInv'
  <2> DEFINE res == [err |-> 0, uid |-> u.id, token |-> u.pw]
             x == [st |-> "token", route |-> http[c].route, form |-> form,
                   res |-> res]
  <2>0. UNCHANGED <<loop, live, users, tokens, altered, regs, logged>>
    BY <1>1, <1>4 DEF histories
  <2>1. CASE u.pw # form.pw
    BY <1>1, <1>4, <2>0, <2>1, NoResKeeps DEF Compare
  <2>2. CASE u.pw = form.pw
    <3>1. u \in users /\ u \in User /\ u.email = form.email
      BY <1>4 DEF WithEmail, AccInv, TypeOK
    <3>2. res \in Res /\ res.uid = u.id /\ res.token = u.pw
      BY <3>1 DEF Res, User
    <3>3. IsLogin(u, res.uid, form, res.token)
      BY <2>2, <3>1, <3>2 DEF IsLogin
    <3>4. Goto(c, "token", res) /\ "token" \in Called
      BY <1>4, <2>2 DEF Compare, Called
    <3>5. x.st = "token" /\ x.route = "login" /\ x.form = form /\ x.res = res
      BY <1>1
    <3>6. ReplyOK(x, users, altered)
      <4>. HIDE DEF x, res, form
      <4>. QED  BY <1>2, <3>1, <3>3, <3>5 DEF ReplyOK
    <3>. HIDE DEF res
    <3>. QED  BY <1>1, <2>0, <3>2, <3>4, <3>6, ReplyKeeps
  <2>. QED  BY <2>1, <2>2
<1>5. ASSUME OtherStatement, NEW u \in users \cup OtherRows, Compare(c, u)
      PROVE  AccInv'
  <2> DEFINE res == [err |-> 0, uid |-> u.id, token |-> u.pw]
  <2>1. u \in User
    BY AccountsAssumption DEF AccInv, TypeOK
  <2>2. res \in Res /\ NoRes \in Res
    BY <2>1, Forms DEF Res, User
  <2>3. \/ Goto(c, "token", res) /\ "token" \in Called
        \/ Goto(c, "ok", NoRes) /\ "ok" \in Called
    BY <1>5 DEF Compare, Called
  <2>. HIDE DEF res
  <2>. QED  BY <1>1, <1>5, <2>2, <2>3, OtherKeeps
<1>. QED  BY <1>3, <1>4, <1>5 DEF CheckUser

(* HttpLogin: the token is written; the reply stays as it is.              *)
LEMMA TokenKeeps ==
    ASSUME AccInv, NEW c \in Clients, SetToken(c)
    PROVE  AccInv'
<1> DEFINE form == http[c].form
           res == http[c].res
           x == [st |-> "ok", route |-> "login", form |-> form, res |-> res]
<1>1. /\ http[c].st = "token" /\ http[c].route = "login"
      /\ http[c].st \in Called /\ "ok" \in Called
      /\ Goto(c, "ok", res)
      /\ UNCHANGED <<loop, live, users, altered, regs, logged>>
  BY DEF SetToken, Serving, histories, Called
<1>2. res \in Res /\ form \in Form["login"]
  BY <1>1, RequestParts DEF AccInv, TypeOK, ReplyOK
<1>3. (~altered /\ res.err = 0) =>
         \E u \in users : IsLogin(u, res.uid, form, res.token)
  BY <1>1 DEF AccInv, ReplyOK
<1>4. tokens' \in SUBSET (Nat \X Passwords)
  <2>1. res.uid \in Nat /\ form.pw \in Passwords
    BY <1>2, Forms DEF Res
  <2>2. tokens \subseteq Nat \X Passwords
    BY DEF AccInv, TypeOK
  <2>. QED  BY <2>1, <2>2 DEF SetToken
<1>5. http' = [http EXCEPT ![c] = x]
  BY <1>1, GotoEffect DEF AccInv
<1>6. http' \in [Clients -> Request] /\ AnswersLive'
  BY <1>1, <1>2, GotoKeepsLive
<1>7. TypeOK'
  BY <1>1, <1>4, <1>6 DEF AccInv, TypeOK
<1>8. x.st = "ok" /\ x.route = "login" /\ x.form = form /\ x.res = res
  OBVIOUS
<1>. HIDE DEF x, form, res
<1>9. ReplyOK(x, users', altered')
  BY <1>1, <1>2, <1>3, <1>8 DEF ReplyOK
<1>. QED  BY <1>1, <1>5, <1>6, <1>7, <1>9, RepliesKept, TablesKept DEF AccInv

(* The response is written: what the client is told is in the table.       *)
LEMMA FinishKeeps ==
    ASSUME AccInv, NEW c \in Clients, Finish(c)
    PROVE  AccInv'
<1> DEFINE form == http[c].form
           res == http[c].res
           newReg == [form |-> form, uid |-> res.uid]
           newLog == [form |-> form, uid |-> res.uid, token |-> res.token]
<1>1. /\ http[c].st \in {"ok", "fail"} /\ http[c].st \in Called
      /\ http' = [http EXCEPT ![c] = Idle]
      /\ loop' = [loop EXCEPT ![GwOf[c]] = NoClient]
      /\ live' = live \ {c}
      /\ UNCHANGED <<users, tokens, altered>>
  BY DEF Finish, End, tables, Called
<1>2. /\ http \in [Clients -> Request] /\ http[c] # Idle
      /\ http[c].route \in Routes /\ form \in Form[http[c].route]
      /\ res \in Res
  BY <1>1, RequestParts DEF AccInv, TypeOK, ReplyOK, Idle
<1>3. Idle \in Request /\ Idle.st = "idle"
  BY DEF Request, Idle
<1>4. \A u \in users : u.id \in Nat \ {0}
  BY DEF AccInv, TypeOK, User
<1>5. \/ UNCHANGED <<regs, logged>>
      \/ /\ ~altered /\ regs' = regs \cup {newReg} /\ UNCHANGED logged
         /\ http[c].route = "register" /\ http[c].st = "ok" /\ res.err = 0
      \/ /\ ~altered /\ logged' = {newLog} /\ UNCHANGED regs
         /\ http[c].route = "login" /\ http[c].st = "ok" /\ res.err = 0
  BY <1>2 DEF Finish, Learn, histories, Routes
<1>6. /\ regs' \in SUBSET [form : Form.register, uid : Nat \ {0}]
      /\ logged' \in SUBSET [form : Form.login, uid : Nat \ {0},
                             token : Passwords]
      /\ HistoriesOK'
  <2>0. /\ regs \in SUBSET [form : Form.register, uid : Nat \ {0}]
        /\ logged \in SUBSET [form : Form.login, uid : Nat \ {0},
                              token : Passwords]
    BY DEF AccInv, TypeOK
  <2>1. CASE UNCHANGED <<regs, logged>>
    BY <1>1, <2>0, <2>1, TablesKept
  <2>2. CASE /\ ~altered /\ regs' = regs \cup {newReg} /\ UNCHANGED logged
             /\ http[c].route = "register" /\ http[c].st = "ok" /\ res.err = 0
    <3>1. PICK u \in users : IsAccount(u, res.uid, form)
      BY <1>1, <2>2 DEF AccInv, ReplyOK
    <3>2. form \in Form.register /\ res.uid \in Nat \ {0}
      BY <1>2, <1>4, <2>2, <3>1 DEF IsAccount
    <3>3. newReg \in [form : Form.register, uid : Nat \ {0}]
          /\ newReg.form = form /\ newReg.uid = res.uid
      BY <3>2
    <3>. HIDE DEF newReg, form, res
    <3>4. HistoriesOK'
      BY <1>1, <2>2, <3>1, <3>3 DEF AccInv, HistoriesOK
    <3>. QED  BY <2>0, <2>2, <3>3, <3>4
  <2>3. CASE /\ ~altered /\ logged' = {newLog} /\ UNCHANGED regs
             /\ http[c].route = "login" /\ http[c].st = "ok" /\ res.err = 0
    <3>1. PICK u \in users : IsLogin(u, res.uid, form, res.token)
      BY <1>1, <2>3 DEF AccInv, ReplyOK
    <3>2. /\ form \in Form.login /\ res.uid \in Nat \ {0}
          /\ res.token \in Passwords
      BY <1>2, <1>4, <2>3, <3>1 DEF IsLogin, Res
    <3>3. /\ newLog \in [form : Form.login, uid : Nat \ {0}, token : Passwords]
          /\ newLog.form = form /\ newLog.uid = res.uid
          /\ newLog.token = res.token
      BY <3>2
    <3>. HIDE DEF newLog, form, res
    <3>4. HistoriesOK'
      BY <1>1, <2>3, <3>1, <3>3 DEF AccInv, HistoriesOK
    <3>. QED  BY <2>0, <2>3, <3>3, <3>4
  <2>. QED  BY <1>5, <2>1, <2>2, <2>3
<1>7. TypeOK'
  BY <1>1, <1>2, <1>3, <1>6 DEF AccInv, TypeOK
<1>8. AnswersLive'
  <2>1. SUFFICES ASSUME NEW d \in Clients, http'[d] # Idle
                 PROVE  /\ d \in live'
                        /\ http'[d].st # "body" => loop'[GwOf[d]] = d
    BY DEF AnswersLive
  <2>2. d # c /\ http'[d] = http[d]
    BY <1>1, <1>2, <2>1
  <2>3. d \in live /\ (http[d].st # "body" => loop[GwOf[d]] = d)
    BY <2>1, <2>2 DEF AccInv, AnswersLive
  <2>4. loop[GwOf[c]] = c
    BY <1>1, <1>2 DEF AccInv, AnswersLive
  <2>5. http[d].st # "body" => GwOf[d] # GwOf[c]
    BY <2>2, <2>3, <2>4
  <2>. QED  BY <1>1, <2>2, <2>3, <2>5, AccountsAssumption DEF AccInv, TypeOK
<1>9. ReplyOK(Idle, users', altered')
  BY <1>3 DEF ReplyOK, Called
<1>10. UsersOK'
  BY <1>1 DEF AccInv, UsersOK
<1>. QED  BY <1>1, <1>6, <1>7, <1>8, <1>9, <1>10, RepliesKept DEF AccInv

(* The logic server dies: calls fail, with the form they were made for.    *)
LEMMA CrashKeeps ==
    ASSUME AccInv, Crash
    PROVE  AccInv'
<1>1. http \in [Clients -> Request]
  BY DEF AccInv, TypeOK
<1>2. UNCHANGED <<loop, live, users, tokens, altered, regs, logged>>
  BY DEF Crash, tables, histories
<1>3. ASSUME NEW d \in Clients
      PROVE  /\ http'[d] \in Request
             /\ ReplyOK(http'[d], users', altered')
             /\ http'[d] # Idle => /\ d \in live
                                   /\ http'[d].st # "body" => loop[GwOf[d]] = d
  <2>1. ReplyOK(http[d], users, altered)
        /\ (http[d] # Idle => /\ d \in live
                              /\ http[d].st # "body" => loop[GwOf[d]] = d)
    BY DEF AccInv, AnswersLive
  <2>2. CASE http[d].st \in {"call", "token"}
    <3> DEFINE y == [http[d] EXCEPT !.st = "fail"]
    <3>1. http'[d] = y
      BY <2>2 DEF Crash
    <3>2. /\ http[d].st \in Called /\ "fail" \in Called
          /\ http[d] # Idle /\ http[d].st # "body"
      BY <2>2 DEF Called, Idle
    <3>3. y = [st |-> "fail", route |-> http[d].route, form |-> http[d].form,
               res |-> http[d].res]
      BY <1>1, <3>2, RequestParts
    <3>4. y \in Request
      <4>1. /\ http[d].route \in Routes /\ http[d].res \in Res
            /\ http[d].form \in Form.register \cup Form.login
        BY <1>1, <3>2, RequestParts
      <4>. HIDE DEF y
      <4>. QED  BY <3>2, <3>3, <4>1, CalledRequest
    <3>5. y.st = "fail" /\ y.route = http[d].route /\ y.form = http[d].form
      BY <3>3
    <3>. HIDE DEF y
    <3>6. ReplyOK(y, users', altered')
      BY <2>1, <3>2, <3>5 DEF ReplyOK
    <3>. QED  BY <2>1, <3>1, <3>2, <3>4, <3>6
  <2>3. CASE http[d].st \notin {"call", "token"}
    <3>1. http'[d] = http[d]
      BY <2>3 DEF Crash
    <3>. QED  BY <1>1, <1>2, <2>1, <3>1
  <2>. QED  BY <2>2, <2>3
<1>4. http' \in [Clients -> Request]
  <2>1. http' = [d \in Clients |-> http'[d]]
    BY DEF Crash
  <2>. QED  BY <1>3, <2>1
<1>5. TypeOK'
  BY <1>2, <1>4 DEF AccInv, TypeOK
<1>6. AnswersLive'
  BY <1>2, <1>3 DEF AnswersLive
<1>. QED  BY <1>2, <1>3, <1>5, <1>6, TablesKept DEF AccInv

(* AccInv holds in every reachable state.                                  *)
THEOREM AccountsInvariant == Spec => []AccInv
<1>1. Init => AccInv
  <2>1. SUFFICES ASSUME Init PROVE AccInv
    OBVIOUS
  <2>2. Idle \in Request /\ Idle.st = "idle"
    BY DEF Request, Idle
  <2>3. TypeOK
    BY <2>1, <2>2 DEF Init, TypeOK
  <2>4. AnswersLive
    BY <2>1 DEF Init, AnswersLive
  <2>5. UsersOK
    BY <2>1, FS_EmptySet DEF Init, UsersOK
  <2>6. \A c \in Clients : ReplyOK(http[c], users, altered)
    BY <2>1, <2>2 DEF Init, ReplyOK, Called
  <2>7. HistoriesOK
    BY <2>1 DEF Init, HistoriesOK
  <2>. QED  BY <2>3, <2>4, <2>5, <2>6, <2>7 DEF AccInv
<1>2. AccInv /\ [Next]_vars => AccInv'
  <2>1. ASSUME AccInv, UNCHANGED vars PROVE AccInv'
    <3>1. TypeOK' /\ AnswersLive'
      BY <2>1 DEF vars, AccInv, TypeOK, AnswersLive
    <3>2. \A c \in Clients : ReplyOK(http'[c], users', altered')
      BY <2>1 DEF vars, AccInv
    <3>. QED  BY <2>1, <3>1, <3>2, TablesKept DEF vars, AccInv
  <2>. QED
    BY <2>1, PostKeeps, DropKeeps, BodyKeeps, RegisterKeeps, CheckKeeps,
       TokenKeeps, FinishKeeps, CrashKeeps DEF Next, HandlerStep
<1>. QED  BY <1>1, <1>2, PTL DEF Spec

(* Type correctness.                                                       *)
THEOREM AccountsTypeCorrect == Spec => []TypeOK
BY AccountsInvariant, PTL DEF AccInv

(* A response is written only over a live connection whose handler holds   *)
(* the event loop (gateway/main.cc:287-326, 332-368).                      *)
THEOREM ResponsesLive == Spec => []AnswersLive
BY AccountsInvariant, PTL DEF AccInv

(* An acknowledged registration is in the table under a uid of its own,    *)
(* for any number of registrations at the same time (main.cc:150-159).     *)
THEOREM RegistrationsStay == Spec => []RegistrationsKept
<1>1. AccInv => RegistrationsKept
  <2>1. SUFFICES ASSUME AccInv, ~altered
                 PROVE  /\ \A r \in regs : \E u \in users :
                              /\ u.id = r.uid /\ u.name = r.form.name
                              /\ u.email = r.form.email
                              /\ u.pw = r.form.pw
                        /\ \A r, q \in regs : r.uid = q.uid => r = q
    BY DEF RegistrationsKept
  <2>2. \A r \in regs : \E u \in users : IsAccount(u, r.uid, r.form)
    BY <2>1 DEF AccInv, HistoriesOK
  <2>3. ASSUME NEW r \in regs, NEW q \in regs, r.uid = q.uid PROVE r = q
    <3>1. /\ r \in [form : Form.register, uid : Nat \ {0}]
          /\ q \in [form : Form.register, uid : Nat \ {0}]
      BY <2>1 DEF AccInv, TypeOK
    <3>2. PICK u \in users : IsAccount(u, r.uid, r.form)
      BY <2>2
    <3>3. PICK v \in users : IsAccount(v, q.uid, q.form)
      BY <2>2
    <3>4. u = v
      BY <2>1, <2>3, <3>2, <3>3 DEF AccInv, UsersOK, IsAccount
    <3>5. /\ r.form \in [name : Names, email : Emails, pw : Passwords]
          /\ q.form \in [name : Names, email : Emails, pw : Passwords]
      BY <3>1, Forms, AccountsAssumption
    <3>6. r.form = q.form
      BY <3>2, <3>3, <3>4, <3>5 DEF IsAccount
    <3>. QED  BY <2>3, <3>1, <3>6
  <2>. QED  BY <2>2, <2>3 DEF IsAccount
<1>. QED  BY <1>1, AccountsInvariant, PTL

(* A login answered with success names an account with the address and     *)
(* password of the client, and the registered one if the address has only  *)
(* one account (pool_db_client.cc:85-105).                                 *)
THEOREM LoginsFindOwn == Spec => []LoginFindsOwn
<1>1. AccInv => LoginFindsOwn
  <2>1. SUFFICES ASSUME AccInv, ~altered, NEW l \in logged
                 PROVE  /\ \E u \in users : /\ u.id = l.uid
                                            /\ u.email = l.form.email
                                            /\ u.pw = l.form.pw
                        /\ \A r \in regs :
                              (/\ r.form.email = l.form.email
                               /\ Cardinality(WithEmail(l.form.email)) = 1)
                                 => l.uid = r.uid
    BY DEF LoginFindsOwn
  <2>2. PICK u \in users : IsLogin(u, l.uid, l.form, l.token)
    BY <2>1 DEF AccInv, HistoriesOK
  <2>3. ASSUME NEW r \in regs, r.form.email = l.form.email,
               Cardinality(WithEmail(l.form.email)) = 1
        PROVE  l.uid = r.uid
    <3> DEFINE S == WithEmail(l.form.email)
    <3>1. PICK v \in users : IsAccount(v, r.uid, r.form)
      BY <2>1 DEF AccInv, HistoriesOK
    <3>2. u \in S /\ v \in S
      BY <2>2, <2>3, <3>1 DEF WithEmail, IsLogin, IsAccount
    <3>3. IsFiniteSet(S)
      <4>1. S \in SUBSET users /\ IsFiniteSet(users)
        BY <2>1 DEF WithEmail, AccInv, UsersOK
      <4>. HIDE DEF S
      <4>. QED  BY <4>1, FS_Subset
    <3>4. u = v
      <4>1. Cardinality(S) = 1
        BY <2>3
      <4>. HIDE DEF S
      <4>. QED  BY <3>2, <3>3, <4>1, FS_Singleton
    <3>. QED  BY <2>2, <3>1, <3>4 DEF IsLogin, IsAccount
  <2>. QED  BY <2>2, <2>3 DEF IsLogin
<1>. QED  BY <1>1, AccountsInvariant, PTL

(* What HttpLogin hands out is accepted by the WebSocket login, unless it  *)
(* is the empty token (logic_server/main.cc:65-66, 161-176).               *)
THEOREM TokensAccepted == Spec => []TokenAccepted
<1>1. AccInv => TokenAccepted
  BY DEF AccInv, HistoriesOK, IsLogin, TokenAccepted, WsAccepts
<1>. QED  BY <1>1, AccountsInvariant, PTL

=============================================================================
