----------------------------- MODULE AuthProofs -----------------------------
(***************************************************************************)
(* For any number of clients, accounts and clock ticks: the types, that    *)
(* tokens are for the account whose credentials were given, and that a     *)
(* role outlives its change by no more than a token's life.                *)
(***************************************************************************)
EXTENDS Auth, TLAPS

LEMMA TypeInit == Init => TypeOK
  BY AuthAssumption DEF Init, TypeOK, Ids, Times

LEMMA OverType ==
    ASSUME TypeOK, NEW c \in Clients, Over(c),
           UNCHANGED <<users, now, adminUntil>>,
           held' \in [Clients -> SUBSET Tokens],
           \A d \in Clients : \A t \in held'[d] : t.sub \in DOMAIN users,
           reply' \in [Clients -> {"none", "conflict", "internal"}]
    PROVE  TypeOK'
  <1>1. /\ users' = users /\ now' = now /\ adminUntil' = adminUntil
        /\ 0 \in Times
    BY AuthAssumption DEF Times
  <1>2. /\ pc' \in [Clients -> {"idle", "existing", "create", "find", "merge", "refresh", "admin"}]
        /\ creds' \in [Clients -> Credentials \cup {Nothing}]
        /\ row' \in [Clients -> Rows \cup {Nothing}]
        /\ using' \in [Clients -> Tokens \cup {Nothing}]
        /\ arrived' \in [Clients -> Times]
    BY <1>1 DEF TypeOK, Over, Credentials
  <1>3. \A d \in Clients : d # c =>
          /\ pc'[d] = pc[d] /\ creds'[d] = creds[d] /\ row'[d] = row[d] /\ using'[d] = using[d]
    BY DEF TypeOK, Over
  <1>4. pc'[c] = "idle"
    BY DEF TypeOK, Over
  <1>5. ASSUME NEW d \in Clients
        PROVE  /\ pc'[d] \in {"existing", "create", "find", "merge"} => creds'[d] # Nothing
               /\ pc'[d] = "merge" => row'[d] # Nothing /\ row'[d].id \in DOMAIN users
               /\ pc'[d] \in {"refresh", "admin"} =>
                     using'[d] # Nothing /\ using'[d].sub \in DOMAIN users
    BY <1>3, <1>4 DEF TypeOK
  <1>6. QED
    BY <1>1, <1>2, <1>5 DEF TypeOK, Credentials

LEMMA SignedType ==
    ASSUME TypeOK, NEW c \in Clients, NEW r \in Rows, r.id \in DOMAIN users
    PROVE  /\ Signed(c, r) \subseteq Tokens
           /\ \A t \in Signed(c, r) : t.sub \in DOMAIN users
  <1>1. now \in Times /\ arrived[c] \in Times /\ r.id \in Ids /\ r.role \in Roles
    BY DEF TypeOK, Rows
  <1>2. QED
    BY <1>1 DEF Signed, Tokens

LEMMA AnswerType ==
    ASSUME TypeOK, NEW c \in Clients, NEW r \in Rows, r.id \in DOMAIN users,
           Answer(c, Signed(c, r))
    PROVE  TypeOK'
  <1> DEFINE T == Signed(c, r)
  <1>1. T \in SUBSET Tokens /\ \A t \in T : t.sub \in DOMAIN users
    BY SignedType
  <1>2. held' = [held EXCEPT ![c] = T]
    BY DEF Answer
  <1> HIDE DEF T
  <1>3. held' \in [Clients -> SUBSET Tokens]
    BY <1>1, <1>2 DEF TypeOK
  <1>4. \A d \in Clients : \A t \in held'[d] : t.sub \in DOMAIN users
    BY <1>1, <1>2 DEF TypeOK
  <1>5. QED
    BY <1>3, <1>4, OverType DEF Answer, TypeOK

LEMMA RefuseType ==
    ASSUME TypeOK, NEW c \in Clients, NEW status \in {"none", "conflict", "internal"},
           Refuse(c, status)
    PROVE  TypeOK'
  <1>1. /\ reply' \in [Clients -> {"none", "conflict", "internal"}]
        /\ held' = held
    BY DEF Refuse, TypeOK
  <1>2. QED
    BY <1>1, OverType DEF Refuse, TypeOK

LEMMA UserTable ==
    ASSUME TypeOK
    PROVE  /\ Len(users) \in Nat
           /\ DOMAIN users = 1..Len(users)
           /\ \A u \in DOMAIN users : u \in Ids /\ users[u] \in Users
  <1>1. Len(users) \in Nat /\ DOMAIN users = 1..Len(users)
    BY DEF TypeOK
  <1>2. \A u \in 1..Len(users) : users[u] \in Users
    BY DEF TypeOK
  <1>3. QED
    BY <1>1, <1>2, AuthAssumption DEF TypeOK, Ids

LEMMA UserRow ==
    ASSUME TypeOK, NEW u \in DOMAIN users
    PROVE  RowOf(u) \in Rows /\ RowOf(u).id = u
  <1>1. u \in Ids /\ users[u].role \in Roles
    BY UserTable DEF Users
  <1>2. QED
    BY <1>1 DEF RowOf, Rows

\* What an answer's row is: the one read, or the one of the refresh token.
LEMMA RowsRead ==
    ASSUME TypeOK, NEW c \in Clients
    PROVE  /\ pc[c] = "merge" => row[c] \in Rows /\ row[c].id \in DOMAIN users
           /\ pc[c] = "refresh" => /\ RefreshedRow(c) \in Rows
                                   /\ RefreshedRow(c).id = using[c].sub
                                   /\ using[c].sub \in DOMAIN users
  <1>1. pc[c] = "merge" => row[c] \in Rows /\ row[c].id \in DOMAIN users
    BY DEF TypeOK
  <1>2. pc[c] = "refresh" => using[c].sub \in DOMAIN users
    BY DEF TypeOK
  <1>3. QED
    BY <1>1, <1>2, UserRow DEF RefreshedRow

LEMMA SubmitType ==
    ASSUME TypeOK, NEW c \in Clients, NEW e \in Emails, NEW p \in Passwords,
           NEW label \in {"existing", "find"}, Submit(c, label, e, p)
    PROVE  TypeOK'
  BY AuthAssumption DEF TypeOK, Submit, Arrive, Credentials

LEMMA PresentType ==
    ASSUME TypeOK, NEW c \in Clients, NEW t \in held[c],
           NEW label \in {"refresh", "admin"}, Present(c, label, t)
    PROVE  TypeOK'
  <1>1. t \in Tokens /\ t.sub \in DOMAIN users
    BY DEF TypeOK
  <1>2. QED
    BY <1>1, AuthAssumption DEF TypeOK, Present, Arrive

LEMMA FindExistingType ==
    ASSUME TypeOK, NEW c \in Clients, FindExisting(c)
    PROVE  TypeOK'
  <1>1. CASE Refuse(c, "conflict")
    BY <1>1, RefuseType
  <1>2. CASE Goto(c, "create") /\ UNCHANGED <<users, now, row, held, reply, adminUntil>>
    BY <1>2 DEF TypeOK, FindExisting, Goto
  <1>3. QED
    BY <1>1, <1>2 DEF FindExisting

LEMMA CreateUserType ==
    ASSUME TypeOK, NEW c \in Clients, CreateUser(c)
    PROVE  TypeOK'
  <1>1. CASE Taken(creds[c].email)
    BY <1>1, RefuseType DEF CreateUser, CreateTaken
  <1>2. CASE ~Taken(creds[c].email)
    <2> DEFINE u == [email |-> creds[c].email, role |-> "CUSTOMER",
                     password |-> creds[c].password]
               r == [id |-> Len(users) + 1, role |-> "CUSTOMER"]
    <2>1. /\ pc[c] = "create" /\ Len(users) < MaxUsers
          /\ users' = Append(users, u)
          /\ row' = [row EXCEPT ![c] = r]
          /\ pc' = [pc EXCEPT ![c] = "merge"]
          /\ UNCHANGED <<creds, using, arrived, now, held, reply, adminUntil>>
      BY <1>2 DEF CreateUser, Goto
    <2>2. creds[c] \in Credentials
      BY <2>1 DEF TypeOK
    <2>3. u \in Users
      BY <2>2 DEF Credentials, Users, Roles
    <2>4. /\ users \in Seq(Users) /\ Len(users) \in Nat /\ DOMAIN users = 1..Len(users)
          /\ r \in Rows
      BY <2>1, UserTable, AuthAssumption DEF Rows, Roles, Ids, TypeOK
    <2> HIDE DEF u
    <2>5. /\ users' \in Seq(Users)
          /\ Len(users') = Len(users) + 1
          /\ DOMAIN users' = 1..(Len(users) + 1)
          /\ \A v \in DOMAIN users : users'[v] = users[v]
          /\ users'[Len(users) + 1] = u
      BY <2>1, <2>3, <2>4
    <2>6. u.email = creds[c].email
      BY DEF u
    <2>7. \A v, w \in DOMAIN users' : users'[v].email = users'[w].email => v = w
      BY <1>2, <2>4, <2>5, <2>6 DEF Taken, TypeOK
    <2>8. Len(users') <= MaxUsers
      BY <2>1, <2>4, <2>5, AuthAssumption
    <2>9. \A v \in DOMAIN users : v \in DOMAIN users'
      BY <2>4, <2>5
    <2>10. r # Nothing /\ r.id \in DOMAIN users'
      BY <2>4, <2>5, AuthAssumption
    <2> HIDE DEF r
    <2>11. row' \in [Clients -> Rows \cup {Nothing}]
      BY <2>1, <2>4 DEF TypeOK
    <2>12. ASSUME NEW d \in Clients
           PROVE  /\ pc'[d] \in {"existing", "create", "find", "merge"} => creds'[d] # Nothing
                  /\ pc'[d] = "merge" => row'[d] # Nothing /\ row'[d].id \in DOMAIN users'
                  /\ pc'[d] \in {"refresh", "admin"} =>
                        using'[d] # Nothing /\ using'[d].sub \in DOMAIN users'
                  /\ \A t \in held'[d] : t.sub \in DOMAIN users'
      BY <2>1, <2>9, <2>10 DEF TypeOK
    <2>13. pc' \in [Clients -> {"idle", "existing", "create", "find", "merge", "refresh", "admin"}]
      BY <2>1 DEF TypeOK
    <2>14. QED
      BY <2>1, <2>5, <2>7, <2>8, <2>11, <2>12, <2>13 DEF TypeOK
  <1>3. QED
    BY <1>1, <1>2

LEMMA FindUserType ==
    ASSUME TypeOK, NEW c \in Clients, FindUser(c)
    PROVE  TypeOK'
  <1>1. CASE Refuse(c, "none")
    BY <1>1, RefuseType
  <1>2. CASE /\ \E u \in DOMAIN users : Matches(c, u) /\ row' = [row EXCEPT ![c] = RowOf(u)]
             /\ Goto(c, "merge")
             /\ UNCHANGED <<users, now, held, reply, adminUntil>>
    <2>1. PICK u \in DOMAIN users : row' = [row EXCEPT ![c] = RowOf(u)]
      BY <1>2
    <2>2. PICK r \in Rows : r = RowOf(u) /\ r.id \in DOMAIN users /\ r # Nothing
      BY UserRow, AuthAssumption
    <2>3. row' = [row EXCEPT ![c] = r]
      BY <2>1, <2>2
    <2>4. pc[c] = "find" /\ pc' = [pc EXCEPT ![c] = "merge"]
          /\ UNCHANGED <<creds, using, arrived, users, now, held, reply, adminUntil>>
      BY <1>2 DEF FindUser, Goto
    <2>5. QED
      BY <2>2, <2>3, <2>4 DEF TypeOK
  <1>3. QED
    BY <1>1, <1>2 DEF FindUser

LEMMA SetRoleTable ==
    ASSUME TypeOK, NEW u \in DOMAIN users, SetRole(u)
    PROVE  /\ users' \in Seq(Users) /\ Len(users') = Len(users) /\ DOMAIN users' = DOMAIN users
           /\ \A v \in DOMAIN users : /\ users'[v].email = users[v].email
                                      /\ users'[v].password = users[v].password
                                      /\ v # u => users'[v] = users[v]
           /\ users'[u].role # users[u].role
  <1>1. PICK r \in Roles \ {users[u].role} : users' = [users EXCEPT ![u].role = r]
    BY DEF SetRole
  <1>2. users[u] \in Users
    BY UserTable
  <1>3. PICK w \in Users : w = [users[u] EXCEPT !.role = r]
    BY <1>1, <1>2 DEF Users
  <1>4. w.email = users[u].email /\ w.password = users[u].password /\ w.role = r
    BY <1>2, <1>3 DEF Users
  <1>5. users' = [users EXCEPT ![u] = w]
    BY <1>1, <1>3
  <1>6. users \in Seq(Users) /\ u \in 1..Len(users)
    BY UserTable DEF TypeOK
  <1>7. QED
    BY <1>1, <1>4, <1>5, <1>6, UserTable

LEMMA SetRoleType ==
    ASSUME TypeOK, NEW u \in DOMAIN users, SetRole(u)
    PROVE  TypeOK'
  <1>1. /\ users' \in Seq(Users) /\ Len(users') = Len(users) /\ DOMAIN users' = DOMAIN users
        /\ \A v \in DOMAIN users : users'[v].email = users[v].email
    BY SetRoleTable
  <1>2. adminUntil' \in [Ids -> Times \cup {Never}]
    BY DEF SetRole, TypeOK
  <1>3. UNCHANGED <<now, pc, creds, row, using, arrived, held, reply>>
    BY DEF SetRole, requests
  <1>4. QED
    BY <1>1, <1>2, <1>3 DEF TypeOK

LEMMA TypeStep == TypeOK /\ [Next]_vars => TypeOK'
  <1> SUFFICES ASSUME TypeOK, [Next]_vars PROVE TypeOK'
    OBVIOUS
  <1>1. ASSUME NEW c \in Clients, Register(c) PROVE TypeOK'
    BY <1>1, SubmitType DEF Register
  <1>2. ASSUME NEW c \in Clients, Login(c) PROVE TypeOK'
    BY <1>2, SubmitType DEF Login
  <1>3. ASSUME NEW c \in Clients, SignIn(c) PROVE TypeOK'
    BY <1>3, RowsRead, AnswerType DEF SignIn
  <1>4. ASSUME NEW c \in Clients, Refresh(c) PROVE TypeOK'
    BY <1>4, PresentType DEF Refresh
  <1>5. ASSUME NEW c \in Clients, FindRefreshed(c) PROVE TypeOK'
    <2>1. PICK r \in Rows : r = RefreshedRow(c) /\ r.id \in DOMAIN users
      BY <1>5, RowsRead DEF FindRefreshed
    <2>2. QED
      BY <1>5, <2>1, AnswerType DEF FindRefreshed
  <1>6. ASSUME NEW c \in Clients, AdminRequest(c) PROVE TypeOK'
    BY <1>6, PresentType DEF AdminRequest
  <1>7. ASSUME NEW c \in Clients, AdminDone(c) \/ RequestFails(c) PROVE TypeOK'
    BY <1>7, OverType DEF AdminDone, RequestFails, TypeOK
  <1>8. ASSUME Tick PROVE TypeOK'
    <2>1. now' \in Times
      BY <1>8, AuthAssumption DEF Tick, TypeOK, Times
    <2>2. QED
      BY <1>8, <2>1 DEF Tick, TypeOK, requests
  <1>9. CASE UNCHANGED vars
    BY <1>9 DEF vars, requests, TypeOK
  <1>10. QED
    BY <1>1, <1>2, <1>3, <1>4, <1>5, <1>6, <1>7, <1>8, <1>9,
       FindExistingType, CreateUserType, FindUserType, SetRoleType DEF Next

\* The accounts, the requests and the tokens are always well typed: an email has
\* one account (the unique index of users, schema.prisma 53), and every token and
\* every row a request holds is of an account that exists.
THEOREM TypeCorrect == Spec => []TypeOK
  <1>1. QED
    BY TypeInit, TypeStep, PTL DEF Spec
-----------------------------------------------------------------------------
(* How old a role can be *)

Recent(u, role, start) == start <= now /\ (role = "ADMIN" => AdminSince(u, start))

RecentToken(t) == Recent(t.sub, t.role, t.asked)

\* The roles that a client's request and tokens hold are no older than the request
\* that brought them.
ClientRoles(c) ==
    /\ arrived[c] <= now
    /\ \A t \in held[c] : RecentToken(t)
    /\ pc[c] = "merge" => Recent(row[c].id, row[c].role, arrived[c])
    /\ pc[c] = "admin" =>
          /\ RecentToken(using[c])
          /\ using[c].role = "ADMIN"
          /\ arrived[c] < using[c].iat + AccessTTL

RoleInv == \A c \in Clients : ClientRoles(c)

\* Accounts stay, time goes on, and an admin who stops being one is noted.
LEMMA AccountsStay ==
    ASSUME TypeOK, [Next]_vars
    PROVE  /\ now <= now' /\ now \in Nat /\ now' \in Nat
           /\ \A u \in DOMAIN users :
                 /\ u \in DOMAIN users'
                 /\ users'[u].email = users[u].email
                 /\ users'[u].password = users[u].password
                 /\ \/ users'[u] = users[u] /\ adminUntil'[u] = adminUntil[u]
                    \/ users[u].role = "ADMIN" /\ adminUntil'[u] = now
                    \/ users'[u].role = "ADMIN"
  <1>t. now \in Nat /\ now' \in Nat
    BY TypeStep, AuthAssumption DEF TypeOK, Times
  <1>1. CASE UNCHANGED <<users, now, adminUntil>>
    BY <1>1, <1>t
  <1>2. ASSUME NEW c \in Clients, CreateUser(c), ~UNCHANGED <<users, now, adminUntil>>
        PROVE  /\ UNCHANGED <<now, adminUntil>>
               /\ \A u \in DOMAIN users : u \in DOMAIN users' /\ users'[u] = users[u]
    <2>1. /\ UNCHANGED <<now, adminUntil>>
          /\ users' = Append(users, [email |-> creds[c].email, role |-> "CUSTOMER",
                                     password |-> creds[c].password])
      BY <1>2 DEF CreateUser, CreateTaken, Refuse
    <2>2. users \in Seq(Users) /\ DOMAIN users = 1..Len(users) /\ Len(users) \in Nat
      BY UserTable DEF TypeOK
    <2>3. QED
      BY <2>1, <2>2
  <1>3. ASSUME NEW v \in DOMAIN users, SetRole(v)
        PROVE  /\ now' = now
               /\ \A u \in DOMAIN users :
                     /\ u \in DOMAIN users'
                     /\ users'[u].email = users[u].email
                     /\ users'[u].password = users[u].password
                     /\ \/ users'[u] = users[u] /\ adminUntil'[u] = adminUntil[u]
                        \/ users[u].role = "ADMIN" /\ adminUntil'[u] = now
                        \/ users'[u].role = "ADMIN"
    <2>1. v \in Ids
      BY UserTable
    <2>2. users[v].role # "ADMIN" => users'[v].role = "ADMIN"
      <3>1. PICK r \in Roles \ {users[v].role} : users' = [users EXCEPT ![v].role = r]
        BY <1>3 DEF SetRole
      <3>2. users[v] \in Users
        BY UserTable
      <3>3. users'[v].role = r
        BY <3>1, <3>2 DEF Users
      <3>4. QED
        BY <3>1, <3>2, <3>3 DEF Users, Roles
    <2>3. /\ now' = now
          /\ users[v].role = "ADMIN" => adminUntil'[v] = now
          /\ \A u \in DOMAIN users : u # v => adminUntil'[u] = adminUntil[u]
      BY <1>3, <2>1 DEF SetRole, TypeOK
    <2>4. QED
      BY <1>3, <2>2, <2>3, SetRoleTable
  <1>4. CASE Tick
    BY <1>4, <1>t DEF Tick
  <1>5. ASSUME NEW c \in Clients,
               \/ Register(c) \/ FindExisting(c)
               \/ Login(c) \/ FindUser(c) \/ SignIn(c)
               \/ Refresh(c) \/ FindRefreshed(c)
               \/ AdminRequest(c) \/ AdminDone(c)
               \/ RequestFails(c)
        PROVE  UNCHANGED <<users, now, adminUntil>>
    BY <1>5 DEF Register, Login, Submit, FindExisting, FindUser, SignIn, Answer, Refuse,
       Refresh, FindRefreshed, AdminRequest, AdminDone, Present, RequestFails
  <1>6. QED
    BY <1>t, <1>1, <1>2, <1>3, <1>4, <1>5 DEF Next, vars

LEMMA RecentStays ==
    ASSUME TypeOK, [Next]_vars, NEW u \in DOMAIN users, NEW role, NEW start \in Times,
           Recent(u, role, start)
    PROVE  Recent(u, role, start)'
  <1>1. start \in Nat
    BY AuthAssumption DEF Times
  <1>2. QED
    BY <1>1, AccountsStay DEF Recent, AdminSince

\* A row just read is of this moment.
LEMMA PresentRow ==
    ASSUME TypeOK, NEW u \in DOMAIN users, NEW start \in Times, start <= now
    PROVE  Recent(RowOf(u).id, RowOf(u).role, start)
  BY DEF Recent, RowOf, AdminSince

LEMMA HeldStay ==
    ASSUME TypeOK, [Next]_vars, NEW c \in Clients, ClientRoles(c), NEW t \in held[c]
    PROVE  RecentToken(t)'
  <1>1. t \in Tokens /\ t.sub \in DOMAIN users /\ RecentToken(t)
    BY DEF TypeOK, ClientRoles
  <1>2. PICK u, role, start : u = t.sub /\ role = t.role /\ start = t.asked
    OBVIOUS
  <1>3. u \in DOMAIN users /\ start \in Times /\ Recent(u, role, start)
    BY <1>1, <1>2 DEF Tokens, RecentToken
  <1>4. Recent(u, role, start)'
    BY <1>3, RecentStays
  <1>5. QED
    BY <1>2, <1>4 DEF RecentToken

\* A client whose request does not move.
LEMMA RestStay ==
    ASSUME TypeOK, [Next]_vars, NEW c \in Clients, ClientRoles(c),
           pc'[c] = pc[c], row'[c] = row[c], using'[c] = using[c],
           arrived'[c] = arrived[c], held'[c] = held[c]
    PROVE  ClientRoles(c)'
  <1>1. arrived[c] \in Times /\ arrived[c] <= now'
    BY AccountsStay, AuthAssumption DEF TypeOK, ClientRoles, Times
  <1>2. \A t \in held[c] : RecentToken(t)'
    BY HeldStay
  <1>3. ASSUME pc[c] = "merge" PROVE Recent(row[c].id, row[c].role, arrived[c])'
    <2>1. PICK u, role, start : u = row[c].id /\ role = row[c].role /\ start = arrived[c]
      OBVIOUS
    <2>2. u \in DOMAIN users /\ Recent(u, role, start) /\ start \in Times
      BY <1>1, <1>3, <2>1 DEF TypeOK, ClientRoles
    <2>3. Recent(u, role, start)'
      BY <2>2, RecentStays
    <2>4. QED
      BY <2>1, <2>3 DEF Recent, AdminSince
  <1>4. ASSUME pc[c] = "admin" PROVE RecentToken(using[c])'
    <2>1. PICK u, role, start :
            u = using[c].sub /\ role = using[c].role /\ start = using[c].asked
      OBVIOUS
    <2>2. u \in DOMAIN users /\ Recent(u, role, start) /\ start \in Times
      BY <1>4, <2>1 DEF TypeOK, ClientRoles, RecentToken, Tokens
    <2>3. Recent(u, role, start)'
      BY <2>2, RecentStays
    <2>4. QED
      BY <2>1, <2>3 DEF RecentToken
  <1>5. QED
    BY <1>1, <1>2, <1>3, <1>4 DEF ClientRoles, Recent, AdminSince

\* A client whose request is over, with the tokens it had.
LEMMA OverRoles ==
    ASSUME TypeOK, [Next]_vars, NEW c \in Clients, ClientRoles(c), Over(c),
           held'[c] = held[c]
    PROVE  ClientRoles(c)'
  <1>1. pc'[c] = "idle" /\ arrived'[c] = 0
    BY DEF Over, TypeOK
  <1>2. \A t \in held[c] : RecentToken(t)'
    BY HeldStay
  <1>3. QED
    BY <1>1, <1>2, AccountsStay DEF ClientRoles, RecentToken, Recent, AdminSince

\* Tokens are as recent as the row they are made from.
LEMMA SignedRecent ==
    ASSUME TypeOK, [Next]_vars, NEW c \in Clients, NEW r \in Rows, r.id \in DOMAIN users,
           Recent(r.id, r.role, arrived[c]), Answer(c, Signed(c, r))
    PROVE  ClientRoles(c)'
  <1>1. pc'[c] = "idle" /\ arrived'[c] = 0 /\ held'[c] = Signed(c, r) /\ users' = users
        /\ now' = now /\ adminUntil' = adminUntil
    BY DEF Answer, Over, TypeOK
  <1>2. \A t \in Signed(c, r) : t.sub = r.id /\ t.role = r.role /\ t.asked = arrived[c]
    BY DEF Signed
  <1>3. 0 <= now
    BY AccountsStay
  <1>4. QED
    BY <1>1, <1>2, <1>3 DEF ClientRoles, RecentToken, Recent, AdminSince

\* A client that sends its request.
LEMMA ArriveRoles ==
    ASSUME TypeOK, [Next]_vars, NEW c \in Clients, ClientRoles(c), held' = held,
           NEW label \in {"existing", "find", "refresh"}, Arrive(c, label)
    PROVE  ClientRoles(c)'
  <1>1. pc'[c] = label /\ arrived'[c] = now
    BY DEF Arrive, TypeOK
  <1>2. \A t \in held[c] : RecentToken(t)'
    BY HeldStay
  <1>3. QED
    BY <1>1, <1>2, AccountsStay DEF ClientRoles, RecentToken, Recent, AdminSince

LEMMA AdminRequestRoles ==
    ASSUME TypeOK, [Next]_vars, NEW c \in Clients, ClientRoles(c), AdminRequest(c)
    PROVE  ClientRoles(c)'
  <1>1. PICK t \in held[c] :
            Verifies(t, "access") /\ t.role = "ADMIN" /\ Present(c, "admin", t)
    BY DEF AdminRequest
  <1>2. /\ pc'[c] = "admin" /\ using'[c] = t /\ arrived'[c] = now
        /\ held' = held /\ users' = users /\ now' = now /\ adminUntil' = adminUntil
    BY <1>1 DEF Present, Arrive, TypeOK
  <1>3. now < t.iat + AccessTTL
    BY <1>1 DEF Verifies, Lifetime
  <1>4. \A s \in held[c] : RecentToken(s)
    BY DEF ClientRoles
  <1>5. QED
    BY <1>1, <1>2, <1>3, <1>4, AccountsStay
    DEF ClientRoles, RecentToken, Recent, AdminSince

\* A client whose row is read, or created, on the way to the merge.
LEMMA MergeRoles ==
    ASSUME TypeOK, [Next]_vars, NEW c \in Clients, ClientRoles(c),
           held' = held, arrived' = arrived, pc'[c] = "merge",
           Recent(row[c].id, row[c].role, arrived[c])'
    PROVE  ClientRoles(c)'
  <1>1. \A t \in held[c] : RecentToken(t)'
    BY HeldStay
  <1>2. arrived[c] <= now'
    BY AccountsStay, AuthAssumption DEF ClientRoles, TypeOK, Times
  <1>3. QED
    BY <1>1, <1>2 DEF ClientRoles, RecentToken, Recent, AdminSince

LEMMA FindUserRoles ==
    ASSUME TypeOK, [Next]_vars, NEW c \in Clients, ClientRoles(c), FindUser(c)
    PROVE  ClientRoles(c)'
  <1>1. CASE Refuse(c, "none")
    BY <1>1, OverRoles DEF Refuse
  <1>2. CASE /\ \E u \in DOMAIN users : Matches(c, u) /\ row' = [row EXCEPT ![c] = RowOf(u)]
             /\ Goto(c, "merge")
             /\ UNCHANGED <<users, now, held, reply, adminUntil>>
    <2>1. PICK u \in DOMAIN users : row' = [row EXCEPT ![c] = RowOf(u)]
      BY <1>2
    <2>2. row'[c] = RowOf(u) /\ pc'[c] = "merge" /\ arrived' = arrived /\ held' = held
      BY <1>2, <2>1 DEF Goto, TypeOK
    <2>3. Recent(RowOf(u).id, RowOf(u).role, arrived[c])
      BY PresentRow DEF TypeOK, ClientRoles
    <2>4. Recent(row[c].id, row[c].role, arrived[c])'
      BY <1>2, <2>2, <2>3 DEF Recent, AdminSince
    <2>5. QED
      BY <2>2, <2>4, MergeRoles
  <1>3. QED
    BY <1>1, <1>2 DEF FindUser

LEMMA CreateUserRoles ==
    ASSUME TypeOK, [Next]_vars, NEW c \in Clients, ClientRoles(c), CreateUser(c)
    PROVE  ClientRoles(c)'
  <1>1. CASE Taken(creds[c].email)
    BY <1>1, OverRoles DEF CreateUser, CreateTaken, Refuse
  <1>2. CASE ~Taken(creds[c].email)
    <2>1. /\ row'[c].role = "CUSTOMER" /\ pc'[c] = "merge"
          /\ arrived' = arrived /\ held' = held /\ now' = now
      BY <1>2 DEF CreateUser, Goto, TypeOK
    <2>2. Recent(row[c].id, row[c].role, arrived[c])'
      BY <2>1 DEF Recent, ClientRoles
    <2>3. QED
      BY <2>1, <2>2, MergeRoles
  <1>3. QED
    BY <1>1, <1>2

LEMMA FindExistingRoles ==
    ASSUME TypeOK, [Next]_vars, NEW c \in Clients, ClientRoles(c), FindExisting(c)
    PROVE  ClientRoles(c)'
  <1>1. CASE Refuse(c, "conflict")
    BY <1>1, OverRoles DEF Refuse
  <1>2. CASE Goto(c, "create") /\ UNCHANGED <<users, now, row, held, reply, adminUntil>>
    <2>1. pc'[c] = "create" /\ arrived' = arrived /\ held' = held /\ now' = now
      BY <1>2 DEF Goto, TypeOK
    <2>2. \A t \in held[c] : RecentToken(t)'
      BY HeldStay
    <2>3. QED
      BY <2>1, <2>2 DEF ClientRoles, RecentToken, Recent, AdminSince
  <1>3. QED
    BY <1>1, <1>2 DEF FindExisting

Acts(c) ==
    \/ Register(c) \/ FindExisting(c) \/ CreateUser(c)
    \/ Login(c) \/ FindUser(c) \/ SignIn(c)
    \/ Refresh(c) \/ FindRefreshed(c)
    \/ AdminRequest(c) \/ AdminDone(c)
    \/ RequestFails(c)

\* What a client does leaves the other clients alone.
LEMMA OthersRest ==
    ASSUME TypeOK, NEW c \in Clients, Acts(c), NEW d \in Clients, d # c
    PROVE  /\ pc'[d] = pc[d] /\ row'[d] = row[d] /\ using'[d] = using[d]
           /\ creds'[d] = creds[d] /\ arrived'[d] = arrived[d] /\ held'[d] = held[d]
  <1>1. CASE Over(c)
    <2>1. held' = held \/ \E T : held' = [held EXCEPT ![c] = T]
      BY <1>1 DEF Acts, Register, Submit, FindExisting, CreateUser, CreateTaken, Login,
         FindUser, SignIn, Refresh, FindRefreshed, AdminRequest, Present, AdminDone,
         RequestFails, Goto, Refuse, Answer
    <2>2. QED
      BY <1>1, <2>1 DEF Over, TypeOK
  <1>2. CASE Register(c) \/ Login(c)
    BY <1>2 DEF Register, Login, Submit, Arrive, TypeOK
  <1>3. CASE Refresh(c) \/ AdminRequest(c)
    BY <1>3 DEF Refresh, AdminRequest, Present, Arrive, TypeOK
  <1>4. CASE FindExisting(c) /\ ~Over(c)
    BY <1>4 DEF FindExisting, Refuse, Goto, TypeOK
  <1>5. CASE CreateUser(c) /\ ~Over(c)
    BY <1>5 DEF CreateUser, CreateTaken, Refuse, Goto, TypeOK
  <1>6. CASE FindUser(c) /\ ~Over(c)
    BY <1>6 DEF FindUser, Refuse, Goto, TypeOK
  <1>7. SignIn(c) \/ FindRefreshed(c) \/ AdminDone(c) \/ RequestFails(c) => Over(c)
    BY DEF SignIn, FindRefreshed, AdminDone, RequestFails, Answer
  <1>8. QED
    BY <1>1, <1>2, <1>3, <1>4, <1>5, <1>6, <1>7 DEF Acts

LEMMA RoleStep == TypeOK /\ RoleInv /\ [Next]_vars => RoleInv'
  <1> SUFFICES ASSUME TypeOK, RoleInv, [Next]_vars, NEW d \in Clients
               PROVE  ClientRoles(d)'
    BY DEF RoleInv
  <1>d. ClientRoles(d)
    BY DEF RoleInv
  <1>1. CASE Register(d)
    BY <1>1, <1>d, ArriveRoles DEF Register, Submit
  <1>2. CASE Login(d)
    BY <1>2, <1>d, ArriveRoles DEF Login, Submit
  <1>3. CASE Refresh(d)
    BY <1>3, <1>d, ArriveRoles DEF Refresh, Present
  <1>4. CASE SignIn(d)
    <2>1. row[d] \in Rows /\ row[d].id \in DOMAIN users
      BY <1>4, RowsRead DEF SignIn
    <2>2. Recent(row[d].id, row[d].role, arrived[d])
      BY <1>4, <1>d DEF SignIn, ClientRoles
    <2>3. QED
      BY <1>4, <2>1, <2>2, SignedRecent DEF SignIn
  <1>5. CASE FindRefreshed(d)
    <2>1. using[d].sub \in DOMAIN users
      BY <1>5, RowsRead DEF FindRefreshed
    <2>2. PICK u \in DOMAIN users : u = using[d].sub
      BY <2>1
    <2>3. Recent(RowOf(u).id, RowOf(u).role, arrived[d])
      BY <1>d, PresentRow DEF TypeOK, ClientRoles
    <2>4. RowOf(u) \in Rows /\ RowOf(u).id = u /\ Answer(d, Signed(d, RowOf(u)))
      BY <1>5, <2>2, UserRow DEF FindRefreshed, RefreshedRow
    <2>5. QED
      BY <2>3, <2>4, SignedRecent
  <1>6. CASE AdminDone(d) \/ RequestFails(d)
    BY <1>6, <1>d, OverRoles DEF AdminDone, RequestFails
  <1>7. CASE \E c \in Clients \ {d} : Acts(c)
    BY <1>7, <1>d, OthersRest, RestStay
  <1>8. CASE (\E u \in DOMAIN users : SetRole(u)) \/ Tick \/ UNCHANGED vars
    BY <1>8, <1>d, RestStay DEF SetRole, Tick, vars, requests
  <1>9. QED
    BY <1>1, <1>2, <1>3, <1>4, <1>5, <1>6, <1>7, <1>8, <1>d,
       FindUserRoles, CreateUserRoles, FindExistingRoles, AdminRequestRoles DEF Next, Acts

LEMMA RoleInit == Init => RoleInv
  <1> SUFFICES ASSUME Init, NEW c \in Clients PROVE ClientRoles(c)
    BY DEF RoleInv
  <1>1. pc[c] = "idle" /\ held[c] = {} /\ arrived[c] = 0 /\ now = 0
    BY DEF Init
  <1>2. QED
    BY <1>1 DEF ClientRoles

\* Whoever is let through as an admin was one at some moment since the request for
\* the token arrived, and the token is younger than AccessTTL: refresh reads the
\* role again (auth.service.ts 80-83), and the guards take no refresh token.
THEOREM AdminsAreRecent == Spec => []AdmittedAdmins
  <1>1. RoleInv => AdmittedAdmins
    BY DEF RoleInv, ClientRoles, AdmittedAdmins, RecentToken, Recent
  <1>2. QED
    BY <1>1, TypeInit, TypeStep, RoleInit, RoleStep, PTL DEF Spec
-----------------------------------------------------------------------------
(* Whose account a token is for *)

Owned(u, cr) == users[u].email = cr.email /\ users[u].password = cr.password

\* A request that has read or created a row has that of its credentials.
OwnInv == \A c \in Clients : pc[c] = "merge" => Owned(row[c].id, creds[c])

LEMMA OwnInit == Init => OwnInv
  <1> SUFFICES ASSUME Init, NEW c \in Clients PROVE pc[c] # "merge"
    BY DEF OwnInv
  <1>1. QED
    BY DEF Init

LEMMA FindUserOwn ==
    ASSUME TypeOK, NEW c \in Clients, FindUser(c), pc'[c] = "merge"
    PROVE  Owned(row[c].id, creds[c])'
  <1>1. ~Refuse(c, "none")
    BY DEF Refuse, Over, TypeOK
  <1>2. PICK u \in DOMAIN users : Matches(c, u) /\ row' = [row EXCEPT ![c] = RowOf(u)]
    BY <1>1 DEF FindUser
  <1>3. users' = users /\ creds' = creds
    BY <1>1 DEF FindUser, Goto
  <1>4. row'[c].id = u
    BY <1>2 DEF RowOf, TypeOK
  <1>5. QED
    BY <1>2, <1>3, <1>4 DEF Owned, Matches

LEMMA CreateUserOwn ==
    ASSUME TypeOK, NEW c \in Clients, CreateUser(c), pc'[c] = "merge"
    PROVE  Owned(row[c].id, creds[c])'
  <1>1. ~Taken(creds[c].email)
    BY DEF CreateUser, CreateTaken, Refuse, Over, TypeOK
  <1>2. /\ users' = Append(users, [email |-> creds[c].email, role |-> "CUSTOMER",
                                   password |-> creds[c].password])
        /\ row'[c].id = Len(users) + 1
        /\ creds' = creds
    BY <1>1 DEF CreateUser, Goto, TypeOK
  <1>3. users'[Len(users) + 1] = [email |-> creds[c].email, role |-> "CUSTOMER",
                                  password |-> creds[c].password]
    BY <1>2 DEF TypeOK
  <1>4. QED
    BY <1>2, <1>3 DEF Owned

LEMMA OwnStep == TypeOK /\ OwnInv /\ [Next]_vars => OwnInv'
  <1> SUFFICES ASSUME TypeOK, OwnInv, [Next]_vars, NEW d \in Clients, pc'[d] = "merge"
               PROVE  Owned(row[d].id, creds[d])'
    BY DEF OwnInv
  <1>1. ASSUME pc[d] = "merge", row'[d] = row[d], creds'[d] = creds[d]
        PROVE  Owned(row[d].id, creds[d])'
    <2>1. row[d].id \in DOMAIN users /\ Owned(row[d].id, creds[d])
      BY <1>1 DEF TypeOK, OwnInv
    <2>2. QED
      BY <1>1, <2>1, AccountsStay DEF Owned
  <1>2. CASE \E c \in Clients \ {d} : Acts(c)
    BY <1>1, <1>2, OthersRest
  <1>3. CASE FindUser(d) \/ CreateUser(d)
    BY <1>3, FindUserOwn, CreateUserOwn
  <1>4. CASE (\E u \in DOMAIN users : SetRole(u)) \/ Tick \/ UNCHANGED vars
    BY <1>1, <1>4 DEF SetRole, Tick, vars, requests
  <1>5. ASSUME \/ Register(d) \/ Login(d) \/ Refresh(d) \/ AdminRequest(d)
               \/ FindExisting(d)
        PROVE  pc'[d] # "merge"
    BY <1>5 DEF Register, Login, Submit, Refresh, AdminRequest, Present, Arrive,
       FindExisting, Refuse, Over, Goto, TypeOK
  <1>6. SignIn(d) \/ FindRefreshed(d) \/ AdminDone(d) \/ RequestFails(d) => pc'[d] # "merge"
    BY DEF SignIn, FindRefreshed, AdminDone, RequestFails, Answer, Over, TypeOK
  <1>7. QED
    BY <1>2, <1>3, <1>4, <1>5, <1>6 DEF Next, Acts

\* Only an answer changes what a client holds.
LEMMA HeldByAnswer ==
    ASSUME TypeOK, [Next]_vars, NEW d \in Clients, held'[d] # held[d]
    PROVE  SignIn(d) \/ FindRefreshed(d)
  <1>1. ~\E c \in Clients \ {d} : Acts(c)
    BY OthersRest
  <1>2. ~((\E u \in DOMAIN users : SetRole(u)) \/ Tick \/ UNCHANGED vars)
    BY DEF SetRole, Tick, vars
  <1>3. Acts(d)
    BY <1>1, <1>2 DEF Next, Acts
  <1>4. QED
    BY <1>3 DEF Acts, Register, Login, Submit, Refresh, AdminRequest, Present,
       FindExisting, CreateUser, CreateTaken, FindUser, AdminDone, RequestFails, Refuse

\* A client gets tokens for the account whose email and password it sent, however
\* many registrations of that email overlap: the unique index lets one of them
\* create the account, and the others get an error and no token.
THEOREM TokensAreOwn == Spec => OwnAccount
  <1>1. ASSUME TypeOK, OwnInv, [Next]_vars, NEW d \in Clients, held'[d] # held[d],
               NEW t \in held'[d]
        PROVE  IF pc[d] = "refresh"
               THEN t.sub = using[d].sub
               ELSE /\ users[t.sub].email = creds[d].email
                    /\ users[t.sub].password = creds[d].password
    <2>1. CASE SignIn(d)
      <3>1. held'[d] = Signed(d, row[d]) /\ pc[d] = "merge"
        BY <1>1, <2>1 DEF SignIn, Answer, TypeOK
      <3>2. t.sub = row[d].id
        BY <1>1, <3>1 DEF Signed
      <3>3. QED
        BY <1>1, <3>1, <3>2 DEF OwnInv, Owned
    <2>2. CASE FindRefreshed(d)
      <3>1. held'[d] = Signed(d, RefreshedRow(d)) /\ pc[d] = "refresh"
        BY <1>1, <2>2 DEF FindRefreshed, Answer, TypeOK
      <3>2. t.sub = RefreshedRow(d).id
        BY <1>1, <3>1 DEF Signed
      <3>3. QED
        BY <1>1, <3>1, <3>2, RowsRead
    <2>3. QED
      BY <1>1, <2>1, <2>2, HeldByAnswer
  <1>2. TypeOK /\ OwnInv /\ [Next]_vars =>
          [\A c \in Clients : held'[c] # held[c] =>
              \A t \in held'[c] :
                  IF pc[c] = "refresh"
                  THEN t.sub = using[c].sub
                  ELSE /\ users[t.sub].email = creds[c].email
                       /\ users[t.sub].password = creds[c].password]_vars
    BY <1>1
  <1>3. QED
    BY <1>2, TypeInit, TypeStep, OwnInit, OwnStep, PTL DEF Spec, OwnAccount
=============================================================================
