-------------------------------- MODULE Auth --------------------------------
(***************************************************************************)
(* AuthService and the guards (apps/api/src/auth, .../common/guards):      *)
(* registering, signing in, refreshing, and an admin's request.            *)
(*                                                                         *)
(* Each action is one statement to PostgreSQL with the code around it.  A  *)
(* client has one request at a time and keeps the tokens it got last.  The *)
(* merge of the guest cart, which Cart models, is here the time it takes   *)
(* and a way for the request to fail.  Nothing deletes a user.             *)
(***************************************************************************)
EXTENDS Integers, Sequences

CONSTANTS
    Clients,
    Emails,
    Passwords,
    MaxUsers,     \* bound: accounts
    AccessTTL,
    RefreshTTL,
    MaxTime,      \* bound: the clock
    Nothing

VARIABLES
    users,        \* the table, in order of creation
    now,
    pc, creds, row, using,  \* the clients' requests: what was sent, the row read, the token shown
    held,         \* the tokens each client has
    reply,        \* how its last request to register was refused
    arrived,      \* history: when its request did
    adminUntil    \* history: when a user was last demoted, Never if not

requests == <<pc, creds, row, using, arrived>>
vars == <<users, now, requests, held, reply, adminUntil>>

Roles == {"CUSTOMER", "ADMIN"}
Ids == 1..MaxUsers
Times == 0..MaxTime
Never == -1
Users == [email : Emails, password : Passwords, role : Roles]
Rows == [id : Ids, role : Roles]
\* asked is history: when the request that got the token arrived.
Tokens == [secret : {"access", "refresh"}, sub : Ids, role : Roles, iat : Times, asked : Times]
Credentials == [email : Emails, password : Passwords]

ASSUME AuthAssumption ==
    /\ MaxUsers \in Nat /\ MaxTime \in Nat
    /\ AccessTTL \in Nat \ {0} /\ RefreshTTL \in Nat \ {0}
    /\ Nothing \notin Credentials \cup Rows \cup Tokens

TypeOK ==
    /\ users \in Seq(Users)
    /\ Len(users) <= MaxUsers
    /\ \A u, v \in DOMAIN users : users[u].email = users[v].email => u = v
    /\ now \in Times
    /\ pc \in [Clients -> {"idle", "existing", "create", "find", "merge", "refresh", "admin"}]
    /\ creds \in [Clients -> Credentials \cup {Nothing}]
    /\ row \in [Clients -> Rows \cup {Nothing}]
    /\ using \in [Clients -> Tokens \cup {Nothing}]
    /\ held \in [Clients -> SUBSET Tokens]
    /\ reply \in [Clients -> {"none", "conflict", "internal"}]
    /\ arrived \in [Clients -> Times]
    /\ adminUntil \in [Ids -> Times \cup {Never}]
    /\ \A c \in Clients :
          /\ pc[c] \in {"existing", "create", "find", "merge"} => creds[c] # Nothing
          /\ pc[c] = "merge" => row[c] # Nothing /\ row[c].id \in DOMAIN users
          /\ pc[c] \in {"refresh", "admin"} => using[c] # Nothing /\ using[c].sub \in DOMAIN users
          /\ \A t \in held[c] : t.sub \in DOMAIN users

Init ==
    /\ users = <<>>
    /\ now = 0
    /\ pc = [c \in Clients |-> "idle"]
    /\ creds = [c \in Clients |-> Nothing]
    /\ row = [c \in Clients |-> Nothing]
    /\ using = [c \in Clients |-> Nothing]
    /\ held = [c \in Clients |-> {}]
    /\ reply = [c \in Clients |-> "none"]
    /\ arrived = [c \in Clients |-> 0]
    /\ adminUntil = [u \in Ids |-> Never]
-----------------------------------------------------------------------------
\* Mutant: no unique index, and no lookup.
TakenNever(e) == FALSE

\* users_email_key.
Taken(e) == \E u \in DOMAIN users : users[u].email = e

RowOf(u) == [id |-> u, role |-> users[u].role]

Lifetime(secret) == IF secret = "access" THEN AccessTTL ELSE RefreshTTL

\* jwt.verify, and the strategy of the guards.
Verifies(t, secret) == t.secret = secret /\ now < t.iat + Lifetime(secret)

\* signTokens, now, for a request of c.
Signed(c, r) ==
    [secret : {"access", "refresh"}, sub : {r.id}, role : {r.role},
     iat : {now}, asked : {arrived[c]}]

Arrive(c, label) ==
    /\ pc[c] = "idle"
    /\ pc' = [pc EXCEPT ![c] = label]
    /\ reply' = [reply EXCEPT ![c] = "none"]
    /\ arrived' = [arrived EXCEPT ![c] = now]

Over(c) ==
    /\ pc' = [pc EXCEPT ![c] = "idle"]
    /\ creds' = [creds EXCEPT ![c] = Nothing]
    /\ row' = [row EXCEPT ![c] = Nothing]
    /\ using' = [using EXCEPT ![c] = Nothing]
    /\ arrived' = [arrived EXCEPT ![c] = 0]

Refuse(c, status) ==
    /\ Over(c)
    /\ reply' = [reply EXCEPT ![c] = status]
    /\ UNCHANGED <<users, now, held, adminUntil>>

\* The browser keeps the tokens of an answer in place of those it had.
Answer(c, tokens) ==
    /\ Over(c)
    /\ held' = [held EXCEPT ![c] = tokens]
    /\ UNCHANGED <<users, now, reply, adminUntil>>

\* PostgreSQL or Redis fails, the API dies, or the answer is lost.
RequestFails(c) ==
    /\ pc[c] # "idle"
    /\ Over(c)
    /\ UNCHANGED <<users, now, held, reply, adminUntil>>
-----------------------------------------------------------------------------
(* register and login *)

Submit(c, label, e, p) ==
    /\ Arrive(c, label)
    /\ creds' = [creds EXCEPT ![c] = [email |-> e, password |-> p]]
    /\ UNCHANGED <<users, now, row, using, held, adminUntil>>

Register(c) == \E e \in Emails, p \in Passwords : Submit(c, "existing", e, p)
Login(c) == \E e \in Emails, p \in Passwords : Submit(c, "find", e, p)

Goto(c, label) ==
    /\ pc' = [pc EXCEPT ![c] = label]
    /\ UNCHANGED <<creds, using, arrived>>

FindExisting(c) ==
    /\ pc[c] = "existing"
    /\ IF Taken(creds[c].email)
       THEN Refuse(c, "conflict")
       ELSE Goto(c, "create") /\ UNCHANGED <<users, now, row, held, reply, adminUntil>>

\* Mutant: an upsert, which takes the account that is there.
CreateTakenUpserts(c) ==
    /\ \E u \in DOMAIN users :
          users[u].email = creds[c].email /\ row' = [row EXCEPT ![c] = RowOf(u)]
    /\ Goto(c, "merge")
    /\ UNCHANGED <<users, now, held, reply, adminUntil>>

\* A row that breaks the unique index is an error nobody catches.
CreateTaken(c) == Refuse(c, "internal")

\* user.create
CreateUser(c) ==
    /\ pc[c] = "create"
    /\ IF Taken(creds[c].email)
       THEN CreateTaken(c)
       ELSE /\ Len(users) < MaxUsers
            /\ users' = Append(users, [email |-> creds[c].email, role |-> "CUSTOMER",
                                       password |-> creds[c].password])
            /\ row' = [row EXCEPT ![c] = [id |-> Len(users) + 1, role |-> "CUSTOMER"]]
            /\ Goto(c, "merge")
            /\ UNCHANGED <<now, held, reply, adminUntil>>

Matches(c, u) == users[u].email = creds[c].email /\ users[u].password = creds[c].password

FindUser(c) ==
    /\ pc[c] = "find"
    /\ \/ /\ \A u \in DOMAIN users : ~Matches(c, u)
          /\ Refuse(c, "none")
       \/ /\ \E u \in DOMAIN users :
                Matches(c, u) /\ row' = [row EXCEPT ![c] = RowOf(u)]
          /\ Goto(c, "merge")
          /\ UNCHANGED <<users, now, held, reply, adminUntil>>

\* The merge is over: tokens for the row as it was read.
SignIn(c) ==
    /\ pc[c] = "merge"
    /\ Answer(c, Signed(c, row[c]))
-----------------------------------------------------------------------------
(* refresh, and a route for admins; refusing a token changes nothing *)

Present(c, label, t) ==
    /\ Arrive(c, label)
    /\ using' = [using EXCEPT ![c] = t]
    /\ UNCHANGED <<users, now, creds, row, held, adminUntil>>

Refresh(c) == \E t \in held[c] : Verifies(t, "refresh") /\ Present(c, "refresh", t)

\* Mutant: the role the refresh token has.
RefreshedRowOfToken(c) == [id |-> using[c].sub, role |-> using[c].role]
RefreshedRow(c) == RowOf(using[c].sub)

FindRefreshed(c) ==
    /\ pc[c] = "refresh"
    /\ Answer(c, Signed(c, RefreshedRow(c)))

\* JwtAuthGuard, then RolesGuard.
AdminRequest(c) ==
    \E t \in held[c] :
        /\ Verifies(t, "access")
        /\ t.role = "ADMIN"
        /\ Present(c, "admin", t)

\* The handler has made the change.
AdminDone(c) ==
    /\ pc[c] = "admin"
    /\ Over(c)
    /\ UNCHANGED <<users, now, held, reply, adminUntil>>
-----------------------------------------------------------------------------
\* A role is changed by hand.
SetRole(u) ==
    /\ \E r \in Roles \ {users[u].role} : users' = [users EXCEPT ![u].role = r]
    /\ adminUntil' = IF users[u].role = "ADMIN" THEN [adminUntil EXCEPT ![u] = now]
                                                ELSE adminUntil
    /\ UNCHANGED <<now, requests, held, reply>>

Tick ==
    /\ now < MaxTime
    /\ now' = now + 1
    /\ UNCHANGED <<users, requests, held, reply, adminUntil>>

Next ==
    \/ \E c \in Clients :
          \/ Register(c) \/ FindExisting(c) \/ CreateUser(c)
          \/ Login(c) \/ FindUser(c) \/ SignIn(c)
          \/ Refresh(c) \/ FindRefreshed(c)
          \/ AdminRequest(c) \/ AdminDone(c)
          \/ RequestFails(c)
    \/ \E u \in DOMAIN users : SetRole(u)
    \/ Tick

Spec == Init /\ [][Next]_vars
-----------------------------------------------------------------------------
(* Properties *)

\* u was an admin at start or later.
AdminSince(u, start) == users[u].role = "ADMIN" \/ adminUntil[u] >= start

\* A request that is let through as an admin's shows a token younger than
\* AccessTTL, and its user was an admin at some moment since the request that got
\* the token arrived: a role outlives its change by no more than that, however
\* often the tokens have been refreshed since.
AdmittedAdmins ==
    \A c \in Clients : pc[c] = "admin" =>
        /\ arrived[c] < using[c].iat + AccessTTL
        /\ AdminSince(using[c].sub, using[c].asked)

\* Tokens are for the account whose email and password the request named, also
\* when registrations of one email overlap, and a refresh keeps the account.
OwnAccount ==
    [][\A c \in Clients : held'[c] # held[c] =>
          \A t \in held'[c] :
              IF pc[c] = "refresh"
              THEN t.sub = using[c].sub
              ELSE /\ users[t.sub].email = creds[c].email
                   /\ users[t.sub].password = creds[c].password]_vars
=============================================================================
