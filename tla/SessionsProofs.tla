--------------------------- MODULE SessionsProofs ---------------------------
(***************************************************************************)
(* The properties of Sessions, for any number of tabs, requests in flight  *)
(* and guest ids.                                                          *)
(***************************************************************************)
EXTENDS Sessions, TLAPS

\* A write in flight is to the guest cart of the browser, and with a login next to
\* it the id is a raced one.
WritesTracked ==
    \A r \in Writes : req[r].guest # Nothing =>
        /\ req[r].guest = guestId \/ req[r].guest \in raced
        /\ Logins # {} => req[r].guest \in raced

\* The cart that a login finds not raced is the one it is about to merge.
LoginsMerge ==
    \A l \in Logins, g \in Guests \cap filled :
        g \in raced \/ (req[l].pc = "sent" /\ req[l].guest = g)

OneHeader == \A r \in Requests : req[r].token = Nothing \/ req[r].guest = Nothing

RacedInv == GuestCartsTracked /\ WritesTracked /\ LoginsMerge

SessionsInv == TypeOK /\ RacedInv /\ OneHeader
-----------------------------------------------------------------------------
LEMMA SendType ==
    ASSUME TypeOK, NEW r \in Requests, NEW op \in {"add", "set", "remove", "login"},
           NEW t \in Tabs, NEW token \in Tokens \cup {Nothing}, NEW id \in {Nothing, GuestId},
           Send(r, op, t, token, id), raced' \subseteq Guests
    PROVE  TypeOK'
  <1>1. req' \in [Requests -> {Idle} \cup RequestStates]
    BY DEF TypeOK, Send, UseGuestId, RequestStates
  <1>2. ids' \in 0..MaxGuests /\ guestId' \in 1..ids' \cup {Nothing}
    BY SessionsAssumption DEF TypeOK, Send, UseGuestId, GuestId, Guests
  <1>3. QED
    BY <1>1, <1>2 DEF TypeOK, Send

LEMMA AnswerType ==
    ASSUME TypeOK, NEW r \in Sent, Answer(r), filled' \subseteq {Account} \cup Guests
    PROVE  TypeOK'
  BY DEF TypeOK, Answer, Sent, storage, Idle, RequestStates

\* Every header, request and cart is one of those it may be.
LEMMA TypeStep == TypeOK /\ [Next]_vars => TypeOK'
  <1> SUFFICES ASSUME TypeOK, [Next]_vars PROVE TypeOK'
    OBVIOUS
  <1>1. ASSUME NEW r \in Requests, NEW t \in Tabs, NEW op \in {"add", "set", "remove"},
               SendWrite(r, op, t)
        PROVE  TypeOK'
    <2>1. session[t] \in Tokens \cup {Nothing} /\ raced' \subseteq Guests
      BY <1>1 DEF TypeOK, SendWrite
    <2>2. QED
      BY <1>1, <2>1, SendType DEF SendWrite, GuestHeader
  <1>2. ASSUME NEW r \in Requests, NEW t \in Tabs, SendLogin(r, t) PROVE TypeOK'
    BY <1>2, SendType DEF SendLogin, LoginId, TypeOK
  <1>3. ASSUME NEW r \in Requests, Add(r) \/ Set(r) PROVE TypeOK'
    <2>1. r \in Sent /\ req[r].guest \in Guests \cup {Nothing}
      BY <1>3 DEF Add, Set, TypeOK, Sent, Idle, RequestStates
    <2>2. filled' \subseteq {Account} \cup Guests
      BY <1>3, <2>1, SessionsAssumption DEF Add, Set, TypeOK, CartOf
    <2>3. QED
      BY <1>3, <2>1, <2>2, AnswerType DEF Add, Set
  <1>4. ASSUME NEW r \in Requests, Remove(r) \/ Login(r) PROVE TypeOK'
    <2>1. r \in Sent /\ filled' \subseteq {Account} \cup Guests
      BY <1>4 DEF Remove, Login, TypeOK
    <2>2. QED
      BY <1>4, <2>1, AnswerType DEF Remove, Login
  <1>5. ASSUME NEW r \in Requests, Fails(r) PROVE TypeOK'
    BY <1>5 DEF TypeOK, Fails, storage
  <1>6. ASSUME NEW r \in Requests, NEW t \in Tabs, LoginAnswered(r, t) PROVE TypeOK'
    BY <1>6 DEF TypeOK, LoginAnswered, Tokens
  <1>7. ASSUME NEW t \in Tabs, Logout(t) PROVE TypeOK'
    BY <1>7 DEF TypeOK, Logout
  <1>8. ASSUME NEW t \in Tabs, Reload(t) PROVE TypeOK'
    <2>1. req' \in [Requests -> {Idle} \cup RequestStates]
      BY <1>8, SessionsAssumption DEF TypeOK, Reload, Idle, RequestStates
    <2>2. QED
      BY <1>8, <2>1 DEF TypeOK, Reload, storage
  <1>9. CASE Expire
    <2>1. \A token \in Tokens \cup {Nothing} : Aged(token) \in Tokens \cup {Nothing}
      BY DEF Aged, Tokens
    <2>2. Aged(Nothing) = Nothing
      BY SessionsAssumption DEF Aged, Tokens
    <2>3. req' \in [Requests -> {Idle} \cup RequestStates]
      BY <1>9, <2>1, <2>2 DEF TypeOK, Expire, Idle, RequestStates
    <2>4. QED
      BY <1>9, <2>1, <2>3 DEF TypeOK, Expire
  <1>10. CASE UNCHANGED vars
    BY <1>10 DEF TypeOK, vars, storage
  <1>11. QED
    BY <1>1, <1>2, <1>3, <1>4, <1>5, <1>6, <1>7, <1>8, <1>9, <1>10 DEF Next
-----------------------------------------------------------------------------
LEMMA NothingIsNoGuest == Nothing \notin Guests
  BY SessionsAssumption DEF Guests

\* A step that fills no cart, sends nothing and keeps the browser's guest id.
LEMMA QuietStep ==
    ASSUME TypeOK, RacedInv, guestId' = guestId, raced' = raced, filled' \subseteq filled,
           \A q \in Requests : req'[q] # Idle =>
               /\ req'[q].op = req[q].op /\ req'[q].guest = req[q].guest
               /\ req'[q].pc = "sent" => req[q].pc = "sent"
               /\ \/ req'[q].pc = req[q].pc
                  \/ req[q].op = "login" => req[q].guest \notin filled'
    PROVE  RacedInv'
  <1>1. Writes' \subseteq Writes /\ Logins' \subseteq Logins
    BY DEF Writes, Logins, Sent, Idle
  <1>2. GuestCartsTracked'
    BY DEF RacedInv, GuestCartsTracked
  <1>3. WritesTracked'
    BY <1>1 DEF RacedInv, WritesTracked, Writes, Logins, Sent, Idle
  <1>4. LoginsMerge'
    BY <1>1 DEF RacedInv, LoginsMerge, Logins, Idle
  <1>5. QED
    BY <1>2, <1>3, <1>4 DEF RacedInv

\* A write that is served: next to a login, its guest id is a raced one.
LEMMA FillStep ==
    ASSUME TypeOK, RacedInv, NEW r \in Requests, r \in Writes, Answer(r),
           filled' = filled \cup {CartOf(req[r])}, CartOf(req[r]) # Nothing
    PROVE  RacedInv'
  <1>1. /\ guestId' = guestId /\ raced' = raced /\ r \in Requests
        /\ \A q \in Requests : /\ req'[q].op = req[q].op /\ req'[q].guest = req[q].guest
                               /\ q # r => req'[q] = req[q]
        /\ req'[r].pc = "answered"
    BY DEF Answer, storage, TypeOK, Writes, Sent, Idle, RequestStates
  <1>2. /\ Writes' = Writes \ {r} /\ Logins' = Logins /\ r \notin Logins
        /\ Writes \subseteq Requests /\ Logins \subseteq Requests
    <2>1. \A q \in Requests : q \in Writes' <=> q \in Writes /\ q # r
      BY <1>1 DEF Writes, Sent
    <2>2. \A q \in Requests : q \in Logins' <=> q \in Logins
      BY <1>1 DEF Logins
    <2>3. QED
      BY <2>1, <2>2 DEF Writes, Logins, Sent
  <1>3. ASSUME NEW g \in Guests, g \in filled', g \notin filled
        PROVE  /\ g = guestId \/ g \in raced
               /\ Logins # {} => g \in raced
    <2>1. req[r].guest = g
      BY <1>3, SessionsAssumption DEF CartOf
    <2>2. QED
      BY <2>1, NothingIsNoGuest DEF RacedInv, WritesTracked
  <1>4. GuestCartsTracked'
    BY <1>1, <1>3 DEF RacedInv, GuestCartsTracked
  <1>5. WritesTracked'
    BY <1>1, <1>2 DEF RacedInv, WritesTracked
  <1>6. LoginsMerge'
    <2> SUFFICES ASSUME NEW l \in Logins, NEW g \in Guests \cap filled', g \notin raced
                 PROVE  req'[l].pc = "sent" /\ req'[l].guest = g
      BY <1>1, <1>2 DEF LoginsMerge
    <2>1. g \in filled /\ l \in Requests /\ l # r
      BY <1>2, <1>3
    <2>2. QED
      BY <1>1, <2>1 DEF RacedInv, LoginsMerge
  <1>7. QED
    BY <1>4, <1>5, <1>6 DEF RacedInv

\* What a request sent leaves: the guest id is the one it carries.
LEMMA SendStep ==
    ASSUME TypeOK, NEW r \in Requests, NEW op, NEW t, NEW token, NEW id \in {Nothing, GuestId},
           Send(r, op, t, token, id)
    PROVE  /\ filled' = filled
           /\ guestId # Nothing => guestId' = guestId
           /\ id # Nothing => guestId' = id
           /\ req[r] = Idle
           /\ \A q \in Requests \ {r} : req'[q] = req[q]
           /\ req'[r].pc = "sent" /\ req'[r].op = op /\ req'[r].guest = id
           /\ id \in Guests \cup {Nothing}
  BY SessionsAssumption DEF TypeOK, Send, UseGuestId, GuestId

LEMMA WriteSent ==
    ASSUME TypeOK, RacedInv, NEW r \in Requests, NEW t \in Tabs,
           NEW op \in {"add", "set", "remove"}, SendWrite(r, op, t)
    PROVE  RacedInv'
  <1> DEFINE id == GuestHeader(t)
  <1>1. /\ filled' = filled
        /\ guestId # Nothing => guestId' = guestId
        /\ id # Nothing => guestId' = id
        /\ req[r] = Idle
        /\ \A q \in Requests \ {r} : req'[q] = req[q]
        /\ req'[r].pc = "sent" /\ req'[r].op = op /\ req'[r].guest = id
        /\ id \in Guests \cup {Nothing}
    BY SendStep DEF SendWrite, GuestHeader
  <1>2. raced \subseteq raced' /\ (Logins # {} /\ id # Nothing => id \in raced')
    BY <1>1 DEF SendWrite
  <1>3. /\ Writes' = Writes \cup {r} /\ Logins' = Logins /\ r \notin Logins
        /\ Writes \subseteq Requests /\ r \notin Writes
    BY <1>1 DEF Writes, Logins, Sent, Idle
  <1>4. GuestCartsTracked'
    BY <1>1, <1>2, NothingIsNoGuest DEF RacedInv, GuestCartsTracked
  <1>5. WritesTracked'
    BY <1>1, <1>2, <1>3, NothingIsNoGuest DEF RacedInv, WritesTracked
  <1>6. LoginsMerge'
    BY <1>1, <1>2, <1>3 DEF RacedInv, LoginsMerge, Logins
  <1>7. QED
    BY <1>4, <1>5, <1>6 DEF RacedInv

LEMMA LoginSent ==
    ASSUME TypeOK, RacedInv, NEW r \in Requests, NEW t \in Tabs, SendLogin(r, t)
    PROVE  RacedInv'
  <1>1. /\ filled' = filled
        /\ guestId # Nothing => guestId' = guestId
        /\ guestId' = GuestId
        /\ req[r] = Idle
        /\ \A q \in Requests \ {r} : req'[q] = req[q]
        /\ req'[r].pc = "sent" /\ req'[r].op = "login" /\ req'[r].guest = GuestId
        /\ GuestId # Nothing
    <2>1. GuestId # Nothing
      BY SessionsAssumption DEF SendLogin, Send, UseGuestId, LoginId, GuestId, TypeOK
    <2>2. QED
      BY <2>1, SendStep DEF SendLogin, LoginId
  <1>2. raced \subseteq raced' /\ (\A q \in Writes : req[q].guest \in Guests => req[q].guest \in raced')
    BY DEF SendLogin
  <1>3. /\ Writes' = Writes /\ Logins' = Logins \cup {r} /\ r \notin Writes /\ r \notin Logins
        /\ Logins \subseteq Requests
    BY <1>1 DEF Writes, Logins, Sent, Idle
  <1>4. \A q \in Writes : q \in Requests /\ req[q].guest \in Guests \cup {Nothing}
    BY DEF Writes, Sent, TypeOK, Idle, RequestStates
  <1>5. GuestCartsTracked'
    BY <1>1, <1>2, NothingIsNoGuest DEF RacedInv, GuestCartsTracked
  <1>6. WritesTracked'
    BY <1>1, <1>2, <1>3, <1>4 DEF RacedInv, WritesTracked
  <1>7. LoginsMerge'
    <2> SUFFICES ASSUME NEW l \in Logins', NEW g \in Guests \cap filled, g \notin raced
                 PROVE  req'[l].pc = "sent" /\ req'[l].guest = g
      BY <1>1, <1>2 DEF LoginsMerge
    <2>1. g = guestId /\ g # Nothing
      BY NothingIsNoGuest DEF RacedInv, GuestCartsTracked
    <2>2. CASE l = r
      BY <1>1, <2>1, <2>2 DEF GuestId
    <2>3. CASE l \in Logins
      BY <1>1, <1>3, <2>3 DEF RacedInv, LoginsMerge
    <2>4. QED
      BY <1>3, <2>2, <2>3
  <1>8. QED
    BY <1>5, <1>6, <1>7 DEF RacedInv
\* The cart that is merged is empty, and no other was left to a guest.
LEMMA LoginStep ==
    ASSUME TypeOK, RacedInv, NEW r \in Requests, Login(r) PROVE RacedInv'
  <1>1. /\ guestId' = guestId /\ raced' = raced /\ r \in Logins
        /\ req[r].guest \notin filled' /\ filled' \cap Guests \subseteq filled
        /\ \A q \in Requests : req'[q].op = req[q].op /\ req'[q].guest = req[q].guest
        /\ \A q \in Requests \ {r} : req'[q] = req[q]
        /\ req'[r].pc = "answered" /\ req[r].op = "login"
    BY SessionsAssumption, NothingIsNoGuest
       DEF Login, Answer, storage, TypeOK, Logins, Sent, Idle, RequestStates
  <1>2. GuestCartsTracked'
    BY <1>1 DEF RacedInv, GuestCartsTracked
  <1>3. Writes' = Writes /\ Logins' = Logins /\ Logins \subseteq Requests
    BY <1>1 DEF Writes, Logins, Sent
  <1>4. WritesTracked'
    BY <1>1, <1>3 DEF RacedInv, WritesTracked, Writes, Sent
  <1>5. LoginsMerge'
    BY <1>1, <1>3 DEF RacedInv, LoginsMerge
  <1>6. QED
    BY <1>2, <1>4, <1>5 DEF RacedInv

\* An answered login has left no cart that is not raced, and the id may be forgotten.
LEMMA LoginAnsweredStep ==
    ASSUME TypeOK, RacedInv, NEW r \in Requests, NEW t \in Tabs, LoginAnswered(r, t)
    PROVE  RacedInv'
  <1>1. /\ guestId' = Nothing /\ raced' = raced /\ filled' = filled /\ r \in Logins
        /\ \A q \in Requests \ {r} : req'[q] = req[q]
        /\ req'[r] = Idle /\ req[r].pc = "answered"
    BY DEF LoginAnswered, TypeOK, Logins
  <1>2. Guests \cap filled \subseteq raced
    BY <1>1 DEF RacedInv, LoginsMerge
  <1>3. Writes' = Writes /\ Logins' = Logins \ {r} /\ Writes \subseteq Requests \ {r}
    BY <1>1 DEF Writes, Logins, Sent, Idle
  <1>4. WritesTracked'
    BY <1>1, <1>3 DEF RacedInv, WritesTracked
  <1>5. QED
    BY <1>1, <1>2, <1>4 DEF RacedInv, GuestCartsTracked, LoginsMerge

LEMMA RacedStep == TypeOK /\ RacedInv /\ [Next]_vars => RacedInv'
  <1> SUFFICES ASSUME TypeOK, RacedInv, [Next]_vars PROVE RacedInv'
    OBVIOUS
  <1>1. ASSUME NEW r \in Requests, NEW t \in Tabs, NEW op \in {"add", "set", "remove"},
               SendWrite(r, op, t)
        PROVE  RacedInv'
    BY <1>1, WriteSent
  <1>2. ASSUME NEW r \in Requests, NEW t \in Tabs, SendLogin(r, t) PROVE RacedInv'
    BY <1>2, LoginSent
  <1>3. ASSUME NEW r \in Requests, Add(r) \/ Set(r) PROVE RacedInv'
    <2>1. r \in Writes /\ CartOf(req[r]) # Nothing
      BY <1>3, SessionsAssumption, NothingIsNoGuest DEF Add, Set, Writes, Sent, TypeOK
    <2>2. QED
      BY <1>3, <2>1, FillStep DEF Add, Set
  <1>4. ASSUME NEW r \in Requests, Remove(r) PROVE RacedInv'
    BY <1>4, QuietStep DEF Remove, Answer, storage, TypeOK
  <1>5. ASSUME NEW r \in Requests, Login(r) PROVE RacedInv'
    BY <1>5, LoginStep
  <1>6. ASSUME NEW r \in Requests, Fails(r) PROVE RacedInv'
    BY <1>6, QuietStep DEF Fails, storage, TypeOK
  <1>7. ASSUME NEW r \in Requests, NEW t \in Tabs, LoginAnswered(r, t) PROVE RacedInv'
    BY <1>7, LoginAnsweredStep
  <1>8. ASSUME NEW t \in Tabs, Logout(t) PROVE RacedInv'
    BY <1>8, QuietStep DEF Logout, TypeOK
  <1>9. ASSUME NEW t \in Tabs, Reload(t) PROVE RacedInv'
    <2>1. \A q \in Requests : /\ req'[q].op = req[q].op /\ req'[q].guest = req[q].guest
                              /\ req'[q].pc = req[q].pc
      BY <1>9 DEF Reload, TypeOK, Idle, RequestStates
    <2>2. QED
      BY <1>9, <2>1, QuietStep DEF Reload, storage
  <1>10. CASE Expire
    <2>1. \A q \in Requests : /\ req'[q].op = req[q].op /\ req'[q].guest = req[q].guest
                              /\ req'[q].pc = req[q].pc
      BY <1>10 DEF Expire, TypeOK, Idle, RequestStates
    <2>2. QED
      BY <1>10, <2>1, QuietStep DEF Expire
  <1>11. CASE UNCHANGED vars
    BY <1>11, QuietStep DEF vars, storage
  <1>12. QED
    BY <1>1, <1>2, <1>3, <1>4, <1>5, <1>6, <1>7, <1>8, <1>9, <1>10, <1>11 DEF Next

\* A request carries a token or a guest id.
LEMMA OneHeaderStep == TypeOK /\ OneHeader /\ [Next]_vars => OneHeader'
  <1> SUFFICES ASSUME TypeOK, OneHeader, [Next]_vars PROVE OneHeader'
    OBVIOUS
  <1>1. ASSUME NEW r \in Requests, NEW op, NEW t, NEW token, NEW id, Send(r, op, t, token, id),
               token = Nothing \/ id = Nothing
        PROVE  OneHeader'
    BY <1>1 DEF Send, OneHeader, TypeOK
  <1>2. ASSUME NEW r \in Requests, NEW t \in Tabs, NEW op \in {"add", "set", "remove"},
               SendWrite(r, op, t)
        PROVE  OneHeader'
    BY <1>1, <1>2 DEF SendWrite, GuestHeader
  <1>3. ASSUME NEW r \in Requests, NEW t \in Tabs, SendLogin(r, t) PROVE OneHeader'
    BY <1>1, <1>3 DEF SendLogin
  <1>4. ASSUME NEW r \in Requests, Answer(r) PROVE OneHeader'
    BY <1>4 DEF Answer, OneHeader, TypeOK, Idle, RequestStates
  <1>5. ASSUME NEW r \in Requests, req' = [req EXCEPT ![r] = Idle] PROVE OneHeader'
    BY <1>5 DEF OneHeader, TypeOK, Idle
  <1>6. ASSUME NEW t \in Tabs, Reload(t) PROVE OneHeader'
    BY <1>6 DEF Reload, OneHeader, TypeOK, Idle, RequestStates
  <1>7. CASE Expire
    <2>1. Aged(Nothing) = Nothing
      BY SessionsAssumption DEF Aged, Tokens
    <2>2. \A q \in Requests : req'[q].token = Aged(req[q].token) /\ req'[q].guest = req[q].guest
      BY <1>7 DEF Expire, TypeOK, Idle, RequestStates
    <2>3. QED
      BY <2>1, <2>2 DEF OneHeader
  <1>8. ASSUME req' = req PROVE OneHeader'
    BY <1>8 DEF OneHeader
  <1>9. ASSUME NEW r \in Requests, Add(r) \/ Set(r) \/ Remove(r) \/ Login(r) PROVE OneHeader'
    BY <1>4, <1>9 DEF Add, Set, Remove, Login
  <1>10. ASSUME NEW t \in Tabs, Logout(t) PROVE OneHeader'
    BY <1>8, <1>10 DEF Logout
  <1>11. CASE UNCHANGED vars
    BY <1>8, <1>11 DEF vars
  <1>12. QED
    BY <1>2, <1>3, <1>5, <1>6, <1>7, <1>9, <1>10, <1>11 DEF Next, Fails, LoginAnswered
-----------------------------------------------------------------------------
LEMMA SessionsIsInvariant == Spec => []SessionsInv
  <1>1. Init => SessionsInv
    BY SessionsAssumption DEF Init, SessionsInv, TypeOK, RacedInv, GuestCartsTracked,
       OneHeader, WritesTracked, LoginsMerge, Writes, Logins, Sent, Idle
  <1>2. SessionsInv /\ [Next]_vars => SessionsInv'
    BY TypeStep, RacedStep, OneHeaderStep DEF SessionsInv
  <1>3. QED
    BY <1>1, <1>2, PTL DEF Spec

\* Every header, request and cart is one of those it may be.
THEOREM TypeCorrect == Spec => []TypeOK
  BY SessionsIsInvariant, PTL DEF SessionsInv

\* No guest cart is left behind but by a write that is in flight next to a login.
THEOREM CartsAreTracked == Spec => []GuestCartsTracked
  BY SessionsIsInvariant, PTL DEF SessionsInv, RacedInv

\* Nothing a tab sends with a token ends up in a guest cart.
THEOREM UsersStayUsers == Spec => UsersLeaveGuestCarts
  <1>1. SessionsInv /\ [Next]_vars =>
           [\A g \in Guests : g \in filled' /\ g \notin filled =>
               \E r \in Writes : req'[r] # req[r] /\ req[r].token = Nothing]_vars
    <2> SUFFICES ASSUME SessionsInv, [Next]_vars, NEW g \in Guests, g \in filled', g \notin filled
                 PROVE  \E r \in Writes : req'[r] # req[r] /\ req[r].token = Nothing
      OBVIOUS
    <2>1. ASSUME NEW r \in Requests, Add(r) \/ Set(r)
          PROVE  \E q \in Writes : req'[q] # req[q] /\ req[q].token = Nothing
      <3>1. r \in Writes /\ req'[r] # req[r]
        <4>1. req \in [Requests -> {Idle} \cup RequestStates]
          BY DEF SessionsInv, TypeOK
        <4>2. req[r].pc = "sent" /\ req'[r].pc = "answered"
          BY <2>1, <4>1 DEF Add, Set, Answer, Sent, Idle, RequestStates
        <4>3. QED
          BY <2>1, <4>2 DEF Add, Set, Writes
      <3>2. CartOf(req[r]) = g
        BY <2>1 DEF Add, Set
      <3>3. req[r].token # Valid /\ req[r].guest # Nothing
        BY <3>2, SessionsAssumption, NothingIsNoGuest DEF CartOf
      <3>4. req[r].token = Nothing
        BY <3>3 DEF SessionsInv, OneHeader
      <3>5. QED
        BY <3>1, <3>4
    <2>2. ASSUME NEW r \in Requests, Login(r) PROVE FALSE
      BY <2>2, SessionsAssumption DEF Login
    <2>3. QED
      BY <2>1, <2>2 DEF Next, vars, storage, SendWrite, SendLogin, Send, Remove, Fails,
         LoginAnswered, Logout, Reload, Expire
  <1>2. QED
    BY <1>1, SessionsIsInvariant, PTL DEF UsersLeaveGuestCarts, Spec
=============================================================================
