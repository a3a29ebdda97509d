------------------------------ MODULE Sessions ------------------------------
(***************************************************************************)
(* Who a shopper is to the API: the tabs of one browser                    *)
(* (apps/web/src/lib/auth-context.tsx, lib/guest-cart.ts, the header, the  *)
(* login page, the button that adds to the cart) and the API's cart routes *)
(* (cart.controller.ts, optional-jwt-auth.guard.ts), which find the cart   *)
(* by what a request carries.  The tabs share localStorage, and each keeps *)
(* the session it found there when it was loaded.                          *)
(*                                                                         *)
(* There is one account and one variant.  Of a cart there is whether the   *)
(* variant is in it, and the API serves a request in one step: Cart has    *)
(* the quantities and the steps.                                           *)
(***************************************************************************)
EXTENDS Naturals

CONSTANTS
    Tabs,
    Requests,        \* requests in flight at once
    MaxGuests,       \* bound: guest ids ever made
    Account,         \* the account's cart
    Valid, Expired,  \* access tokens
    Nothing

Guests == 1..MaxGuests
Tokens == {Valid, Expired}

ASSUME SessionsAssumption ==
    /\ MaxGuests \in Nat
    /\ Valid # Expired
    /\ Nothing \notin Tabs \cup Tokens \cup 1..(MaxGuests + 1)
    /\ Account \notin Guests \cup {Nothing}

VARIABLES
    stored, guestId, ids,  \* localStorage, and the number of guest ids made
    session,               \* the tabs: the token in the state of AuthProvider
    filled,                \* the carts that have the variant
    req,                   \* the requests in flight, each with its headers
    raced                  \* history: guest ids with a write in flight next to a login

storage == <<stored, guestId, ids>>
vars == <<storage, session, filled, req, raced>>

Idle == [pc |-> "idle", op |-> "none", tab |-> Nothing, token |-> Nothing, guest |-> Nothing]
RequestStates == [pc : {"sent", "answered"}, op : {"add", "set", "remove", "login"},
                  tab : Tabs \cup {Nothing}, token : Tokens \cup {Nothing},
                  guest : Guests \cup {Nothing}]

TypeOK ==
    /\ stored \in Tokens \cup {Nothing}
    /\ ids \in 0..MaxGuests
    /\ guestId \in 1..ids \cup {Nothing}
    /\ session \in [Tabs -> Tokens \cup {Nothing}]
    /\ filled \subseteq {Account} \cup Guests
    /\ req \in [Requests -> {Idle} \cup RequestStates]
    /\ raced \subseteq Guests

Init ==
    /\ stored = Nothing /\ guestId = Nothing /\ ids = 0
    /\ session = [t \in Tabs |-> Nothing]
    /\ filled = {}
    /\ req = [r \in Requests |-> Idle]
    /\ raced = {}

Sent == {r \in Requests : req[r].pc = "sent"}
Writes == {r \in Sent : req[r].op # "login"}
Logins == {r \in Requests : req[r].op = "login"}
-----------------------------------------------------------------------------
(* A tab sends a request *)

\* getOrCreateGuestCartId
GuestId == IF guestId # Nothing THEN guestId ELSE ids + 1

UseGuestId(id) ==
    /\ id \in Guests \cup {Nothing}
    /\ guestId' = IF id = Nothing THEN guestId ELSE id
    /\ ids' = IF id \in {guestId, Nothing} THEN ids ELSE id

\* Mutant: the guest id goes with every request.
GuestHeaderAlways(t) == GuestId

\* authFetch: the token, and without one the guest id.
GuestHeader(t) == IF session[t] # Nothing THEN Nothing ELSE GuestId

Send(r, op, t, token, id) ==
    /\ req[r] = Idle
    /\ r = CHOOSE q \in Requests : req[q] = Idle    \* any will do
    /\ UseGuestId(id)
    /\ req' = [req EXCEPT ![r] = [pc |-> "sent", op |-> op, tab |-> t, token |-> token,
                                  guest |-> id]]
    /\ UNCHANGED <<stored, session, filled>>

\* The button and the fields of the cart page: nothing limits them to one request,
\* for the button comes back with its page.
SendWrite(r, op, t) ==
    /\ op \in {"add", "set", "remove"}
    /\ Send(r, op, t, session[t], GuestHeader(t))
    /\ raced' = IF Logins # {} THEN raced \cup ({GuestHeader(t)} \cap Guests) ELSE raced

\* Mutant: the cart stays with the guest.
LoginIdNone == Nothing
LoginId == GuestId

\* login() and register(), whose answers are treated alike.  The form, too, comes back
\* with its page, whether the tab is signed in or not.
SendLogin(r, t) ==
    /\ Send(r, "login", t, Nothing, LoginId)
    /\ raced' = raced \cup ({req[q].guest : q \in Writes} \cap Guests)
-----------------------------------------------------------------------------
(* The API *)

\* The cart a request is for: a user's with a token that is valid, or a guest's, or
\* there is none, for the guard takes an expired token for no token.
CartOf(q) == IF q.token = Valid THEN Account ELSE q.guest

Answer(r) ==
    /\ req' = [req EXCEPT ![r].pc = "answered"]
    /\ UNCHANGED <<storage, session, raced>>

Add(r) ==
    /\ r \in Sent /\ req[r].op = "add"
    /\ CartOf(req[r]) # Nothing
    /\ filled' = filled \cup {CartOf(req[r])}
    /\ Answer(r)

\* A quantity above 0: a guest's line is made if it is gone, an account's is not.
Set(r) ==
    /\ r \in Sent /\ req[r].op = "set"
    /\ CartOf(req[r]) \in Guests \cup filled
    /\ filled' = filled \cup {CartOf(req[r])}
    /\ Answer(r)

\* Quantity 0.
Remove(r) ==
    /\ r \in Sent /\ req[r].op = "remove"
    /\ filled' = filled \ {CartOf(req[r])}
    /\ Answer(r)

\* The guest cart is merged and deleted.  An add that fails on the way is logged and
\* passed over, so the line may come to nothing.
Login(r) ==
    /\ r \in Sent /\ req[r].op = "login"
    /\ LET g == req[r].guest
       IN  \/ filled' = IF g \in filled THEN (filled \cup {Account}) \ {g} ELSE filled
           \/ filled' = filled \ {g}
    /\ Answer(r)
-----------------------------------------------------------------------------
(* Answers *)

\* Refused, or lost on the way there or back, or nobody waits for it.
Fails(r) ==
    /\ req[r] # Idle
    /\ req' = [req EXCEPT ![r] = Idle]
    /\ UNCHANGED <<storage, session, filled, raced>>

\* persist(): the guest id is forgotten, whichever it is by now.
LoginAnswered(r, t) ==
    /\ req[r].pc = "answered" /\ req[r].op = "login" /\ req[r].tab = t
    /\ req' = [req EXCEPT ![r] = Idle]
    /\ session' = [session EXCEPT ![t] = Valid]
    /\ stored' = Valid
    /\ guestId' = Nothing
    /\ UNCHANGED <<ids, filled, raced>>
-----------------------------------------------------------------------------
(* Sessions *)

Logout(t) ==
    /\ session[t] # Nothing
    /\ session' = [session EXCEPT ![t] = Nothing]
    /\ stored' = Nothing
    /\ UNCHANGED <<guestId, ids, filled, req, raced>>

\* A new document: nobody waits for what the old one has sent.
Reload(t) ==
    /\ session' = [session EXCEPT ![t] = stored]
    /\ req' = [r \in Requests |-> IF req[r].tab = t THEN [req[r] EXCEPT !.tab = Nothing]
                                                    ELSE req[r]]
    /\ UNCHANGED <<storage, filled, raced>>

Aged(token) == IF token = Valid THEN Expired ELSE token

\* The tokens there are expire.
Expire ==
    /\ stored' = Aged(stored)
    /\ session' = [t \in Tabs |-> Aged(session[t])]
    /\ req' = [r \in Requests |-> [req[r] EXCEPT !.token = Aged(@)]]
    /\ UNCHANGED <<guestId, ids, filled, raced>>

Next ==
    \/ \E r \in Requests :
          \/ Add(r) \/ Set(r) \/ Remove(r) \/ Login(r) \/ Fails(r)
          \/ \E t \in Tabs :
                \/ \E op \in {"add", "set", "remove"} : SendWrite(r, op, t)
                \/ SendLogin(r, t) \/ LoginAnswered(r, t)
    \/ \E t \in Tabs : Logout(t) \/ Reload(t)
    \/ Expire

Spec == Init /\ [][Next]_vars
-----------------------------------------------------------------------------
(* Properties *)

\* A guest cart with something in it is the one whose id the browser has, unless a
\* write to it and a login were in flight together: no cart a shopper filled before
\* signing in, or between two sessions, is left under an id that nobody has.  What a
\* merge drops is gone all the same.
GuestCartsTracked ==
    \A g \in Guests \cap filled : g = guestId \/ g \in raced

\* What a tab sends while it shows a user never goes into a guest cart, whose id the
\* login has forgotten or will: with a token that expired meanwhile it goes nowhere.
UsersLeaveGuestCarts ==
    [][\A g \in Guests : g \in filled' /\ g \notin filled =>
          \E r \in Writes : req'[r] # req[r] /\ req[r].token = Nothing]_vars
=============================================================================
