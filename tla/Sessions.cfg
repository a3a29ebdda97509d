\* Two tabs of one browser, two requests in flight.
SPECIFICATION Spec
CONSTANTS
    Tabs = {t1, t2}
    Requests = {r1, r2}
    MaxGuests = 3
    Account = Account
    Valid = Valid
    Expired = Expired
    Nothing = Nothing
INVARIANTS GuestCartsTracked
PROPERTIES UsersLeaveGuestCarts
