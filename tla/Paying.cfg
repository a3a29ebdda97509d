\* Two visits to the checkout page by one tab: a call of the first goes on in the second.
SPECIFICATION FairSpec
CONSTANTS
    Tabs = {t1}
    Pages = {p1, p2}
    Calls = {c1, c2}
    MaxUnits = 2
    MaxOrders = 2
    Nothing = Nothing
INVARIANTS OnlyOverlapsOrderTwice OncePerPage UnitsAreAccountedFor
PROPERTIES PayButtonReturns PaidIsShown
