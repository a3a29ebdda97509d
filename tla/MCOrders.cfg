\* Two checkouts of two shoppers, carts of up to two units of two variants.
SPECIFICATION Spec
CONSTANTS
    u1 = u1
    u2 = u2
    a1 = a1
    a2 = a2
    v1 = v1
    v2 = v2
    r1 = r1
    r2 = r2
    r3 = r3
    Users = {u1, u2}
    Addresses = {a1, a2}
    Variants = {v1, v2}
    Requests = {r1, r2}
    AddressOwner <- MCAddressOwner
    Stock <- MCStock
    Price <- MCPrice
    MaxQuantity = 2
    MaxTotal = 6
    NoOrder = NoOrder
    NoVariant = NoVariant
SYMMETRY RequestSymmetry
INVARIANTS TypeOK ReservationInv OrdersWithinStock AuditTrailExplainsStock TotalIsSumOfItems
PROPERTIES StockMovesOnlyWithOrder ImplementsAtomicCheckout
