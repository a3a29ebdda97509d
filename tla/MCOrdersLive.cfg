\* Two checkouts that may wait for each other, carts of up to one unit of two variants.
SPECIFICATION FairSpec
CONSTANTS
    u1 = u1
    u2 = u2
    a1 = a1
    a2 = a2
    v1 = v1
    v2 = v2
    r1 = r1
    r2 = r2
    r3 = r3
    Users = {u1, u2}
    Addresses = {a1, a2}
    Variants = {v1, v2}
    Requests = {r1, r2}
    AddressOwner <- MCAddressOwner
    Stock <- MCStockTwo
    Price <- MCPrice
    MaxQuantity = 1
    MaxTotal = 6
    NoOrder = NoOrder
    NoVariant = NoVariant
PROPERTIES CheckoutAnswered
