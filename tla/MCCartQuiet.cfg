\* Requests one after the other: the shopping cart a shopper expects.
SPECIFICATION Spec
CONSTANTS
    Variants = {v1, v2}
    UnknownKeys = {x}
    Requests = {r1, r2}
    RowIds = {i1, i2, i3, i4, i5}
    MaxQuantity = 2
    MaxGuest = 2
    Quiet = TRUE
    NoRow = NoRow
SYMMETRY CartSymmetry
PROPERTIES ImplementsShoppingCart
