\* Two requests at a time, with failures.
SPECIFICATION Spec
CONSTANTS
    Variants = {v1}
    UnknownKeys = {x}
    Requests = {r1, r2}
    RowIds = {i1, i2, i3, i4}
    MaxQuantity = 3
    MaxGuest = 2
    Quiet = FALSE
    NoRow = NoRow
SYMMETRY CartSymmetry
INVARIANTS TypeOK AcknowledgedAddsKept
PROPERTIES MergedOnce
