\* Lists, in pages of one product.
SPECIFICATION Spec
CONSTANTS
    t = t
    c = c
    Readers = {r1}
    Admins = {a1}
    Keys <- MCLists
    Tags = {t}
    Categories = {c}
    PageSize = 1
    MaxProducts = 2
    MaxWrites = 2
    Reliable = TRUE
    NoAnswer = NoAnswer
INVARIANTS AcknowledgedWritesAreSeen
