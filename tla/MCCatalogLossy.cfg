\* Redis loses bumps and comes back from disk.
SPECIFICATION FairSpec
CONSTANTS
    t = t
    c = c
    Readers = {r1}
    Admins = {a1}
    Keys <- MCProduct
    Tags = {}
    Categories = {c}
    PageSize = 1
    MaxProducts = 1
    MaxWrites = 2
    Reliable = FALSE
    NoAnswer = NoAnswer
INVARIANTS NotFoundIsCurrent
PROPERTIES ReadsEnd CacheSettles
