\* Two forms of either kind, two photos and two presses.
SPECIFICATION FairSpec
CONSTANTS
    Forms = {f1, f2}
    Presses = {s1, s2}
    Names = {a, b}
    MaxPicks = 2
    Nothing = Nothing
INVARIANTS ImagesExist LatestUploadIsSent
PROPERTIES FormReturns
