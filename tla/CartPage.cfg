\* Three PATCHes at once for a line that is removed and added again.
SPECIFICATION PageSpec
CONSTANTS
    Edits = {e1, e2, e3}
    MaxTyped = 2
    MaxRows = 2
    NoLine = NoLine
    Nothing = Nothing
INVARIANTS SettledPageIsCurrent
