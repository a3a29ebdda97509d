\* Two clients, one email.
SPECIFICATION Spec
CONSTANTS
    Clients = {c1, c2}
    Emails = {e1}
    Passwords = {p1, p2}
    MaxUsers = 2
    AccessTTL = 1
    RefreshTTL = 2
    MaxTime = 3
    Nothing = Nothing
SYMMETRY AuthSymmetry
INVARIANTS TypeOK AdmittedAdmins
PROPERTIES OwnAccount
