------------------------------- MODULE MCAuth -------------------------------
EXTENDS Auth, TLC

AuthSymmetry == Permutations(Clients) \cup Permutations(Emails) \cup Permutations(Passwords)
=============================================================================
