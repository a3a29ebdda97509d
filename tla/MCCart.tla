------------------------------- MODULE MCCart -------------------------------
EXTENDS Cart, TLC

\* CHOOSE picks ids and keys, so that only the requests are interchangeable.
CartSymmetry == Permutations(Requests)
=============================================================================
