---------------------------- MODULE MCTransactionEvents ----------------------------
EXTENDS TransactionEvents

\* Nothing tells one identity from another.
Symmetry == Permutations(Keys)
===============================================================================
