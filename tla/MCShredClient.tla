------------------------------ MODULE MCShredClient ------------------------------
EXTENDS ShredClient

\* No limit, and one that a single reconnection exhausts.
MCBudgets == {0, 2}
===============================================================================
