----------------------------- MODULE MCConsole -----------------------------
EXTENDS Console

CONSTANTS r1, r2, s1, a, b

=============================================================================
