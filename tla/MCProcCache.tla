---------------------------- MODULE MCProcCache ----------------------------
EXTENDS ProcCache, TLC

CONSTANTS p2, p3, p4

AnyPid == Permutations(Pids)

=============================================================================
