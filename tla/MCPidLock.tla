------------------------------ MODULE MCPidLock ------------------------------
EXTENDS PidLock
CONSTANTS p1, p2, p3, p4
=============================================================================
