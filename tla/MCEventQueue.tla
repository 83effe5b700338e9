---------------------------- MODULE MCEventQueue ----------------------------
EXTENDS EventQueue
==============================================================================
