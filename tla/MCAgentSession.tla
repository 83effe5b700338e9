--------------------------- MODULE MCAgentSession ---------------------------
EXTENDS AgentSession
CONSTANTS s1, s2, s3
=============================================================================
