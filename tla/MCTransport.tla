----------------------------- MODULE MCTransport -----------------------------
EXTENDS Transport
==============================================================================
