---------------------------- MODULE MCAcceptLoop ----------------------------
EXTENDS AcceptLoop

MCMix(session) == 3 * session + 1
=============================================================================
