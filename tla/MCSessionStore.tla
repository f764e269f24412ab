---------------------------- MODULE MCSessionStore ----------------------------
EXTENDS SessionStore
=============================================================================
