-------------------------- MODULE MCClientLifecycle --------------------------
EXTENDS ClientLifecycle
=============================================================================
