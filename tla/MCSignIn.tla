------------------------------- MODULE MCSignIn -------------------------------
EXTENDS SignIn
=============================================================================
