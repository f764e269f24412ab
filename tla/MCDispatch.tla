----------------------------- MODULE MCDispatch -----------------------------
EXTENDS Dispatch, TLC
MCFunc == [h \in Handlers |-> IF h = "h2" THEN "f2" ELSE "f1"]
MCWants == [h \in Handlers |-> IF h = "h3" THEN {"u1"} ELSE Updates]
MCGroups == {-1, 0}
=============================================================================
