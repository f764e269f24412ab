----------------------------- MODULE MCUpdateFlow -----------------------------
EXTENDS UpdateFlow
CONSTANT chan
OneChannel == {chan}
Bounds == [b \in {Common, chan} |-> IF b = Common THEN 2 ELSE 1]
=============================================================================
