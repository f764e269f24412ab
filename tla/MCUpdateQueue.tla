---------------------------- MODULE MCUpdateQueue ----------------------------
EXTENDS UpdateQueue
(* The three _enqueue_update knows, and one it does not.                    *)
AllPolicies == {"block", "drop_oldest", "drop_newest", "unknown"}
=============================================================================
