------------------------------ MODULE LossyFifo ------------------------------
(***************************************************************************)
(* What the update pipeline of a Client promises, without its tasks, its   *)
(* queue or its batches: updates are numbered in the order they are        *)
(* offered; each one waits, and is then either handed to the handlers, in  *)
(* that order, or lost.  It never happens to one update twice.             *)
(***************************************************************************)
EXTENDS Naturals, Sequences

VARIABLES
  offered,   \* how many updates were offered so far
  waiting,   \* the updates accepted and not yet handed over
  handed,    \* the updates given to the handlers, oldest first
  lost       \* the updates nobody will see

vars == <<offered, waiting, handed, lost>>

Oldest(u) == u \in waiting /\ \A v \in waiting : u <= v

Init ==
  /\ offered = 0
  /\ waiting = {}
  /\ handed = <<>>
  /\ lost = {}

(* The next update is accepted; at most one waiting update, the oldest, or *)
(* the new one itself makes room.                                          *)
Offer ==
  /\ offered' = offered + 1
  /\ \E gone \in SUBSET {u \in waiting \cup {offered'} : Oldest(u) \/ u = offered'} :
        /\ \A u, v \in gone : u = v
        /\ waiting' = (waiting \cup {offered'}) \ gone
        /\ lost' = lost \cup gone
  /\ UNCHANGED handed

Hand ==
  \E u \in waiting :
    /\ Oldest(u)
    /\ waiting' = waiting \ {u}
    /\ handed' = Append(handed, u)
    /\ UNCHANGED <<offered, lost>>

Next == Offer \/ Hand

Spec == Init /\ [][Next]_vars
=============================================================================
