----------------------------- MODULE TransferPool -----------------------------
(***************************************************************************)
(* The worker connections of a Client's parallel transfers (media.py).     *)
(* Every upload or download takes its slots one after the other: a permit  *)
(* of the semaphore all transfers share (max_tcp_connections), then a      *)
(* connection; it keeps what it has while it waits for the next one, and   *)
(* gives all of it back when the gather() of its workers returns or        *)
(* raises.                                                                 *)
(***************************************************************************)
EXTENDS Integers, FiniteSets, SequencesExt

CONSTANTS
  Transfers,   \* uploads and parallel downloads
  MaxConns,    \* TransferLimits.max_tcp_connections
  Want         \* the workers each transfer asks for (its file's size decides)

ASSUME PoolAssumption ==
  /\ IsFiniteSet(Transfers)
  /\ MaxConns \in Nat \ {0}
  /\ Want \in [Transfers -> Nat \ {0}]

VARIABLES
  stage,     \* where each transfer stands
  held,      \* the permits it has
  free,      \* the semaphore's value
  line,      \* the semaphore's waiters, first come first served
  live,      \* its workers that gather() waits for
  orphans    \* its workers still running after gather() raised

poolVars == <<stage, held, free, line, live, orphans>>

Phases == {"new", "asking", "queued", "opening", "starting", "working", "done", "failed"}
Ended == {"done", "failed"}

PoolInit ==
  /\ stage = [t \in Transfers |-> "new"]
  /\ held = [t \in Transfers |-> 0]
  /\ free = MaxConns
  /\ line = <<>>
  /\ live = [t \in Transfers |-> 0]
  /\ orphans = [t \in Transfers |-> 0]

Enter(t, p) == stage' = [stage EXCEPT ![t] = p]

----------------------------------------------------------------------------
(* Taking the slots.                                                        *)

BeginTransfer(t) ==
  /\ stage[t] = "new"
  /\ Enter(t, "asking")
  /\ UNCHANGED <<held, free, line, live, orphans>>

(* _worker_slot(): acquire() suspends while there is no permit, or anyone   *)
(* is before us.                                                            *)
Acquire(t) ==
  /\ stage[t] = "asking" /\ held[t] < Want[t]
  /\ IF free > 0 /\ line = <<>>
       THEN /\ free' = free - 1
            /\ held' = [held EXCEPT ![t] = @ + 1]
            /\ Enter(t, "opening")
            /\ UNCHANGED line
       ELSE /\ line' = Append(line, t)
            /\ Enter(t, "queued")
            /\ UNCHANGED <<free, held>>
  /\ UNCHANGED <<live, orphans>>

(* A release wakes the first waiter.                                        *)
Woken(t) ==
  /\ stage[t] = "queued"
  /\ Head(line) = t
  /\ free > 0
  /\ free' = free - 1
  /\ line' = Tail(line)
  /\ held' = [held EXCEPT ![t] = @ + 1]
  /\ Enter(t, "opening")
  /\ UNCHANGED <<live, orphans>>

OpenSucceeds(t) ==
  /\ stage[t] = "opening"
  /\ Enter(t, "asking")
  /\ UNCHANGED <<held, free, line, live, orphans>>

(* A failed connection whose permit is not given back.                       *)
OpenFailsKeeping(t) ==
  /\ stage[t] = "opening"
  /\ held' = [held EXCEPT ![t] = @ - 1]
  /\ Enter(t, "starting")
  /\ UNCHANGED <<free, line, live, orphans>>

(* The context of the slot is left: its permit is free again, and the       *)
(* transfer goes on with the workers it has.                                *)
OpenFails(t) ==
  /\ stage[t] = "opening"
  /\ held' = [held EXCEPT ![t] = @ - 1]
  /\ free' = free + 1
  /\ Enter(t, "starting")
  /\ UNCHANGED <<line, live, orphans>>

----------------------------------------------------------------------------
(* The workers.                                                             *)

(* One worker for each slot, or one on the home connection.                 *)
Start(t) ==
  /\ stage[t] = "starting" \/ (stage[t] = "asking" /\ held[t] = Want[t])
  /\ live' = [live EXCEPT ![t] = IF held[t] = 0 THEN 1 ELSE held[t]]
  /\ Enter(t, "working")
  /\ UNCHANGED <<held, free, line, orphans>>

(* AsyncExitStack.aclose().                                                 *)
Close(t) ==
  /\ free' = free + held[t]
  /\ held' = [held EXCEPT ![t] = 0]

(* A worker finds no part left; after the last one gather() returns.        *)
WorkerReturns(t) ==
  /\ stage[t] = "working"
  /\ live' = [live EXCEPT ![t] = @ - 1]
  /\ IF live[t] = 1
       THEN Close(t) /\ Enter(t, "done")
       ELSE UNCHANGED <<held, free, stage>>
  /\ UNCHANGED <<line, orphans>>

(* A worker gives up a part, its connection died or the handle was          *)
(* cancelled: gather() raises at once and cancels none of the others.       *)
WorkerRaises(t) ==
  /\ stage[t] = "working"
  /\ Close(t)
  /\ Enter(t, "failed")
  /\ orphans' = [orphans EXCEPT ![t] = live[t] - 1]
  /\ live' = [live EXCEPT ![t] = 0]
  /\ UNCHANGED line

OrphanEnds(t) ==
  /\ orphans[t] > 0
  /\ orphans' = [orphans EXCEPT ![t] = @ - 1]
  /\ UNCHANGED <<stage, held, free, line, live>>

(* A cancelled task that stays among the waiters.                           *)
CancelInLine(t) ==
  /\ stage[t] \notin Ended \cup {"new"}
  /\ Close(t)
  /\ Enter(t, "failed")
  /\ live' = [live EXCEPT ![t] = 0]
  /\ UNCHANGED <<line, orphans>>

(* The task that runs the transfer is cancelled: out of the line, out of    *)
(* the slot it is opening, and out of those it has -- by the finally once   *)
(* the workers run, before that by the finalizers of the contexts it left   *)
(* behind, which run at once here.                                          *)
Cancel(t) ==
  /\ stage[t] \notin Ended \cup {"new"}
  /\ Close(t)
  /\ IF stage[t] = "queued" THEN \E i \in DOMAIN line : line[i] = t /\ line' = RemoveAt(line, i)
     ELSE UNCHANGED line
  /\ Enter(t, "failed")
  /\ live' = [live EXCEPT ![t] = 0]
  /\ UNCHANGED orphans

----------------------------------------------------------------------------
PoolNext == \E t \in Transfers :
  \/ BeginTransfer(t) \/ Acquire(t) \/ Woken(t) \/ OpenSucceeds(t) \/ OpenFails(t)
  \/ Start(t) \/ WorkerReturns(t) \/ WorkerRaises(t) \/ OrphanEnds(t) \/ Cancel(t)

(* Ready tasks run, an opening ends (connect() has a timeout), and the      *)
(* parts run out or an attempt is the last one.                             *)
PoolFairness == \A t \in Transfers :
  /\ WF_poolVars(Acquire(t)) /\ WF_poolVars(Woken(t)) /\ WF_poolVars(Start(t))
  /\ WF_poolVars(OpenSucceeds(t) \/ OpenFails(t))
  /\ WF_poolVars(WorkerReturns(t) \/ WorkerRaises(t))

PoolSpec == PoolInit /\ [][PoolNext]_poolVars
FairPoolSpec == PoolSpec /\ PoolFairness

----------------------------------------------------------------------------
(* Properties.                                                              *)

(* The permits a transfer holds, numbered so that they can be counted.      *)
Permits(t) == {t} \X (1 .. held[t])

(* No permit is lost or made, whatever fails or is cancelled in whatever    *)
(* order: what is free and what the transfers still under way hold add up,  *)
(* so that one that is over, one way or another, keeps nothing.             *)
PermitsConserved ==
  free + Cardinality(UNION {Permits(t) : t \in {u \in Transfers : stage[u] \notin Ended}}) = MaxConns

(* A transfer that began ends.                                              *)
EveryTransferEnds ==
  \A t \in Transfers : stage[t] # "new" ~> stage[t] \in Ended
=============================================================================
