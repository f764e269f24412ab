----------------------------- MODULE UpdateQueue -----------------------------
(***************************************************************************)
(* The dispatch queue of a Client (client.py): two producers, the update   *)
(* loop _run_updates and the frame pump _run_frame_pump, put updates on    *)
(* one bounded asyncio.Queue; a fixed pool of _worker tasks takes them and *)
(* runs the handlers; the update loop shuts the pool down by putting one   *)
(* None per worker behind whatever is queued.                              *)
(*                                                                         *)
(* asyncio runs one task at a time and switches only where a task really   *)
(* suspends.  `running' is the task that holds the event loop between two  *)
(* suspensions: a batch is put without suspending unless the policy blocks *)
(* on a full queue.                                                        *)
(***************************************************************************)
EXTENDS Naturals, Sequences, FiniteSets

CONSTANTS
  Workers,      \* the worker tasks, Client(workers = ...)
  Capacity,     \* the queue's maxsize
  Policies,     \* the values of Client(update_overflow = ...) considered
  MaxBatch,     \* bound: updates in one batch
  MaxUpdates,   \* bound: updates in a behaviour
  None          \* the sentinel that ends a worker, and "no task"

ASSUME QueueAssumption ==
  /\ IsFiniteSet(Workers) /\ Workers # {}
  /\ Capacity \in Nat \ {0}
  /\ Policies \subseteq {"block", "drop_oldest", "drop_newest", "unknown"}
  /\ MaxBatch \in Nat \ {0}
  /\ MaxUpdates \in Nat
  /\ None \notin Nat
  /\ None \notin {"loop", "pump"}

Producers == {"loop", "pump"}
Updates == 1 .. MaxUpdates

(* Where each task stands.  A worker is waiting in get(), running the       *)
(* handlers of an update, or gone.                                          *)
LoopStates == {"poll", "batch", "blocked", "sentinels", "gather", "returned"}
PumpStates == {"poll", "batch", "blocked", "stopped"}
Waiting == [kind |-> "waiting", update |-> 0]
Exited == [kind |-> "exited", update |-> 0]
Handling(u) == [kind |-> "handling", update |-> u]

VARIABLES
  overflow,    \* self.update_overflow
  queue,       \* self._update_queue, oldest first
  unfinished,  \* the queue's count of items without a task_done()
  task,        \* where each producer stands
  left,        \* updates each producer still has to put from its batch
  running,     \* the producer holding the event loop, or None
  sentinels,   \* None items the shutdown still has to put
  worker,      \* what each worker does
  offered,     \* history: updates numbered in the order they were put
  handed,      \* history: updates given to the handlers, in order
  lost         \* history: updates discarded by the overflow policy, or refused

vars == <<overflow, queue, unfinished, task, left, running, sentinels, worker,
          offered, handed, lost>>

(* A queue that admits one item too many.                                   *)
FullOffByOne == Len(queue) > Capacity

Full == Len(queue) >= Capacity
Runnable(p) == running \in {p, None}
Busy == {w \in Workers : worker[w].kind = "handling"}
Live == {w \in Workers : worker[w] # Exited}
Queued == {queue[i] : i \in DOMAIN queue} \ {None}
NoneAt == {i \in DOMAIN queue : queue[i] = None}
ShuttingDown == task["loop"] \in {"sentinels", "gather", "returned"}

Init ==
  /\ overflow \in Policies
  /\ queue = <<>>
  /\ unfinished = 0
  /\ task = [p \in Producers |-> "poll"]
  /\ left = [p \in Producers |-> 0]
  /\ running = None
  /\ sentinels = Cardinality(Workers)
  /\ worker = [w \in Workers |-> Waiting]
  /\ offered = 0
  /\ handed = <<>>
  /\ lost = {}

----------------------------------------------------------------------------
(* The producers.                                                           *)

(* A batch of updates came back from apply_difference, from                 *)
(* apply_channel_difference or from process_raw.                            *)
BatchArrives(p) ==
  /\ running = None
  /\ task[p] = "poll"
  /\ \E n \in 1 .. MaxBatch :
        /\ offered + left["loop"] + left["pump"] + n <= MaxUpdates
        /\ left' = [left EXCEPT ![p] = n]
  /\ task' = [task EXCEPT ![p] = "batch"]
  /\ running' = p
  /\ UNCHANGED <<overflow, queue, unfinished, sentinels, worker, offered,
                 handed, lost>>

(* The producer moves past one update of its batch and suspends after the   *)
(* last one.                                                                *)
Advance(p) ==
  /\ offered' = offered + 1
  /\ left' = [left EXCEPT ![p] = @ - 1]
  /\ task' = [task EXCEPT ![p] = IF left[p] = 1 THEN "poll" ELSE "batch"]
  /\ running' = IF left[p] = 1 THEN None ELSE p

(* A queue that serves the newest item first.                               *)
PutRoomLifo(p) ==
  /\ ~Full
  /\ queue' = <<offered + 1>> \o queue
  /\ unfinished' = unfinished + 1
  /\ Advance(p)
  /\ UNCHANGED lost

PutRoom(p) ==
  /\ ~Full
  /\ queue' = Append(queue, offered + 1)
  /\ unfinished' = unfinished + 1
  /\ Advance(p)
  /\ UNCHANGED lost

(* An eviction without its task_done(), one that forgets the put after it,  *)
(* and one that takes the newest item.                                      *)
PutEvictingNoTaskDone(p) ==
  /\ Full /\ overflow = "drop_oldest"
  /\ queue' = Append(Tail(queue), offered + 1)
  /\ lost' = lost \cup ({Head(queue)} \ {None})
  /\ unfinished' = unfinished + 1
  /\ Advance(p)

PutEvictingNoPut(p) ==
  /\ Full /\ overflow = "drop_oldest"
  /\ queue' = Tail(queue)
  /\ lost' = lost \cup ({Head(queue)} \ {None})
  /\ unfinished' = unfinished - 1
  /\ Advance(p)

PutEvictingNewest(p) ==
  /\ Full /\ overflow = "drop_oldest"
  /\ queue' = [queue EXCEPT ![Len(queue)] = offered + 1]
  /\ lost' = lost \cup ({queue[Len(queue)]} \ {None})
  /\ Advance(p)
  /\ UNCHANGED unfinished

(* drop_oldest: get_nowait() and task_done() on whatever is oldest, an      *)
(* update or a None, then put_nowait().                                     *)
PutEvicting(p) ==
  /\ Full /\ overflow = "drop_oldest"
  /\ queue' = Append(Tail(queue), offered + 1)
  /\ lost' = lost \cup ({Head(queue)} \ {None})
  /\ Advance(p)
  /\ UNCHANGED unfinished

PutRejected(p) ==
  /\ Full /\ overflow = "drop_newest"
  /\ lost' = lost \cup {offered + 1}
  /\ Advance(p)
  /\ UNCHANGED <<queue, unfinished>>

PutBlocks(p) ==
  /\ Full /\ overflow = "block"
  /\ task[p] = "batch"
  /\ task' = [task EXCEPT ![p] = "blocked"]
  /\ running' = None
  /\ UNCHANGED <<queue, unfinished, left, offered, lost>>

(* An exception in a batch takes the rest of it along: the pump ends, the   *)
(* loop goes into the finally that shuts down.                              *)
Raise(p) ==
  /\ left' = [left EXCEPT ![p] = 0]
  /\ task' = [task EXCEPT ![p] = IF p = "loop" THEN "sentinels" ELSE "stopped"]
  /\ running' = IF p = "loop" THEN p ELSE None

(* The constructor takes any policy; one _enqueue_update does not know      *)
(* raises ValueError once the queue is full.                                *)
PutRaises(p) ==
  /\ Full /\ overflow = "unknown"
  /\ offered' = offered + 1
  /\ lost' = lost \cup {offered + 1}
  /\ Raise(p)
  /\ UNCHANGED <<queue, unfinished>>

(* The update is on the queue, replaced the oldest, was rejected, waits, or *)
(* makes its producer raise.                                                *)
EnqueueUpdate(p) ==
  /\ task[p] \in {"batch", "blocked"}
  /\ Runnable(p)
  /\ PutRoom(p) \/ PutEvicting(p) \/ PutRejected(p) \/ PutBlocks(p) \/ PutRaises(p)
  /\ UNCHANGED <<overflow, sentinels, worker, handed>>

(* Decoding or routing the next update of the batch raised.                 *)
BatchRaises(p) ==
  /\ task[p] = "batch"
  /\ running = p
  /\ Raise(p)
  /\ UNCHANGED <<overflow, queue, unfinished, sentinels, worker, offered,
                 handed, lost>>

----------------------------------------------------------------------------
(* The workers.                                                             *)

(* get() returned: a None ends the worker, task_done() included.            *)
Take(w) ==
  /\ running = None
  /\ worker[w] = Waiting
  /\ queue # <<>>
  /\ queue' = Tail(queue)
  /\ IF Head(queue) = None
       THEN /\ worker' = [worker EXCEPT ![w] = Exited]
            /\ unfinished' = unfinished - 1
            /\ UNCHANGED handed
       ELSE /\ worker' = [worker EXCEPT ![w] = Handling(Head(queue))]
            /\ handed' = Append(handed, Head(queue))
            /\ UNCHANGED unfinished
  /\ UNCHANGED <<overflow, task, left, running, sentinels, offered, lost>>

(* A worker that a raising handler kills.                                   *)
FinishDies(w) ==
  /\ running = None
  /\ w \in Busy
  /\ worker' = [worker EXCEPT ![w] = Exited]
  /\ unfinished' = unfinished - 1
  /\ UNCHANGED <<overflow, queue, task, left, running, sentinels, offered,
                 handed, lost>>

(* The handlers returned or raised; either way the finally runs.            *)
Finish(w) ==
  /\ running = None
  /\ w \in Busy
  /\ worker' = [worker EXCEPT ![w] = Waiting]
  /\ unfinished' = unfinished - 1
  /\ UNCHANGED <<overflow, queue, task, left, running, sentinels, offered,
                 handed, lost>>

----------------------------------------------------------------------------
(* Shutdown.                                                                *)

(* The loop saw self._conn = None, or was cancelled where it was suspended: *)
(* what a blocked batch had left is abandoned.                              *)
StopLoop ==
  /\ running = None
  /\ task["loop"] \in {"poll", "blocked"}
  /\ task' = [task EXCEPT !["loop"] = "sentinels"]
  /\ left' = [left EXCEPT !["loop"] = 0]
  /\ running' = "loop"
  /\ UNCHANGED <<overflow, queue, unfinished, sentinels, worker, offered,
                 handed, lost>>

(* put_nowait(None) with QueueFull swallowed.                               *)
PutSentinelNowait ==
  /\ task["loop"] = "sentinels"
  /\ Runnable("loop")
  /\ queue' = IF Full THEN queue ELSE Append(queue, None)
  /\ unfinished' = IF Full THEN unfinished ELSE unfinished + 1
  /\ sentinels' = sentinels - 1
  /\ task' = [task EXCEPT !["loop"] = IF sentinels = 1 THEN "gather" ELSE @]
  /\ running' = IF sentinels = 1 THEN None ELSE "loop"
  /\ UNCHANGED <<overflow, left, worker, offered, handed, lost>>

(* put(None) suspends while the queue is full, under every policy.          *)
PutSentinel ==
  /\ task["loop"] = "sentinels"
  /\ Runnable("loop")
  /\ \/ /\ ~Full
        /\ queue' = Append(queue, None)
        /\ unfinished' = unfinished + 1
        /\ sentinels' = sentinels - 1
        /\ task' = [task EXCEPT !["loop"] = IF sentinels = 1 THEN "gather" ELSE @]
        /\ running' = IF sentinels = 1 THEN None ELSE "loop"
     \/ /\ Full /\ running = "loop"
        /\ running' = None
        /\ UNCHANGED <<queue, unfinished, sentinels, task>>
  /\ UNCHANGED <<overflow, left, worker, offered, handed, lost>>

(* gather() needs every worker task; run_until_disconnected then cancels    *)
(* the pump, wherever it is suspended.                                      *)
LoopReturns ==
  /\ running = None
  /\ task["loop"] = "gather"
  /\ Live = {}
  /\ task' = [task EXCEPT !["loop"] = "returned", !["pump"] = "stopped"]
  /\ left' = [left EXCEPT !["pump"] = 0]
  /\ UNCHANGED <<overflow, queue, unfinished, running, sentinels, worker,
                 offered, handed, lost>>

(* recv_frame() reported the end of the connection, or an error.            *)
PumpStops ==
  /\ running = None
  /\ task["pump"] = "poll"
  /\ task' = [task EXCEPT !["pump"] = "stopped"]
  /\ UNCHANGED <<overflow, queue, unfinished, left, running, sentinels, worker,
                 offered, handed, lost>>

----------------------------------------------------------------------------
Next ==
  \/ \E p \in Producers : BatchArrives(p) \/ EnqueueUpdate(p) \/ BatchRaises(p)
  \/ \E w \in Workers : Take(w) \/ Finish(w)
  \/ StopLoop \/ PutSentinel \/ LoopReturns \/ PumpStops

(* Ready tasks get their turn and handlers return; nothing obliges an       *)
(* update to arrive or the client to stop.                                  *)
Fairness ==
  /\ \A p \in Producers : WF_vars(EnqueueUpdate(p))
  /\ \A w \in Workers : WF_vars(Take(w)) /\ WF_vars(Finish(w))
  /\ WF_vars(PutSentinel) /\ WF_vars(LoopReturns)

Spec == Init /\ [][Next]_vars
FairSpec == Spec /\ Fairness

----------------------------------------------------------------------------
(* Properties.                                                              *)

TypeOK ==
  /\ overflow \in Policies
  /\ queue \in Seq(Updates \cup {None})
  /\ Len(queue) <= Capacity
  /\ unfinished \in Nat
  /\ task["loop"] \in LoopStates /\ task["pump"] \in PumpStates
  /\ DOMAIN task = Producers
  /\ left \in [Producers -> 0 .. MaxUpdates]
  /\ running \in Producers \cup {None}
  /\ sentinels \in 0 .. Cardinality(Workers)
  /\ worker \in [Workers -> {Waiting, Exited} \cup {Handling(u) : u \in Updates}]
  /\ offered \in 0 .. MaxUpdates
  /\ handed \in Seq(Updates)
  /\ lost \subseteq Updates

(* Every item put on the queue is matched by exactly one task_done(): by    *)
(* the worker that took it or by the eviction that replaced it.  One too    *)
(* many raises ValueError in the worker; one too few makes join() hang.     *)
TaskAccounting == unfinished = Len(queue) + Cardinality(Busy)

(* With several workers and two producers, updates still start in the order *)
(* they were put: the handed ones ascend and precede all that is queued.    *)
StartedInOrder ==
  /\ \A i, j \in DOMAIN handed : i < j => handed[i] < handed[j]
  /\ \A i \in DOMAIN handed : \A u \in Queued : handed[i] < u
  /\ \A i, j \in DOMAIN queue :
       i < j /\ queue[i] # None /\ queue[j] # None => queue[i] < queue[j]

(* No update vanishes: it is queued, was handed over or was discarded by    *)
(* the policy, and only one of the three.                                   *)
OneFate ==
  LET taken == {handed[i] : i \in DOMAIN handed}
  IN  /\ Queued \cup taken \cup lost = 1 .. offered
      /\ Queued \cap taken = {} /\ Queued \cap lost = {} /\ taken \cap lost = {}

(* The blocking policy discards nothing; drop_oldest never discards an      *)
(* update newer than one it keeps; drop_newest discards an update only      *)
(* behind a queue's worth of older ones it keeps.                           *)
LossFollowsPolicy ==
  /\ overflow = "block" => lost = {}
  /\ overflow = "drop_oldest" => \A u \in lost, v \in Queued : u < v
  /\ overflow = "drop_newest" => \A u \in lost :
       ShuttingDown \/ Cardinality((1 .. u - 1) \ lost) >= Capacity

(* Once the loop waits for the workers, each worker still alive finds a     *)
(* None of its own on the queue: no put of the pump can take it away, under *)
(* the policies that never evict.                                           *)
SentinelPerWorker ==
  overflow # "drop_oldest" /\ task["loop"] = "gather" =>
    Cardinality(Live) = Cardinality(NoneAt)

(* The same of every policy, the default included: "shutdown stays          *)
(* responsive" (client.py:572) needs a None for each worker that waits.     *)
EveryWorkerReleased ==
  task["loop"] = "gather" => Cardinality(Live) <= Cardinality(NoneAt)

(* Shutdown ends: the workers finish, the loop returns, the pump is         *)
(* cancelled -- even with the pump still filling the queue and the put of a *)
(* None blocked behind it.                                                  *)
ShutdownCompletes ==
  overflow # "drop_oldest" /\ task["loop"] = "sentinels" ~> task["loop"] = "returned"

(* Until the loop shuts down, every update that was put meets its fate.     *)
EveryUpdateSettles ==
  \A u \in Updates : u \in Queued ~> (u \notin Queued \/ ShuttingDown)

(* The queue, the workers and the policy implement the lossy FIFO.          *)
Fifo == INSTANCE LossyFifo WITH waiting <- Queued
ImplementsFifo == Fifo!Spec
=============================================================================
