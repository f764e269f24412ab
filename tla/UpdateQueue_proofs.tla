-------------------------- MODULE UpdateQueue_proofs --------------------------
(***************************************************************************)
(* Theorems about UpdateQueue for every set of workers, every capacity and *)
(* every bound: the types, the accounting of unfinished items, and the     *)
(* order and uniqueness of what the handlers see.                          *)
(***************************************************************************)
EXTENDS UpdateQueue, FiniteSetTheorems, FunctionTheorems, TLAPS

(* What TypeOK needs to be inductive: a producer inside a batch has an      *)
(* update left, the shutdown a None left, and the batches in hand stay      *)
(* within the bound on updates.                                             *)
BatchInv ==
  /\ \A p \in Producers : task[p] \in {"batch", "blocked"} => left[p] >= 1
  /\ task["loop"] = "sentinels" => sentinels >= 1
  /\ ~ShuttingDown => sentinels = Cardinality(Workers)
  /\ offered + left["loop"] + left["pump"] <= MaxUpdates

(* The counter of unfinished items is typed only because it is accounted for. *)
TInv == TypeOK /\ BatchInv /\ TaskAccounting

LEMMA WorkersCardinality == Cardinality(Workers) \in Nat \ {0}
BY FS_CardinalityType, FS_EmptySet, QueueAssumption

(* A put that fits keeps the queue a sequence of items within its capacity. *)
LEMMA AppendFits ==
  ASSUME NEW S, NEW q \in Seq(S), NEW x \in S, NEW c \in Nat, ~(Len(q) >= c)
  PROVE  /\ Append(q, x) \in Seq(S)
         /\ Len(Append(q, x)) = Len(q) + 1
         /\ Len(Append(q, x)) <= c
OBVIOUS

LEMMA TailShrinks ==
  ASSUME NEW S, NEW q \in Seq(S), q # <<>>
  PROVE  /\ Tail(q) \in Seq(S)
         /\ Head(q) \in S
         /\ Len(Tail(q)) = Len(q) - 1
OBVIOUS

LEMMA AdvanceTypes ==
  ASSUME TInv, NEW p \in Producers, Advance(p), task[p] \in {"batch", "blocked"}
  PROVE  /\ offered + 1 \in Updates
         /\ offered' \in 0 .. MaxUpdates
         /\ left' \in [Producers -> 0 .. MaxUpdates]
         /\ task'["loop"] \in LoopStates /\ task'["pump"] \in PumpStates
         /\ DOMAIN task' = Producers
         /\ running' \in Producers \cup {None}
         /\ \A r \in Producers : task'[r] \in {"batch", "blocked"} => left'[r] >= 1
         /\ task'["loop"] = "sentinels" => task["loop"] = "sentinels"
         /\ ShuttingDown' = ShuttingDown
         /\ offered' + left'["loop"] + left'["pump"] <= MaxUpdates
<1> USE DEF Producers
<1>1. left[p] \in 1 .. MaxUpdates /\ offered + left[p] <= MaxUpdates /\ offered \in Nat
  <2>1. left["loop"] \in 0 .. MaxUpdates /\ left["pump"] \in 0 .. MaxUpdates
    BY DEF TInv, TypeOK
  <2>2. left[p] >= 1 /\ offered + left["loop"] + left["pump"] <= MaxUpdates /\ offered \in 0 .. MaxUpdates
    BY DEF TInv, TypeOK, BatchInv
  <2> QED
    BY <2>1, <2>2, QueueAssumption
<1>2. left' \in [Producers -> 0 .. MaxUpdates] /\ left'[p] = left[p] - 1
      /\ \A r \in Producers \ {p} : left'[r] = left[r]
  BY <1>1, QueueAssumption DEF TInv, TypeOK, Advance
<1>3. DOMAIN task' = Producers /\ task'[p] = (IF left[p] = 1 THEN "poll" ELSE "batch")
      /\ \A r \in Producers \ {p} : task'[r] = task[r]
  BY DEF TInv, TypeOK, Advance
<1>4. offered + 1 \in Updates /\ offered' \in 0 .. MaxUpdates
  BY <1>1, QueueAssumption DEF Advance, Updates
<1>5. task'["loop"] \in LoopStates /\ task'["pump"] \in PumpStates
  BY <1>3 DEF TInv, TypeOK, LoopStates, PumpStates
<1>6. running' \in Producers \cup {None}
  BY DEF Advance
<1>7. \A r \in Producers : task'[r] \in {"batch", "blocked"} => left'[r] >= 1
  BY <1>1, <1>2, <1>3 DEF TInv, BatchInv
<1>8. /\ task'["loop"] = "sentinels" => task["loop"] = "sentinels"
      /\ ShuttingDown' = ShuttingDown
  BY <1>3 DEF ShuttingDown
<1>9. offered' + left'["loop"] + left'["pump"] <= MaxUpdates
  <2>1. left["loop"] \in Int /\ left["pump"] \in Int /\ offered + left["loop"] + left["pump"] <= MaxUpdates
    BY DEF TInv, TypeOK, BatchInv
  <2>2. offered' = offered + 1
    BY DEF Advance
  <2> QED
    BY <1>1, <1>2, <2>1, <2>2, QueueAssumption
<1> QED BY <1>2, <1>3, <1>4, <1>5, <1>6, <1>7, <1>8, <1>9

(* The update a producer is about to put is one of the bounded ones.        *)
LEMMA NextUpdate ==
  ASSUME TInv, NEW p \in Producers, task[p] \in {"batch", "blocked"}
  PROVE  /\ offered + 1 \in Updates /\ offered \in Nat
         /\ \A r \in Producers : offered + 1 + left[r] <= MaxUpdates \/ r = p
<1> USE DEF Producers
<1>1. left["loop"] \in 0 .. MaxUpdates /\ left["pump"] \in 0 .. MaxUpdates
  BY DEF TInv, TypeOK
<1>2. left[p] >= 1 /\ offered + left["loop"] + left["pump"] <= MaxUpdates /\ offered \in 0 .. MaxUpdates
  BY DEF TInv, TypeOK, BatchInv
<1> QED BY <1>1, <1>2, QueueAssumption DEF Updates

LEMMA BusyFinite == IsFiniteSet(Busy) /\ Cardinality(Busy) \in Nat
<1>1. Busy \subseteq Workers
  BY DEF Busy
<1> QED BY <1>1, FS_Subset, FS_CardinalityType, QueueAssumption

(* A worker that starts or ends an update enters or leaves Busy.            *)
LEMMA BusyEnters ==
  ASSUME TInv, NEW w \in Workers, worker[w] = Waiting, NEW u \in Updates,
         worker' = [worker EXCEPT ![w] = Handling(u)]
  PROVE  Cardinality(Busy') = Cardinality(Busy) + 1
<1>1. Busy' = Busy \cup {w} /\ w \notin Busy
  BY DEF TInv, TypeOK, Busy, Waiting, Handling
<1> QED BY <1>1, BusyFinite, FS_AddElement

LEMMA BusyLeaves ==
  ASSUME TInv, NEW w \in Busy, NEW s \in {Waiting, Exited},
         worker' = [worker EXCEPT ![w] = s]
  PROVE  Cardinality(Busy') = Cardinality(Busy) - 1
<1>1. Busy' = Busy \ {w}
  BY DEF TInv, TypeOK, Busy, Waiting, Exited
<1> QED BY <1>1, BusyFinite, FS_RemoveElement

LEMMA BusyKept ==
  ASSUME TInv, NEW w \in Workers, worker[w] = Waiting,
         worker' = [worker EXCEPT ![w] = Exited]
  PROVE  Busy' = Busy
BY DEF TInv, TypeOK, Busy, Waiting, Exited

(* What an exception in a batch leaves behind, the update refused or not.   *)
LEMMA RaiseTypes ==
  ASSUME TInv, NEW p \in Producers, task[p] \in {"batch", "blocked"}, Raise(p),
         \/ offered' = offered + 1 /\ lost' = lost \cup {offered + 1}
         \/ UNCHANGED <<offered, lost>>,
         UNCHANGED <<overflow, queue, unfinished, sentinels, worker, handed>>
  PROVE  TInv'
<1>1. /\ left' = [left EXCEPT ![p] = 0]
      /\ task' = [task EXCEPT ![p] = IF p = "loop" THEN "sentinels" ELSE "stopped"]
      /\ running' = IF p = "loop" THEN p ELSE None
  BY DEF Raise
<1>2. /\ offered + 1 \in Updates /\ offered \in Nat
      /\ \A r \in Producers : offered + 1 + left[r] <= MaxUpdates \/ r = p
  BY NextUpdate
<1>3. DOMAIN task = Producers /\ left \in [Producers -> 0 .. MaxUpdates] /\ MaxUpdates \in Nat
  BY QueueAssumption DEF TInv, TypeOK
<1>4. task'["loop"] \in LoopStates /\ task'["pump"] \in PumpStates /\ DOMAIN task' = Producers
  BY <1>1, <1>3 DEF TInv, TypeOK, Producers, LoopStates, PumpStates
<1>5. left' \in [Producers -> 0 .. MaxUpdates] /\ offered' \in 0 .. MaxUpdates
  BY <1>1, <1>2, <1>3 DEF Updates
<1>6. TypeOK'
  <2>1. lost' \subseteq Updates /\ running' \in Producers \cup {None}
    BY <1>1, <1>2 DEF TInv, TypeOK
  <2> QED
    BY <1>4, <1>5, <2>1 DEF TInv, TypeOK
<1>7. \A r \in Producers : task'[r] \in {"batch", "blocked"} => left'[r] >= 1
  BY <1>1, <1>3 DEF TInv, BatchInv
<1>8. offered' + left'["loop"] + left'["pump"] <= MaxUpdates
  BY <1>1, <1>2, <1>3 DEF Producers
<1>9. task["loop"] \in {"batch", "blocked"} \/ p = "pump"
  BY DEF Producers
<1>10. /\ task'["loop"] = "sentinels" => sentinels >= 1
       /\ ~ShuttingDown' => sentinels = Cardinality(Workers)
  BY <1>1, <1>3, <1>9, WorkersCardinality DEF TInv, BatchInv, Producers, ShuttingDown
<1>11. BatchInv'
  BY <1>7, <1>8, <1>10 DEF BatchInv
<1>12. TaskAccounting'
  BY DEF TInv, TaskAccounting, Busy
<1> QED
  BY <1>6, <1>11, <1>12 DEF TInv

LEMMA TInvInit == Init => TInv
<1> SUFFICES ASSUME Init PROVE TInv
  OBVIOUS
<1>1. Busy = {}
  BY DEF Init, Busy, Waiting
<1>2. TypeOK /\ BatchInv
  BY WorkersCardinality, QueueAssumption
     DEF Init, TypeOK, BatchInv, ShuttingDown, Producers, LoopStates, PumpStates
<1> QED BY <1>1, <1>2, FS_EmptySet DEF Init, TInv, TaskAccounting

LEMMA TInvStep == TInv /\ [Next]_vars => TInv'
<1> SUFFICES ASSUME TInv, [Next]_vars PROVE TInv'
  OBVIOUS
<1> USE QueueAssumption, WorkersCardinality DEF ShuttingDown
<1>1. ASSUME NEW p \in Producers, BatchArrives(p) PROVE TInv'
  <2>1. Busy' = Busy
    BY <1>1 DEF BatchArrives, Busy
  <2>2. TypeOK'
    BY <1>1 DEF BatchArrives, TInv, TypeOK, BatchInv, Producers, LoopStates, PumpStates
  <2>3. BatchInv'
    <3>1. PICK n \in 1 .. MaxBatch :
            /\ offered + left["loop"] + left["pump"] + n <= MaxUpdates
            /\ left' = [left EXCEPT ![p] = n]
      BY <1>1 DEF BatchArrives
    <3>2. /\ task' = [task EXCEPT ![p] = "batch"] /\ task[p] = "poll"
          /\ UNCHANGED <<offered, sentinels>>
      BY <1>1 DEF BatchArrives
    <3>3. /\ offered \in Nat /\ left \in [Producers -> Nat] /\ DOMAIN task = Producers
      BY DEF TInv, TypeOK
    <3>4. n \in Nat /\ n >= 1
      BY <3>1
    <3>5. offered' + left'["loop"] + left'["pump"] <= MaxUpdates
      BY <3>1, <3>2, <3>3, <3>4 DEF Producers
    <3>6. \A r \in Producers : task'[r] \in {"batch", "blocked"} => left'[r] >= 1
      BY <3>1, <3>2, <3>3, <3>4 DEF TInv, BatchInv
    <3>7. task'["loop"] = "sentinels" => task["loop"] = "sentinels"
      BY <3>2, <3>3 DEF Producers
    <3>8. ~ShuttingDown' => ~ShuttingDown
      BY <3>2, <3>3 DEF Producers
    <3> QED BY <3>2, <3>5, <3>6, <3>7, <3>8 DEF TInv, BatchInv
  <2>4. TaskAccounting'
    BY <1>1, <2>1 DEF BatchArrives, TInv, TaskAccounting
  <2> QED BY <2>2, <2>3, <2>4 DEF TInv
<1>2. ASSUME NEW p \in Producers, EnqueueUpdate(p) PROVE TInv'
  <2>1. Busy' = Busy /\ worker' = worker
    BY <1>2 DEF EnqueueUpdate, Busy
  <2>2. task[p] \in {"batch", "blocked"}
    BY <1>2 DEF EnqueueUpdate
  <2>3. CASE PutRoom(p)
    <3>1. Advance(p) /\ ~Full
      BY <2>3 DEF PutRoom
    <3>2. offered + 1 \in Updates
      BY <3>1, <2>2, AdvanceTypes
    <3>3. /\ queue' \in Seq(Updates \cup {None})
          /\ Len(queue') = Len(queue) + 1
          /\ Len(queue') <= Capacity
      BY <2>3, <3>1, <3>2, AppendFits DEF PutRoom, Full, TInv, TypeOK
    <3>4. unfinished' \in Nat /\ TaskAccounting'
      <4>1. unfinished' = unfinished + 1
        BY <2>3 DEF PutRoom
      <4>2. unfinished \in Nat /\ unfinished = Len(queue) + Cardinality(Busy) /\ Len(queue) \in Nat
        BY DEF TInv, TypeOK, TaskAccounting
      <4>3. unfinished' \in Nat /\ unfinished' = Len(queue') + Cardinality(Busy)
        BY <3>3, <4>1, <4>2, BusyFinite
      <4> QED BY <2>1, <4>3 DEF TaskAccounting
    <3> QED BY <1>2, <2>1, <2>2, <2>3, <3>1, <3>3, <3>4, AdvanceTypes
            DEF EnqueueUpdate, PutRoom, TInv, TypeOK, BatchInv
  <2>4. CASE PutEvicting(p)
    <3>1. Advance(p) /\ Full
      BY <2>4 DEF PutEvicting
    <3>2. offered + 1 \in Updates
      BY <3>1, <2>2, AdvanceTypes
    <3>3. queue # <<>> /\ Len(queue) = Capacity
      BY <3>1 DEF Full, TInv, TypeOK
    <3>4. /\ Tail(queue) \in Seq(Updates \cup {None})
          /\ Head(queue) \in Updates \cup {None}
          /\ Len(Tail(queue)) = Capacity - 1
      BY <3>3, TailShrinks DEF TInv, TypeOK
    <3>5. /\ queue' \in Seq(Updates \cup {None})
          /\ Len(queue') = Capacity
      BY <2>4, <3>2, <3>4, AppendFits DEF PutEvicting
    <3>6. lost' \subseteq Updates
      BY <2>4, <3>4 DEF PutEvicting, TInv, TypeOK
    <3> QED BY <1>2, <2>1, <2>2, <2>4, <3>1, <3>3, <3>5, <3>6, AdvanceTypes
            DEF EnqueueUpdate, PutEvicting, TInv, TypeOK, BatchInv, TaskAccounting
  <2>5. CASE PutRejected(p)
    <3>1. Advance(p)
      BY <2>5 DEF PutRejected
    <3>2. offered + 1 \in Updates
      BY <3>1, <2>2, AdvanceTypes
    <3> QED BY <1>2, <2>1, <2>2, <2>5, <3>1, <3>2, AdvanceTypes
            DEF EnqueueUpdate, PutRejected, TInv, TypeOK, BatchInv, TaskAccounting
  <2>6. CASE PutBlocks(p)
    BY <1>2, <2>1, <2>6
       DEF EnqueueUpdate, PutBlocks, TInv, TypeOK, BatchInv, TaskAccounting,
           Producers, LoopStates, PumpStates
  <2>7. CASE PutRaises(p)
    <3>1. /\ offered' = offered + 1 /\ lost' = lost \cup {offered + 1} /\ Raise(p)
          /\ UNCHANGED <<overflow, queue, unfinished, sentinels, worker, handed>>
      BY <1>2, <2>7 DEF EnqueueUpdate, PutRaises
    <3> QED
      BY <2>2, <3>1, RaiseTypes
  <2> QED BY <1>2, <2>3, <2>4, <2>5, <2>6, <2>7 DEF EnqueueUpdate
<1>3. ASSUME NEW w \in Workers, Take(w) PROVE TInv'
  <2>1. /\ Tail(queue) \in Seq(Updates \cup {None})
        /\ Head(queue) \in Updates \cup {None}
        /\ Len(Tail(queue)) = Len(queue) - 1
    BY <1>3, TailShrinks DEF Take, TInv, TypeOK
  <2>2. CASE Head(queue) = None
    <3>1. Busy' = Busy
      BY <1>3, <2>2, BusyKept DEF Take
    <3>2. unfinished' \in Nat /\ unfinished' = Len(queue') + Cardinality(Busy)
      <4>1. unfinished' = unfinished - 1 /\ queue' = Tail(queue)
        BY <1>3, <2>2 DEF Take
      <4>2. unfinished \in Nat /\ unfinished = Len(queue) + Cardinality(Busy) /\ Len(queue) \in Nat
        BY DEF TInv, TypeOK, TaskAccounting
      <4>3. Len(queue') \in Nat
        BY <2>1, <4>1
      <4> QED BY <2>1, <4>1, <4>2, <4>3, BusyFinite
    <3>3. worker' \in [Workers -> {Waiting, Exited} \cup {Handling(u) : u \in Updates}]
      BY <1>3, <2>2 DEF Take, TInv, TypeOK
    <3> QED BY <1>3, <2>1, <2>2, <3>1, <3>2, <3>3
            DEF Take, TInv, TypeOK, BatchInv, TaskAccounting
  <2>3. CASE Head(queue) # None
    <3>1. Head(queue) \in Updates
      BY <2>1, <2>3
    <3>2. Cardinality(Busy') = Cardinality(Busy) + 1
      BY <1>3, <2>3, <3>1, BusyEnters DEF Take
    <3>3. unfinished' = Len(queue') + Cardinality(Busy')
      BY <1>3, <2>1, <2>3, <3>2, BusyFinite DEF Take, TInv, TypeOK, TaskAccounting
    <3>4. worker' \in [Workers -> {Waiting, Exited} \cup {Handling(u) : u \in Updates}]
      BY <1>3, <2>3, <3>1 DEF Take, TInv, TypeOK
    <3>5. handed' \in Seq(Updates)
      <4>1. handed' = Append(handed, Head(queue)) /\ handed \in Seq(Updates)
        BY <1>3, <2>3 DEF Take, TInv, TypeOK
      <4> QED BY <4>1, <3>1
    <3> QED BY <1>3, <2>1, <2>3, <3>3, <3>4, <3>5
            DEF Take, TInv, TypeOK, BatchInv, TaskAccounting
  <2> QED BY <2>2, <2>3
<1>4. ASSUME NEW w \in Workers, Finish(w) PROVE TInv'
  <2>1. w \in Busy /\ Cardinality(Busy') = Cardinality(Busy) - 1
    BY <1>4, BusyLeaves DEF Finish
  <2>2. Cardinality(Busy') \in Nat
    BY <2>1, BusyFinite, FS_Subset, FS_CardinalityType, FS_EmptySet
  <2>3. unfinished' \in Nat /\ unfinished' = Len(queue') + Cardinality(Busy')
    <3>1. unfinished' = unfinished - 1 /\ queue' = queue
      BY <1>4 DEF Finish
    <3>2. unfinished \in Nat /\ unfinished = Len(queue) + Cardinality(Busy) /\ Len(queue) \in Nat
      BY DEF TInv, TypeOK, TaskAccounting
    <3> QED BY <2>1, <2>2, <3>1, <3>2, BusyFinite
  <2> QED BY <1>4, <2>3 DEF Finish, TInv, TypeOK, BatchInv, TaskAccounting
<1>5. CASE StopLoop
  <2>1. Busy' = Busy
    BY <1>5 DEF StopLoop, Busy
  <2> QED BY <1>5, <2>1 DEF StopLoop, TInv, TypeOK, BatchInv, TaskAccounting,
                            Producers, LoopStates, PumpStates
<1>6. CASE PutSentinel
  <2>1. Busy' = Busy
    BY <1>6 DEF PutSentinel, Busy
  <2>2. CASE ~Full
    <3>1. /\ Append(queue, None) \in Seq(Updates \cup {None})
          /\ Len(Append(queue, None)) = Len(queue) + 1
          /\ Len(Append(queue, None)) <= Capacity
      BY <2>2, AppendFits DEF Full, TInv, TypeOK
    <3>2. unfinished' \in Nat /\ TaskAccounting'
      <4>1. unfinished' = unfinished + 1 /\ queue' = Append(queue, None)
        BY <1>6, <2>2 DEF PutSentinel
      <4>2. unfinished \in Nat /\ unfinished = Len(queue) + Cardinality(Busy) /\ Len(queue) \in Nat
        BY DEF TInv, TypeOK, TaskAccounting
      <4>3. unfinished' \in Nat /\ unfinished' = Len(queue') + Cardinality(Busy)
        <5>1. Len(queue') = Len(queue) + 1
          BY <3>1, <4>1
        <5>2. Cardinality(Busy) \in Nat
          BY BusyFinite
        <5> QED BY <4>1, <4>2, <5>1, <5>2
      <4> QED BY <2>1, <4>3 DEF TaskAccounting
    <3>3. queue' \in Seq(Updates \cup {None}) /\ Len(queue') <= Capacity
      BY <1>6, <2>2, <3>1 DEF PutSentinel
    <3>4. BatchInv'
      <4>1. /\ sentinels' = sentinels - 1 /\ UNCHANGED <<offered, left>>
            /\ task' = [task EXCEPT !["loop"] = IF sentinels = 1 THEN "gather" ELSE @]
            /\ task["loop"] = "sentinels" /\ sentinels \in Nat /\ DOMAIN task = Producers
        BY <1>6, <2>2 DEF PutSentinel, TInv, TypeOK
      <4>2. /\ \A p \in Producers : task'[p] \in {"batch", "blocked"} => task[p] \in {"batch", "blocked"}
            /\ task'["loop"] = "sentinels" => sentinels # 1
        BY <4>1 DEF Producers
      <4>3. sentinels >= 1 /\ ShuttingDown'
        BY <4>1 DEF TInv, BatchInv, Producers
      <4> QED BY <4>1, <4>2, <4>3 DEF TInv, BatchInv
    <3>5. task'["loop"] \in LoopStates /\ task'["pump"] \in PumpStates /\ DOMAIN task' = Producers
      BY <1>6, <2>2 DEF PutSentinel, TInv, TypeOK, Producers, LoopStates, PumpStates
    <3>6. sentinels' \in 0 .. Cardinality(Workers)
      BY <1>6, <2>2 DEF PutSentinel, TInv, TypeOK, BatchInv
    <3>7. UNCHANGED <<overflow, left, worker, offered, handed, lost>> /\ running' \in Producers \cup {None}
      BY <1>6, <2>2 DEF PutSentinel, Producers
    <3>8. TypeOK'
      BY <3>2, <3>3, <3>5, <3>6, <3>7 DEF TInv, TypeOK
    <3> QED BY <3>2, <3>4, <3>8 DEF TInv
  <2>3. CASE Full
    BY <1>6, <2>1, <2>3
       DEF PutSentinel, TInv, TypeOK, BatchInv, TaskAccounting
  <2> QED BY <2>2, <2>3
<1>7. CASE LoopReturns
  <2>1. Busy' = Busy
    BY <1>7 DEF LoopReturns, Busy
  <2> QED BY <1>7, <2>1 DEF LoopReturns, TInv, TypeOK, BatchInv, TaskAccounting,
                            Producers, LoopStates, PumpStates
<1>8. CASE PumpStops
  <2>1. Busy' = Busy
    BY <1>8 DEF PumpStops, Busy
  <2> QED BY <1>8, <2>1 DEF PumpStops, TInv, TypeOK, BatchInv, TaskAccounting,
                            Producers, LoopStates, PumpStates
<1>9. CASE UNCHANGED vars
  <2>1. Busy' = Busy
    BY <1>9 DEF vars, Busy
  <2> QED BY <1>9, <2>1 DEF vars, TInv, TypeOK, BatchInv, TaskAccounting
<1>10. ASSUME NEW p \in Producers, BatchRaises(p) PROVE TInv'
  BY <1>10, RaiseTypes DEF BatchRaises
<1> QED BY <1>1, <1>2, <1>3, <1>4, <1>5, <1>6, <1>7, <1>8, <1>9, <1>10 DEF Next

(* Nothing is ever outside its type: the queue stays within its capacity    *)
(* and the counter of unfinished items never goes below zero.               *)
THEOREM QueueTyped == Spec => []TypeOK
<1>1. TInv => TypeOK
  BY DEF TInv
<1> QED BY <1>1, TInvInit, TInvStep, PTL DEF Spec

(* Every item put is matched by exactly one task_done(), for any number of  *)
(* workers, any capacity and every overflow policy.                         *)
THEOREM QueueAccounting == Spec => []TaskAccounting
<1>1. TInv => TaskAccounting
  BY DEF TInv
<1> QED BY <1>1, TInvInit, TInvStep, PTL DEF Spec

-----------------------------------------------------------------------------
(* Order and uniqueness.                                                     *)

Items == Updates \cup {None}
UpdatesOf(q) == {q[i] : i \in DOMAIN q} \ {None}
Ascending(q) == \A i, j \in DOMAIN q :
                  i < j /\ q[i] # None /\ q[j] # None => q[i] < q[j]

LEMMA PutAtEnd ==
  ASSUME NEW q \in Seq(Items), NEW x \in Items, Ascending(q),
         x # None => \A u \in UpdatesOf(q) : u < x
  PROVE  /\ UpdatesOf(Append(q, x)) = UpdatesOf(q) \cup ({x} \ {None})
         /\ Ascending(Append(q, x))
<1> DEFINE r == Append(q, x)
<1>1. /\ DOMAIN r = 1 .. Len(q) + 1 /\ DOMAIN q = 1 .. Len(q) /\ Len(q) \in Nat
      /\ \A i \in 1 .. Len(q) : r[i] = q[i]
      /\ r[Len(q) + 1] = x
  OBVIOUS
<1> HIDE DEF r
<1>2. {r[i] : i \in DOMAIN r} = {q[i] : i \in DOMAIN q} \cup {x}
  BY <1>1
<1>3. Ascending(r)
  <2> SUFFICES ASSUME NEW i \in DOMAIN r, NEW j \in DOMAIN r, i < j,
                      r[i] # None, r[j] # None
               PROVE  r[i] < r[j]
    BY DEF Ascending
  <2>1. CASE j = Len(q) + 1
    <3>1. i \in DOMAIN q /\ r[i] = q[i] /\ r[j] = x
      BY <1>1, <2>1
    <3> QED BY <3>1 DEF UpdatesOf
  <2>2. CASE j # Len(q) + 1
    <3>1. i \in DOMAIN q /\ j \in DOMAIN q /\ r[i] = q[i] /\ r[j] = q[j]
      BY <1>1, <2>2
    <3> QED BY <3>1 DEF Ascending
  <2> QED BY <2>1, <2>2
<1> QED BY <1>2, <1>3 DEF UpdatesOf, r

LEMMA TakeFirst ==
  ASSUME NEW q \in Seq(Items), q # <<>>, Ascending(q), None \notin Nat
  PROVE  /\ UpdatesOf(Tail(q)) = UpdatesOf(q) \ {Head(q)}
         /\ Ascending(Tail(q))
         /\ Head(q) # None => /\ Head(q) \in UpdatesOf(q)
                              /\ \A u \in UpdatesOf(Tail(q)) : Head(q) < u
<1> DEFINE r == Tail(q)
<1>1. /\ DOMAIN r = 1 .. Len(q) - 1 /\ DOMAIN q = 1 .. Len(q)
      /\ Len(q) \in Nat \ {0}
      /\ \A i \in 1 .. Len(q) - 1 : r[i] = q[i + 1]
      /\ Head(q) = q[1]
  OBVIOUS
<1>2. \A i \in DOMAIN q : q[i] \in Items
  OBVIOUS
<1> HIDE DEF r
<1>3. Ascending(r)
  <2> SUFFICES ASSUME NEW i \in DOMAIN r, NEW j \in DOMAIN r, i < j,
                      r[i] # None, r[j] # None
               PROVE  r[i] < r[j]
    BY DEF Ascending
  <2>1. /\ i + 1 \in DOMAIN q /\ j + 1 \in DOMAIN q /\ i + 1 < j + 1
        /\ r[i] = q[i + 1] /\ r[j] = q[j + 1]
    BY <1>1
  <2> QED BY <2>1 DEF Ascending
<1>4. \A u \in UpdatesOf(r) : Head(q) # None => Head(q) < u
  <2> SUFFICES ASSUME NEW i \in DOMAIN r, r[i] # None, Head(q) # None
               PROVE  Head(q) < r[i]
    BY DEF UpdatesOf
  <2>1. 1 \in DOMAIN q /\ i + 1 \in DOMAIN q /\ 1 < i + 1 /\ r[i] = q[i + 1]
    BY <1>1
  <2> QED BY <1>1, <2>1 DEF Ascending
<1>5. {q[i] : i \in DOMAIN q} = {r[i] : i \in DOMAIN r} \cup {Head(q)}
  <2>1. \A i \in DOMAIN q : i = 1 \/ (i - 1 \in DOMAIN r /\ r[i - 1] = q[i])
    BY <1>1
  <2>2. \A i \in DOMAIN r : i + 1 \in DOMAIN q /\ r[i] = q[i + 1]
    BY <1>1
  <2>3. 1 \in DOMAIN q
    BY <1>1
  <2> QED BY <1>1, <2>1, <2>2, <2>3
<1>6. Head(q) \notin UpdatesOf(r)
  <2> SUFFICES ASSUME Head(q) \in UpdatesOf(r) PROVE FALSE
    OBVIOUS
  <2>1. Head(q) # None
    BY DEF UpdatesOf
  <2>2. Head(q) < Head(q)
    BY <1>4, <2>1
  <2>3. Head(q) \in Nat
    BY <1>1, <1>2, <2>1 DEF Items, Updates
  <2> QED BY <2>2, <2>3
<1> QED BY <1>1, <1>3, <1>4, <1>5, <1>6 DEF UpdatesOf, r

Taken == {handed[i] : i \in DOMAIN handed}

(* StartedInOrder and OneFate strengthen each other: the next update is     *)
(* newer than every other because all of them lie in 1 .. offered.          *)
OrderInv == StartedInOrder /\ OneFate

LEMMA OrderFacts ==
  ASSUME TInv, OrderInv
  PROVE  /\ queue \in Seq(Items) /\ Ascending(queue) /\ Queued = UpdatesOf(queue)
         /\ Queued \subseteq 1 .. offered /\ Taken \subseteq 1 .. offered
         /\ lost \subseteq 1 .. offered
         /\ handed \in Seq(Updates) /\ offered \in Nat
         /\ Queued \subseteq Nat
BY DEF TInv, TypeOK, OrderInv, StartedInOrder, OneFate, Ascending, Queued,
       UpdatesOf, Taken, Items, Updates

(* A step that leaves handed alone and only adds the next update, or drops  *)
(* updates from the queue, keeps the order and gives each update one fate.  *)
LEMMA OrderKept ==
  ASSUME TInv, OrderInv, UNCHANGED handed,
         NEW new \in SUBSET {offered + 1}, offered' = offered + Cardinality(new),
         Ascending(queue)', NEW gone \in SUBSET (Queued \cup new),
         Queued' = (Queued \cup new) \ gone, lost' = lost \cup gone
  PROVE  OrderInv'
<1>1. CASE new = {}
  <2>1. Cardinality(new) = 0
    BY <1>1, FS_EmptySet
  <2>2. offered' = offered
    BY <2>1, OrderFacts
  <2> QED BY <1>1, <2>2, OrderFacts
          DEF OrderInv, StartedInOrder, OneFate, Ascending, Taken
<1>2. CASE new = {offered + 1}
  <2>1. Cardinality(new) = 1
    BY <1>2, FS_Singleton
  <2>2. offered' = offered + 1 /\ 1 .. offered' = (1 .. offered) \cup new
    BY <2>1, <1>2, OrderFacts
  <2>3. offered + 1 \notin 1 .. offered
    BY OrderFacts
  <2>4. OneFate'
    BY <1>2, <2>2, <2>3, OrderFacts DEF OrderInv, OneFate, Taken
  <2>5. \A i \in DOMAIN handed : \A u \in new : handed[i] < u
    BY <1>2, OrderFacts DEF Taken
  <2>6. StartedInOrder'
    BY <2>5 DEF OrderInv, StartedInOrder, Ascending
  <2> QED BY <2>4, <2>6 DEF OrderInv
<1> QED BY <1>1, <1>2

(* What a put offers: its update, and possibly one that makes room, the     *)
(* oldest of the queue or the new one itself.                               *)
LEMMA PutOffers ==
  ASSUME TInv, OrderInv, NEW p \in Producers,
         PutRoom(p) \/ PutEvicting(p) \/ PutRejected(p) \/ PutRaises(p), task[p] \in {"batch", "blocked"}
  PROVE  /\ offered' = offered + 1
         /\ Ascending(queue)'
         /\ \E gone \in SUBSET {u \in Queued \cup {offered + 1} :
                                  u = offered + 1 \/ \A v \in Queued : u <= v} :
              /\ \A u, v \in gone : u = v
              /\ Queued' = (Queued \cup {offered + 1}) \ gone
              /\ lost' = lost \cup gone
<1> DEFINE new == offered + 1
<1> USE QueueAssumption
<1>1. offered' = new
  BY DEF PutRoom, PutEvicting, PutRejected, PutRaises, Advance
<1>2. /\ new \in Items /\ new # None /\ new \in Nat
      /\ \A u \in Queued : u < new
  BY NextUpdate, OrderFacts DEF Items, Updates
<1> HIDE DEF new
<1>3. CASE PutRoom(p)
  <2>1. queue' = Append(queue, new) /\ lost' = lost
    BY <1>3 DEF PutRoom, new
  <2>2. UpdatesOf(queue') = Queued \cup {new} /\ Ascending(queue')
    BY <2>1, <1>2, PutAtEnd, OrderFacts
  <2>3. Queued' = (Queued \cup {new}) \ {} /\ lost' = lost \cup {}
    BY <2>1, <2>2 DEF Queued, UpdatesOf
  <2> QED BY <1>1, <2>2, <2>3 DEF Ascending, new
<1>4. CASE PutEvicting(p)
  <2> DEFINE tail == Tail(queue)
             gone == {Head(queue)} \ {None}
  <2>1. queue' = Append(tail, new) /\ lost' = lost \cup gone
    BY <1>4 DEF PutEvicting, new
  <2>2. queue # <<>>
    BY <1>4 DEF PutEvicting, Full, TInv, TypeOK
  <2>3. /\ UpdatesOf(tail) = Queued \ {Head(queue)}
        /\ Ascending(tail)
        /\ Head(queue) # None => /\ Head(queue) \in Queued
                                 /\ \A u \in UpdatesOf(tail) : Head(queue) < u
    BY <2>2, TakeFirst, OrderFacts
  <2>4. tail \in Seq(Items)
    BY <2>2, OrderFacts
  <2>5. UpdatesOf(queue') = UpdatesOf(tail) \cup {new} /\ Ascending(queue')
    <3> HIDE DEF tail
    <3>1. \A u \in UpdatesOf(tail) : u < new
      BY <1>2, <2>3
    <3>2. /\ UpdatesOf(Append(tail, new)) = UpdatesOf(tail) \cup ({new} \ {None})
          /\ Ascending(Append(tail, new))
      BY <1>2, <2>3, <2>4, <3>1, PutAtEnd
    <3> QED BY <1>2, <2>1, <3>2
  <2>6. None \notin Queued
    BY DEF Queued
  <2>7. UpdatesOf(queue') = (Queued \cup {new}) \ gone
    BY <1>2, <2>3, <2>5, <2>6, OrderFacts
  <2>8. Queued' = UpdatesOf(queue')
    BY DEF Queued, UpdatesOf
  <2>9. \A u, v \in gone : u = v
    OBVIOUS
  <2>10. gone \in SUBSET {u \in Queued \cup {new} : u = new \/ \A v \in Queued : u <= v}
    <3> SUFFICES ASSUME Head(queue) # None
                 PROVE  Head(queue) \in Queued /\ \A v \in Queued : Head(queue) <= v
      OBVIOUS
    <3>1. \A v \in Queued : v = Head(queue) \/ Head(queue) < v
      BY <2>3
    <3> QED BY <2>3, <3>1, OrderFacts
  <2> QED BY <1>1, <2>1, <2>5, <2>7, <2>8, <2>9, <2>10 DEF Ascending, new
<1>5. CASE PutRejected(p) \/ PutRaises(p)
  <2>1. queue' = queue /\ lost' = lost \cup {new} /\ Queued' = Queued
    BY <1>5 DEF PutRejected, PutRaises, Queued, new
  <2>2. Queued' = (Queued \cup {new}) \ {new}
    BY <1>2, <2>1, OrderFacts
  <2> QED BY <1>1, <2>1, <2>2, OrderFacts DEF Ascending, new
<1> QED BY <1>3, <1>4, <1>5

(* What a worker takes: a None, or the oldest of the queued updates.        *)
LEMMA TakeHands ==
  ASSUME TInv, OrderInv, NEW w \in Workers, Take(w)
  PROVE  /\ Ascending(queue)' /\ UNCHANGED <<offered, lost>>
         /\ \/ Queued' = Queued /\ UNCHANGED handed
            \/ /\ Head(queue) \in Queued
               /\ \A v \in Queued : Head(queue) <= v
               /\ \A v \in Queued' : Head(queue) < v
               /\ Queued' = Queued \ {Head(queue)}
               /\ handed' = Append(handed, Head(queue))
<1> USE QueueAssumption
<1>1. queue # <<>> /\ queue' = Tail(queue)
  BY DEF Take
<1>2. /\ UpdatesOf(queue') = Queued \ {Head(queue)}
      /\ Ascending(queue')
      /\ Head(queue) # None => /\ Head(queue) \in Queued
                               /\ \A u \in UpdatesOf(queue') : Head(queue) < u
  BY <1>1, TakeFirst, OrderFacts
<1>3. Queued' = UpdatesOf(queue')
  BY DEF Queued, UpdatesOf
<1>4. CASE Head(queue) = None
  <2>1. None \notin Queued
    BY DEF Queued
  <2> QED BY <1>2, <1>3, <1>4, <2>1 DEF Take, Ascending
<1>5. CASE Head(queue) # None
  <2>1. \A v \in Queued : v = Head(queue) \/ Head(queue) < v
    BY <1>2, <1>5
  <2>2. \A v \in Queued : Head(queue) <= v
    BY <1>2, <1>5, <2>1, OrderFacts
  <2> QED BY <1>2, <1>3, <1>5, <2>2 DEF Take, Ascending
<1> QED BY <1>4, <1>5

LEMMA PutSentinelKeeps ==
  ASSUME TInv, OrderInv, PutSentinel
  PROVE  Ascending(queue)' /\ Queued' = Queued /\ UNCHANGED <<offered, handed, lost>>
<1>1. CASE queue' = queue
  BY <1>1, OrderFacts DEF PutSentinel, Queued, Ascending
<1>2. CASE queue' = Append(queue, None)
  <2>1. None \in Items
    BY DEF Items
  <2>2. /\ UpdatesOf(Append(queue, None)) = UpdatesOf(queue) \cup ({None} \ {None})
        /\ Ascending(Append(queue, None))
    BY <2>1, PutAtEnd, OrderFacts
  <2> QED BY <1>2, <2>2 DEF PutSentinel, Queued, UpdatesOf, Ascending
<1> QED BY <1>1, <1>2 DEF PutSentinel

LEMMA OrderInit == Init => OrderInv
BY DEF Init, OrderInv, StartedInOrder, OneFate, Queued

(* A step that keeps the queue keeps its order and its updates.             *)
LEMMA QueueUntouched ==
  ASSUME TInv, OrderInv, UNCHANGED <<queue, offered, handed, lost>>
  PROVE  Ascending(queue)' /\ Queued' = Queued /\ OrderInv'
BY OrderFacts DEF OrderInv, StartedInOrder, OneFate, Queued, Ascending

LEMMA OrderStep == TInv /\ OrderInv /\ [Next]_vars => OrderInv'
<1> SUFFICES ASSUME TInv, OrderInv, [Next]_vars PROVE OrderInv'
  OBVIOUS
<1>1. ASSUME NEW p \in Producers, EnqueueUpdate(p) PROVE OrderInv'
  <2>1. task[p] \in {"batch", "blocked"} /\ UNCHANGED handed
    BY <1>1 DEF EnqueueUpdate
  <2>2. CASE PutBlocks(p)
    BY <2>1, <2>2, QueueUntouched DEF PutBlocks
  <2>3. CASE PutRoom(p) \/ PutEvicting(p) \/ PutRejected(p) \/ PutRaises(p)
    <3>1. PICK gone \in SUBSET (Queued \cup {offered + 1}) :
            /\ Queued' = (Queued \cup {offered + 1}) \ gone
            /\ lost' = lost \cup gone
      BY <2>1, <2>3, PutOffers
    <3>2. offered' = offered + Cardinality({offered + 1}) /\ Ascending(queue)'
      BY <2>1, <2>3, PutOffers, FS_Singleton
    <3>3. {offered + 1} \in SUBSET {offered + 1}
      OBVIOUS
    <3> QED BY <2>1, <3>1, <3>2, <3>3, OrderKept
  <2> QED BY <1>1, <2>2, <2>3 DEF EnqueueUpdate
<1>2. ASSUME NEW w \in Workers, Take(w) PROVE OrderInv'
  <2> DEFINE first == Head(queue)
  <2>1. Ascending(queue)' /\ UNCHANGED <<offered, lost>>
    BY <1>2, TakeHands
  <2>2. CASE Queued' = Queued /\ UNCHANGED handed
    BY <2>1, <2>2 DEF OrderInv, StartedInOrder, OneFate, Ascending
  <2>3. CASE /\ first \in Queued
             /\ \A v \in Queued' : first < v
             /\ Queued' = Queued \ {first}
             /\ handed' = Append(handed, first)
    <3> HIDE DEF first
    <3>1. /\ DOMAIN handed' = 1 .. Len(handed) + 1 /\ DOMAIN handed = 1 .. Len(handed)
          /\ Len(handed) \in Nat
          /\ \A i \in 1 .. Len(handed) : handed'[i] = handed[i]
          /\ handed'[Len(handed) + 1] = first
      BY <2>3, OrderFacts
    <3>2. Taken' = Taken \cup {first}
      BY <3>1 DEF Taken
    <3>3. OneFate'
      <4>1. /\ Queued \cup Taken \cup lost = 1 .. offered
            /\ Queued \cap Taken = {} /\ Queued \cap lost = {} /\ Taken \cap lost = {}
        BY DEF OrderInv, OneFate, Taken
      <4>2. /\ Queued' \cup Taken' \cup lost' = 1 .. offered'
            /\ Queued' \cap Taken' = {} /\ Queued' \cap lost' = {} /\ Taken' \cap lost' = {}
        BY <2>1, <2>3, <3>2, <4>1
      <4> QED BY <4>2 DEF OneFate, Taken
    <3>4. \A i \in DOMAIN handed : handed[i] < first
      BY <2>3 DEF OrderInv, StartedInOrder
    <3>5. \A i, j \in DOMAIN handed' : i < j => handed'[i] < handed'[j]
      BY <3>1, <3>4 DEF OrderInv, StartedInOrder
    <3>6. \A i \in DOMAIN handed' : \A u \in Queued' : handed'[i] < u
      BY <2>3, <3>1 DEF OrderInv, StartedInOrder
    <3>7. StartedInOrder'
      BY <2>1, <3>5, <3>6 DEF StartedInOrder, Ascending
    <3> QED BY <3>3, <3>7 DEF OrderInv
  <2> QED BY <1>2, <2>2, <2>3, TakeHands
<1>3. CASE PutSentinel
  <2>1. Ascending(queue)' /\ Queued' = Queued /\ UNCHANGED <<offered, handed, lost>>
    BY <1>3, PutSentinelKeeps
  <2> QED BY <2>1 DEF OrderInv, StartedInOrder, OneFate, Ascending
<1>4. CASE UNCHANGED <<queue, offered, handed, lost>>
  BY <1>4, QueueUntouched
<1> QED BY <1>1, <1>2, <1>3, <1>4
        DEF Next, BatchArrives, BatchRaises, Finish, StopLoop, LoopReturns, PumpStops, vars

LEMMA Inductive == Spec => [](TInv /\ OrderInv)
<1>1. Init => TInv /\ OrderInv
  BY TInvInit, OrderInit
<1>2. TInv /\ OrderInv /\ [Next]_vars => TInv' /\ OrderInv'
  BY TInvStep, OrderStep
<1> QED BY <1>1, <1>2, PTL DEF Spec

(* However many workers take from the queue and however the two producers   *)
(* interleave, the handlers start updates in the order they were put.       *)
THEOREM QueueOrder == Spec => []StartedInOrder
<1>1. OrderInv => StartedInOrder
  BY DEF OrderInv
<1> QED BY <1>1, Inductive, PTL

(* No update is handed over twice, lost after being handed over, or gone    *)
(* without a trace, under any policy.                                       *)
THEOREM QueueOneFate == Spec => []OneFate
<1>1. OrderInv => OneFate
  BY DEF OrderInv
<1> QED BY <1>1, Inductive, PTL

(* The queue with its policies, batches and shutdown implements the lossy   *)
(* FIFO: every step is an Offer, a Hand or a stutter of it.                 *)
THEOREM QueueImplementsFifo == Spec => ImplementsFifo
<1>1. Init => Fifo!Init
  BY DEF Init, Fifo!Init, Queued
<1>2. TInv /\ OrderInv /\ [Next]_vars => [Fifo!Next]_(Fifo!vars)
  <2> SUFFICES ASSUME TInv, OrderInv, [Next]_vars PROVE [Fifo!Next]_(Fifo!vars)
    OBVIOUS
  <2> USE DEF Fifo!vars, Fifo!Next
  <2>1. ASSUME NEW p \in Producers, EnqueueUpdate(p) PROVE [Fifo!Next]_(Fifo!vars)
    <3>1. task[p] \in {"batch", "blocked"} /\ UNCHANGED handed
      BY <2>1 DEF EnqueueUpdate
    <3>2. CASE PutBlocks(p)
      BY <3>1, <3>2, QueueUntouched DEF PutBlocks
    <3>3. CASE PutRoom(p) \/ PutEvicting(p) \/ PutRejected(p) \/ PutRaises(p)
      <4>1. offered' = offered + 1
        BY <3>1, <3>3, PutOffers
      <4>2. Fifo!Offer
        <5>1. PICK gone \in SUBSET {u \in Queued \cup {offered + 1} :
                                     u = offered + 1 \/ \A v \in Queued : u <= v} :
                /\ \A u, v \in gone : u = v
                /\ Queued' = (Queued \cup {offered + 1}) \ gone
                /\ lost' = lost \cup gone
          BY <3>1, <3>3, PutOffers
        <5>2. gone \in SUBSET {u \in Queued \cup {offered'} :
                                 Fifo!Oldest(u) \/ u = offered'}
          BY <4>1 DEF Fifo!Oldest
        <5>3. Queued' = (Queued \cup {offered'}) \ gone
          BY <4>1, <5>1
        <5> QED BY <3>1, <4>1, <5>1, <5>2, <5>3 DEF Fifo!Offer
      <4> QED BY <4>2
    <3> QED BY <2>1, <3>2, <3>3 DEF EnqueueUpdate
  <2>2. ASSUME NEW w \in Workers, Take(w) PROVE [Fifo!Next]_(Fifo!vars)
    BY <2>2, TakeHands DEF Fifo!Hand, Fifo!Oldest
  <2>3. CASE PutSentinel
    BY <2>3, PutSentinelKeeps
  <2>4. CASE UNCHANGED <<queue, offered, handed, lost>>
    BY <2>4, QueueUntouched
  <2> QED BY <2>1, <2>2, <2>3, <2>4
          DEF Next, BatchArrives, BatchRaises, Finish, StopLoop, LoopReturns, PumpStops, vars
<1> QED BY <1>1, <1>2, Inductive, PTL DEF Spec, ImplementsFifo, Fifo!Spec

-----------------------------------------------------------------------------
(* Nones on the queue, and what the policies may lose.                       *)

NonesOf(q) == {i \in DOMAIN q : q[i] = None}

LEMMA NonesFinite ==
  ASSUME NEW q \in Seq(Items)
  PROVE  IsFiniteSet(NonesOf(q)) /\ Cardinality(NonesOf(q)) \in Nat
<1>1. IsFiniteSet(1 .. Len(q)) /\ NonesOf(q) \subseteq 1 .. Len(q)
  BY FS_Interval DEF NonesOf
<1> QED BY <1>1, FS_Subset, FS_CardinalityType

LEMMA NonesAppend ==
  ASSUME NEW q \in Seq(Items), NEW x \in Items
  PROVE  Cardinality(NonesOf(Append(q, x))) =
           IF x = None THEN Cardinality(NonesOf(q)) + 1 ELSE Cardinality(NonesOf(q))
<1> DEFINE r == Append(q, x)
<1>1. /\ DOMAIN r = 1 .. Len(q) + 1 /\ DOMAIN q = 1 .. Len(q) /\ Len(q) \in Nat
      /\ \A i \in 1 .. Len(q) : r[i] = q[i]
      /\ r[Len(q) + 1] = x
  OBVIOUS
<1> HIDE DEF r
<1>2. Len(q) + 1 \notin NonesOf(q)
  BY <1>1 DEF NonesOf
<1>3. NonesOf(r) = IF x = None THEN NonesOf(q) \cup {Len(q) + 1} ELSE NonesOf(q)
  BY <1>1 DEF NonesOf
<1> QED BY <1>2, <1>3, NonesFinite, FS_AddElement DEF r

(* Taking the oldest item shifts the others down by one.                    *)
LEMMA NonesTail ==
  ASSUME NEW q \in Seq(Items), q # <<>>
  PROVE  Cardinality(NonesOf(Tail(q))) =
           IF Head(q) = None THEN Cardinality(NonesOf(q)) - 1 ELSE Cardinality(NonesOf(q))
<1> DEFINE r == Tail(q)
           rest == NonesOf(q) \ {1}
           up == [i \in NonesOf(r) |-> i + 1]
<1>1. /\ DOMAIN r = 1 .. Len(q) - 1 /\ DOMAIN q = 1 .. Len(q)
      /\ Len(q) \in Nat \ {0}
      /\ \A i \in 1 .. Len(q) - 1 : r[i] = q[i + 1]
      /\ Head(q) = q[1] /\ r \in Seq(Items)
  OBVIOUS
<1> HIDE DEF r
<1>2. \A i \in NonesOf(r) : i \in Nat /\ i + 1 \in rest
  BY <1>1 DEF NonesOf
<1>3. \A j \in rest : j - 1 \in NonesOf(r) /\ (j - 1) + 1 = j
  BY <1>1 DEF NonesOf
<1>4. ExistsBijection(NonesOf(r), rest)
  <2> HIDE DEF rest
  <2>1. up \in [NonesOf(r) -> rest]
    BY <1>2
  <2>2. \A i, j \in NonesOf(r) : up[i] = up[j] => i = j
    BY <1>2
  <2>3. \A j \in rest : \E i \in NonesOf(r) : up[i] = j
    BY <1>3
  <2> HIDE DEF up
  <2>4. up \in Bijection(NonesOf(r), rest)
    BY <2>1, <2>2, <2>3, Fun_IsBij
  <2> QED BY <2>4 DEF ExistsBijection
<1>5. Cardinality(rest) = Cardinality(NonesOf(r))
  BY <1>1, <1>4, NonesFinite, FS_Bijection
<1>6. 1 \in NonesOf(q) <=> Head(q) = None
  BY <1>1 DEF NonesOf
<1> QED BY <1>5, <1>6, NonesFinite, FS_RemoveElement DEF r
LEMMA NoneAtOf == NoneAt = NonesOf(queue) /\ (NoneAt = NonesOf(queue))'
BY DEF NoneAt, NonesOf

LEMMA LiveFinite == IsFiniteSet(Live) /\ Cardinality(Live) \in Nat
<1>1. Live \subseteq Workers
  BY DEF Live
<1> QED BY <1>1, FS_Subset, FS_CardinalityType, QueueAssumption

(* The workers alive are matched by the Nones queued and the Nones still to *)
(* put; there are none on the queue before the shutdown starts.             *)
SentinelInv ==
  /\ overflow # "drop_oldest" => Cardinality(Live) = Cardinality(NoneAt) + sentinels
  /\ task["loop"] = "gather" => sentinels = 0
  /\ ~ShuttingDown => NoneAt = {}

LEMMA SentinelInit == Init => SentinelInv
<1> SUFFICES ASSUME Init PROVE SentinelInv
  OBVIOUS
<1>1. NoneAt = {} /\ Live = Workers
  BY DEF Init, NoneAt, Live, Waiting, Exited
<1>2. Cardinality(NoneAt) = 0
  BY <1>1, FS_EmptySet
<1> QED BY <1>1, <1>2, WorkersCardinality DEF Init, SentinelInv, Producers

(* A put of a producer neither adds nor, but for drop_oldest, takes a None. *)
LEMMA PutKeepsNones ==
  ASSUME TInv, NEW p \in Producers, EnqueueUpdate(p)
  PROVE  /\ overflow # "drop_oldest" => Cardinality(NoneAt') = Cardinality(NoneAt)
         /\ NoneAt = {} => NoneAt' = {}
<1> DEFINE new == offered + 1
<1>1. queue \in Seq(Items) /\ task[p] \in {"batch", "blocked"}
  BY DEF EnqueueUpdate, TInv, TypeOK, Items
<1>2. CASE queue' = queue
  BY <1>2, NoneAtOf
<1>3. CASE PutRoom(p)
  <2>1. new \in Items /\ new # None /\ queue' = Append(queue, new)
    BY <1>1, <1>3, AdvanceTypes, QueueAssumption DEF PutRoom, Items, Updates
  <2> HIDE DEF new
  <2>2. Cardinality(NoneAt') = Cardinality(NoneAt)
    BY <1>1, <2>1, NonesAppend, NoneAtOf
  <2> QED BY <1>1, <2>2, NonesFinite, NoneAtOf, FS_EmptySet, <2>1
             DEF NonesOf
<1>4. CASE PutEvicting(p)
  <2>1. new \in Items /\ new # None /\ queue' = Append(Tail(queue), new)
    BY <1>1, <1>4, AdvanceTypes, QueueAssumption DEF PutEvicting, Items, Updates
  <2>2. queue # <<>> /\ Tail(queue) \in Seq(Items)
    BY <1>1, <1>4, QueueAssumption, TailShrinks DEF PutEvicting, Full
  <2> HIDE DEF new
  <2>3. NonesOf(queue) = {} => NonesOf(queue') = {}
    BY <1>1, <2>1, <2>2 DEF NonesOf
  <2> QED BY <1>4, <2>3, NoneAtOf DEF PutEvicting
<1> QED BY <1>2, <1>3, <1>4 DEF EnqueueUpdate, PutRejected, PutBlocks, PutRaises

LEMMA SentinelStep == TInv /\ SentinelInv /\ [Next]_vars => SentinelInv'
<1> SUFFICES ASSUME TInv, SentinelInv, [Next]_vars PROVE SentinelInv'
  OBVIOUS
<1>1. /\ queue \in Seq(Items) /\ Cardinality(NoneAt) \in Nat
      /\ Cardinality(Live) \in Nat /\ sentinels \in Nat
      /\ DOMAIN task = Producers
  BY NonesFinite, NoneAtOf, LiveFinite DEF TInv, TypeOK, Items
<1>2. ASSUME NEW p \in Producers, EnqueueUpdate(p) PROVE SentinelInv'
  <2>1. UNCHANGED <<overflow, sentinels, worker>> /\ Live' = Live
    BY <1>2 DEF EnqueueUpdate, Live
  <2>2. /\ task'["loop"] = "gather" => task["loop"] = "gather"
        /\ ShuttingDown => ShuttingDown'
    <3>1. \E s \in {"poll", "batch", "blocked", "sentinels", "stopped"} : task' = [task EXCEPT ![p] = s]
      BY <1>2 DEF EnqueueUpdate, PutRoom, PutEvicting, PutRejected, PutBlocks, PutRaises, Raise, Advance
    <3>2. task[p] \in {"batch", "blocked"}
      BY <1>2 DEF EnqueueUpdate
    <3> QED BY <1>1, <3>1, <3>2 DEF ShuttingDown, Producers
  <2> QED BY <1>2, <2>1, <2>2, PutKeepsNones DEF SentinelInv
<1>3. ASSUME NEW w \in Workers, Take(w) PROVE SentinelInv'
  <2>1. /\ UNCHANGED <<overflow, sentinels, task>> /\ ShuttingDown' = ShuttingDown
        /\ queue # <<>> /\ queue' = Tail(queue)
    BY <1>3 DEF Take, ShuttingDown
  <2>2. Cardinality(NoneAt') = IF Head(queue) = None THEN Cardinality(NoneAt) - 1
                                                     ELSE Cardinality(NoneAt)
    BY <1>1, <2>1, NonesTail, NoneAtOf
  <2>3. NoneAt = {} => NoneAt' = {}
    BY <1>1, <2>1 DEF NoneAt
  <2>4. Cardinality(Live') = IF Head(queue) = None THEN Cardinality(Live) - 1
                                                   ELSE Cardinality(Live)
    <3>1. CASE Head(queue) = None
      <4>1. Live' = Live \ {w} /\ w \in Live
        BY <1>3, <3>1 DEF Take, TInv, TypeOK, Live, Waiting, Exited
      <4> QED BY <3>1, <4>1, LiveFinite, FS_RemoveElement
    <3>2. CASE Head(queue) # None
      <4>1. Live' = Live
        BY <1>3, <3>2 DEF Take, TInv, TypeOK, Live, Waiting, Exited, Handling
      <4> QED BY <3>2, <4>1
    <3> QED BY <3>1, <3>2
  <2> QED BY <1>1, <2>1, <2>2, <2>3, <2>4 DEF SentinelInv
<1>4. ASSUME NEW w \in Workers, Finish(w) PROVE SentinelInv'
  <2>1. Live' = Live
    BY <1>4 DEF Finish, TInv, TypeOK, Busy, Live, Waiting, Exited
  <2> QED BY <1>4, <2>1 DEF Finish, SentinelInv, NoneAt, ShuttingDown
<1>5. CASE PutSentinel
  <2>1. UNCHANGED <<overflow, worker>> /\ Live' = Live /\ task["loop"] = "sentinels"
    BY <1>5 DEF PutSentinel, Live
  <2>2. CASE ~Full
    <3>1. /\ queue' = Append(queue, None) /\ sentinels' = sentinels - 1
          /\ task' = [task EXCEPT !["loop"] = IF sentinels = 1 THEN "gather" ELSE @]
      BY <1>5, <2>2 DEF PutSentinel
    <3>2. Cardinality(NoneAt') = Cardinality(NoneAt) + 1
      BY <1>1, <3>1, NonesAppend, NoneAtOf DEF Items
    <3>3. ShuttingDown' /\ (task'["loop"] = "gather" => sentinels = 1)
      BY <1>1, <2>1, <3>1 DEF ShuttingDown, Producers
    <3> QED BY <1>1, <2>1, <3>1, <3>2, <3>3 DEF SentinelInv
  <2>3. CASE Full
    BY <1>5, <2>1, <2>3 DEF PutSentinel, SentinelInv, NoneAt, ShuttingDown
  <2> QED BY <2>2, <2>3
<1>6. CASE /\ UNCHANGED <<overflow, queue, sentinels, worker>>
           /\ task'["loop"] = "gather" => task["loop"] = "gather"
           /\ ShuttingDown => ShuttingDown'
  BY <1>6 DEF SentinelInv, NoneAt, Live
<1>7. CASE StopLoop
  BY <1>1, <1>6, <1>7 DEF StopLoop, ShuttingDown, Producers
<1>8. ASSUME NEW p \in Producers, BatchArrives(p) PROVE SentinelInv'
  BY <1>1, <1>6, <1>8 DEF BatchArrives, ShuttingDown, Producers
<1>9. CASE LoopReturns \/ PumpStops \/ UNCHANGED vars
  BY <1>1, <1>6, <1>9 DEF LoopReturns, PumpStops, vars, ShuttingDown, Producers
<1>10. ASSUME NEW p \in Producers, BatchRaises(p) PROVE SentinelInv'
  <2>1. /\ task' = [task EXCEPT ![p] = IF p = "loop" THEN "sentinels" ELSE "stopped"]
        /\ task[p] = "batch" /\ UNCHANGED <<overflow, queue, sentinels, worker>>
    BY <1>10 DEF BatchRaises, Raise
  <2> QED
    BY <1>1, <1>6, <2>1 DEF ShuttingDown, Producers
<1> QED BY <1>2, <1>3, <1>4, <1>5, <1>7, <1>8, <1>9, <1>10 DEF Next

(* While the loop waits for its workers, the queue holds exactly one None   *)
(* for each worker still alive, however the pump interleaves its puts, for  *)
(* any number of workers and any capacity, under "block" and "drop_newest". *)
THEOREM QueueSentinels == Spec => []SentinelPerWorker
<1>1. TInv /\ SentinelInv => SentinelPerWorker
  BY NonesFinite, NoneAtOf DEF TInv, TypeOK, Items, SentinelInv, SentinelPerWorker
<1>2. Init => TInv /\ SentinelInv
  BY TInvInit, SentinelInit
<1>3. TInv /\ SentinelInv /\ [Next]_vars => TInv' /\ SentinelInv'
  BY TInvStep, SentinelStep
<1> QED BY <1>1, <1>2, <1>3, PTL DEF Spec

(* A producer keeps its turn only in a batch or between two Nones.          *)
InTurn(p) == task[p] = "batch" \/ (p = "loop" /\ task[p] = "sentinels")
TurnInv == \A p \in Producers : running = p => InTurn(p)

LEMMA TurnStep == TInv /\ TurnInv /\ [Next]_vars => TurnInv'
<1> SUFFICES ASSUME TInv, TurnInv, [Next]_vars PROVE TurnInv'
  OBVIOUS
<1>1. /\ DOMAIN task = Producers /\ None \notin Producers
      /\ running \in Producers \cup {None}
  BY QueueAssumption DEF TInv, TypeOK, Producers
<1>2. ASSUME NEW p \in Producers, BatchArrives(p) PROVE TurnInv'
  <2>1. task' = [task EXCEPT ![p] = "batch"] /\ running' = p
    BY <1>2 DEF BatchArrives
  <2> QED
    BY <1>1, <2>1 DEF TurnInv, InTurn
<1>3. ASSUME NEW p \in Producers, EnqueueUpdate(p) PROVE TurnInv'
  <2>1. CASE Advance(p)
    BY <1>1, <2>1 DEF Advance, TurnInv, InTurn
  <2>2. CASE PutBlocks(p)
    BY <1>1, <2>2 DEF PutBlocks, TurnInv
  <2>3. CASE PutRaises(p)
    BY <1>1, <2>3 DEF PutRaises, Raise, TurnInv, InTurn
  <2> QED
    BY <1>3, <2>1, <2>2, <2>3 DEF EnqueueUpdate, PutRoom, PutEvicting, PutRejected
<1>4. ASSUME NEW w \in Workers, Take(w) \/ Finish(w) PROVE TurnInv'
  BY <1>4 DEF Take, Finish, TurnInv, InTurn
<1>5. CASE StopLoop
  <2>1. task' = [task EXCEPT !["loop"] = "sentinels"] /\ running' = "loop"
    BY <1>5 DEF StopLoop
  <2> QED
    BY <1>1, <2>1 DEF TurnInv, InTurn, Producers
<1>6. CASE PutSentinel
  <2>1. CASE running' = None
    BY <1>1, <2>1 DEF TurnInv
  <2>2. CASE running' # None
    <3>1. running' = "loop" /\ task["loop"] = "sentinels" /\ task'["loop"] = "sentinels"
      BY <1>1, <1>6, <2>2 DEF PutSentinel, Producers
    <3> QED
      BY <3>1 DEF TurnInv, InTurn
  <2> QED
    BY <2>1, <2>2
<1>7. CASE LoopReturns
  BY <1>1, <1>7 DEF LoopReturns, TurnInv
<1>8. CASE PumpStops
  BY <1>1, <1>8 DEF PumpStops, TurnInv
<1>9. CASE UNCHANGED vars
  BY <1>9 DEF vars, TurnInv, InTurn
<1>10. ASSUME NEW p \in Producers, BatchRaises(p) PROVE TurnInv'
  BY <1>1, <1>10 DEF BatchRaises, Raise, TurnInv, InTurn
<1> QED
  BY <1>2, <1>3, <1>4, <1>5, <1>6, <1>7, <1>8, <1>9, <1>10 DEF Next

(* The guard of a step that brings the shutdown on: a producer is in the    *)
(* middle of its turn, a living worker has an update to finish or an item   *)
(* to take, the loop has room for its next None, or gather() can return.    *)
ShutdownCanMove ==
  \/ \E p \in Producers : running = p /\ InTurn(p)
  \/ /\ running = None
     /\ \/ \E w \in Live : w \in Busy \/ (worker[w] = Waiting /\ queue # <<>>)
        \/ task["loop"] = "sentinels" /\ ~Full
        \/ task["loop"] = "gather" /\ Live = {}

(* The shutdown never waits for what cannot come: neither the loop at a     *)
(* full queue nor gather() while workers wait.  What EveryWorkerReleased    *)
(* shows of "drop_oldest" is impossible under the policies that never       *)
(* evict.                                                                   *)
THEOREM QueueShutdownMoves ==
  Spec => [](overflow # "drop_oldest" /\ task["loop"] \in {"sentinels", "gather"} => ShutdownCanMove)
<1>1. TInv /\ SentinelInv /\ TurnInv =>
        (overflow # "drop_oldest" /\ task["loop"] \in {"sentinels", "gather"} => ShutdownCanMove)
  <2> SUFFICES ASSUME TInv, SentinelInv, TurnInv, overflow # "drop_oldest",
                      task["loop"] \in {"sentinels", "gather"}, ~ShutdownCanMove
               PROVE  FALSE
    OBVIOUS
  <2>1. running = None
    BY DEF TInv, TypeOK, TurnInv, ShutdownCanMove
  <2>2. /\ Len(queue) \in Nat /\ (queue = <<>> <=> Len(queue) = 0)
        /\ sentinels \in Nat /\ Capacity \in Nat \ {0}
    BY QueueAssumption, WorkersCardinality DEF TInv, TypeOK
  <2>3. Cardinality(Live) = Cardinality(NoneAt) + sentinels
    BY DEF SentinelInv
  <2>4. /\ IsFiniteSet(NoneAt) /\ Cardinality(NoneAt) \in Nat
        /\ IsFiniteSet(Live) /\ Cardinality(Live) \in Nat
    BY NonesFinite, NoneAtOf, LiveFinite DEF TInv, TypeOK, Items
  <2>5. Live # {}
    <3>1. CASE task["loop"] = "sentinels"
      <4>1. sentinels >= 1
        BY <3>1 DEF TInv, BatchInv
      <4>2. Cardinality(Live) # 0
        BY <2>2, <2>3, <2>4, <4>1
      <4> QED
        BY <4>2, FS_EmptySet
    <3>2. CASE task["loop"] = "gather"
      BY <2>1, <3>2 DEF ShutdownCanMove
    <3> QED
      BY <3>1, <3>2
  <2>6. queue # <<>>
    <3>1. CASE task["loop"] = "sentinels"
      BY <2>1, <2>2, <3>1 DEF ShutdownCanMove, Full
    <3>2. CASE task["loop"] = "gather"
      <4>1. sentinels = 0
        BY <3>2 DEF SentinelInv
      <4>2. NoneAt # {}
        BY <2>2, <2>3, <2>4, <2>5, <4>1, FS_EmptySet
      <4> QED
        BY <2>2, <4>2 DEF NoneAt
    <3> QED
      BY <3>1, <3>2
  <2>7. PICK w \in Live : TRUE
    BY <2>5
  <2>8. w \in Workers /\ (worker[w] = Waiting \/ worker[w].kind = "handling")
    BY DEF Live, TInv, TypeOK, Handling
  <2> QED
    BY <2>1, <2>6, <2>8 DEF ShutdownCanMove, Busy
<1>2. Init => TInv /\ SentinelInv /\ TurnInv
  <2>2. Init => TurnInv
    BY QueueAssumption DEF Init, TurnInv, Producers
  <2> QED
    BY <2>2, TInvInit, SentinelInit
<1>3. TInv /\ SentinelInv /\ TurnInv /\ [Next]_vars => TInv' /\ SentinelInv' /\ TurnInv'
  BY TInvStep, SentinelStep, TurnStep
<1> QED BY <1>1, <1>2, <1>3, PTL DEF Spec

(* An ascending queue without a None holds as many updates as items.        *)
LEMMA QueuedCount ==
  ASSUME NEW q \in Seq(Items), Ascending(q), NonesOf(q) = {}, None \notin Nat
  PROVE  IsFiniteSet(UpdatesOf(q)) /\ Cardinality(UpdatesOf(q)) = Len(q)
<1>1. DOMAIN q = 1 .. Len(q) /\ Len(q) \in Nat /\ \A i \in DOMAIN q : q[i] \in Updates
  BY DEF Items, NonesOf
<1>2. UpdatesOf(q) = {q[i] : i \in DOMAIN q}
  BY <1>1 DEF UpdatesOf, Updates
<1>3. \A i, j \in DOMAIN q : q[i] = q[j] => i = j
  <2> SUFFICES ASSUME NEW i \in DOMAIN q, NEW j \in DOMAIN q, i < j, q[i] = q[j] PROVE FALSE
    BY <1>1
  <2>1. q[i] < q[j]
    BY <1>1 DEF Ascending, NonesOf
  <2> QED BY <1>1, <2>1 DEF Updates
<1>4. q \in [1 .. Len(q) -> UpdatesOf(q)]
  BY <1>1, <1>2
<1>5. q \in Bijection(1 .. Len(q), UpdatesOf(q))
  BY <1>1, <1>2, <1>3, <1>4, Fun_IsBij
<1>6. ExistsBijection(1 .. Len(q), UpdatesOf(q))
  BY <1>5 DEF ExistsBijection
<1>7. IsFiniteSet(1 .. Len(q)) /\ Cardinality(1 .. Len(q)) = Len(q)
  <2> DEFINE n == Len(q)
  <2>1. n \in Nat
    BY <1>1
  <2> HIDE DEF n
  <2>2. /\ IsFiniteSet(1 .. n)
        /\ Cardinality(1 .. n) = IF 1 > n THEN 0 ELSE n - 1 + 1
    BY <2>1, FS_Interval
  <2>3. Cardinality(1 .. n) = n
    BY <2>1, <2>2
  <2> QED BY <2>2, <2>3 DEF n
<1> QED BY <1>6, <1>7, FS_Bijection

LEMMA ShutdownLasts == TInv /\ ShuttingDown /\ [Next]_vars => ShuttingDown'
<1> SUFFICES ASSUME TInv, ShuttingDown, [Next]_vars PROVE ShuttingDown'
  OBVIOUS
<1>1. DOMAIN task = Producers
  BY DEF TInv, TypeOK
<1>2. ASSUME NEW p \in Producers, EnqueueUpdate(p) PROVE ShuttingDown'
  <2>1. \E s \in {"poll", "batch", "blocked", "sentinels", "stopped"} : task' = [task EXCEPT ![p] = s]
    BY <1>2 DEF EnqueueUpdate, PutRoom, PutEvicting, PutRejected, PutBlocks, PutRaises, Raise, Advance
  <2>2. task[p] \in {"batch", "blocked"}
    BY <1>2 DEF EnqueueUpdate
  <2> QED BY <1>1, <2>1, <2>2 DEF ShuttingDown, Producers
<1>3. ASSUME NEW p \in Producers, BatchArrives(p) PROVE ShuttingDown'
  BY <1>1, <1>3 DEF BatchArrives, ShuttingDown, Producers
<1>4. CASE PutSentinel
  BY <1>1, <1>4 DEF PutSentinel, ShuttingDown, Producers
<1>5. CASE LoopReturns \/ PumpStops \/ StopLoop
  BY <1>1, <1>5 DEF LoopReturns, PumpStops, StopLoop, ShuttingDown, Producers
<1>6. CASE UNCHANGED task
  BY <1>6 DEF ShuttingDown
<1>7. ASSUME NEW p \in Producers, BatchRaises(p) PROVE ShuttingDown'
  BY <1>1, <1>7 DEF BatchRaises, Raise, ShuttingDown, Producers
<1> QED BY <1>2, <1>3, <1>4, <1>5, <1>6, <1>7 DEF Next, Take, Finish, vars

(* A loss of drop_newest stays behind as many kept updates as when it was   *)
(* made: what is discarded later is newer than it.                          *)
LEMMA LossGrows ==
  ASSUME TInv, OrderInv, NEW u \in lost, lost' \subseteq lost \cup {offered + 1}
  PROVE  lost \subseteq lost' => (1 .. u - 1) \ lost' = (1 .. u - 1) \ lost
<1>1. u \in 1 .. offered /\ offered \in Nat
  BY OrderFacts
<1>2. offered + 1 \notin 1 .. u - 1
  BY <1>1
<1> QED BY <1>2

LEMMA LossStep ==
  TInv /\ OrderInv /\ SentinelInv /\ LossFollowsPolicy /\ [Next]_vars => LossFollowsPolicy'
<1> SUFFICES ASSUME TInv, OrderInv, SentinelInv, LossFollowsPolicy, [Next]_vars
             PROVE  LossFollowsPolicy'
  OBVIOUS
<1> USE QueueAssumption
<1>1. ASSUME UNCHANGED <<overflow, lost>>, Queued' \subseteq Queued PROVE LossFollowsPolicy'
  <2>1. ShuttingDown => ShuttingDown'
    BY ShutdownLasts
  <2> QED BY <1>1, <2>1 DEF LossFollowsPolicy
<1>2. ASSUME NEW p \in Producers, EnqueueUpdate(p) PROVE LossFollowsPolicy'
  <2>1. task[p] \in {"batch", "blocked"} /\ UNCHANGED overflow
    BY <1>2 DEF EnqueueUpdate
  <2>2. CASE PutBlocks(p)
    BY <1>1, <2>1, <2>2, QueueUntouched, <1>2 DEF PutBlocks, Queued
  <2>3. CASE PutRoom(p)
    <3>1. UNCHANGED lost /\ (ShuttingDown => ShuttingDown')
      BY <2>3, ShutdownLasts DEF PutRoom
    <3>2. ASSUME NEW u \in lost, NEW v \in Queued', overflow = "drop_oldest" PROVE u < v
      <4>1. v \in Queued \cup {offered + 1}
        BY <2>1, <2>3, PutOffers
      <4> QED BY <3>2, <4>1, OrderFacts DEF LossFollowsPolicy
    <3> QED BY <2>1, <3>1, <3>2 DEF LossFollowsPolicy
  <2>4. CASE PutEvicting(p)
    <3>1. overflow = "drop_oldest" /\ lost' = lost \cup ({Head(queue)} \ {None})
      BY <2>4 DEF PutEvicting
    <3>2. ASSUME NEW u \in lost', NEW v \in Queued' PROVE u < v
      <4>1. PICK gone \in SUBSET {x \in Queued \cup {offered + 1} :
                                   x = offered + 1 \/ \A y \in Queued : x <= y} :
              /\ \A x, y \in gone : x = y
              /\ Queued' = (Queued \cup {offered + 1}) \ gone
              /\ lost' = lost \cup gone
        BY <2>1, <2>4, PutOffers
      <4>2. v \in Queued \cup {offered + 1} /\ v \notin gone
        BY <3>2, <4>1
      <4>3. CASE u \in lost
        BY <3>1, <4>2, <4>3, OrderFacts DEF LossFollowsPolicy
      <4>4. CASE u \notin lost
        <5>1. u = Head(queue) /\ u # None /\ u \in gone
          BY <3>1, <3>2, <4>1, <4>4
        <5>2. queue # <<>>
          BY <2>4, OrderFacts DEF PutEvicting, Full
        <5>3. u \in Queued /\ \A x \in Queued : u <= x
          BY <4>1, <5>1, <5>2, TakeFirst, OrderFacts
        <5>4. u \in Nat /\ u < offered + 1 /\ v # u
          BY <4>2, <5>1, <5>3, OrderFacts
        <5> QED BY <4>2, <5>3, <5>4, OrderFacts
      <4> QED BY <4>3, <4>4
    <3> QED BY <2>1, <3>1, <3>2 DEF LossFollowsPolicy
  <2>5. CASE PutRejected(p)
    <3>1. overflow = "drop_newest" /\ lost' = lost \cup {offered + 1} /\ Full
      BY <2>5 DEF PutRejected
    <3>2. ASSUME NEW u \in lost PROVE (ShuttingDown \/ Cardinality((1 .. u - 1) \ lost) >= Capacity)'
      BY <3>1, LossGrows, ShutdownLasts DEF LossFollowsPolicy
    <3>3. ASSUME ~ShuttingDown
          PROVE  Cardinality((1 .. (offered + 1) - 1) \ lost') >= Capacity
      <4>1. NonesOf(queue) = {}
        BY <3>3, NoneAtOf DEF SentinelInv
      <4>2. IsFiniteSet(Queued) /\ Cardinality(Queued) = Len(queue)
        BY <4>1, QueuedCount, OrderFacts
      <4>3. Queued \subseteq (1 .. (offered + 1) - 1) \ lost'
        BY <3>1, OrderFacts DEF OrderInv, OneFate
      <4>4. IsFiniteSet((1 .. (offered + 1) - 1) \ lost')
        <5>1. (offered + 1) - 1 \in Int
          BY OrderFacts
        <5>2. IsFiniteSet(1 .. (offered + 1) - 1)
          BY <5>1, FS_Interval
        <5> QED BY <5>2, FS_Subset
      <4>5. Cardinality(Queued) <= Cardinality((1 .. (offered + 1) - 1) \ lost')
        BY <4>3, <4>4, FS_Subset
      <4> QED BY <3>1, <4>2, <4>4, <4>5, FS_CardinalityType, OrderFacts DEF Full
    <3>4. ShuttingDown => ShuttingDown'
      BY ShutdownLasts
    <3> QED BY <2>1, <3>1, <3>2, <3>3, <3>4 DEF LossFollowsPolicy
  <2>6. CASE PutRaises(p)
    BY <2>1, <2>6 DEF PutRaises, LossFollowsPolicy
  <2> QED BY <1>2, <2>2, <2>3, <2>4, <2>5, <2>6 DEF EnqueueUpdate
<1>3. ASSUME NEW w \in Workers, Take(w) PROVE LossFollowsPolicy'
  <2>1. UNCHANGED <<overflow, lost>> /\ Queued' \subseteq Queued
    BY <1>3, TakeHands DEF Take
  <2> QED BY <1>1, <2>1
<1>4. CASE PutSentinel
  <2>1. UNCHANGED <<overflow, lost>> /\ Queued' \subseteq Queued
    BY <1>4, PutSentinelKeeps DEF PutSentinel
  <2> QED BY <1>1, <2>1
<1>5. CASE UNCHANGED <<overflow, queue, lost>>
  BY <1>1, <1>5 DEF Queued
<1> QED BY <1>2, <1>3, <1>4, <1>5
        DEF Next, BatchArrives, BatchRaises, Finish, StopLoop, LoopReturns, PumpStops, vars

(* "block" loses nothing, "drop_oldest" never an update newer than one it   *)
(* keeps, "drop_newest" only behind a queue's worth of older ones it keeps, *)
(* for every capacity and however the two producers interleave.             *)
THEOREM QueueLoss == Spec => []LossFollowsPolicy
<1>1. Init => SentinelInv /\ LossFollowsPolicy
  BY SentinelInit DEF Init, LossFollowsPolicy
<1>2. TInv /\ OrderInv /\ SentinelInv /\ LossFollowsPolicy /\ [Next]_vars
        => SentinelInv' /\ LossFollowsPolicy'
  BY SentinelStep, LossStep
<1> QED BY <1>1, <1>2, Inductive, PTL DEF Spec

-----------------------------------------------------------------------------
(* What was put before the shutdown began.                                   *)

(* Every update up to n stands before every None.                           *)
FencedBy(q, n) == \A i, j \in DOMAIN q :
                    q[i] = None /\ q[j] # None /\ q[j] <= n => j < i

LEMMA FenceAppend ==
  ASSUME NEW q \in Seq(Items), NEW x \in Items, NEW n \in Nat, FencedBy(q, n),
         x = None \/ ~(x <= n)
  PROVE  FencedBy(Append(q, x), n)
<1> DEFINE r == Append(q, x)
<1>1. /\ DOMAIN r = 1 .. Len(q) + 1 /\ DOMAIN q = 1 .. Len(q) /\ Len(q) \in Nat
      /\ \A i \in 1 .. Len(q) : r[i] = q[i]
      /\ r[Len(q) + 1] = x
  OBVIOUS
<1> HIDE DEF r
<1>2. FencedBy(r, n)
  <2> SUFFICES ASSUME NEW i \in DOMAIN r, NEW j \in DOMAIN r,
                      r[i] = None, r[j] # None, r[j] <= n
               PROVE  j < i
    BY DEF FencedBy
  <2>1. j \in DOMAIN q /\ r[j] = q[j]
    BY <1>1
  <2>2. CASE i = Len(q) + 1
    BY <1>1, <2>1, <2>2
  <2>3. CASE i # Len(q) + 1
    <3>1. i \in DOMAIN q /\ r[i] = q[i]
      BY <1>1, <2>3
    <3> QED
      BY <2>1, <3>1 DEF FencedBy
  <2> QED
    BY <2>2, <2>3
<1> QED
  BY <1>2 DEF r

(* A None at the head of a fenced queue has no update up to n behind it.    *)
LEMMA FenceTail ==
  ASSUME NEW q \in Seq(Items), q # <<>>, NEW n \in Nat, FencedBy(q, n)
  PROVE  /\ FencedBy(Tail(q), n)
         /\ Head(q) = None => \A u \in UpdatesOf(q) : ~(u <= n)
<1> DEFINE r == Tail(q)
<1>1. /\ DOMAIN r = 1 .. Len(q) - 1 /\ DOMAIN q = 1 .. Len(q)
      /\ Len(q) \in Nat \ {0}
      /\ \A i \in 1 .. Len(q) - 1 : r[i] = q[i + 1]
      /\ Head(q) = q[1]
  OBVIOUS
<1> HIDE DEF r
<1>2. FencedBy(r, n)
  <2> SUFFICES ASSUME NEW i \in DOMAIN r, NEW j \in DOMAIN r,
                      r[i] = None, r[j] # None, r[j] <= n
               PROVE  j < i
    BY DEF FencedBy
  <2>1. i + 1 \in DOMAIN q /\ j + 1 \in DOMAIN q /\ r[i] = q[i + 1] /\ r[j] = q[j + 1]
    BY <1>1
  <2>2. j + 1 < i + 1
    BY <2>1 DEF FencedBy
  <2> QED
    BY <1>1, <2>2
<1>3. ASSUME Head(q) = None, NEW u \in UpdatesOf(q), u <= n PROVE FALSE
  <2>1. PICK j \in DOMAIN q : q[j] = u /\ q[j] # None
    BY <1>3 DEF UpdatesOf
  <2>2. j < 1
    BY <1>1, <1>3, <2>1 DEF FencedBy
  <2> QED
    BY <1>1, <2>1, <2>2
<1> QED
  BY <1>2, <1>3 DEF r

(* Workers leave only in a shutdown, and the loop returns only after all of *)
(* them did.                                                                *)
ReleaseInv ==
  /\ ~ShuttingDown => Live = Workers
  /\ task["loop"] = "returned" => Live = {}

(* Update n was put; it and all before it stand before every None; no       *)
(* worker leaves while one of them is queued.                               *)
Fenced(n) ==
  /\ n <= offered
  /\ FencedBy(queue, n)
  /\ Live = Workers \/ \A u \in Queued : ~(u <= n)

LEMMA LiveShrinks == TInv /\ [Next]_vars => Live' \subseteq Live
<1> SUFFICES ASSUME TInv, [Next]_vars PROVE Live' \subseteq Live
  OBVIOUS
<1>1. ASSUME NEW w \in Workers, Take(w) \/ Finish(w) PROVE Live' \subseteq Live
  <2>1. \E s : worker' = [worker EXCEPT ![w] = s]
    BY <1>1 DEF Take, Finish
  <2>2. worker[w] # Exited
    BY <1>1 DEF Take, Finish, Busy, Waiting, Exited
  <2> QED
    BY <2>1, <2>2 DEF Live, TInv, TypeOK
<1>2. CASE UNCHANGED worker
  BY <1>2 DEF Live
<1> QED
  BY <1>1, <1>2 DEF Next, BatchArrives, EnqueueUpdate, BatchRaises, StopLoop, PutSentinel,
                    LoopReturns, PumpStops, vars

(* Only a worker that takes a None leaves.                                  *)
LEMMA NobodyLeaves ==
  ASSUME TInv, [Next]_vars, Live' # Live
  PROVE  /\ \E w \in Workers : Take(w)
         /\ queue # <<>> /\ Head(queue) = None /\ queue' = Tail(queue)
         /\ UNCHANGED <<task, offered>>
<1>1. ASSUME NEW w \in Workers, Finish(w) PROVE FALSE
  <2>1. Live' = Live
    BY <1>1 DEF Finish, TInv, TypeOK, Busy, Live, Waiting, Exited
  <2> QED
    BY <2>1
<1>2. CASE UNCHANGED worker
  BY <1>2 DEF Live
<1>3. ASSUME NEW w \in Workers, Take(w) PROVE Head(queue) = None
  <2> SUFFICES ASSUME Head(queue) # None PROVE FALSE
    OBVIOUS
  <2>1. Live' = Live
    BY <1>3 DEF Take, TInv, TypeOK, Live, Waiting, Exited, Handling
  <2> QED
    BY <2>1
<1>4. \E w \in Workers : Take(w)
  BY <1>1, <1>2 DEF Next, BatchArrives, EnqueueUpdate, BatchRaises, StopLoop, PutSentinel,
                    LoopReturns, PumpStops, vars
<1> QED
  BY <1>3, <1>4 DEF Take

LEMMA ReleaseStep == TInv /\ SentinelInv /\ ReleaseInv /\ [Next]_vars => ReleaseInv'
<1> SUFFICES ASSUME TInv, SentinelInv, ReleaseInv, [Next]_vars PROVE ReleaseInv'
  OBVIOUS
<1>1. ASSUME ~ShuttingDown' PROVE Live' = Workers
  <2>1. ~ShuttingDown
    BY <1>1, ShutdownLasts
  <2>2. NoneAt = {} /\ Live = Workers
    BY <2>1 DEF SentinelInv, ReleaseInv
  <2>3. queue # <<>> => Head(queue) # None
    BY <2>2 DEF NoneAt, TInv, TypeOK
  <2> QED
    BY <2>2, <2>3, NobodyLeaves
<1>2. ASSUME task'["loop"] = "returned" PROVE Live' = {}
  <2>1. CASE task["loop"] = "returned"
    BY <2>1, LiveShrinks DEF ReleaseInv
  <2>2. CASE task["loop"] # "returned"
    <3>1. DOMAIN task = Producers
      BY DEF TInv, TypeOK
    <3>2. LoopReturns
      BY <1>2, <2>2, <3>1
         DEF Next, BatchArrives, EnqueueUpdate, BatchRaises, PutRoom, PutEvicting, PutRejected,
             PutBlocks, PutRaises, Raise, Advance, Take, Finish, StopLoop, PutSentinel, PumpStops,
             vars, Producers
    <3> QED
      BY <3>2 DEF LoopReturns, Live
  <2> QED
    BY <2>1, <2>2
<1> QED
  BY <1>1, <1>2 DEF ReleaseInv

(* The queue before the shutdown has no None to precede.                    *)
LEMMA FencedAtStart ==
  ASSUME TInv, SentinelInv, ReleaseInv, ~ShuttingDown, NEW n \in Nat, n <= offered
  PROVE  Fenced(n)
BY DEF Fenced, FencedBy, SentinelInv, ReleaseInv, NoneAt

LEMMA FencedStep ==
  ASSUME TInv, OrderInv, [Next]_vars, NEW n \in Nat, Fenced(n)
  PROVE  Fenced(n)'
<1> USE QueueAssumption
<1>1. /\ queue \in Seq(Items) /\ offered \in Nat /\ Queued = UpdatesOf(queue)
      /\ Queued \subseteq Nat /\ FencedBy(queue, n) /\ n <= offered
  BY OrderFacts DEF Fenced
<1>2. CASE Live' # Live
  <2>1. queue # <<>> /\ Head(queue) = None /\ queue' = Tail(queue) /\ UNCHANGED offered
    BY <1>2, NobodyLeaves
  <2>2. FencedBy(Tail(queue), n) /\ \A u \in Queued : ~(u <= n)
    BY <1>1, <2>1, FenceTail
  <2>3. Queued' \subseteq Queued
    BY <2>1, <1>1 DEF Queued
  <2> QED
    BY <1>1, <2>1, <2>2, <2>3 DEF Fenced
<1>3. CASE Live' = Live
  <2>1. SUFFICES /\ n <= offered' /\ FencedBy(queue', n)
                 /\ \A u \in Queued' : u \in Queued \/ ~(u <= n)
    BY <1>3, <2>1 DEF Fenced
  <2>2. ASSUME NEW p \in Producers, EnqueueUpdate(p)
        PROVE  /\ n <= offered' /\ FencedBy(queue', n)
               /\ \A u \in Queued' : u \in Queued \/ ~(u <= n)
    <3>1. task[p] \in {"batch", "blocked"}
      BY <2>2 DEF EnqueueUpdate
    <3>2. CASE PutBlocks(p)
      BY <1>1, <3>2 DEF PutBlocks, Queued
    <3>3. CASE PutRoom(p) \/ PutEvicting(p) \/ PutRejected(p) \/ PutRaises(p)
      <4>1. offered' = offered + 1
        BY <3>3 DEF PutRoom, PutEvicting, PutRejected, PutRaises, Advance
      <4>2. offered + 1 \in Items /\ ~(offered + 1 <= n) /\ n <= offered + 1
        BY <1>1, <3>1, NextUpdate DEF Items
      <4>3. Queued' \subseteq Queued \cup {offered + 1}
        BY <3>1, <3>3, PutOffers
      <4>4. CASE PutRoom(p)
        <5>1. queue' = Append(queue, offered + 1)
          BY <4>4 DEF PutRoom
        <5> QED
          BY <1>1, <4>1, <4>2, <4>3, <5>1, FenceAppend
      <4>5. CASE PutEvicting(p)
        <5>1. queue # <<>> /\ queue' = Append(Tail(queue), offered + 1)
          BY <1>1, <4>5 DEF PutEvicting, Full
        <5>2. Tail(queue) \in Seq(Items) /\ FencedBy(Tail(queue), n)
          BY <1>1, <5>1, FenceTail
        <5> QED
          BY <4>1, <4>2, <4>3, <5>1, <5>2, FenceAppend
      <4>6. CASE PutRejected(p) \/ PutRaises(p)
        BY <1>1, <4>1, <4>2, <4>3, <4>6 DEF PutRejected, PutRaises
      <4> QED
        BY <3>3, <4>4, <4>5, <4>6
    <3> QED
      BY <2>2, <3>2, <3>3 DEF EnqueueUpdate
  <2>3. ASSUME NEW w \in Workers, Take(w)
        PROVE  /\ n <= offered' /\ FencedBy(queue', n)
               /\ \A u \in Queued' : u \in Queued \/ ~(u <= n)
    <3>1. queue # <<>> /\ queue' = Tail(queue) /\ UNCHANGED offered
      BY <2>3 DEF Take
    <3>2. FencedBy(Tail(queue), n)
      BY <1>1, <3>1, FenceTail
    <3>3. Queued' \subseteq Queued
      BY <2>3, TakeHands
    <3> QED
      BY <1>1, <3>1, <3>2, <3>3
  <2>4. ASSUME PutSentinel
        PROVE  /\ n <= offered' /\ FencedBy(queue', n)
               /\ \A u \in Queued' : u \in Queued \/ ~(u <= n)
    <3>1. Queued' = Queued /\ UNCHANGED offered
      BY <2>4, PutSentinelKeeps
    <3>2. queue' = queue \/ queue' = Append(queue, None)
      BY <2>4 DEF PutSentinel
    <3>3. FencedBy(queue', n)
      BY <1>1, <3>2, FenceAppend DEF Items
    <3> QED
      BY <1>1, <3>1, <3>3
  <2>5. ASSUME UNCHANGED <<queue, offered>>
        PROVE  /\ n <= offered' /\ FencedBy(queue', n)
               /\ \A u \in Queued' : u \in Queued \/ ~(u <= n)
    BY <1>1, <2>5 DEF Queued
  <2> QED
    BY <2>2, <2>3, <2>4, <2>5
       DEF Next, BatchArrives, BatchRaises, Finish, StopLoop, LoopReturns, PumpStops, vars
<1> QED
  BY <1>2, <1>3

(* A shutdown abandons nothing that was put before it began: once the loop  *)
(* has returned, each of those updates went to a worker, which is done with *)
(* it, or was discarded by the policy, however the Nones of client.py:646   *)
(* and the puts of the pump interleave and whichever policy is in force.    *)
(* Only what the pump puts behind the Nones can stay on the queue.          *)
THEOREM QueueDrains ==
  ASSUME NEW n \in Nat
  PROVE  Spec => [](~ShuttingDown /\ n <= offered =>
                      [](task["loop"] = "returned" =>
                           Busy = {} /\ 1 .. n \subseteq Taken \cup lost))
<1> DEFINE IInv == TInv /\ OrderInv /\ SentinelInv /\ ReleaseInv
           Before == ~ShuttingDown /\ n <= offered
           Settled == task["loop"] = "returned" => Busy = {} /\ 1 .. n \subseteq Taken \cup lost
           Ahead == Fenced(n)
<1>1. Init => IInv
  <2>1. Init => ReleaseInv
    BY DEF Init, ReleaseInv, Live, Waiting, Exited, Producers
  <2> QED
    BY <2>1, TInvInit, OrderInit, SentinelInit
<1>2. IInv /\ [Next]_vars => IInv'
  BY TInvStep, OrderStep, SentinelStep, ReleaseStep
<1>3. IInv /\ Before => Ahead
  BY FencedAtStart
<1>4. IInv /\ Ahead /\ [Next]_vars => Ahead'
  BY FencedStep
<1>5. IInv /\ Ahead => Settled
  <2> SUFFICES ASSUME IInv, Ahead, task["loop"] = "returned"
               PROVE  Busy = {} /\ 1 .. n \subseteq Taken \cup lost
    OBVIOUS
  <2>1. Live = {} /\ Live # Workers
    BY QueueAssumption DEF ReleaseInv
  <2>2. Busy = {}
    BY <2>1 DEF Busy, Live, Exited
  <2>3. \A u \in Queued : ~(u <= n)
    BY <2>1 DEF Fenced
  <2>4. n <= offered /\ offered \in Nat /\ Queued \cup Taken \cup lost = 1 .. offered
    BY OrderFacts DEF Fenced, OrderInv, OneFate, Taken
  <2>5. 1 .. n \subseteq 1 .. offered
    BY <2>4
  <2>6. \A u \in 1 .. n : u <= n
    OBVIOUS
  <2> QED
    BY <2>2, <2>3, <2>4, <2>5, <2>6
<1> HIDE DEF IInv, Before, Settled, Ahead
<1>6. Spec => [](Before => []Settled)
  BY <1>1, <1>2, <1>3, <1>4, <1>5, PTL DEF Spec
<1> QED
  BY <1>6 DEF Before, Settled
=============================================================================
