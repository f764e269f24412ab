------------------------ MODULE ClientLifecycle_proofs ------------------------
(***************************************************************************)
(* Theorems about ClientLifecycle for any number of callers, calls, orders,*)
(* failures and pumps.                                                     *)
(***************************************************************************)
EXTENDS ClientLifecycle, FiniteSetTheorems, SequenceTheorems, TLAPS

(* The connection was made by this client; a task is in a state its code    *)
(* has: a caller and the updater of a run await a request, start() and its  *)
(* requests belong to a run or a restore, the loop to a run.                *)
Between == {"wait", "move", "pump", "greet"}
Setup == {"connect", "loading", "started"}
TaskState == [pc : {"idle", "loop", "closing", "final", "saving"} \cup Between \cup Setup,
              on : Nat, back : {"idle", "started", "loop"}, retried : BOOLEAN]
PumpState == [st : {"new", "reading", "cancelled", "ended", "dead", "raised"}, on : Nat]

Role(a, t) ==
  \/ a \in Callers /\ t.back = "idle" /\ t.pc \in {"idle"} \cup Between
  \/ a = "stop" /\ t.back = "idle" /\ t.pc \in {"idle", "saving"}
  \/ a = "restore" /\ t.back = "idle" /\ t.pc = "idle"
  \/ a = "main" /\ t.back = "idle" /\ t.pc \in {"idle", "closing", "final"}
  \/ a \in {"main", "restore"} /\ t.back = "started" /\ t.pc \in Setup \cup Between
  \/ a = "main" /\ t.back = "loop" /\ t.pc \in {"loop"} \cup Between

Tasks == task \in [Actors -> TaskState] /\ \A a \in Actors : Role(a, task[a])
Counts ==
  /\ calls \in [Actors -> Nat]
  /\ calls["stop"] = 0 => At("stop", "idle")
  /\ calls["restore"] = 0 => At("restore", "idle")
Conns == conn \in Nat /\ dcOf \in Seq(DCs \cup {Home})
Pumps ==
  /\ pumps \in Seq(PumpState) /\ pumpTask \in 0 .. Len(pumps)
  /\ InRun => pumpTask # 0

(* The types, and what the phases of the tasks say about the pump.          *)
Typed == Tasks /\ Counts /\ Conns /\ Pumps

LEMMA TaskSet ==
  ASSUME Tasks, NEW a \in Actors, NEW t \in TaskState, Role(a, t), task' = [task EXCEPT ![a] = t]
  PROVE  Tasks' /\ task'[a] = t /\ \A b \in Actors \ {a} : task'[b] = task[b]
  BY DEF Tasks

LEMMA IdleState == Idle \in TaskState /\ \A a \in Actors \ {"main"} : Role(a, Idle)
  BY DEF Idle, TaskState, Role, Actors

(* The actors are told apart by their names.                                *)
LEMMA ActorNames ==
  /\ "main" \in Actors /\ "stop" \in Actors /\ "restore" \in Actors
  /\ Callers \subseteq Actors
  /\ "main" \notin Callers /\ "stop" \notin Callers /\ "restore" \notin Callers
  BY LifecycleAssumption DEF Actors

LEMMA Raised ==
  ASSUME Tasks, NEW a \in Actors, Raises(a), task[a].pc \in {"idle", "loop"} \cup Between \cup Setup
  PROVE  /\ Tasks' /\ \A b \in Actors \ {a} : task'[b] = task[b]
         /\ \/ task'[a] = [Idle EXCEPT !.pc = "loop", !.back = "loop"] /\ task[a].back = "loop"
            \/ task'[a] = Idle /\ task[a].back # "loop"
  <1> DEFINE t == IF task[a].back = "loop" THEN [Idle EXCEPT !.pc = "loop", !.back = "loop"] ELSE Idle
  <1>1. task' = [task EXCEPT ![a] = t]
    BY DEF Raises
  <1>2. t \in TaskState /\ Role(a, t)
    BY ActorNames DEF Tasks, Role, TaskState, Idle, Between, Setup
  <1>3. task[a].back = "loop" => t = [Idle EXCEPT !.pc = "loop", !.back = "loop"]
    OBVIOUS
  <1>4. task[a].back # "loop" => t = Idle
    OBVIOUS
  <1> HIDE DEF t
  <1> QED
    BY <1>1, <1>2, <1>3, <1>4, TaskSet

LEMMA Sent ==
  ASSUME Tasks, Conns, NEW a \in Actors, NEW back, NEW retried \in BOOLEAN, Send(a, back, retried),
         task[a].pc \in {"idle", "loop"} \cup Between \cup Setup,
         Role(a, [pc |-> "wait", on |-> conn, back |-> back, retried |-> retried]),
         back \in {"idle", "started", "loop"}
  PROVE  /\ Tasks' /\ \A b \in Actors \ {a} : task'[b] = task[b]
         /\ \/ conn # 0 /\ task'[a] = [pc |-> "wait", on |-> conn, back |-> back, retried |-> retried]
            \/ /\ conn = 0 /\ task[a].back = "loop"
               /\ task'[a] = [Idle EXCEPT !.pc = "loop", !.back = "loop"]
            \/ conn = 0 /\ task[a].back # "loop" /\ task'[a] = Idle
  <1>1. CASE conn = 0
    BY <1>1, Raised DEF Send
  <1>2. CASE conn # 0
    <2> DEFINE t == [pc |-> "wait", on |-> conn, back |-> back, retried |-> retried]
    <2>1. t \in TaskState
      BY DEF TaskState, Between, Conns
    <2>2. task' = [task EXCEPT ![a] = t]
      BY <1>2 DEF Send
    <2> HIDE DEF t
    <2> QED
      BY <1>2, <2>1, <2>2, TaskSet DEF t
  <1> QED
    BY <1>1, <1>2

LEMMA PumpSet ==
  ASSUME pumps \in Seq(PumpState), NEW p \in DOMAIN pumps, NEW x \in PumpState,
         pumps' = [pumps EXCEPT ![p] = x]
  PROVE  /\ pumps' \in Seq(PumpState) /\ Len(pumps') = Len(pumps) /\ DOMAIN pumps' = DOMAIN pumps
         /\ pumps'[p] = x /\ \A q \in DOMAIN pumps \ {p} : pumps'[q] = pumps[q]
  BY ExceptSeq, LenProperties

LEMMA PumpAdded ==
  ASSUME Pumps, NewPump
  PROVE  /\ pumps' \in Seq(PumpState) /\ pumpTask' \in 1 .. Len(pumps')
         /\ pumpTask' = Len(pumps) + 1 /\ pumps'[pumpTask'] = [st |-> "new", on |-> 0]
         /\ DOMAIN pumps' = DOMAIN pumps \cup {pumpTask'}
         /\ \A q \in DOMAIN pumps : pumps'[q] = pumps[q]
  <1> DEFINE x == [st |-> "new", on |-> 0]
  <1>1. x \in PumpState
    BY DEF PumpState
  <1>2. pumps' = Append(pumps, x) /\ pumpTask' = Len(pumps) + 1
    BY DEF NewPump
  <1> HIDE DEF x
  <1> QED
    BY <1>1, <1>2, AppendProperties, LenProperties DEF Pumps, x

LEMMA PumpCancel ==
  ASSUME Pumps, CancelPump, pumpTask # 0
  PROVE  /\ pumps' \in Seq(PumpState) /\ Len(pumps') = Len(pumps) /\ DOMAIN pumps' = DOMAIN pumps
         /\ \A q \in DOMAIN pumps : Live(q)' <=> Live(q)
  <1> DEFINE x == IF Live(pumpTask) THEN [st |-> "cancelled", on |-> 0] ELSE pumps[pumpTask]
  <1>1. pumpTask \in DOMAIN pumps
    BY LenProperties DEF Pumps
  <1>2. x \in PumpState
    BY <1>1, ElementOfSeq, LenProperties DEF Pumps, PumpState
  <1>3. pumps' = [pumps EXCEPT ![pumpTask] = x]
    BY <1>1 DEF CancelPump
  <1>4. x.st \notin {"ended", "dead", "raised"} <=> Live(pumpTask)
    BY DEF Live
  <1> HIDE DEF x
  <1> QED
    BY <1>1, <1>2, <1>3, <1>4, PumpSet DEF Pumps, Live

LEMMA Connection ==
  ASSUME Conns, NEW dc \in DCs \cup {Home}, Connected(dc)
  PROVE  Conns' /\ conn' # 0
  BY AppendProperties, LenProperties DEF Conns, Connected

LEMMA Calling ==
  ASSUME Counts, NEW a \in Actors, Counted(a),
         \A b \in Actors \ {a} : task'[b] = task[b]
  PROVE  Counts' /\ \A b \in {"stop", "restore"} : calls'[b] = 0 => calls[b] = 0 /\ a # b
  BY ActorNames DEF Counts, Counted, At

(* A request, a migration or a start() moves its own task only, and neither *)
(* enters nor leaves a run.                                                 *)
Moves(a) ==
  /\ Tasks' /\ \A b \in Actors \ {a} : task'[b] = task[b]
  /\ a # "stop" /\ (a = "restore" => ~At(a, "idle"))
  /\ a = "main" => /\ task[a].pc \notin {"idle", "closing", "final"}
                   /\ task'[a].pc \notin {"closing", "final"}
                   /\ task[a].back = "loop" <=> task'[a].back = "loop"

LEMMA StepTask ==
  ASSUME Typed, NEW a \in Actors, Step(a)
  PROVE  Moves(a)
  <1> USE ActorNames
  <1>1. task[a] \in TaskState /\ Role(a, task[a])
    BY DEF Typed, Tasks
  <1>2. ASSUME NEW t \in TaskState, task' = [task EXCEPT ![a] = t],
               t.back = task[a].back, t.pc \in {task[a].back} \cup Between \cup Setup,
               task[a].pc \in {"loop"} \cup Between \cup Setup,
               Role(a, t)
        PROVE  Moves(a)
    <2>1. Tasks' /\ task'[a] = t /\ \A b \in Actors \ {a} : task'[b] = task[b]
      BY <1>2, TaskSet DEF Typed
    <2> QED
      BY <1>1, <1>2, <2>1 DEF Role, Between, Setup, At, TaskState, Moves
  <1>3. ASSUME Raises(a), task[a].pc \in Between \cup Setup
        PROVE  Moves(a)
    <2>1. /\ Tasks' /\ \A b \in Actors \ {a} : task'[b] = task[b]
          /\ \/ task'[a] = [Idle EXCEPT !.pc = "loop", !.back = "loop"] /\ task[a].back = "loop"
             \/ task'[a] = Idle /\ task[a].back # "loop"
      BY <1>3, Raised DEF Typed
    <2>2. task'[a].pc \in {"idle", "loop"} /\ (task'[a].back = "loop" <=> task[a].back = "loop")
      <3>1. Idle.pc = "idle" /\ Idle.back = "idle"
        BY DEF Idle
      <3>2. [Idle EXCEPT !.pc = "loop", !.back = "loop"].pc = "loop"
            /\ [Idle EXCEPT !.pc = "loop", !.back = "loop"].back = "loop"
        BY DEF Idle
      <3> QED
        BY <2>1, <3>1, <3>2
    <2>3. a # "stop" /\ task[a].pc \notin {"idle", "closing", "final"}
      BY <1>1, <1>3 DEF Role, Between, Setup, At
    <2> QED
      BY <2>1, <2>2, <2>3 DEF Moves, At
  <1>4. ASSUME NEW retried \in BOOLEAN, Send(a, task[a].back, retried),
               task[a].pc \in Between \/ (task[a].pc \in Setup /\ task[a].back = "started")
        PROVE  Moves(a)
    <2>1. CASE conn = 0
      BY <1>3, <1>4, <2>1 DEF Send
    <2>2. CASE conn # 0
      <3> DEFINE t == [pc |-> "wait", on |-> conn, back |-> task[a].back, retried |-> retried]
      <3>1. t \in TaskState /\ Role(a, t)
        BY <1>1, <1>4 DEF TaskState, Role, Between, Setup, Typed, Conns
      <3>2. task' = [task EXCEPT ![a] = t]
        BY <1>4, <2>2 DEF Send
      <3>3. t.back = task[a].back /\ t.pc \in Between
        BY DEF Between
      <3> HIDE DEF t
      <3> QED
        BY <1>2, <1>4, <3>1, <3>2, <3>3
    <2> QED
      BY <2>1, <2>2
  <1>5. CASE Call(a)
    <2>1. CASE a \in Callers /\ At(a, "idle") /\ Send(a, "idle", FALSE)
      <3>1. Role(a, [pc |-> "wait", on |-> conn, back |-> "idle", retried |-> FALSE])
        BY <2>1 DEF Role, Between
      <3>2. Tasks' /\ \A b \in Actors \ {a} : task'[b] = task[b]
        BY <2>1, <3>1, Sent DEF Typed, At
      <3> QED
        BY <2>1, <3>2 DEF Moves
    <2>2. CASE a = "main" /\ At(a, "loop") /\ conn # 0 /\ Send(a, "loop", FALSE)
      <3> DEFINE t == [pc |-> "wait", on |-> conn, back |-> "loop", retried |-> FALSE]
      <3>1. task[a].back = "loop" /\ task[a].pc = "loop"
        BY <1>1, <2>2 DEF Role, Between, Setup, At
      <3>2. t \in TaskState /\ Role(a, t) /\ t.back = "loop" /\ t.pc \in Between
        BY <2>2 DEF TaskState, Role, Between, Typed, Conns
      <3>3. task' = [task EXCEPT ![a] = t]
        BY <2>2 DEF Send
      <3> HIDE DEF t
      <3> QED
        BY <1>2, <3>1, <3>2, <3>3
    <2> QED
      BY <1>5, <2>1, <2>2 DEF Call
  <1>6. CASE Answered(a)
    <2> DEFINE t == [Idle EXCEPT !.pc = task[a].back, !.back = task[a].back]
    <2>1. t \in TaskState /\ Role(a, t) /\ t.back = task[a].back /\ t.pc = task[a].back
      BY <1>1, <1>6 DEF Answered, At, Role, TaskState, Idle, Between, Setup
    <2>2. task' = [task EXCEPT ![a] = t] /\ task[a].pc \in Between
      BY <1>6 DEF Answered, At, Between
    <2> HIDE DEF t
    <2> QED
      BY <1>2, <2>1, <2>2
  <1>7. CASE Refused(a)
    BY <1>3, <1>7 DEF Refused, Between, Setup
  <1>8. CASE AuthRestart(a)
    BY <1>4, <1>8 DEF AuthRestart, Between, At
  <1>9. CASE Redirected(a)
    <2> DEFINE t == [Idle EXCEPT !.pc = "move", !.back = task[a].back]
    <2>1. /\ t \in TaskState /\ Role(a, t) /\ t.back = task[a].back
          /\ t.pc \in Between /\ task[a].pc \in Between
      BY <1>1, <1>9 DEF Redirected, At, Role, TaskState, Idle, Between, Setup
    <2>2. task' = [task EXCEPT ![a] = t]
      BY <1>9 DEF Redirected
    <2> HIDE DEF t
    <2> QED
      BY <1>2, <2>1, <2>2
  <1>10. ASSUME NEW l \in Between \cup Setup, NEW x \in Nat, At(a, "move") \/ At(a, "connect"),
                At(a, "connect") => l \in Setup, At(a, "move") => l \in Between,
                \/ task' = [task EXCEPT ![a].pc = l]
                \/ task' = [task EXCEPT ![a].pc = l, ![a].on = x]
         PROVE  Moves(a)
    <2>1. PICK t : /\ task' = [task EXCEPT ![a] = t]
                   /\ t = [task[a] EXCEPT !.pc = l] \/ t = [task[a] EXCEPT !.pc = l, !.on = x]
      BY <1>10
    <2>2. t \in TaskState /\ t.pc = l /\ t.back = task[a].back
      BY <1>1, <1>10, <2>1 DEF TaskState
    <2>3. task[a].pc \in Between \cup Setup /\ Role(a, t)
      BY <1>1, <1>10, <2>2 DEF At, Role, Between, Setup
    <2> QED
      BY <1>2, <2>1, <2>2, <2>3
  <1>11. CASE Move(a)
    <2>1. pumpTask \in Nat
      BY LenProperties DEF Typed, Pumps
    <2>2. /\ At(a, "move") /\ "greet" \in Between /\ "pump" \in Between /\ ~At(a, "connect")
          /\ \/ task' = [task EXCEPT ![a].pc = "greet"]
             \/ task' = [task EXCEPT ![a].pc = "pump", ![a].on = pumpTask]
      BY <1>11 DEF Move, Goto, Await, Between, At
    <2> QED
      BY <1>10, <2>1, <2>2
  <1>12. CASE NextPump(a)
    <2>1. CASE conn = 0
      BY <1>3, <1>12, <2>1 DEF NextPump, Between, At
    <2>2. CASE conn # 0
      <3> DEFINE t == [task[a] EXCEPT !.pc = "greet", !.on = 0]
      <3>1. task[a].pc = "pump" /\ task' = [task EXCEPT ![a] = t]
        BY <1>12, <2>2 DEF NextPump, Await, At
      <3>2. t \in TaskState /\ t.pc \in Between /\ t.back = task[a].back
        BY <1>1 DEF TaskState, Between
      <3>3. Role(a, t) /\ task[a].pc \in Between
        BY <1>1, <3>1, <3>2 DEF Role, Between, Setup
      <3> HIDE DEF t
      <3> QED
        BY <1>2, <3>1, <3>2, <3>3
    <2> QED
      BY <2>1, <2>2
  <1>16. CASE PumpRaised(a)
    BY <1>3, <1>16 DEF PumpRaised, Between, At
  <1>13. CASE Greet(a)
    BY <1>4, <1>13 DEF Greet, Between, At
  <1>14. CASE StartConnects(a)
    BY <1>10, <1>14 DEF StartConnects, Goto, Between, Setup, At
  <1>15. CASE Loaded(a)
    <2>1. task[a].pc \in Setup /\ task[a].back = "started"
      BY <1>1, <1>15 DEF Loaded, At, Role, Between, Setup
    <2> QED
      BY <1>4, <1>15, <2>1 DEF Loaded
  <1> QED
    BY <1>5, <1>6, <1>7, <1>8, <1>9, <1>11, <1>12, <1>13, <1>14, <1>15, <1>16 DEF Step

LEMMA StepRuns ==
  ASSUME Typed, NEW a \in Actors, Moves(a)
  PROVE  InRun' <=> InRun
  <1>1. Role("main", task["main"]) /\ Role("main", task'["main"])
    BY ActorNames DEF Typed, Tasks, Moves
  <1>2. CASE a # "main"
    BY <1>2, ActorNames DEF Moves, InRun, At
  <1>3. CASE a = "main"
    BY <1>1, <1>3, ActorNames DEF Moves, InRun, At, Role, Between, Setup
  <1> QED
    BY <1>2, <1>3

(* Whoever does not start to order anything keeps the counts right.         *)
LEMMA SameCounts ==
  ASSUME Counts, NEW a \in Actors, UNCHANGED calls, \A b \in Actors \ {a} : task'[b] = task[b],
         a \notin {"stop", "restore"} \/ ~At(a, "idle") \/ At(a, "idle")'
  PROVE  Counts'
  BY ActorNames DEF Counts, At

LEMMA StepTyped ==
  ASSUME Typed, NEW a \in Actors, Step(a)
  PROVE  Typed'
  <1>1. Moves(a) /\ (InRun' <=> InRun)
    BY StepTask, StepRuns
  <1>2. Tasks'
    BY <1>1 DEF Moves
  <1>3. Counts'
    <2>1. calls' = calls \/ (a \in Callers /\ Counted(a))
      BY DEF Step, Call, Answered, Refused, AuthRestart, Redirected, Move, NextPump, PumpRaised, Greet,
             StartConnects, Loaded, count
    <2> QED
      BY <1>1, <2>1, SameCounts, Calling DEF Moves, Typed
  <1>4. Conns'
    <2>1. \/ UNCHANGED <<conn, dcOf>>
          \/ \E dc \in DCs \cup {Home} : Connected(dc)
      BY DEF Step, Call, Answered, Refused, AuthRestart, Redirected, Move, NextPump, PumpRaised, Greet,
             StartConnects, Loaded, net
    <2>2. CASE UNCHANGED <<conn, dcOf>>
      BY <2>2 DEF Typed, Conns
    <2> QED
      BY <2>1, <2>2, Connection DEF Typed
  <1>5. Pumps'
    <2>1. \/ UNCHANGED <<pumps, pumpTask>>
          \/ CancelPump /\ pumpTask # 0 /\ UNCHANGED pumpTask
          \/ NewPump
      BY DEF Step, Call, Answered, Refused, AuthRestart, Redirected, Move, NextPump, PumpRaised, Greet,
             StartConnects, Loaded, pump
    <2>2. CASE UNCHANGED <<pumps, pumpTask>>
      BY <1>1, <2>2 DEF Typed, Pumps
    <2>3. CASE CancelPump /\ pumpTask # 0 /\ UNCHANGED pumpTask
      BY <1>1, <2>3, PumpCancel DEF Typed, Pumps
    <2>4. CASE NewPump
      BY <2>4, PumpAdded DEF Typed, Pumps
    <2> QED
      BY <2>1, <2>2, <2>3, <2>4
  <1> QED
    BY <1>2, <1>3, <1>4, <1>5 DEF Typed

LEMMA PumpSteps ==
  ASSUME Typed, NEW p \in DOMAIN pumps, PumpStarts(p) \/ PumpFrame(p) \/ PumpCancelled(p)
  PROVE  /\ UNCHANGED <<conn, dcOf, pumpTask, saver, lost, task, calls, strayed>>
         /\ pumps' \in Seq(PumpState) /\ Len(pumps') = Len(pumps) /\ DOMAIN pumps' = DOMAIN pumps
         /\ \A q \in DOMAIN pumps \ {p} : pumps'[q] = pumps[q]
         /\ Live(p)' => Live(p)
         /\ pumps[p].st \in {"new", "reading"} => \/ pumps'[p].st \in {"dead", "raised"}
                                                  \/ pumps'[p] = [st |-> "reading", on |-> conn]
                                                  \/ conn = 0
  <1>1. /\ UNCHANGED <<conn, dcOf, pumpTask, saver, lost, task, calls, strayed>>
        /\ \/ Look(p) /\ pumps[p].st \in {"new", "reading"}
           \/ \E st \in {"dead", "raised"} : PumpIs(p, st, 0) /\ pumps[p].st = "reading"
           \/ PumpIs(p, "ended", 0) /\ pumps[p].st = "cancelled"
    BY DEF PumpStarts, PumpFrame, PumpCancelled, Look, PumpIs, net, save, count
  <1>2. PICK x \in PumpState :
          /\ pumps' = [pumps EXCEPT ![p] = x]
          /\ \/ conn = 0 /\ x.st = "ended"
             \/ x = [st |-> "reading", on |-> conn] /\ pumps[p].st \in {"new", "reading"}
             \/ x.st \in {"dead", "raised"}
             \/ x.st = "ended" /\ pumps[p].st = "cancelled"
    BY <1>1 DEF Look, PumpIs, PumpState, Typed, Conns
  <1>3. /\ pumps' \in Seq(PumpState) /\ Len(pumps') = Len(pumps) /\ DOMAIN pumps' = DOMAIN pumps
        /\ pumps'[p] = x /\ \A q \in DOMAIN pumps \ {p} : pumps'[q] = pumps[q]
    BY <1>2, PumpSet DEF Typed, Pumps
  <1> QED
    BY <1>1, <1>2, <1>3 DEF Live

(* What the steps of the orders and of the ends do to their task.           *)
LEMMA Entered ==
  ASSUME Typed, EnterLoop, At("main", "idle") \/ At("main", "started")
  PROVE  /\ Tasks' /\ \A b \in Actors \ {"main"} : task'[b] = task[b]
         /\ task'["main"] = [Idle EXCEPT !.pc = "loop", !.back = "loop"]
         /\ ~InRun /\ InRun' /\ Pumps'
  <1> DEFINE t == [Idle EXCEPT !.pc = "loop", !.back = "loop"]
  <1>1. t \in TaskState /\ Role("main", t) /\ t.pc = "loop"
    BY DEF TaskState, Idle, Role, Between
  <1>2. task' = [task EXCEPT !["main"] = t] /\ NewPump
    BY DEF EnterLoop
  <1>3. Role("main", task["main"])
    BY ActorNames DEF Typed, Tasks
  <1>4. ~InRun
    BY <1>3, ActorNames DEF InRun, At, Role, Setup, Between
  <1> HIDE DEF t
  <1>5. Tasks' /\ task'["main"] = t /\ \A b \in Actors \ {"main"} : task'[b] = task[b]
    BY <1>1, <1>2, ActorNames, TaskSet DEF Typed
  <1>6. InRun' /\ Pumps'
    BY <1>1, <1>2, <1>5, PumpAdded DEF InRun, At, Typed, Pumps
  <1> QED
    BY <1>4, <1>5, <1>6 DEF t

LEMMA LoopLeft ==
  ASSUME Typed, LoopEnds
  PROVE  /\ Tasks' /\ \A b \in Actors \ {"main"} : task'[b] = task[b]
         /\ task'["main"] = [Idle EXCEPT !.pc = "closing"]
         /\ InRun /\ InRun' /\ task["main"].pc \in {"loop", "wait", "move", "greet"}
         /\ UNCHANGED <<pumps, pumpTask, calls, strayed, conn, dcOf, saver, lost>>
  <1> DEFINE t == [Idle EXCEPT !.pc = "closing"]
  <1>1. InRun /\ task' = [task EXCEPT !["main"] = t]
        /\ task["main"].pc \in {"loop", "wait", "move", "greet"}
        /\ UNCHANGED <<pumps, pumpTask, calls, strayed, conn, dcOf, saver, lost>>
    BY DEF LoopEnds, InRun, At, net, save, pump
  <1>2. t \in TaskState /\ Role("main", t) /\ t.pc = "closing"
    BY DEF TaskState, Idle, Role
  <1> HIDE DEF t
  <1>3. Tasks' /\ task'["main"] = t /\ \A b \in Actors \ {"main"} : task'[b] = task[b]
    BY <1>1, <1>2, ActorNames, TaskSet DEF Typed
  <1>4. InRun'
    BY <1>2, <1>3 DEF InRun, At
  <1> QED
    BY <1>1, <1>3, <1>4 DEF t

LEMMA QueueClosed ==
  ASSUME Typed, QueueCloses
  PROVE  /\ Tasks' /\ \A b \in Actors \ {"main"} : task'[b] = task[b]
         /\ task'["main"] = [Idle EXCEPT !.pc = "final", !.on = pumpTask]
         /\ At("main", "closing") /\ InRun /\ InRun' /\ pumpTask # 0 /\ CancelPump
         /\ UNCHANGED <<pumpTask, calls, strayed, conn, dcOf, saver, lost>>
  <1> DEFINE t == [Idle EXCEPT !.pc = "final", !.on = pumpTask]
  <1>1. At("main", "closing") /\ InRun /\ task' = [task EXCEPT !["main"] = t]
        /\ CancelPump /\ UNCHANGED <<pumpTask, calls, strayed, conn, dcOf, saver, lost>>
    BY DEF QueueCloses, InRun, At, net, save
  <1>2. pumpTask \in Nat /\ pumpTask # 0
    BY <1>1, LenProperties DEF Typed, Pumps
  <1>3. t \in TaskState /\ Role("main", t) /\ t.pc = "final"
    BY <1>2 DEF TaskState, Idle, Role
  <1> HIDE DEF t
  <1>4. Tasks' /\ task'["main"] = t /\ \A b \in Actors \ {"main"} : task'[b] = task[b]
    BY <1>1, <1>3, ActorNames, TaskSet DEF Typed
  <1>5. InRun'
    BY <1>3, <1>4 DEF InRun, At
  <1> QED
    BY <1>1, <1>2, <1>4, <1>5 DEF t

LEMMA OrderTask ==
  ASSUME Typed, NEW a \in {"main", "stop", "restore"}, NEW t \in TaskState,
         task' = [task EXCEPT ![a] = t], Role(a, t)
  PROVE  Tasks' /\ task'[a] = t /\ \A b \in Actors \ {a} : task'[b] = task[b]
  BY ActorNames, TaskSet DEF Typed

LEMMA TypedStep == Typed /\ [Next]_vars => Typed'
  <1> SUFFICES ASSUME Typed, [Next]_vars PROVE Typed'
    OBVIOUS
  <1> USE ActorNames
  <1>1. ASSUME NEW a \in Actors, Step(a) PROVE Typed'
    BY <1>1, StepTyped
  <1>2. ASSUME NEW p \in DOMAIN pumps, PumpStarts(p) \/ PumpFrame(p) \/ PumpCancelled(p) PROVE Typed'
    BY <1>2, PumpSteps DEF Typed, Tasks, Counts, Conns, Pumps, InRun, At
  <1>3. CASE Run
    <2>1. UNCHANGED <<conn, dcOf>> /\ Counted("main") /\ At("main", "idle")
      BY <1>3 DEF Run, Order, net
    <2>2. CASE conn # 0
      BY <1>3, <2>1, <2>2, Entered, Calling DEF Run, Typed, Conns
    <2>3. CASE conn = 0
      <3> DEFINE t == [Idle EXCEPT !.pc = "connect", !.back = "started"]
      <3>1. t \in TaskState /\ Role("main", t) /\ t.pc = "connect" /\ t.back = "started"
        BY DEF TaskState, Idle, Role, Setup, Between
      <3>2. task' = [task EXCEPT !["main"] = t] /\ UNCHANGED <<pumps, pumpTask>>
        BY <1>3, <2>3 DEF Run, pump
      <3> HIDE DEF t
      <3>3. Tasks' /\ task'["main"] = t /\ \A b \in Actors \ {"main"} : task'[b] = task[b]
        BY <3>1, <3>2, OrderTask
      <3>4. ~InRun'
        BY <3>1, <3>3 DEF InRun, At
      <3> QED
        BY <2>1, <3>2, <3>3, <3>4, Calling DEF Typed, Conns, Pumps
    <2> QED
      BY <2>2, <2>3
  <1>4. CASE Restore
    <2> DEFINE t == [Idle EXCEPT !.pc = "connect", !.back = "started"]
    <2>1. t \in TaskState /\ Role("restore", t)
      BY DEF TaskState, Idle, Role, Setup, Between
    <2>2. task' = [task EXCEPT !["restore"] = t] /\ UNCHANGED <<dcOf, pumps, pumpTask>> /\ conn' = 0
          /\ Counted("restore")
      BY <1>4 DEF Restore, Order, pump
    <2> HIDE DEF t
    <2>3. Tasks' /\ task'["restore"] = t /\ \A b \in Actors \ {"restore"} : task'[b] = task[b]
      BY <2>1, <2>2, OrderTask
    <2>4. InRun' <=> InRun
      BY <2>3 DEF InRun, At
    <2> QED
      BY <2>2, <2>3, <2>4, Calling DEF Typed, Conns, Pumps
  <1>5. CASE Started
    <2>1. CASE At("main", "started") /\ EnterLoop /\ UNCHANGED calls /\ UNCHANGED net
      BY <2>1, Entered, SameCounts DEF Typed, Conns, net
    <2>2. CASE /\ At("restore", "started") /\ task' = [task EXCEPT !["restore"] = Idle]
               /\ UNCHANGED net /\ UNCHANGED pump /\ UNCHANGED calls
      <3>1. Tasks' /\ \A b \in Actors \ {"restore"} : task'[b] = task[b]
        BY <2>2, IdleState, OrderTask
      <3>2. InRun' <=> InRun
        BY <3>1 DEF InRun, At
      <3>3. Counts'
        BY <2>2, <3>1, SameCounts DEF Typed, At
      <3> QED
        BY <2>2, <3>1, <3>2, <3>3 DEF Typed, Conns, Pumps, net, pump
    <2> QED
      BY <1>5, <2>1, <2>2 DEF Started, count
  <1>6. CASE LoopEnds
    BY <1>6, LoopLeft, SameCounts DEF Typed, Conns, Pumps
  <1>13. CASE QueueCloses
    <2>1. Pumps'
      BY <1>13, QueueClosed, PumpCancel DEF Typed, Pumps
    <2> QED
      BY <1>13, <2>1, QueueClosed, SameCounts DEF Typed, Conns
  <1>7. CASE RunEnds
    <2>1. task' = [task EXCEPT !["main"] = Idle] /\ UNCHANGED <<conn, dcOf, pumps, pumpTask, calls>>
      BY <1>7 DEF RunEnds, net, pump, count
    <2>2. Idle.pc = "idle" /\ Idle.back = "idle" /\ Role("main", Idle)
      BY DEF Idle, Role
    <2>3. Tasks' /\ task'["main"] = Idle /\ \A b \in Actors \ {"main"} : task'[b] = task[b]
      BY <2>1, <2>2, IdleState, OrderTask
    <2>4. ~InRun'
      BY <2>2, <2>3 DEF InRun, At
    <2> QED
      BY <2>1, <2>3, <2>4, SameCounts DEF Typed, Conns, Pumps
  <1>8. ASSUME NEW l \in {"saving", "idle"}, Goto("stop", l), UNCHANGED <<pumps, pumpTask>>,
               task["stop"].back = "idle"
        PROVE  /\ Tasks' /\ At("stop", l)' /\ \A b \in Actors \ {"stop"} : task'[b] = task[b]
               /\ InRun' <=> InRun
    <2> DEFINE t == [task["stop"] EXCEPT !.pc = l]
    <2>1. t \in TaskState /\ Role("stop", t) /\ t.pc = l
      BY <1>8 DEF TaskState, Role, Typed, Tasks
    <2>2. task' = [task EXCEPT !["stop"] = t]
      BY <1>8 DEF Goto
    <2> HIDE DEF t
    <2>3. Tasks' /\ task'["stop"] = t /\ \A b \in Actors \ {"stop"} : task'[b] = task[b]
      BY <2>1, <2>2, OrderTask
    <2> QED
      BY <2>1, <2>3 DEF InRun, At
  <1>9. task["stop"].back = "idle"
    BY DEF Typed, Tasks, Role
  <1>10. CASE Stop
    <2>1. Goto("stop", "saving") /\ Counted("stop") /\ UNCHANGED <<conn, dcOf, pumps, pumpTask>>
      BY <1>10 DEF Stop, Order, net, pump
    <2> QED
      BY <1>8, <1>9, <2>1, Calling DEF Typed, Conns, Pumps
  <1>11. CASE Stopped
    <2>1. Goto("stop", "idle") /\ UNCHANGED <<dcOf, pumps, pumpTask, calls>> /\ conn' = 0
      BY <1>11 DEF Stopped, pump, count
    <2>2. Counts'
      BY <1>8, <1>9, <2>1, SameCounts DEF Typed
    <2> QED
      BY <1>8, <1>9, <2>1, <2>2 DEF Typed, Conns, Pumps
  <1>12. CASE UNCHANGED vars
    BY <1>12 DEF vars, Typed, Tasks, Counts, Conns, Pumps, InRun, At
  <1> QED
    BY <1>1, <1>2, <1>3, <1>4, <1>5, <1>6, <1>7, <1>10, <1>11, <1>12, <1>13 DEF Next

LEMMA InitTyped == Init => Typed
  <1> SUFFICES ASSUME Init PROVE Typed
    OBVIOUS
  <1>1. Idle \in TaskState /\ Idle.pc = "idle" /\ Idle.back = "idle"
    BY DEF Idle, TaskState
  <1>2. Tasks
    <2>1. \A a \in Actors : Role(a, Idle)
      BY IdleState, ActorNames, <1>1 DEF Role
    <2> QED
      BY <1>1, <2>1 DEF Init, Tasks
  <1>3. Counts /\ Conns
    BY <1>1, ActorNames DEF Init, Counts, Conns, At
  <1>4. Pumps
    BY <1>1, ActorNames DEF Init, Pumps, InRun, At
  <1> QED
    BY <1>2, <1>3, <1>4 DEF Typed

----------------------------------------------------------------------------
(* Which steps of a task matter to the pump and to the autosave.            *)
LEMMA StepLands ==
  ASSUME Typed, NEW a \in Actors, Step(a)
  PROVE  /\ At(a, "pump")' => Move(a) /\ task'[a].on = pumpTask /\ pumpTask # 0
         /\ task'[a].pc \in {"connect", "loading"} => StartConnects(a)
         /\ At(a, "connect") => StartConnects(a) \/ At(a, "idle")'
         /\ At(a, "pump") => NextPump(a) \/ PumpRaised(a)
  <1>1. task[a] \in TaskState /\ Role(a, task[a]) /\ task \in [Actors -> TaskState]
    BY DEF Typed, Tasks
  <1>2. ASSUME Raises(a) PROVE /\ task'[a].pc \in {"idle", "loop"}
                               /\ task[a].back # "loop" => task'[a].pc = "idle"
    BY <1>1, <1>2 DEF Raises, Idle
  <1>3. ASSUME NEW back, NEW retried, Send(a, back, retried) PROVE task'[a].pc \in {"idle", "loop", "wait"}
    BY <1>1, <1>2, <1>3 DEF Send
  <1>4. CASE Call(a)
    BY <1>3, <1>4, ActorNames DEF Call, At
  <1>5. CASE Answered(a)
    BY <1>1, <1>5 DEF Answered, Idle, At, TaskState
  <1>6. CASE Refused(a)
    BY <1>1, <1>2, <1>6 DEF Refused, At, Role, Between
  <1>12. CASE PumpRaised(a)
    BY <1>2, <1>12 DEF PumpRaised, At
  <1>7. CASE AuthRestart(a) \/ Greet(a) \/ Loaded(a)
    BY <1>3, <1>7 DEF AuthRestart, Greet, Loaded, At
  <1>8. CASE Redirected(a)
    BY <1>1, <1>8 DEF Redirected, Idle, At
  <1>9. CASE Move(a)
    <2>1. CASE pumpTask = 0
      <3>1. task[a].pc = "move" /\ task' = [task EXCEPT ![a].pc = "greet"]
        BY <1>9, <2>1 DEF Move, Goto, At
      <3>2. task'[a].pc = "greet"
        BY <1>1, <3>1 DEF TaskState
      <3> QED
        BY <3>1, <3>2 DEF At
    <2>2. CASE pumpTask # 0
      <3> DEFINE t == [task[a] EXCEPT !.pc = "pump", !.on = pumpTask]
      <3>1. task[a].pc = "move" /\ task' = [task EXCEPT ![a] = t]
        BY <1>9, <2>2 DEF Move, Await, At
      <3>2. t.pc = "pump" /\ t.on = pumpTask
        BY <1>1 DEF TaskState
      <3> HIDE DEF t
      <3>3. task'[a].pc = "pump" /\ task'[a].on = pumpTask
        BY <1>1, <3>1, <3>2
      <3> QED
        BY <1>9, <2>2, <3>1, <3>3 DEF At
    <2> QED
      BY <2>1, <2>2
  <1>10. CASE NextPump(a)
    <2>1. task'[a].pc \in {"idle", "loop", "greet"}
      <3>1. CASE conn = 0
        BY <1>2, <1>10, <3>1 DEF NextPump
      <3>2. CASE conn # 0
        <4> DEFINE t == [task[a] EXCEPT !.pc = "greet", !.on = 0]
        <4>1. task' = [task EXCEPT ![a] = t]
          BY <1>10, <3>2 DEF NextPump, Await
        <4>2. t.pc = "greet"
          BY <1>1 DEF TaskState
        <4> QED
          BY <1>1, <4>1, <4>2
      <3> QED
        BY <3>1, <3>2
    <2> QED
      BY <1>10, <2>1 DEF NextPump, At
  <1>11. CASE StartConnects(a)
    BY <1>1, <1>11 DEF StartConnects, Goto, At
  <1> QED
    BY <1>4, <1>5, <1>6, <1>7, <1>8, <1>9, <1>10, <1>11, <1>12 DEF Step

LEMMA StepKeeps ==
  ASSUME Typed, NEW a \in Actors, Step(a)
  PROVE  /\ Move(a) \/ NextPump(a) \/ UNCHANGED <<pumps, pumpTask>>
         /\ \/ UNCHANGED conn
            \/ (Move(a) \/ StartConnects(a)) /\ conn' # 0
         /\ Loaded(a) \/ UNCHANGED <<saver, lost>>
         /\ strayed \subseteq strayed'
         /\ \A b \in {"stop", "restore"} : calls'[b] = calls[b]
  <1>1. ASSUME NEW dc \in DCs \cup {Home}, Connected(dc) PROVE conn' # 0
    BY <1>1, Connection DEF Typed
  <1>2. UNCHANGED calls \/ (a \in Callers /\ Counted(a))
    BY DEF Step, Call, Answered, Refused, AuthRestart, Redirected, Move, NextPump, PumpRaised, Greet,
           StartConnects, Loaded, count
  <1>3. \A b \in {"stop", "restore"} : calls'[b] = calls[b]
    BY <1>2, ActorNames DEF Counted, Typed, Counts
  <1>4. /\ Move(a) \/ NextPump(a) \/ UNCHANGED <<pumps, pumpTask>>
        /\ Loaded(a) \/ UNCHANGED <<saver, lost>>
        /\ strayed \subseteq strayed'
    BY DEF Step, Call, Answered, Refused, AuthRestart, Redirected, Move, NextPump, PumpRaised, Greet,
           StartConnects, Loaded, count, pump, save, Stray
  <1>5. \/ UNCHANGED conn
        \/ (Move(a) \/ StartConnects(a)) /\ conn' # 0
    BY <1>1 DEF Step, Call, Answered, Refused, AuthRestart, Redirected, Move, NextPump, PumpRaised, Greet,
           StartConnects, Loaded, net
  <1> QED
    BY <1>3, <1>4, <1>5

----------------------------------------------------------------------------
(* The pump. While no migration strays, the live pump is the client's, and  *)
(* whoever waits for one, a migration or the end of a run, waits for it.    *)
OnlyPump ==
  "pump" \notin strayed =>
    /\ \A p \in DOMAIN pumps : Live(p) => p = pumpTask /\ InRun
    /\ \A a \in Actors : At(a, "pump") \/ (a = "main" /\ At(a, "final")) => task[a].on = pumpTask

LEMMA OnlyPumpKept ==
  ASSUME OnlyPump, InRun' <=> InRun, UNCHANGED <<pumpTask, task>>, strayed \subseteq strayed',
         DOMAIN pumps' = DOMAIN pumps, \A p \in DOMAIN pumps : Live(p)' => Live(p)
  PROVE  OnlyPump'
  BY DEF OnlyPump, At

LEMMA OnlyPumpStep == Typed /\ OnlyPump /\ [Next]_vars => OnlyPump'
  <1> SUFFICES ASSUME Typed, OnlyPump, [Next]_vars PROVE OnlyPump'
    OBVIOUS
  <1> USE ActorNames
  <1>1. ASSUME NEW a \in Actors, Step(a) PROVE OnlyPump'
    <2> SUFFICES ASSUME "pump" \notin strayed'
                 PROVE  /\ \A p \in DOMAIN pumps' : Live(p)' => p = pumpTask' /\ InRun'
                        /\ \A b \in Actors : At(b, "pump")' \/ (b = "main" /\ At(b, "final")') =>
                             task'[b].on = pumpTask'
      BY DEF OnlyPump
    <2>1. Moves(a) /\ (InRun' <=> InRun) /\ strayed \subseteq strayed' /\ "pump" \notin strayed
      BY <1>1, StepTask, StepRuns, StepKeeps
    <2>2. \A b \in Actors : At(b, "pump") \/ (b = "main" /\ At(b, "final")) => task[b].on = pumpTask
      BY <2>1 DEF OnlyPump
    <2>3. \A p \in DOMAIN pumps : Live(p) => p = pumpTask /\ InRun
      BY <2>1 DEF OnlyPump
    <2>4. CASE NextPump(a)
      <3>1. InRun /\ ~At("main", "final") /\ \A b \in Actors \ {a} : ~At(b, "pump")
        BY <2>4 DEF NextPump, Stray
      <3>2. At(a, "pump") /\ ~Live(task[a].on) /\ NewPump
        BY <2>4 DEF NextPump, Live
      <3>3. \A p \in DOMAIN pumps : ~Live(p)
        BY <2>2, <2>3, <3>2
      <3>4. /\ DOMAIN pumps' = DOMAIN pumps \cup {pumpTask'}
            /\ \A q \in DOMAIN pumps : pumps'[q] = pumps[q]
        BY <3>2, PumpAdded DEF Typed
      <3>5. \A p \in DOMAIN pumps' : Live(p)' => p = pumpTask' /\ InRun'
        BY <2>1, <3>1, <3>3, <3>4 DEF Live
      <3>6. ~At(a, "pump")'
        BY <1>1, <3>2, StepLands DEF Move, At
      <3>7. \A b \in Actors : ~At(b, "pump")' /\ ~(b = "main" /\ At(b, "final")')
        BY <2>1, <3>1, <3>6 DEF Moves, At
      <3> QED
        BY <3>5, <3>7
    <2>5. CASE ~NextPump(a)
      <3>1. /\ pumpTask' = pumpTask /\ DOMAIN pumps' = DOMAIN pumps
            /\ \A p \in DOMAIN pumps : Live(p)' => Live(p)
        <4>1. CASE UNCHANGED <<pumps, pumpTask>>
          BY <4>1 DEF Live
        <4>2. CASE Move(a)
          BY <4>1, <4>2, PumpCancel DEF Move, Typed
        <4> QED
          BY <1>1, <2>5, <4>1, <4>2, StepKeeps
      <3>2. At(a, "pump")' => task'[a].on = pumpTask'
        BY <1>1, <3>1, StepLands
      <3>3. \A b \in Actors : At(b, "pump")' \/ (b = "main" /\ At(b, "final")') =>
                                task'[b].on = pumpTask'
        BY <2>1, <2>2, <3>1, <3>2 DEF Moves, At
      <3> QED
        BY <2>1, <2>3, <3>1, <3>3
    <2> QED
      BY <2>4, <2>5
  <1>2. ASSUME NEW p \in DOMAIN pumps, PumpStarts(p) \/ PumpFrame(p) \/ PumpCancelled(p)
        PROVE  OnlyPump'
    <2>1. /\ UNCHANGED <<pumpTask, task, strayed>> /\ DOMAIN pumps' = DOMAIN pumps
          /\ \A q \in DOMAIN pumps : Live(q)' => Live(q)
      BY <1>2, PumpSteps DEF Live
    <2>2. InRun' <=> InRun
      BY <2>1 DEF InRun, At
    <2> QED
      BY <2>1, <2>2, OnlyPumpKept
  <1>3. ASSUME EnterLoop, At("main", "idle") \/ At("main", "started") PROVE OnlyPump'
    <2> SUFFICES ASSUME "pump" \notin strayed'
                 PROVE  /\ \A p \in DOMAIN pumps' : Live(p)' => p = pumpTask' /\ InRun'
                        /\ \A b \in Actors : At(b, "pump")' \/ (b = "main" /\ At(b, "final")') =>
                             task'[b].on = pumpTask'
      BY DEF OnlyPump
    <2>1. "pump" \notin strayed /\ \A b \in Actors : ~At(b, "pump")
      BY <1>3 DEF EnterLoop, Stray
    <2>2. ~InRun /\ InRun' /\ (\A b \in Actors \ {"main"} : task'[b] = task[b]) /\ task'["main"].pc = "loop"
      BY <1>3, Entered DEF Idle
    <2>3. /\ DOMAIN pumps' = DOMAIN pumps \cup {pumpTask'}
          /\ \A q \in DOMAIN pumps : pumps'[q] = pumps[q]
      BY <1>3, PumpAdded DEF Typed, EnterLoop
    <2>4. \A p \in DOMAIN pumps' : Live(p)' => p = pumpTask'
      BY <2>1, <2>2, <2>3 DEF Live, OnlyPump
    <2> QED
      BY <2>1, <2>2, <2>4 DEF At
  <1>4. ASSUME NEW a \in Actors \ {"main"}, \A b \in Actors \ {a} : task'[b] = task[b],
               ~At(a, "pump")', UNCHANGED <<pumps, pumpTask>>, strayed \subseteq strayed'
        PROVE  OnlyPump'
    <2>1. InRun' <=> InRun
      BY <1>4 DEF InRun, At
    <2> QED
      BY <1>4, <2>1 DEF OnlyPump, At, Live
  <1>5. task \in [Actors -> TaskState]
    BY DEF Typed, Tasks
  <1>6. CASE Run
    <2>1. CASE conn # 0
      BY <1>3, <1>6, <2>1 DEF Run
    <2>2. CASE conn = 0
      <3>1. /\ At("main", "idle") /\ task'["main"].pc = "connect" /\ task'["main"].back = "started"
            /\ UNCHANGED <<pumps, pumpTask, strayed>>
            /\ \A b \in Actors \ {"main"} : task'[b] = task[b]
        BY <1>5, <1>6, <2>2 DEF Run, Idle, pump
      <3>2. ~InRun /\ ~InRun'
        BY <3>1 DEF InRun, At, Typed, Tasks, Role, Setup, Between
      <3> QED
        BY <3>1, <3>2 DEF OnlyPump, At, Live
    <2> QED
      BY <2>1, <2>2
  <1>7. CASE Restore
    <2>1. /\ \A b \in Actors \ {"restore"} : task'[b] = task[b]
          /\ ~At("restore", "pump")' /\ UNCHANGED <<pumps, pumpTask, strayed>>
      BY <1>5, <1>7 DEF Restore, Idle, At, pump
    <2> QED
      BY <1>4, <2>1
  <1>8. CASE Started
    <2>1. CASE At("restore", "started") /\ task' = [task EXCEPT !["restore"] = Idle]
               /\ UNCHANGED pump /\ UNCHANGED count
      <3>1. /\ \A b \in Actors \ {"restore"} : task'[b] = task[b]
            /\ ~At("restore", "pump")' /\ UNCHANGED <<pumps, pumpTask, strayed>>
        BY <1>5, <2>1 DEF Idle, At, pump, count
      <3> QED
        BY <1>4, <3>1
    <2> QED
      BY <1>3, <1>8, <2>1 DEF Started
  <1>9. CASE LoopEnds
    <2>1. /\ task'["main"].pc = "closing" /\ UNCHANGED <<pumps, pumpTask, strayed>>
          /\ InRun /\ InRun' /\ \A b \in Actors \ {"main"} : task'[b] = task[b]
      BY <1>9, LoopLeft DEF Idle
    <2> QED
      BY <2>1 DEF OnlyPump, At, Live
  <1>13. CASE QueueCloses
    <2>1. /\ task'["main"].pc = "final" /\ task'["main"].on = pumpTask /\ pumpTask' = pumpTask
          /\ strayed' = strayed /\ InRun /\ InRun' /\ \A b \in Actors \ {"main"} : task'[b] = task[b]
      BY <1>13, QueueClosed DEF Idle
    <2>2. DOMAIN pumps' = DOMAIN pumps /\ \A q \in DOMAIN pumps : Live(q)' <=> Live(q)
      BY <1>13, QueueClosed, PumpCancel DEF Typed
    <2> QED
      BY <2>1, <2>2 DEF OnlyPump, At
  <1>10. CASE RunEnds
    <2>1. /\ At("main", "final") /\ ~Live(task["main"].on) /\ task'["main"].pc = "idle"
          /\ UNCHANGED <<pumps, pumpTask, strayed>>
          /\ \A b \in Actors \ {"main"} : task'[b] = task[b]
      BY <1>5, <1>10 DEF RunEnds, Idle, pump, count
    <2> QED
      BY <2>1 DEF OnlyPump, At, Live
  <1>11. CASE Stop \/ Stopped
    <2>1. /\ \A b \in Actors \ {"stop"} : task'[b] = task[b]
          /\ ~At("stop", "pump")' /\ UNCHANGED <<pumps, pumpTask>> /\ strayed \subseteq strayed'
      <3>1. task["stop"] \in TaskState /\ \E l \in {"saving", "idle"} : Goto("stop", l)
        BY <1>5, <1>11 DEF Stop, Stopped
      <3>2. (\A b \in Actors \ {"stop"} : task'[b] = task[b]) /\ ~At("stop", "pump")'
        BY <1>5, <3>1 DEF Goto, At, TaskState
      <3>3. UNCHANGED <<pumps, pumpTask>> /\ strayed \subseteq strayed'
        BY <1>11 DEF Stop, Stopped, pump, count, Stray
      <3> QED
        BY <3>2, <3>3
    <2> QED
      BY <1>4, <2>1
  <1>12. CASE UNCHANGED vars
    BY <1>12 DEF vars, OnlyPump, At, Live, InRun
  <1> QED
    BY <1>1, <1>2, <1>6, <1>7, <1>8, <1>9, <1>10, <1>11, <1>12, <1>13 DEF Next

(* One pump reads at a time, however many migrations, runs, stops and       *)
(* restores, and however many callers make requests.                        *)
THEOREM LifecycleOnePump == Spec => []OnePump
  <1>1. Init => OnlyPump
    BY ActorNames DEF Init, OnlyPump, At, Idle
  <1>2. Typed /\ OnlyPump => OnePump
    <2> SUFFICES ASSUME Typed, OnlyPump, "pump" \notin strayed
                 PROVE  /\ Cardinality({p \in DOMAIN pumps : Live(p)}) <= 1
                        /\ ~InRun => \A p \in DOMAIN pumps : ~Live(p)
      BY DEF OnePump
    <2>1. {p \in DOMAIN pumps : Live(p)} \subseteq {pumpTask}
      BY DEF OnlyPump
    <2>2. Cardinality({p \in DOMAIN pumps : Live(p)}) <= 1
      <3> DEFINE live == {p \in DOMAIN pumps : Live(p)}
      <3>1. live \subseteq {pumpTask}
        BY <2>1
      <3> HIDE DEF live
      <3>2. IsFiniteSet({pumpTask}) /\ Cardinality({pumpTask}) = 1
        BY FS_Singleton
      <3>3. Cardinality(live) <= 1
        BY <3>1, <3>2, FS_Subset
      <3> QED
        BY <3>3 DEF live
    <2> QED
      BY <2>2 DEF OnlyPump
  <1> QED
    BY <1>1, <1>2, InitTyped, TypedStep, OnlyPumpStep, PTL DEF Spec

----------------------------------------------------------------------------
(* The pump of a run that nobody stops or restores is on the client's       *)
(* connection: there is one whenever a run is past connecting.              *)
Undisturbed == calls["stop"] + calls["restore"] = 0
HasConn == Undisturbed => (At("main", "idle") \/ At("main", "connect") \/ conn # 0)
FollowInv == HasConn /\ PumpFollows

(* What a step that leaves the connection and the pump alone preserves.     *)
LEMMA FollowKept ==
  ASSUME FollowInv, Undisturbed' => Undisturbed, UNCHANGED <<conn, pumps, pumpTask>>,
         InRun' => InRun, At("main", "final") => At("main", "final")',
         \A a \in Actors : At(a, "pump") => At(a, "pump")' /\ task'[a].on = task[a].on,
         At("main", "idle") \/ At("main", "connect") => (At("main", "idle") \/ At("main", "connect"))'
  PROVE  FollowInv'
  BY ActorNames DEF FollowInv, HasConn, PumpFollows, Undisturbed, At

LEMMA Quiet ==
  ASSUME Typed, Undisturbed
  PROVE  At("stop", "idle") /\ At("restore", "idle") /\ calls["stop"] = 0 /\ calls["restore"] = 0
  <1>1. calls["stop"] \in Nat /\ calls["restore"] \in Nat
    BY ActorNames DEF Typed, Counts
  <1>2. calls["stop"] = 0 /\ calls["restore"] = 0
    BY <1>1 DEF Undisturbed
  <1> QED
    BY <1>2 DEF Typed, Counts

LEMMA Disturbs ==
  ASSUME Typed, NEW a \in {"stop", "restore"}, Counted(a)
  PROVE  ~Undisturbed'
  <1>1. calls["stop"] \in Nat /\ calls["restore"] \in Nat
    BY ActorNames DEF Typed, Counts
  <1>2. calls'["stop"] \in Nat /\ calls'["restore"] \in Nat /\ calls'[a] # 0
    BY <1>1, ActorNames DEF Typed, Counts, Counted
  <1> QED
    BY <1>2 DEF Undisturbed

LEMMA FollowStep == Typed /\ FollowInv /\ [Next]_vars => FollowInv'
  <1> SUFFICES ASSUME Typed, FollowInv, [Next]_vars, Undisturbed' PROVE FollowInv'
    BY DEF FollowInv, HasConn, PumpFollows, Undisturbed
  <1> USE ActorNames
  <1>1. task \in [Actors -> TaskState] /\ Role("main", task["main"])
    BY DEF Typed, Tasks
  <1>2. InRun => ~At("main", "idle") /\ ~At("main", "connect")
    BY <1>1 DEF InRun, At, Role, Setup, Between
  <1>3. ASSUME NEW a \in Actors, Step(a) PROVE FollowInv'
    <2>1. /\ Moves(a) /\ (InRun' <=> InRun)
          /\ \A b \in {"stop", "restore"} : calls'[b] = calls[b]
      BY <1>3, StepTask, StepRuns, StepKeeps
    <2>2. Undisturbed
      BY <2>1 DEF Undisturbed
    <2>3. (a = "main" \/ a \in Callers) /\ conn \in Nat
      BY <2>1, <2>2, Quiet DEF Moves, Actors, Typed, Conns
    <2>4. HasConn'
      <3>1. CASE conn = 0 /\ conn' = 0
        <4>1. CASE a = "main" /\ At("main", "connect")
          <5>1. ~StartConnects(a)
            BY <3>1, Connection DEF StartConnects, Typed
          <5> QED
            BY <1>3, <4>1, <5>1, StepLands DEF HasConn
        <4>2. CASE a # "main" \/ ~At("main", "connect")
          BY <2>1, <2>2, <3>1, <4>2 DEF HasConn, Moves, At, FollowInv
        <4> QED
          BY <4>1, <4>2
      <3>2. CASE conn' # 0
        BY <3>2 DEF HasConn
      <3> QED
        BY <1>3, <3>1, <3>2, StepKeeps
    <2>5. PumpFollows'
      <3> SUFFICES ASSUME InRun', ~At("main", "final")',
                          \A b \in Actors : ~(At(b, "pump") /\ task[b].on = pumpTask)'
                   PROVE  \/ pumps'[pumpTask'].st \in {"new", "dead", "raised"}
                          \/ pumps'[pumpTask'].st = "reading" /\ pumps'[pumpTask'].on = conn'
        BY DEF PumpFollows
      <3>1. InRun /\ ~At("main", "final")
        BY <2>1 DEF Moves, At
      <3>2. CASE NextPump(a)
        BY <3>2, PumpAdded DEF NextPump, Typed
      <3>3. ~Move(a)
        <4> SUFFICES ASSUME Move(a) PROVE FALSE
          OBVIOUS
        <4>1. pumpTask # 0 /\ task' = [task EXCEPT ![a].pc = "pump", ![a].on = pumpTask]
          BY <3>1 DEF Move, Await, Typed, Pumps
        <4>2. [task[a] EXCEPT !.pc = "pump", !.on = pumpTask].pc = "pump"
          BY <1>1 DEF TaskState
        <4>3. task'[a] = [task[a] EXCEPT !.pc = "pump", !.on = pumpTask]
          BY <1>1, <4>1
        <4>4. pumpTask' = pumpTask
          BY DEF Move
        <4>5. At(a, "pump")'
          BY <4>2, <4>3 DEF At
        <4>6. task'[a].on = pumpTask'
          BY <1>3, <4>4, <4>5, StepLands
        <4> QED
          BY <4>5, <4>6
      <3>4. ~StartConnects(a)
        BY <1>2, <2>3, <3>1 DEF StartConnects, At, Typed, Tasks, Role, Between
      <3>5. CASE ~NextPump(a)
        <4>1. UNCHANGED <<conn, pumps, pumpTask>>
          BY <1>3, <3>3, <3>4, <3>5, StepKeeps
        <4>2. CASE At(a, "pump") /\ task[a].on = pumpTask
          <5>1. pumps[pumpTask].st = "raised"
            BY <1>3, <3>5, <4>2, StepLands DEF PumpRaised
          <5> QED
            BY <4>1, <5>1
        <4>3. CASE ~(At(a, "pump") /\ task[a].on = pumpTask)
          <5>1. \A b \in Actors : ~(At(b, "pump") /\ task[b].on = pumpTask)
            BY <2>1, <4>1, <4>3 DEF Moves, At
          <5> QED
            BY <2>2, <3>1, <4>1, <5>1 DEF FollowInv, PumpFollows, Undisturbed
        <4> QED
          BY <4>2, <4>3
      <3> QED
        BY <3>2, <3>5
    <2> QED
      BY <2>4, <2>5 DEF FollowInv
  <1>4. ASSUME NEW p \in DOMAIN pumps, PumpStarts(p) \/ PumpFrame(p) \/ PumpCancelled(p)
        PROVE  FollowInv'
    <2>1. /\ UNCHANGED <<conn, pumpTask, task, calls>>
          /\ \A q \in DOMAIN pumps \ {p} : pumps'[q] = pumps[q]
          /\ pumps[p].st \in {"new", "reading"} => \/ pumps'[p].st \in {"dead", "raised"}
                                                  \/ pumps'[p] = [st |-> "reading", on |-> conn]
                                                  \/ conn = 0
      BY <1>4, PumpSteps
    <2>2. Undisturbed
      BY <2>1 DEF Undisturbed
    <2>3. PumpFollows'
      <3> SUFFICES ASSUME InRun, ~At("main", "final"),
                          \A b \in Actors : ~(At(b, "pump") /\ task[b].on = pumpTask)
                   PROVE  \/ pumps'[pumpTask].st \in {"new", "dead", "raised"}
                          \/ pumps'[pumpTask].st = "reading" /\ pumps'[pumpTask].on = conn
        BY <2>1 DEF PumpFollows, InRun, At
      <3>1. conn # 0
        BY <1>2, <2>2 DEF FollowInv, HasConn
      <3>2. pumpTask \in DOMAIN pumps
        BY LenProperties DEF Typed, Pumps
      <3>3. \/ pumps[pumpTask].st \in {"new", "dead", "raised"}
            \/ pumps[pumpTask].st = "reading" /\ pumps[pumpTask].on = conn
        BY <2>2 DEF FollowInv, PumpFollows, Undisturbed
      <3>4. CASE p = pumpTask
        <4>1. pumps[p].st \in {"new", "reading"}
          BY <1>4, <3>3, <3>4 DEF PumpStarts, PumpFrame, PumpCancelled
        <4> QED
          BY <2>1, <3>1, <3>4, <4>1
      <3>5. CASE p # pumpTask
        BY <2>1, <3>2, <3>3, <3>5
      <3> QED
        BY <3>4, <3>5
    <2> QED
      BY <2>1, <2>2, <2>3 DEF FollowInv, HasConn, At
  <1>5. ASSUME EnterLoop, At("main", "idle") \/ At("main", "started"), UNCHANGED conn, conn # 0
        PROVE  FollowInv'
    <2>1. pumps'[pumpTask'].st = "new"
      BY <1>5, PumpAdded DEF Typed, EnterLoop
    <2> QED
      BY <1>5, <2>1 DEF FollowInv, HasConn, PumpFollows
  <1>6. CASE Run
    <2>1. At("main", "idle") /\ UNCHANGED conn
      BY <1>6 DEF Run, net
    <2>2. CASE conn # 0
      BY <1>5, <1>6, <2>1, <2>2 DEF Run
    <2>3. CASE conn = 0
      <3>1. task'["main"].pc = "connect" /\ task'["main"].back = "started"
        BY <1>1, <1>6, <2>3 DEF Run, Idle
      <3> QED
        BY <3>1 DEF FollowInv, HasConn, PumpFollows, InRun, At
    <2> QED
      BY <2>2, <2>3
  <1>7. ~Restore /\ ~Stop
    BY Disturbs DEF Restore, Stop, Order
  <1>8. CASE Started
    <2>1. UNCHANGED <<calls, conn>>
      BY <1>8 DEF Started, count, net
    <2>2. Undisturbed /\ At("restore", "idle")
      BY <2>1, Quiet DEF Undisturbed
    <2>3. At("main", "started") /\ EnterLoop
      BY <1>8, <2>2 DEF Started, At
    <2>4. conn # 0
      BY <2>2, <2>3 DEF FollowInv, HasConn, At
    <2> QED
      BY <1>5, <2>1, <2>3, <2>4
  <1>9. CASE LoopEnds
    <2>1. /\ task'["main"].pc = "closing" /\ InRun /\ ~At("main", "final") /\ ~At("main", "pump")
          /\ UNCHANGED <<conn, calls, pumps, pumpTask>>
          /\ \A b \in Actors \ {"main"} : task'[b] = task[b]
      BY <1>9, LoopLeft DEF Idle, At
    <2> QED
      BY <1>2, <2>1 DEF FollowInv, HasConn, PumpFollows, At, Undisturbed
  <1>13. CASE QueueCloses
    <2>1. task'["main"].pc = "final" /\ InRun /\ UNCHANGED <<conn, calls>>
      BY <1>13, QueueClosed DEF Idle
    <2> QED
      BY <1>2, <2>1 DEF FollowInv, HasConn, PumpFollows, At, Undisturbed
  <1>10. CASE RunEnds
    <2>1. task'["main"].pc = "idle" /\ task'["main"].back = "idle"
      BY <1>1, <1>10 DEF RunEnds, Idle
    <2> QED
      BY <2>1 DEF FollowInv, HasConn, PumpFollows, InRun, At
  <1>11. ~Stopped
    <2> SUFFICES ASSUME Stopped PROVE FALSE
      OBVIOUS
    <2>1. Undisturbed
      BY DEF Stopped, count, Undisturbed
    <2> QED
      BY <2>1, Quiet DEF Stopped, At
  <1>12. CASE UNCHANGED vars
    BY <1>12 DEF vars, FollowInv, HasConn, PumpFollows, Undisturbed, At, InRun
  <1> QED
    BY <1>3, <1>4, <1>6, <1>7, <1>8, <1>9, <1>10, <1>11, <1>12, <1>13 DEF Next

(* Through any number of migrations, failures and runs the client's pump    *)
(* follows the client to its connection.                                    *)
THEOREM LifecyclePumpFollows == Spec => []PumpFollows
  <1>1. Init => FollowInv
    BY ActorNames DEF Init, FollowInv, HasConn, PumpFollows, InRun, At, Idle
  <1>2. FollowInv => PumpFollows
    BY DEF FollowInv
  <1> QED
    BY <1>1, <1>2, InitTyped, TypedStep, FollowStep, PTL DEF Spec

----------------------------------------------------------------------------
(* The autosave task. Only start() makes one, and only while there was no   *)
(* connection: then the last one has been cancelled.                        *)
Orderly == calls["restore"] = 0 /\ "saver" \notin strayed
Connecting == At("main", "connect") \/ At("main", "loading")
SaverInv ==
  Orderly =>
    /\ lost = 0
    /\ (conn = 0 \/ Connecting \/ At("stop", "saving")) => ~saver
    /\ At("stop", "saving") => conn # 0 /\ ~Connecting

LEMMA SaverKept ==
  ASSUME SaverInv, Orderly' => Orderly, UNCHANGED <<saver, lost>>, conn' = 0 => conn = 0,
         Connecting' => Connecting, At("stop", "saving")' => At("stop", "saving")
  PROVE  SaverInv'
  BY DEF SaverInv

LEMMA SaverStep == Typed /\ SaverInv /\ [Next]_vars => SaverInv'
  <1> SUFFICES ASSUME Typed, SaverInv, [Next]_vars, Orderly' PROVE SaverInv'
    BY DEF SaverInv
  <1> USE ActorNames
  <1>1. task \in [Actors -> TaskState] /\ Role("main", task["main"])
    BY DEF Typed, Tasks
  <1>2. ASSUME NEW a \in Actors, Step(a) PROVE SaverInv'
    <2>1. Moves(a) /\ strayed \subseteq strayed' /\ calls'["restore"] = calls["restore"]
      BY <1>2, StepTask, StepKeeps
    <2>2. Orderly
      BY <2>1 DEF Orderly
    <2>3. a = "main" \/ a \in Callers
      BY <2>1, <2>2 DEF Moves, Orderly, Typed, Counts, Actors
    <2>4. a \in Callers => task[a].pc \in {"idle"} \cup Between
      BY DEF Typed, Tasks, Role
    <2>5. At("stop", "saving")' <=> At("stop", "saving")
      BY <2>1, <2>3 DEF Moves, At
    <2>6. CASE Loaded(a)
      <3>1. a = "main" /\ At("main", "loading")
        BY <2>3, <2>4, <2>6 DEF Loaded, At, Between
      <3>2. UNCHANGED conn /\ ~Connecting'
        <4>1. ~StartConnects(a)
          BY <2>6 DEF Loaded, StartConnects, At
        <4> QED
          BY <1>2, <2>6, <3>1, <4>1, StepLands DEF Loaded, net, Connecting, At
      <3>3. ~saver /\ ~At("stop", "saving") /\ lost = 0
        BY <2>2, <3>1 DEF SaverInv, Connecting
      <3>4. lost' = 0 /\ (conn = 0 => ~saver')
        BY <2>6, <3>3 DEF Loaded, save
      <3> QED
        BY <2>5, <3>2, <3>3, <3>4 DEF SaverInv
    <2>7. CASE ~Loaded(a)
      <3>1. UNCHANGED <<saver, lost>> /\ (conn' = 0 => conn = 0)
        BY <1>2, <2>7, StepKeeps
      <3>2. Connecting' => Connecting
        <4>1. CASE StartConnects(a)
          BY <2>1, <2>3, <2>4, <4>1 DEF StartConnects, Connecting, At, Moves, Between
        <4>2. CASE ~StartConnects(a)
          BY <1>2, <2>1, <4>2, StepLands DEF Connecting, At, Moves
        <4> QED
          BY <4>1, <4>2
      <3> QED
        BY <2>2, <2>5, <3>1, <3>2, SaverKept
    <2> QED
      BY <2>6, <2>7
  <1>3. ASSUME NEW p \in DOMAIN pumps, PumpStarts(p) \/ PumpFrame(p) \/ PumpCancelled(p)
        PROVE  SaverInv'
    <2>1. UNCHANGED <<conn, saver, lost, task, calls, strayed>>
      BY <1>3, PumpSteps
    <2> QED
      BY <2>1 DEF SaverInv, Orderly, Connecting, At
  <1>4. ASSUME EnterLoop, At("main", "idle") \/ At("main", "started"), UNCHANGED <<conn, saver, lost>>,
               calls'["restore"] = calls["restore"]
        PROVE  SaverInv'
    <2>1. Orderly
      BY <1>4 DEF Orderly, EnterLoop, Stray
    <2>2. ~Connecting' /\ (At("stop", "saving")' <=> At("stop", "saving"))
      BY <1>4, Entered DEF Connecting, At, Idle
    <2> QED
      BY <1>4, <2>1, <2>2, SaverKept
  <1>5. CASE Run
    <2>1. /\ At("main", "idle") /\ UNCHANGED <<conn, saver, lost>>
          /\ calls'["restore"] = calls["restore"]
      BY <1>5 DEF Run, Order, Counted, net, save, Typed, Counts
    <2>2. CASE conn # 0
      BY <1>4, <1>5, <2>1, <2>2 DEF Run
    <2>3. CASE conn = 0
      <3>1. strayed' = strayed /\ \A b \in Actors \ {"main"} : task'[b] = task[b]
        BY <1>1, <1>5, <2>3 DEF Run
      <3>2. Orderly /\ (At("stop", "saving")' <=> At("stop", "saving"))
        BY <2>1, <3>1 DEF Orderly, At
      <3>3. ~saver /\ ~At("stop", "saving") /\ lost = 0
        BY <2>3, <3>2 DEF SaverInv
      <3> QED
        BY <2>1, <3>2, <3>3 DEF SaverInv
    <2> QED
      BY <2>2, <2>3
  <1>6. ~Restore
    BY <1>1 DEF Restore, Order, Counted, Orderly, Typed, Counts
  <1>7. CASE Started
    <2>1. /\ UNCHANGED <<conn, saver, lost, calls>>
          /\ strayed \subseteq strayed'
      BY <1>7 DEF Started, EnterLoop, Stray, net, save, count
    <2>2. Orderly /\ At("restore", "idle")
      BY <2>1 DEF Orderly, Typed, Counts
    <2>3. At("main", "started") /\ EnterLoop
      BY <1>7, <2>2 DEF Started, At
    <2> QED
      BY <1>4, <2>1, <2>3
  <1>13. CASE QueueCloses
    <2>1. /\ task'["main"].pc = "final" /\ \A b \in Actors \ {"main"} : task'[b] = task[b]
          /\ UNCHANGED <<conn, calls, strayed, saver, lost>>
      BY <1>13, QueueClosed DEF Idle
    <2> QED
      BY <2>1, SaverKept DEF Orderly, Connecting, At
  <1>8. CASE LoopEnds
    <2>1. /\ task'["main"].pc = "closing" /\ \A b \in Actors \ {"main"} : task'[b] = task[b]
          /\ UNCHANGED <<conn, calls, strayed, saver, lost>>
      BY <1>8, LoopLeft DEF Idle
    <2> QED
      BY <2>1, SaverKept DEF Orderly, Connecting, At
  <1>9. CASE RunEnds
    <2>1. /\ task'["main"].pc = "idle" /\ \A b \in Actors \ {"main"} : task'[b] = task[b]
          /\ UNCHANGED <<conn, calls, strayed, lost>> /\ (saver' => saver)
      BY <1>1, <1>9 DEF RunEnds, Idle, net, count
    <2>2. Orderly /\ ~Connecting' /\ (At("stop", "saving")' <=> At("stop", "saving"))
      BY <2>1 DEF Orderly, Connecting, At
    <2>3. At("main", "final") /\ ~Connecting
      BY <1>9 DEF RunEnds, Connecting, At
    <2> QED
      BY <2>1, <2>2, <2>3 DEF SaverInv
  <1>10. CASE Stop
    <2>1. /\ conn # 0 /\ saver' = FALSE /\ UNCHANGED <<conn, lost>>
          /\ calls'["restore"] = calls["restore"] /\ strayed \subseteq strayed' /\ ~Starting
          /\ \A b \in Actors \ {"stop"} : task'[b] = task[b]
      BY <1>1, <1>10 DEF Stop, Order, Counted, Goto, Stray, Orderly, net, Typed, Counts
    <2>2. Orderly /\ lost = 0
      BY <2>1 DEF Orderly, SaverInv
    <2>3. ~Connecting
      BY <1>1, <2>1 DEF Starting, Connecting, At, Role, Between
    <2>4. ~Connecting'
      BY <2>1, <2>3 DEF Connecting, At
    <2> QED
      BY <2>1, <2>2, <2>4 DEF SaverInv
  <1>11. CASE Stopped
    <2>1. /\ At("stop", "saving") /\ UNCHANGED <<saver, lost, calls, strayed>>
          /\ \A b \in Actors \ {"stop"} : task'[b] = task[b]
      BY <1>1, <1>11 DEF Stopped, Goto, save, count
    <2>2. ~At("stop", "saving")'
      BY <1>1, <1>11 DEF Stopped, Goto, At, TaskState
    <2>3. Orderly
      BY <2>1 DEF Orderly
    <2> QED
      BY <2>1, <2>2, <2>3 DEF SaverInv
  <1>12. CASE UNCHANGED vars
    BY <1>12 DEF vars, SaverInv, Orderly, Connecting, At
  <1> QED
    BY <1>2, <1>3, <1>5, <1>6, <1>7, <1>8, <1>9, <1>10, <1>11, <1>12, <1>13 DEF Next

(* Whatever order stop() and the runs come in, no autosave task is left     *)
(* behind, but for the two cases OneSaver leaves out.                       *)
THEOREM LifecycleOneSaver == Spec => []OneSaver
  <1>1. Init => SaverInv
    BY ActorNames DEF Init, SaverInv, At, Idle
  <1>2. SaverInv => OneSaver
    BY DEF SaverInv, OneSaver, Orderly
  <1> QED
    BY <1>1, <1>2, InitTyped, TypedStep, SaverStep, PTL DEF Spec

----------------------------------------------------------------------------
(* Whoever waits for a pump, a migration or the end of a run, waits for one *)
(* that has ended or was cancelled and ends at its next step, overlaps and  *)
(* strays included.                                                         *)
EndingPump(p) == p \in DOMAIN pumps /\ pumps[p].st \in {"cancelled", "ended", "dead", "raised"}
AwaitsEnding ==
  \A a \in Actors : At(a, "pump") \/ At(a, "final") => EndingPump(task[a].on)

LEMMA CancelledEnds ==
  ASSUME Pumps, CancelPump, pumpTask # 0
  PROVE  EndingPump(pumpTask)' \/ pumpTask' # pumpTask
  <1> DEFINE x == IF Live(pumpTask) THEN [st |-> "cancelled", on |-> 0] ELSE pumps[pumpTask]
  <1>1. pumpTask \in DOMAIN pumps
    BY LenProperties DEF Pumps
  <1>2. x \in PumpState /\ x.st \in {"cancelled", "ended", "dead", "raised"}
    BY <1>1, ElementOfSeq, LenProperties DEF Pumps, PumpState, Live
  <1>3. pumps' = [pumps EXCEPT ![pumpTask] = x]
    BY <1>1 DEF CancelPump
  <1> HIDE DEF x
  <1>4. DOMAIN pumps' = DOMAIN pumps /\ pumps'[pumpTask] = x
    BY <1>1, <1>2, <1>3, PumpSet DEF Pumps
  <1> QED
    BY <1>1, <1>2, <1>4 DEF EndingPump

(* No step wakes a pump that is ending.                                     *)
LEMMA EndingLasts ==
  ASSUME Typed, [Next]_vars, NEW p, EndingPump(p)
  PROVE  EndingPump(p)'
  <1>1. CASE UNCHANGED pumps
    BY <1>1 DEF EndingPump
  <1>2. CASE NewPump
    BY <1>2, PumpAdded DEF EndingPump, Typed
  <1>3. CASE CancelPump /\ pumpTask # 0
    <2> DEFINE x == IF Live(pumpTask) THEN [st |-> "cancelled", on |-> 0] ELSE pumps[pumpTask]
    <2>1. pumpTask \in DOMAIN pumps
      BY <1>3, LenProperties DEF Typed, Pumps
    <2>2. /\ x \in PumpState
          /\ p = pumpTask => x.st \in {"cancelled", "ended", "dead", "raised"}
      BY <2>1, ElementOfSeq, LenProperties DEF Typed, Pumps, PumpState, EndingPump
    <2>3. pumps' = [pumps EXCEPT ![pumpTask] = x]
      BY <1>3, <2>1 DEF CancelPump
    <2> HIDE DEF x
    <2>4. /\ DOMAIN pumps' = DOMAIN pumps /\ pumps'[pumpTask] = x
          /\ \A q \in DOMAIN pumps \ {pumpTask} : pumps'[q] = pumps[q]
      BY <2>1, <2>2, <2>3, PumpSet DEF Typed, Pumps
    <2> QED
      BY <2>2, <2>4 DEF EndingPump
  <1>4. ASSUME NEW q \in DOMAIN pumps, PumpStarts(q) \/ PumpFrame(q) \/ PumpCancelled(q)
        PROVE  EndingPump(p)'
    <2>1. /\ DOMAIN pumps' = DOMAIN pumps
          /\ \A r \in DOMAIN pumps \ {q} : pumps'[r] = pumps[r]
      BY <1>4, PumpSteps
    <2>2. CASE p # q
      BY <2>1, <2>2 DEF EndingPump
    <2>3. CASE p = q
      <3>1. PumpIs(q, "ended", 0)
        BY <1>4, <2>3 DEF EndingPump, PumpStarts, PumpFrame, PumpCancelled
      <3>2. pumps'[q].st = "ended"
        BY <3>1 DEF PumpIs
      <3> QED
        BY <2>1, <2>3, <3>2 DEF EndingPump
    <2> QED
      BY <2>2, <2>3
  <1>5. ASSUME NEW a \in Actors, Step(a)
        PROVE  UNCHANGED pumps \/ NewPump \/ (CancelPump /\ pumpTask # 0)
    BY <1>5, StepKeeps DEF Move, NextPump
  <1>6. CASE LoopEnds
    BY <1>1, <1>6, LoopLeft
  <1>8. CASE QueueCloses
    BY <1>3, <1>8, QueueClosed
  <1>7. CASE Run \/ Restore \/ Started \/ RunEnds \/ Stop \/ Stopped \/ UNCHANGED vars
    BY <1>1, <1>2, <1>7 DEF Run, Restore, Started, RunEnds, Stop, Stopped, EnterLoop, pump, vars
  <1> QED
    BY <1>1, <1>2, <1>3, <1>4, <1>5, <1>6, <1>7, <1>8 DEF Next

LEMMA AwaitsStep == Typed /\ AwaitsEnding /\ [Next]_vars => AwaitsEnding'
  <1> SUFFICES ASSUME Typed, AwaitsEnding, [Next]_vars, NEW b \in Actors,
                      (At(b, "pump") \/ At(b, "final"))'
               PROVE  EndingPump(task[b].on)'
    BY DEF AwaitsEnding
  <1> USE ActorNames
  <1>1. task \in [Actors -> TaskState]
    BY DEF Typed, Tasks
  <1>2. CASE task'[b] = task[b]
    <2>1. EndingPump(task[b].on)
      BY <1>2 DEF AwaitsEnding, At
    <2>2. PICK q : q = task[b].on
      OBVIOUS
    <2>3. EndingPump(q)'
      BY <2>1, <2>2, EndingLasts
    <2>4. task'[b].on = q
      BY <1>2, <2>2
    <2> QED
      BY <2>3, <2>4 DEF EndingPump
  <1>3. ASSUME NEW a \in Actors, Step(a), task'[b] # task[b] PROVE EndingPump(task[b].on)'
    <2>1. Moves(a) /\ a = b
      BY <1>3, StepTask DEF Moves
    <2>2. Role(b, task'[b])
      BY <2>1 DEF Moves, Tasks
    <2>3. ~At(b, "final")'
      BY <2>1, <2>2 DEF Moves, At, Role, Between, Setup
    <2>4. Move(b) /\ task'[b].on = pumpTask /\ pumpTask # 0
      BY <1>3, <2>1, <2>3, StepLands
    <2>5. CancelPump /\ pumpTask' = pumpTask
      BY <2>4 DEF Move
    <2>6. EndingPump(pumpTask)'
      BY <2>4, <2>5, CancelledEnds DEF Typed
    <2> QED
      BY <2>4, <2>5, <2>6 DEF EndingPump
  <1>8. CASE LoopEnds
    <2>1. task'["main"].pc = "closing" /\ \A a \in Actors \ {"main"} : task'[a] = task[a]
      BY <1>8, LoopLeft DEF Idle
    <2> QED
      BY <1>2, <2>1 DEF At
  <1>4. CASE QueueCloses
    <2>1. /\ \A a \in Actors \ {"main"} : task'[a] = task[a]
          /\ task'["main"].on = pumpTask /\ pumpTask' = pumpTask /\ pumpTask # 0 /\ CancelPump
      BY <1>4, QueueClosed DEF Idle
    <2>2. CASE b = "main"
      <3>1. EndingPump(pumpTask)'
        BY <2>1, CancelledEnds DEF Typed
      <3> QED
        BY <2>1, <2>2, <3>1 DEF EndingPump
    <2> QED
      BY <1>2, <2>1, <2>2
  <1>5. CASE Run \/ Restore \/ Started \/ RunEnds \/ Stop \/ Stopped
    <2>1. PICK a \in {"main", "restore", "stop"}, l \in {"idle", "loop", "connect", "saving"} :
            /\ \A c \in Actors \ {a} : task'[c] = task[c]
            /\ task'[a].pc = l
      <3>1. CASE Run \/ Restore \/ Started \/ RunEnds
        <4>1. PICK a \in {"main", "restore"},
                   t \in {Idle, [Idle EXCEPT !.pc = "loop", !.back = "loop"],
                          [Idle EXCEPT !.pc = "connect", !.back = "started"]} :
                task' = [task EXCEPT ![a] = t]
          BY <3>1 DEF Run, Restore, Started, RunEnds, EnterLoop
        <4>2. /\ Idle.pc = "idle"
              /\ [Idle EXCEPT !.pc = "loop", !.back = "loop"].pc = "loop"
              /\ [Idle EXCEPT !.pc = "connect", !.back = "started"].pc = "connect"
          BY DEF Idle
        <4>3. t.pc \in {"idle", "loop", "connect"}
          BY <4>2
        <4>4. /\ \A c \in Actors \ {a} : task'[c] = task[c]
              /\ task'[a].pc \in {"idle", "loop", "connect"}
          BY <1>1, <4>1, <4>3
        <4> QED
          BY <4>4
      <3>2. CASE Stop \/ Stopped
        <4>1. task["stop"] \in TaskState /\ \E l \in {"saving", "idle"} : Goto("stop", l)
          BY <1>1, <3>2 DEF Stop, Stopped
        <4> QED
          BY <1>1, <4>1 DEF Goto, TaskState
      <3> QED
        BY <1>5, <3>1, <3>2
    <2> QED
      BY <1>2, <2>1 DEF At
  <1>6. CASE UNCHANGED <<task, pumps>>
    BY <1>2, <1>6
  <1>7. ASSUME NEW q \in DOMAIN pumps, PumpStarts(q) \/ PumpFrame(q) \/ PumpCancelled(q)
        PROVE  EndingPump(task[b].on)'
    BY <1>2, <1>7, PumpSteps
  <1> QED
    BY <1>2, <1>3, <1>4, <1>5, <1>6, <1>7, <1>8 DEF Next, vars

(* A migration, and the end of a run, never wait for a pump that nobody     *)
(* cancelled: not when migrations overlap, nor when one ends outside the    *)
(* run it began in and leaves a pump that strays.                           *)
THEOREM LifecycleAwaitsEnding == Spec => []AwaitsEnding
  <1>1. Init => AwaitsEnding
    BY DEF Init, AwaitsEnding, At, Idle
  <1> QED
    BY <1>1, InitTyped, TypedStep, AwaitsStep, PTL DEF Spec
=============================================================================
