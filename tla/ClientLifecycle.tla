---------------------------- MODULE ClientLifecycle ----------------------------
(***************************************************************************)
(* The tasks of a Client and the connection they share (client.py): the    *)
(* task in run_until_disconnected(), tasks that make requests, one that    *)
(* calls stop(), one that calls signal_network_restored().  A step is what *)
(* a task does between two awaits; self._conn, self._frame_pump_task and   *)
(* self._peer_cache_save_task may have been replaced when it resumes.      *)
(***************************************************************************)
EXTENDS Integers, Sequences, FiniteSets

CONSTANTS
  Callers,      \* tasks that make requests
  Home,         \* the account's data centre
  DCs,          \* where start() may connect first
  Policy,       \* of the update queue, when it is full
  MaxCalls,     \* bound: requests of each task
  MaxOrders,    \* bound: calls of run_until_disconnected(), stop(), signal_network_restored()
  MaxFaults,    \* bound: connections and requests that fail, Ctrl-C
  MaxPumps      \* the pumps those bounds allow

Actors == Callers \cup {"main", "stop", "restore"}

ASSUME LifecycleAssumption ==
  /\ Callers \cap {"main", "stop", "restore"} = {}
  /\ MaxCalls \in Nat /\ MaxOrders \in Nat /\ MaxFaults \in Nat

VARIABLES
  conn,       \* self._conn: the number of a connection, 0 for None
  dcOf,       \* the data centre of each connection made
  pumps,      \* the frame pumps made: what each does, on which connection
  pumpTask,   \* self._frame_pump_task: a pump, 0 for None
  saver,      \* is self._peer_cache_save_task a task that runs
  lost,       \* autosave tasks that run and nothing refers to
  task,       \* where each task stands: pc; the connection or pump it awaits;
              \* where it goes on when its request ends; _retried_restart
  evicted,    \* has a worker's None been evicted from the queue of this run
  calls,      \* requests (runs, orders) each task has made
  faults,
  strayed     \* history: "pump" when a migration overlapped another or the end of a
              \* run, "saver" when stop() came while start() was on its way

vars == <<conn, dcOf, pumps, pumpTask, saver, lost, task, evicted, calls, faults, strayed>>
net == <<conn, dcOf>>
pump == <<pumps, pumpTask>>
save == <<saver, lost>>
count == <<calls, faults, strayed, evicted>>

Idle == [pc |-> "idle", on |-> 0, back |-> "idle", retried |-> FALSE]

Init ==
  /\ conn = 0 /\ dcOf = <<>>
  /\ pumps = <<>> /\ pumpTask = 0
  /\ saver = FALSE /\ lost = 0
  /\ task = [a \in Actors |-> Idle] /\ evicted = FALSE
  /\ calls = [a \in Actors |-> 0] /\ faults = 0 /\ strayed = {}

At(a, l) == task[a].pc = l
Goto(a, l) == task' = [task EXCEPT ![a].pc = l]
Await(a, l, x) == task' = [task EXCEPT ![a].pc = l, ![a].on = x]
Counted(a) == calls' = [calls EXCEPT ![a] = @ + 1]
Fault == faults < MaxFaults /\ faults' = faults + 1
Stray(what, cond) == strayed' = strayed \cup (IF cond THEN {what} ELSE {})
Order(a) == calls["main"] + calls["stop"] + calls["restore"] < MaxOrders /\ Counted(a)
Live(p) == pumps[p].st \notin {"ended", "dead", "raised"}
InRun == At("main", "loop") \/ At("main", "closing") \/ At("main", "final") \/ task["main"].back = "loop"
Starting == \E a \in Actors : task[a].back = "started" /\ task[a].pc \notin {"idle", "loop"}

(* DcConnection.connect() made a connection.                                *)
Connected(dc) == dcOf' = Append(dcOf, dc) /\ conn' = Len(dcOf) + 1

NewPump ==
  /\ pumps' = Append(pumps, [st |-> "new", on |-> 0])
  /\ pumpTask' = Len(pumps) + 1

CancelPump ==
  pumps' = [pumps EXCEPT ![pumpTask] = IF Live(pumpTask) THEN [st |-> "cancelled", on |-> 0] ELSE @]

----------------------------------------------------------------------------
(* The frame pump: read self._conn, wait for a frame of it, look again.     *)

PumpIs(p, st, c) == pumps' = [pumps EXCEPT ![p] = [st |-> st, on |-> c]] /\ UNCHANGED pumpTask
Look(p) == IF conn = 0 THEN PumpIs(p, "ended", 0) ELSE PumpIs(p, "reading", conn)

PumpStarts(p) ==
  /\ pumps[p].st = "new"
  /\ Look(p)
  /\ UNCHANGED task /\ UNCHANGED net /\ UNCHANGED save /\ UNCHANGED count

(* A frame of an update, or of an error: the pump stops for good, as it     *)
(* does when it raises. While a run closes its queue, the updates of one    *)
(* frame may evict what is queued, the Nones of the workers included.       *)
PumpFrame(p) ==
  /\ pumps[p].st = "reading"
  /\ \/ Look(p) /\ UNCHANGED faults
     \/ \E st \in {"dead", "raised"} : PumpIs(p, st, 0) /\ Fault
  /\ \/ UNCHANGED evicted
     \/ At("main", "closing") /\ Policy = "drop_oldest" /\ evicted' = TRUE
  /\ UNCHANGED <<task, calls, strayed>> /\ UNCHANGED net /\ UNCHANGED save

PumpCancelled(p) ==
  /\ pumps[p].st = "cancelled"
  /\ PumpIs(p, "ended", 0)
  /\ UNCHANGED task /\ UNCHANGED net /\ UNCHANGED save /\ UNCHANGED count

----------------------------------------------------------------------------
(* Requests: _rpc() and _migrate().                                         *)

(* Where a request that raised leaves its task: start() raises out of a run *)
(* or a restore, the update loop goes on.                                   *)
Raises(a) == task' = [task EXCEPT ![a] =
  IF @.back = "loop" THEN [Idle EXCEPT !.pc = "loop", !.back = "loop"] ELSE Idle]

(* _require_conn() raises when there is no connection.                      *)
Send(a, back, retried) ==
  IF conn = 0 THEN Raises(a)
  ELSE task' = [task EXCEPT ![a] =
         [pc |-> "wait", on |-> conn, back |-> back, retried |-> retried]]

(* A task's own request, and one of the update loop.                        *)
Call(a) ==
  /\ \/ a \in Callers /\ At(a, "idle") /\ calls[a] < MaxCalls /\ Counted(a) /\ Send(a, "idle", FALSE)
     \/ a = "main" /\ At(a, "loop") /\ conn # 0 /\ Send(a, "loop", FALSE) /\ UNCHANGED calls
  /\ UNCHANGED <<faults, strayed, evicted>> /\ UNCHANGED net /\ UNCHANGED pump /\ UNCHANGED save

Answered(a) ==
  /\ At(a, "wait") /\ dcOf[task[a].on] = Home
  /\ task' = [task EXCEPT ![a] = [Idle EXCEPT !.pc = task[a].back, !.back = task[a].back]]
  /\ UNCHANGED net /\ UNCHANGED pump /\ UNCHANGED save /\ UNCHANGED count

Refused(a) ==
  /\ task[a].pc \in {"wait", "connect", "move", "greet"} /\ Fault
  /\ Raises(a)
  /\ UNCHANGED <<calls, strayed, evicted>> /\ UNCHANGED net /\ UNCHANGED pump /\ UNCHANGED save

(* AUTH_RESTART: the request is sent once more, the first time.             *)
AuthRestart(a) ==
  /\ At(a, "wait") /\ ~task[a].retried
  /\ Send(a, task[a].back, TRUE)
  /\ UNCHANGED net /\ UNCHANGED pump /\ UNCHANGED save /\ UNCHANGED count

(* A data centre that is not the account's redirects to it; the request     *)
(* will be sent again as if it had never been tried.                        *)
Redirected(a) ==
  /\ At(a, "wait") /\ dcOf[task[a].on] # Home
  /\ task' = [task EXCEPT ![a] = [Idle EXCEPT !.pc = "move", !.back = task[a].back]]
  /\ UNCHANGED net /\ UNCHANGED pump /\ UNCHANGED save /\ UNCHANGED count

(* The pump is left on the connection it reads.                             *)
MoveKeepingPump(a) ==
  /\ At(a, "move")
  /\ Connected(Home)
  /\ Goto(a, "greet")
  /\ UNCHANGED pump /\ UNCHANGED save /\ UNCHANGED count

(* The pump is awaited, not cancelled.                                      *)
MoveAwaitingPump(a) ==
  /\ At(a, "move")
  /\ Connected(Home)
  /\ IF pumpTask = 0 THEN Goto(a, "greet") ELSE Await(a, "pump", pumpTask)
  /\ UNCHANGED pump /\ UNCHANGED save /\ UNCHANGED count

(* _migrate(): the new connection replaces the client's, whatever it is by  *)
(* now, and the pump, when a run ever made one, is cancelled.               *)
Move(a) ==
  /\ At(a, "move")
  /\ Connected(Home)
  /\ IF pumpTask = 0 THEN Goto(a, "greet") /\ UNCHANGED pumps
     ELSE Await(a, "pump", pumpTask) /\ CancelPump
  /\ UNCHANGED pumpTask /\ UNCHANGED save /\ UNCHANGED count

(* A new pump before the old one has ended.                                 *)
NextPumpAtOnce(a) ==
  /\ At(a, "pump")
  /\ NewPump
  /\ IF conn = 0 THEN Raises(a) ELSE Await(a, "greet", 0)
  /\ Stray("pump", ~InRun \/ At("main", "final") \/ \E b \in Actors \ {a} : At(b, "pump"))
  /\ UNCHANGED <<calls, faults, evicted>> /\ UNCHANGED net /\ UNCHANGED save

(* The old pump has ended: a new one, then _init_connection().              *)
NextPump(a) ==
  /\ At(a, "pump") /\ pumps[task[a].on].st \in {"ended", "dead"}
  /\ NewPump
  /\ IF conn = 0 THEN Raises(a) ELSE Await(a, "greet", 0)
  /\ Stray("pump", ~InRun \/ At("main", "final") \/ \E b \in Actors \ {a} : At(b, "pump"))
  /\ UNCHANGED <<calls, faults, evicted>> /\ UNCHANGED net /\ UNCHANGED save

(* Awaiting a pump that raised raises again; self._frame_pump_task stays.   *)
PumpRaised(a) ==
  /\ At(a, "pump") /\ pumps[task[a].on].st = "raised"
  /\ Raises(a)
  /\ UNCHANGED net /\ UNCHANGED pump /\ UNCHANGED save /\ UNCHANGED count

Greet(a) ==
  /\ At(a, "greet")
  /\ Send(a, task[a].back, FALSE)
  /\ UNCHANGED net /\ UNCHANGED pump /\ UNCHANGED save /\ UNCHANGED count

----------------------------------------------------------------------------
(* start(), of a run or of a restore.                                       *)

(* start() returns at once when there is a connection: the run's pump.      *)
EnterLoop ==
  /\ NewPump
  /\ task' = [task EXCEPT !["main"] = [Idle EXCEPT !.pc = "loop", !.back = "loop"]]
  /\ Stray("pump", \E a \in Actors : At(a, "pump"))

Run ==
  /\ At("main", "idle") /\ Order("main")
  /\ IF conn # 0 THEN EnterLoop
     ELSE /\ task' = [task EXCEPT !["main"] = [Idle EXCEPT !.pc = "connect", !.back = "started"]]
          /\ UNCHANGED strayed /\ UNCHANGED pump
  /\ UNCHANGED <<faults, evicted>> /\ UNCHANGED net /\ UNCHANGED save

(* signal_network_restored() drops the connection and starts again.         *)
Restore ==
  /\ At("restore", "idle") /\ conn # 0 /\ Order("restore")
  /\ conn' = 0
  /\ task' = [task EXCEPT !["restore"] = [Idle EXCEPT !.pc = "connect", !.back = "started"]]
  /\ UNCHANGED <<dcOf, faults, strayed, evicted>> /\ UNCHANGED pump /\ UNCHANGED save

StartConnects(a) ==
  /\ At(a, "connect")
  /\ \E dc \in DCs : Connected(dc)
  /\ Goto(a, "loading")
  /\ UNCHANGED pump /\ UNCHANGED save /\ UNCHANGED count

(* Persisted state and peers are loaded from the connection; a new autosave *)
(* task; then the requests of start(): initConnection, the check, the login.*)
Loaded(a) ==
  /\ At(a, "loading")
  /\ Send(a, "started", FALSE)
  /\ IF conn = 0 THEN UNCHANGED save
     ELSE saver' = TRUE /\ lost' = lost + (IF saver THEN 1 ELSE 0)
  /\ UNCHANGED net /\ UNCHANGED pump /\ UNCHANGED count

Started ==
  \/ At("main", "started") /\ EnterLoop
     /\ UNCHANGED <<calls, faults, evicted>> /\ UNCHANGED net /\ UNCHANGED save
  \/ At("restore", "started") /\ task' = [task EXCEPT !["restore"] = Idle]
     /\ UNCHANGED net /\ UNCHANGED pump /\ UNCHANGED save /\ UNCHANGED count

----------------------------------------------------------------------------
(* The ends.                                                                *)

(* Only a cancellation ends the loop.                                       *)
LoopEndsCancelled ==
  /\ task["main"].pc \in {"loop", "wait", "move", "greet"} /\ task["main"].back = "loop" /\ Fault
  /\ task' = [task EXCEPT !["main"] = [Idle EXCEPT !.pc = "closing"]]
  /\ UNCHANGED <<calls, strayed, evicted>> /\ UNCHANGED net /\ UNCHANGED pump /\ UNCHANGED save

(* The update loop sees no connection, or its task is cancelled (Ctrl-C) or *)
(* raises; _migrate() swallows a cancellation that comes while it awaits    *)
(* the pump.                                                                *)
LoopEnds ==
  /\ \/ At("main", "loop") /\ conn = 0 /\ UNCHANGED faults
     \/ task["main"].pc \in {"loop", "wait", "move", "greet"} /\ task["main"].back = "loop" /\ Fault
  /\ task' = [task EXCEPT !["main"] = [Idle EXCEPT !.pc = "closing"]]
  /\ UNCHANGED <<calls, strayed, evicted>> /\ UNCHANGED net /\ UNCHANGED pump /\ UNCHANGED save

(* Every worker has taken its None and ended, gather() returns -- never,    *)
(* once a None was evicted, but for another cancellation. The pump, which   *)
(* was still at work, is cancelled.                                         *)
QueueCloses ==
  /\ At("main", "closing") /\ evicted' = FALSE
  /\ (~evicted /\ UNCHANGED faults) \/ Fault
  /\ CancelPump
  /\ task' = [task EXCEPT !["main"] = [Idle EXCEPT !.pc = "final", !.on = pumpTask]]
  /\ UNCHANGED <<pumpTask, calls, strayed>> /\ UNCHANGED net /\ UNCHANGED save

(* The autosave task is cancelled, the caches flushed -- unless awaiting    *)
(* the pump raised; self._conn stays.                                       *)
RunEnds ==
  /\ At("main", "final") /\ ~Live(task["main"].on)
  /\ saver' = (saver /\ pumps[task["main"].on].st = "raised")
  /\ task' = [task EXCEPT !["main"] = Idle]
  /\ UNCHANGED lost /\ UNCHANGED net /\ UNCHANGED pump /\ UNCHANGED count

(* stop() that forgets the autosave task without cancelling it.             *)
StopForgettingSaver ==
  /\ At("stop", "idle") /\ conn # 0 /\ Order("stop")
  /\ Goto("stop", "saving")
  /\ saver' = FALSE /\ lost' = lost + (IF saver THEN 1 ELSE 0)
  /\ Stray("saver", Starting)
  /\ UNCHANGED <<faults, evicted>> /\ UNCHANGED net /\ UNCHANGED pump

Stop ==
  /\ At("stop", "idle") /\ conn # 0 /\ Order("stop")
  /\ Goto("stop", "saving")
  /\ saver' = FALSE
  /\ Stray("saver", Starting)
  /\ UNCHANGED <<lost, faults, evicted>> /\ UNCHANGED net /\ UNCHANGED pump

(* Everything is saved; whatever connection is the client's now is dropped. *)
Stopped ==
  /\ At("stop", "saving")
  /\ conn' = 0
  /\ Goto("stop", "idle")
  /\ UNCHANGED dcOf /\ UNCHANGED pump /\ UNCHANGED save /\ UNCHANGED count

----------------------------------------------------------------------------
Step(a) ==
  \/ Call(a) \/ Answered(a) \/ Refused(a) \/ AuthRestart(a) \/ Redirected(a)
  \/ Move(a) \/ NextPump(a) \/ PumpRaised(a) \/ Greet(a) \/ StartConnects(a) \/ Loaded(a)

Next ==
  \/ \E a \in Actors : Step(a)
  \/ \E p \in DOMAIN pumps : PumpStarts(p) \/ PumpFrame(p) \/ PumpCancelled(p)
  \/ Run \/ Restore \/ Started \/ LoopEnds \/ QueueCloses \/ RunEnds \/ Stop \/ Stopped

(* Ready tasks run, requests are answered or fail, and handlers return, so  *)
(* that a worker whose None is in the queue takes it; nobody has to call,   *)
(* and no update has to come.                                               *)
Fairness ==
  /\ \A a \in Actors : WF_vars(Step(a) /\ (a \in Callers => ~At(a, "idle")))
  /\ WF_vars(Started) /\ WF_vars(RunEnds) /\ WF_vars(Stopped)
  /\ WF_vars(LoopEnds /\ UNCHANGED faults) /\ WF_vars(QueueCloses /\ UNCHANGED faults)
  /\ \A p \in 1 .. MaxPumps : WF_vars(p \in DOMAIN pumps /\ (PumpStarts(p) \/ PumpCancelled(p)))

Spec == Init /\ [][Next]_vars
FairSpec == Spec /\ Fairness

----------------------------------------------------------------------------
(* Properties.                                                              *)

(* While a run is on and no migration waits for the client's pump to end,   *)
(* that pump is on the client's connection, however many migrations came    *)
(* before -- unless the pump's connection failed or the pump raised, or     *)
(* somebody called stop() or signal_network_restored().                     *)
PumpFollows ==
  /\ InRun /\ ~At("main", "final") /\ calls["stop"] + calls["restore"] = 0
  /\ \A a \in Actors : ~(At(a, "pump") /\ task[a].on = pumpTask)
  => \/ pumps[pumpTask].st \in {"new", "dead", "raised"}
     \/ pumps[pumpTask].st = "reading" /\ pumps[pumpTask].on = conn

(* One pump reads at a time, and none when no run is on -- unless two       *)
(* migrations overlapped, or one ended outside the run it began in.         *)
OnePump ==
  "pump" \notin strayed =>
    /\ Cardinality({p \in DOMAIN pumps : Live(p)}) <= 1
    /\ ~InRun => \A p \in DOMAIN pumps : ~Live(p)

(* No autosave task is ever out of reach of stop() and of the end of a run, *)
(* unless stop() came while start() was on its way, or the client was told  *)
(* of a restored network.                                                   *)
OneSaver == calls["restore"] = 0 /\ "saver" \notin strayed => lost = 0

(* A request ends, whoever migrates, stops or restores meanwhile: the pump  *)
(* its migration waits for does end.                                        *)
CallsEnd == \A a \in Callers : ~At(a, "idle") ~> At(a, "idle")

(* A stopped client's run ends, unless a connection comes back -- or the    *)
(* pump, which goes on until the queue is closed, evicts a worker's None.   *)
StopEndsRun ==
  (calls["stop"] > 0 /\ At("stop", "idle") /\ conn = 0) ~> (At("main", "idle") \/ conn # 0 \/ evicted)
=============================================================================
