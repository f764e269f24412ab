----------------------------- MODULE PartTransfer -----------------------------
(***************************************************************************)
(* The parts of one file (media.py: upload_file, _download_media_object):  *)
(* workers claim them from a shared counter, keep a window of requests in  *)
(* flight, retry, follow FILE_MIGRATE, and account to a TransferHandle.    *)
(* A call that raised leaves its other workers running; the caller tries   *)
(* once more with the same handle.                                         *)
(***************************************************************************)
EXTENDS TransferMath, FiniteSets, FiniteSetsExt

CONSTANTS
  Files,        \* kind, size, and two bounds: calls with one handle, and faults (errors,
                \* redirects, dead connections, answers without data)
  Ceiling,      \* TransferLimits.*_tcp_connections
  Depth,        \* TransferLimits.*_pipeline_depth
  MaxAttempts,  \* tries of a part on the home connection
  Rounds        \* bound on the calls

ASSUME TransferAssumption ==
  /\ Files \subseteq {"upload", "download"} \X Nat \X (1 .. Rounds) \X Nat
  /\ Ceiling \in Nat \ {0} /\ Depth \in Nat \ {0} /\ MaxAttempts \in Nat \ {0}
  /\ Rounds \in Nat

Round == 1 .. Rounds
Worker == Round \X (1 .. Ceiling)
Team(r) == {w \in Worker : w[1] = r}

VARIABLES
  job,       \* kind, size, part size, parts, mode and connections
  phase,     \* where each call stands
  next,      \* next_part of each call (the offset, of a sequential download)
  pc,        \* where each worker stands
  window,    \* its parts in flight; the lowest is the one awaited
  tries,     \* failed attempts at its part
  alive,     \* its connection is up
  got,       \* parts transferred, per call
  holes,     \* parts answered without data, per call
  handle,    \* paused, cancelled, done
  faults,
  late,      \* history: parts a worker settled since the handle was stopped
  base       \* history: what earlier calls had settled when the last began

vars == <<job, phase, next, pc, window, tries, alive, got, holes, handle, faults, late, base>>

Kinds == {"upload", "download"}

(* One worker on a connection of its own or more, one on the home           *)
(* connection, or one chunk after the other.                                *)
Modes == {"pipelined", "plain", "sequential"}

(* A download that does not know the size, or is worth one worker only, is  *)
(* sequential; no slot, and the workers share the home connection.          *)
JobOf(kind, size, calls, limit, bypass, known, conns) ==
  LET part    == IF kind = "upload" THEN UploadPartSize(size)
                 ELSE DownloadChunk(IF known THEN size ELSE 0)
      count   == CeilDiv(size, part)
      workers == IF kind = "upload" THEN UploadWorkers(size, bypass, Ceiling)
                 ELSE DownloadWorkers(IF known THEN size ELSE 0, bypass, Ceiling)
      mode    == IF kind = "download" /\ (~known \/ count <= 1 \/ workers = 1) THEN "sequential"
                 ELSE IF conns = 0 THEN "plain" ELSE "pipelined"
  IN  [kind |-> kind, size |-> size, part |-> part, parts |-> count,
       calls |-> calls, faults |-> limit, mode |-> mode,
       conns |-> IF mode # "pipelined" \/ count = 0 THEN 1
                 ELSE Smaller(conns, Smaller(workers, count))]

Part == 0 .. job.parts - 1
Settled(r) == got[r] \cup holes[r]
Stopped == handle.paused \/ handle.cancelled
Over == {"returned", "raised"}
Running(w) == pc[w] \notin Over \cup {"idle"}
Mode(m) == job.mode = m

Init ==
  /\ job \in {JobOf(f[1], f[2], f[3], f[4], b, n, c) : f \in Files, b \in BOOLEAN, n \in BOOLEAN, c \in 0 .. Ceiling}
  /\ phase = [r \in Round |-> "new"]
  /\ next = [r \in Round |-> 0]
  /\ pc = [w \in Worker |-> "idle"]
  /\ window = [w \in Worker |-> {}]
  /\ tries = [w \in Worker |-> 0]
  /\ alive = [w \in Worker |-> TRUE]
  /\ got = [r \in Round |-> {}] /\ holes = [r \in Round |-> {}]
  /\ handle = [paused |-> FALSE, cancelled |-> FALSE, done |-> 0]
  /\ faults = 0
  /\ late = [w \in Worker |-> 0]
  /\ base = {}

(* The parts moved so far, by every call.                                   *)
Moved == UNION {{<<r, p>> : p \in got[r]} : r \in Round}

Fault == faults < job.faults /\ faults' = faults + 1

----------------------------------------------------------------------------
(* The caller: begin a call, use the handle, cancel the task.               *)

(* The progress of the last call is kept.                                   *)
BeginKeepingProgress(r) ==
  /\ phase[r] = "new" /\ r <= job.calls /\ \A q \in 1 .. r - 1 : phase[q] \in Over
  /\ phase' = [phase EXCEPT ![r] = "running"]
  /\ pc' = [w \in Worker |-> IF w[1] = r /\ w[2] <= job.conns
                               THEN IF Mode("plain") THEN "claim" ELSE "poll" ELSE pc[w]]
  /\ late' = [w \in Worker |-> IF w[1] = r /\ Stopped THEN 1 ELSE late[w]]
  /\ base' = Moved
  /\ UNCHANGED <<job, next, window, tries, alive, got, holes, handle, faults>>

(* _reset_start() clears what was done, not that the handle was cancelled.  *)
Begin(r) ==
  /\ phase[r] = "new" /\ r <= job.calls /\ \A q \in 1 .. r - 1 : phase[q] \in Over
  /\ phase' = [phase EXCEPT ![r] = "running"]
  /\ pc' = [w \in Worker |-> IF w[1] = r /\ w[2] <= job.conns
                               THEN IF Mode("plain") THEN "claim" ELSE "poll" ELSE pc[w]]
  /\ handle' = [handle EXCEPT !.done = 0]
  /\ late' = [w \in Worker |-> IF w[1] = r /\ Stopped THEN 1 ELSE late[w]]
  /\ base' = Moved
  /\ UNCHANGED <<job, next, window, tries, alive, got, holes, faults>>

Control(h) ==
  /\ handle' = h
  /\ UNCHANGED <<job, phase, next, pc, window, tries, alive, got, holes, faults, base>>

Pause == ~handle.paused /\ Control([handle EXCEPT !.paused = TRUE]) /\ UNCHANGED late

Resume ==
  /\ handle.paused
  /\ Control([handle EXCEPT !.paused = FALSE])
  /\ late' = IF handle.cancelled THEN late ELSE [w \in Worker |-> 0]

CancelHandle == ~handle.cancelled /\ Control([handle EXCEPT !.cancelled = TRUE]) /\ UNCHANGED late

(* gather() passes the cancellation on to every worker it waits for.        *)
CancelTask(r) ==
  /\ phase[r] = "running"
  /\ phase' = [phase EXCEPT ![r] = "raised"]
  /\ pc' = [w \in Worker |-> IF w[1] = r /\ Running(w) THEN "raised" ELSE pc[w]]
  /\ UNCHANGED <<job, next, window, tries, alive, got, holes, handle, faults, late, base>>

----------------------------------------------------------------------------
(* A worker's steps.                                                        *)

Goto(w, l) == pc' = [pc EXCEPT ![w] = l] /\ UNCHANGED phase

(* The first exception ends the call; the other workers go on.              *)
Raise(w) ==
  /\ pc' = [pc EXCEPT ![w] = "raised"]
  /\ phase' = IF phase[w[1]] = "running" THEN [phase EXCEPT ![w[1]] = "raised"] ELSE phase

(* The last worker to return ends the call; a sequential download has one.  *)
Leave(w) ==
  /\ pc' = [pc EXCEPT ![w] = "returned"]
  /\ phase' = IF phase[w[1]] = "running" /\ \A v \in Team(w[1]) \ {w} : ~Running(v)
                THEN [phase EXCEPT ![w[1]] = "returned"] ELSE phase

Kept == UNCHANGED <<job, base>>

(* The handle's cancellation is not looked at, or waits like a pause.       *)
PollIgnoringCancel(w) ==
  /\ pc[w] = "poll"
  /\ ~handle.paused
  /\ Goto(w, IF Mode("pipelined") THEN "fill" ELSE "try")
  /\ UNCHANGED <<next, window, tries, alive, got, holes, handle, faults, late>> /\ Kept

PollWaitingCancelled(w) ==
  /\ pc[w] = "poll"
  /\ ~Stopped
  /\ Goto(w, IF Mode("pipelined") THEN "fill" ELSE "try")
  /\ UNCHANGED <<next, window, tries, alive, got, holes, handle, faults, late>> /\ Kept

(* _poll_pause_cancel(): a cancelled handle raises even while it is paused. *)
Poll(w) ==
  /\ pc[w] = "poll"
  /\ \/ handle.cancelled /\ Raise(w)
     \/ ~Stopped /\ Goto(w, IF Mode("pipelined") THEN "fill" ELSE "try")
  /\ UNCHANGED <<next, window, tries, alive, got, holes, handle, faults, late>> /\ Kept

(* One part too many.                                                       *)
ClaimPastEnd(w) ==
  /\ next[w[1]] <= job.parts
  /\ next' = [next EXCEPT ![w[1]] = @ + 1]
  /\ window' = [window EXCEPT ![w] = @ \cup {next[w[1]]}]

ClaimNext(w) ==
  /\ next[w[1]] < job.parts
  /\ next' = [next EXCEPT ![w[1]] = @ + 1]
  /\ window' = [window EXCEPT ![w] = @ \cup {next[w[1]]}]

(* submit_next(): enqueue() raises on a dead connection, with the part      *)
(* already claimed.                                                         *)
Submit(w) ==
  /\ pc[w] = "fill" /\ Cardinality(window[w]) < Depth
  /\ ClaimNext(w)
  /\ IF alive[w] THEN Goto(w, "fill") ELSE Raise(w)
  /\ UNCHANGED <<tries, alive, got, holes, handle, faults, late>> /\ Kept

(* A worker that returns at the counter's end, whatever is in flight.       *)
FilledLeavingWindow(w) ==
  /\ pc[w] = "fill"
  /\ Cardinality(window[w]) = Depth \/ next[w[1]] >= job.parts
  /\ IF next[w[1]] >= job.parts THEN Leave(w) ELSE Goto(w, "wait")
  /\ UNCHANGED <<next, window, tries, alive, got, holes, handle, faults, late>> /\ Kept

Filled(w) ==
  /\ pc[w] = "fill"
  /\ Cardinality(window[w]) = Depth \/ next[w[1]] >= job.parts
  /\ IF window[w] = {} THEN Leave(w) ELSE Goto(w, "wait")
  /\ UNCHANGED <<next, window, tries, alive, got, holes, handle, faults, late>> /\ Kept

(* An answer with the part's bytes: they are kept and counted.              *)
Take(w, p) ==
  /\ got' = [got EXCEPT ![w[1]] = @ \cup {p}]
  /\ window' = [window EXCEPT ![w] = @ \ {p}]
  /\ handle' = [handle EXCEPT !.done = @ + PartLen(job.size, job.part, p)]
  /\ late' = [late EXCEPT ![w] = IF Stopped THEN @ + 1 ELSE 0]

(* A download's answer without bytes (a redirect to a CDN, say) counts.     *)
Skip(w, p) ==
  /\ job.kind = "download"
  /\ Fault
  /\ holes' = [holes EXCEPT ![w[1]] = @ \cup {p}]
  /\ window' = [window EXCEPT ![w] = @ \ {p}]
  /\ UNCHANGED <<got, handle, late>>

Answered(w) ==
  \/ Take(w, Min(window[w])) /\ UNCHANGED <<holes, faults>>
  \/ Skip(w, Min(window[w]))

(* request.wait() of the lowest part, or the direct call after it failed.   *)
Got(w) ==
  /\ pc[w] \in {"wait", "direct"}
  /\ Answered(w)
  /\ Goto(w, "poll")
  /\ UNCHANGED <<next, tries, alive>> /\ Kept

Same == UNCHANGED <<next, got, holes, handle, late>>

(* Any other failure on a live connection: the part is asked for directly.  *)
WaitFails(w) ==
  /\ pc[w] = "wait" /\ Fault
  /\ IF alive[w] THEN Goto(w, "direct") ELSE Raise(w)
  /\ Same /\ UNCHANGED <<window, tries, alive>> /\ Kept

(* The direct call fails, or a server does not accept a part.               *)
Refused(w) ==
  /\ \/ pc[w] = "direct"
     \/ pc[w] = "wait" /\ job.kind = "upload"
  /\ Fault
  /\ Raise(w)
  /\ Same /\ UNCHANGED <<window, tries, alive>> /\ Kept

(* FILE_MIGRATE: a new connection, outside the transfer's slots, and every  *)
(* part in flight asked for again -- or the connection cannot be opened.    *)
WaitMigrates(w) ==
  /\ pc[w] = "wait" /\ job.kind = "download" /\ Fault
  /\ \/ Goto(w, "poll") /\ alive' = [alive EXCEPT ![w] = TRUE]
     \/ Raise(w) /\ UNCHANGED alive
  /\ Same /\ UNCHANGED <<window, tries>> /\ Kept

(* A dead connection fails every request that was not answered yet.         *)
ConnDies(w) ==
  /\ Running(w) /\ alive[w] /\ Fault
  /\ alive' = [alive EXCEPT ![w] = FALSE]
  /\ Same /\ UNCHANGED <<phase, pc, window, tries>> /\ Kept

DeadWait(w) ==
  /\ pc[w] \in {"wait", "direct"} /\ ~alive[w]
  /\ Raise(w)
  /\ Same /\ UNCHANGED <<window, tries, alive, faults>> /\ Kept

----------------------------------------------------------------------------
(* One request at a time, on the home connection.                           *)

Claim(w) ==
  /\ pc[w] = "claim"
  /\ \/ ClaimNext(w) /\ Goto(w, "poll")
     \/ next[w[1]] >= job.parts /\ Leave(w) /\ UNCHANGED <<next, window>>
  /\ tries' = [tries EXCEPT ![w] = 0]
  /\ UNCHANGED <<alive, got, holes, handle, faults, late>> /\ Kept

Done(w) ==
  /\ pc[w] = "try" /\ Mode("plain")
  /\ Answered(w)
  /\ Goto(w, "claim")
  /\ UNCHANGED <<next, tries, alive>> /\ Kept

(* The last attempt gives the part up without a word.                       *)
TryFailsSilently(w) ==
  /\ pc[w] = "try" /\ Mode("plain") /\ Fault
  /\ tries' = [tries EXCEPT ![w] = @ + 1]
  /\ IF tries[w] + 1 < MaxAttempts
       THEN Goto(w, "poll") /\ UNCHANGED window
       ELSE Goto(w, "claim") /\ window' = [window EXCEPT ![w] = {}]
  /\ Same /\ UNCHANGED alive /\ Kept

(* An error, or a part not accepted, up to MaxAttempts times.               *)
TryFails(w) ==
  /\ pc[w] = "try" /\ Mode("plain") /\ Fault
  /\ tries' = [tries EXCEPT ![w] = @ + 1]
  /\ IF tries[w] + 1 < MaxAttempts THEN Goto(w, "poll") ELSE Raise(w)
  /\ Same /\ UNCHANGED <<window, alive>> /\ Kept

(* FILE_MIGRATE of a download: a new connection, no attempt is consumed.    *)
TryMigrates(w) ==
  /\ pc[w] = "try" /\ job.kind = "download" /\ Fault
  /\ Goto(w, "poll") \/ Raise(w)
  /\ Same /\ UNCHANGED <<window, tries, alive>> /\ Kept

----------------------------------------------------------------------------
(* The sequential download: the next chunk until one is short or empty.     *)

Chunk(w) ==
  /\ pc[w] = "try" /\ Mode("sequential")
  /\ LET r == w[1]
         p == next[r]
     IN  \/ /\ p \in Part
            /\ Take(w, p)
            /\ next' = [next EXCEPT ![r] = p + 1]
            /\ IF PartLen(job.size, job.part, p) < job.part THEN Leave(w) ELSE Goto(w, "poll")
            /\ UNCHANGED <<holes, faults>>
         \/ p \in Part /\ Skip(w, p) /\ Leave(w) /\ UNCHANGED next
         \/ p \notin Part /\ Leave(w) /\ UNCHANGED <<next, window, got, holes, handle, faults, late>>
  /\ UNCHANGED <<tries, alive>> /\ Kept

ChunkFails(w) ==
  /\ pc[w] = "try" /\ Mode("sequential") /\ Fault
  /\ Raise(w)
  /\ Same /\ UNCHANGED <<window, tries, alive>> /\ Kept

----------------------------------------------------------------------------
Work(w) ==
  \/ Poll(w) \/ Submit(w) \/ Filled(w) \/ Got(w) \/ WaitFails(w) \/ Refused(w)
  \/ WaitMigrates(w) \/ DeadWait(w)
  \/ Claim(w) \/ Done(w) \/ TryFails(w) \/ TryMigrates(w)
  \/ Chunk(w) \/ ChunkFails(w)

Next ==
  \/ \E r \in Round : Begin(r) \/ CancelTask(r)
  \/ Pause \/ Resume \/ CancelHandle
  \/ \E w \in Worker : Work(w) \/ ConnDies(w)

(* Ready workers run and a request is answered or fails (the connection     *)
(* dies); nothing makes the caller resume.                                  *)
Fairness == \A w \in Worker : WF_vars(Work(w))

Spec == Init /\ [][Next]_vars
FairSpec == Spec /\ Fairness

----------------------------------------------------------------------------
(* Properties.                                                              *)

TypeOK ==
  /\ job.kind \in Kinds /\ job.mode \in Modes /\ job.parts \in Nat /\ job.conns \in 1 .. Ceiling
  /\ phase \in [Round -> Over \cup {"new", "running"}]
  /\ next \in [Round -> Nat]
  /\ pc \in [Worker -> Over \cup {"idle", "poll", "fill", "wait", "direct", "claim", "try"}]
  /\ window \in [Worker -> SUBSET Part] /\ tries \in [Worker -> 0 .. MaxAttempts]
  /\ alive \in [Worker -> BOOLEAN]
  /\ got \in [Round -> SUBSET Part] /\ holes \in [Round -> SUBSET Part]
  /\ handle.paused \in BOOLEAN /\ handle.cancelled \in BOOLEAN /\ handle.done \in Nat
  /\ faults \in 0 .. job.faults /\ late \in [Worker -> Nat]

(* A part is never in two windows, nor settled and still in one; a part     *)
(* that was claimed is settled, in flight at a worker that still runs, or   *)
(* with a worker that raised.                                               *)
OneOwner == \A r \in Round :
  /\ \A v, w \in Team(r) : v # w => window[v] \cap window[w] = {}
  /\ \A w \in Team(r) :
       window[w] \cap Settled(r) = {} /\ (pc[w] = "returned" => window[w] = {})
  /\ 0 .. next[r] - 1 \subseteq Settled(r) \cup UNION {window[w] : w \in Team(r)}

(* The detailed transfer does what the abstract one allows.                 *)
Abstract(r) == INSTANCE FileTransfer
  WITH parts <- job.parts, upload <- (job.kind = "upload"),
       phase <- phase[r], got <- got[r], holes <- holes[r]

Implements ==
  /\ \A r \in Round : Abstract(r)!Init
  /\ [][\A r \in Round : [Abstract(r)!Next]_(Abstract(r)!vars)]_vars

(* "Pause after the current chunk finishes", "raises after the current      *)
(* chunk": once the handle is stopped a worker settles one more part at     *)
(* most, with any number of requests in flight, and a call that begins with *)
(* a stopped handle settles none.                                           *)
StopsAfterOne == \A w \in Worker : late[w] <= 1

(* Of a set of parts moved: those that are the last of the file, and the    *)
(* bytes of the set; all but the last are full.                             *)
Final(S) == {c \in S : c[2] = job.parts - 1}
Bytes(S) == Cardinality(S \ Final(S)) * job.part
              + Cardinality(Final(S)) * PartLen(job.size, job.part, job.parts - 1)

(* Progress counts every byte of this call's parts once, through retries,   *)
(* redirects and direct calls -- and whatever the workers of a call that    *)
(* raised settle since the handle was reset.                                *)
ProgressExact == handle.done = Bytes(Moved \ base)

(* Unless it stays paused a call ends.                                      *)
CallEnds ==
  <>[](~handle.paused) => \A r \in Round : phase[r] = "running" ~> phase[r] \in Over
=============================================================================
