------------------------------ MODULE UpdateFlow ------------------------------
(***************************************************************************)
(* How updates reach the dispatch queue.  Telegram numbers the updates of  *)
(* each box (the account's common one, and one per channel) by pts.  The   *)
(* client learns them in three ways: frames pushed on its connection, read *)
(* by _run_frame_pump; differences asked for by _run_updates; and answers  *)
(* to its own requests, fed by DcConnection.rpc_call.  All three go        *)
(* through one MessageBox, which keeps the last pts seen of each box.      *)
(*                                                                         *)
(* ferogram-msgbox is not in the repository: Feed and Due model it from    *)
(* the way message_box.rs and client.py use it.                            *)
(***************************************************************************)
EXTENDS Integers, Sequences, FiniteSets, SequencesExt

CONSTANTS
  Common,       \* the box of the account
  Channels,     \* the boxes of channels
  MaxMade,      \* bound: updates the server makes in each box
  MaxCalls,     \* bound: own requests that answer with updates
  MaxSwitches   \* bound: reconnections and migrations

Boxes == {Common} \cup Channels

ASSUME FlowAssumption ==
  /\ Common \notin Channels
  /\ MaxMade \in [Boxes -> Nat]
  /\ MaxCalls \in Nat /\ MaxSwitches \in Nat

Updates == UNION {{<<b, i>> : i \in 1 .. MaxMade[b]} : b \in Boxes}
Tasks == {"pump", "loop"}
NoCall == <<>>
Idle == [pc |-> "poll", box |-> Common, from |-> 0, answer |-> "none", upto |-> 0]

VARIABLES
  made,        \* updates the server has made, by box
  wire,        \* updates pushed on the connection and not yet read
  pump,        \* is the frame pump running
  raised,      \* the tasks an exception ended in the middle of a batch
  fresh,       \* the connection's "connected" event is not yet read
  box,         \* MessageBox: is the box known, its pts, what waits for a gap
               \* to close, and whether a difference is due or asked for
  banned,      \* MessageBox: channels it no longer tracks
  hash,        \* channels whose access_hash is in the peer cache
  loop,        \* _run_updates: where it stands and the difference it awaits
  held,        \* updates a task got from the MessageBox and still has to put
  call,        \* the update that answers the client's own request
  calls,       \* own requests made
  switches,    \* reconnections and migrations
  base,        \* history: the pts at which each box became known
  dispatched,  \* history: updates put on the dispatch queue, in order
  answered,    \* history: updates the feed of their own answer let pass
  skipped,     \* history: updates a too long difference left out
  discarded,   \* history: updates released by the feed of an own answer
  cancelled    \* history: updates held by a task that was cancelled or raised

vars == <<made, wire, pump, raised, fresh, box, banned, hash, loop, held, call, calls, switches, base,
          dispatched, answered, skipped, discarded, cancelled>>

Unknown == [known |-> FALSE, pts |-> 0, stash |-> {}, due |-> FALSE]

Init ==
  /\ made = [b \in Boxes |-> 0]
  /\ wire = {}
  /\ pump = TRUE
  /\ raised = {}
  /\ fresh = TRUE
  /\ box = [b \in Boxes |-> Unknown]
  /\ banned = {}
  /\ hash \in SUBSET Channels
  /\ loop = [Idle EXCEPT !.pc = "seed"]
  /\ held = [t \in Tasks |-> <<>>]
  /\ call = NoCall
  /\ calls = 0
  /\ switches = 0
  /\ base = [b \in Boxes |-> 0]
  /\ dispatched = <<>>
  /\ answered = {} /\ skipped = {} /\ discarded = {} /\ cancelled = {}

----------------------------------------------------------------------------
(* The MessageBox (external).                                               *)

(* The updates b's box releases when it is fed the update of pts i: nothing *)
(* while a difference will bring it anyway, nothing old, else the run of    *)
(* consecutive pts that i completes.  The first update makes a box known.   *)
Released(b, i) ==
  LET bx == box[b]
      start == IF bx.known THEN bx.pts ELSE i - 1
      there == bx.stash \cup {i}
  IN  IF bx.due \/ b \in banned THEN {}
      ELSE {j \in start + 1 .. MaxMade[b] : \A k \in start + 1 .. j : k \in there}

Feed(b, i) ==
  LET out == Released(b, i)
      top == IF out = {} THEN box[b].pts ELSE CHOOSE j \in out : \A k \in out : k <= j
  IN  IF b \in banned
        THEN UNCHANGED <<box, base>>
        ELSE /\ box' = [box EXCEPT
                  ![b].known = TRUE,
                  ![b].pts = top,
                  ![b].stash = IF box[b].due THEN @ ELSE {j \in @ \cup {i} : j > top}]
             /\ base' = [base EXCEPT ![b] = IF box[b].known THEN @ ELSE i - 1]

Due(S) ==
  [b \in Boxes |-> [box[b] EXCEPT !.due = @ \/ (b \in S /\ box[b].known)]]

InOrder(b, S) == [n \in 1 .. Cardinality(S) |->
                    <<b, CHOOSE i \in S : Cardinality({j \in S : j < i}) = n - 1>>]

----------------------------------------------------------------------------
(* The server and the connection (external).                                *)

ServerMakes(b) ==
  /\ made[b] < MaxMade[b]
  /\ made' = [made EXCEPT ![b] = @ + 1]
  /\ wire' \in {wire, wire \cup {<<b, made'[b]>>}}
  /\ UNCHANGED <<pump, raised, fresh, box, banned, hash, loop, held, call, calls, switches, base,
                 dispatched, answered, skipped, discarded, cancelled>>

(* The sender task reconnects by itself: what was on the wire is gone.      *)
Reconnects ==
  /\ switches < MaxSwitches
  /\ switches' = switches + 1
  /\ wire' = {}
  /\ fresh' = TRUE
  /\ UNCHANGED <<made, pump, raised, box, banned, hash, loop, held, call, calls, base, dispatched,
                 answered, skipped, discarded, cancelled>>

----------------------------------------------------------------------------
(* _run_frame_pump.                                                         *)

(* "connected": mark_gap().                                                 *)
PumpConnected ==
  /\ pump /\ held["pump"] = <<>>
  /\ fresh
  /\ fresh' = FALSE
  /\ box' = Due(Boxes)
  /\ UNCHANGED <<made, wire, pump, raised, banned, hash, loop, held, call, calls, switches, base,
                 dispatched, answered, skipped, discarded, cancelled>>

(* A pump that dispatches the frame it read, whatever the box says of it.   *)
PumpReadsBlindly(b, i) ==
  /\ pump /\ held["pump"] = <<>>
  /\ ~fresh
  /\ <<b, i>> \in wire
  /\ wire' = wire \ {<<b, i>>}
  /\ Feed(b, i)
  /\ held' = [held EXCEPT !["pump"] = <<<<b, i>>>>]
  /\ UNCHANGED <<made, pump, raised, fresh, banned, hash, loop, call, calls, switches,
                 dispatched, answered, skipped, discarded, cancelled>>

(* "update": process_raw(); what it releases is still to be put.            *)
PumpReads(b, i) ==
  /\ pump /\ held["pump"] = <<>>
  /\ ~fresh
  /\ <<b, i>> \in wire
  /\ wire' = wire \ {<<b, i>>}
  /\ \/ /\ Feed(b, i)
        /\ held' = [held EXCEPT !["pump"] = InOrder(b, Released(b, i))]
     \/ UNCHANGED <<box, base, held>>       \* process_raw failed: continue
  /\ UNCHANGED <<made, pump, raised, fresh, banned, hash, loop, call, calls, switches, dispatched,
                 answered, skipped, discarded, cancelled>>

(* "error", or None: the pump returns, and nothing restarts it.             *)
PumpReturns ==
  /\ pump /\ held["pump"] = <<>>
  /\ pump' = FALSE
  /\ UNCHANGED <<made, wire, raised, fresh, box, banned, hash, loop, held, call, calls,
                 switches, base, dispatched, answered, skipped, discarded, cancelled>>

(* One update of the batch is put on the dispatch queue; with the blocking  *)
(* policy the task may be suspended, and cancelled, between two of them.    *)
Dispatch(t) ==
  /\ held[t] # <<>>
  /\ dispatched' = Append(dispatched, Head(held[t]))
  /\ held' = [held EXCEPT ![t] = Tail(@)]
  /\ UNCHANGED <<made, wire, pump, raised, fresh, box, banned, hash, loop, call, calls, switches, base,
                 answered, skipped, discarded, cancelled>>

(* Deserializing, routing or putting an update raises.  No except is near:  *)
(* what is left of the batch is lost with its pts already past, and the     *)
(* task ends.                                                               *)
DispatchRaises(t) ==
  /\ held[t] # <<>>
  /\ raised' = raised \cup {t}
  /\ cancelled' = cancelled \cup ToSet(held[t])
  /\ held' = [held EXCEPT ![t] = <<>>]
  /\ pump' = (pump /\ t # "pump")
  /\ loop' = IF t = "loop" THEN [Idle EXCEPT !.pc = "ended"] ELSE loop
  /\ UNCHANGED <<made, wire, fresh, box, banned, hash, call, calls, switches, base,
                 dispatched, answered, skipped, discarded>>

(* run_until_disconnected() cancels the pump when the loop raised.          *)
RunEnds ==
  /\ loop.pc = "ended" /\ pump
  /\ pump' = FALSE
  /\ cancelled' = cancelled \cup ToSet(held["pump"])
  /\ held' = [held EXCEPT !["pump"] = <<>>]
  /\ UNCHANGED <<made, wire, raised, fresh, box, banned, hash, loop, call, calls, switches,
                 base, dispatched, answered, skipped, discarded>>

----------------------------------------------------------------------------
(* _run_updates.                                                            *)

LoopMoves == UNCHANGED <<made, wire, pump, raised, fresh, hash, call, calls, switches,
                         dispatched, answered, discarded, cancelled>>

(* is_empty() is false: no seeding.  Otherwise updates.getState is asked.   *)
LoopChecksEmpty ==
  /\ loop.pc = "seed"
  /\ loop' = IF \E b \in Boxes : box[b].known THEN Idle
             ELSE [Idle EXCEPT !.pc = "state", !.upto = made[Common]]
  /\ LoopMoves /\ UNCHANGED <<box, banned, held, base, skipped>>

(* Seeding that writes without looking again, and one that writes another   *)
(* counter of the state as pts.                                             *)
LoopSeedsAnyway ==
  /\ loop.pc = "state"
  /\ loop' = Idle
  /\ box' = [box EXCEPT ![Common].known = TRUE, ![Common].pts = loop.upto]
  /\ base' = [base EXCEPT ![Common] = loop.upto]
  /\ LoopMoves /\ UNCHANGED <<banned, held, skipped>>

LoopSeedsSwapped ==
  /\ loop.pc = "state"
  /\ loop' = Idle
  /\ \A b \in Boxes : ~box[b].known
  /\ box' = [box EXCEPT ![Common].known = TRUE, ![Common].pts = MaxMade[Common] + 1]
  /\ base' = [base EXCEPT ![Common] = loop.upto]
  /\ LoopMoves /\ UNCHANGED <<banned, held, skipped>>

(* seed_state() looks again before it writes; a failed getState is logged.  *)
LoopSeeds ==
  /\ loop.pc = "state"
  /\ loop' = Idle
  /\ \/ /\ \A b \in Boxes : ~box[b].known
        /\ box' = [box EXCEPT ![Common].known = TRUE, ![Common].pts = loop.upto]
        /\ base' = [base EXCEPT ![Common] = loop.upto]
     \/ UNCHANGED <<box, base>>
  /\ LoopMoves /\ UNCHANGED <<banned, held, skipped>>

(* check_deadline_secs() returned 0: a gap stayed open, nothing came for    *)
(* long, or a difference is owed.  The common box goes first; a channel     *)
(* needs its access_hash, or the round ends without a request.              *)
LoopAsks(b) ==
  /\ loop.pc = "poll" /\ held["loop"] = <<>>
  /\ box[b].known
  /\ b \in Channels => ~box[Common].due
  /\ IF b \in Channels \ hash
       THEN /\ box' = [box EXCEPT ![b].due = FALSE, ![b].stash = {}]
            /\ UNCHANGED loop
       ELSE /\ box' = [box EXCEPT ![b].due = TRUE]
            /\ loop' = [Idle EXCEPT !.pc = "asked", !.box = b, !.from = box[b].pts]
  /\ LoopMoves /\ UNCHANGED <<banned, held, base, skipped>>

(* The server's answer (external): all there is, a slice, or "too long".    *)
ServerAnswers ==
  /\ loop.pc = "asked" /\ loop.answer = "none"
  /\ \E upto \in loop.from .. made[loop.box] :
       \E kind \in {"all", "slice", "toolong"} :
         /\ kind = "all" \/ kind = "toolong" => upto = made[loop.box]
         /\ kind = "slice" \/ kind = "toolong" => loop.from < upto
         /\ loop' = [loop EXCEPT !.answer = kind, !.upto = upto]
  /\ LoopMoves /\ UNCHANGED <<box, banned, held, base, skipped>>

(* A slice applied and asked for again without its updates being put.       *)
LoopAppliesFinalOnly ==
  /\ loop.pc = "asked" /\ loop.answer \in {"all", "slice"}
  /\ box' = [box EXCEPT ![loop.box].pts = loop.upto,
                        ![loop.box].stash = {},
                        ![loop.box].due = loop.answer = "slice"]
  /\ held' = [held EXCEPT !["loop"] = IF loop.answer = "slice" THEN <<>>
                 ELSE InOrder(loop.box, loop.from + 1 .. loop.upto)]
  /\ loop' = Idle
  /\ LoopMoves /\ UNCHANGED <<banned, base, skipped>>

(* apply_difference(), apply_channel_difference(): the box jumps to the     *)
(* answer's pts and the updates are to be put.                              *)
LoopApplies ==
  /\ loop.pc = "asked" /\ loop.answer # "none"
  /\ LET b == loop.box
         got == loop.from + 1 .. loop.upto
     IN  /\ box' = [box EXCEPT ![b].pts = loop.upto,
                               ![b].stash = {},
                               ![b].due = loop.answer = "slice"]
         /\ IF loop.answer = "toolong"
              THEN /\ skipped' = skipped \cup {<<b, i>> : i \in got}
                   /\ UNCHANGED held
              ELSE /\ held' = [held EXCEPT !["loop"] = InOrder(b, got)]
                   /\ UNCHANGED skipped
  /\ loop' = Idle
  /\ LoopMoves /\ UNCHANGED <<banned, base>>

(* A failed request whose exception ends the loop.                          *)
LoopFailsForGood ==
  /\ loop.pc = "asked"
  /\ loop' = [Idle EXCEPT !.pc = "ended"]
  /\ LoopMoves /\ UNCHANGED <<box, banned, held, base, skipped>>

(* The request failed, or its answer could not be applied: the round is     *)
(* aborted.  A channel that is banned is no longer tracked.                 *)
LoopFails ==
  /\ loop.pc = "asked"
  /\ \/ /\ box' = [box EXCEPT ![loop.box].due = FALSE, ![loop.box].stash = {}]
        /\ UNCHANGED banned
     \/ /\ loop.box \in Channels
        /\ box' = [box EXCEPT ![loop.box] = Unknown]
        /\ banned' = banned \cup {loop.box}
  /\ loop' = Idle
  /\ LoopMoves /\ UNCHANGED <<held, base, skipped>>

----------------------------------------------------------------------------
(* The client's own requests.                                               *)

(* A request (sendMessage, ...) makes an update, which comes back in its    *)
(* answer and is not pushed.                                                *)
CallSent(b) ==
  /\ call = NoCall /\ calls < MaxCalls /\ made[b] < MaxMade[b]
  /\ made' = [made EXCEPT ![b] = @ + 1]
  /\ call' = <<b, made'[b]>>
  /\ calls' = calls + 1
  /\ UNCHANGED <<wire, pump, raised, fresh, box, banned, hash, loop, held, switches, base, dispatched,
                 answered, skipped, discarded, cancelled>>

(* rpc_call() feeds the answer to the MessageBox and drops what that        *)
(* returns; or the answer was lost with the connection.                     *)
CallReturns ==
  /\ call # NoCall
  /\ call' = NoCall
  /\ LET b == call[1]
         i == call[2]
     IN  \/ /\ Feed(b, i)
            /\ answered' = answered \cup ({call} \cap {<<b, j>> : j \in Released(b, i)})
            /\ discarded' = discarded \cup {<<b, j>> : j \in Released(b, i) \ {i}}
         \/ UNCHANGED <<box, base, answered, discarded>>
  /\ UNCHANGED <<made, wire, pump, raised, fresh, banned, hash, loop, held, calls, switches,
                 dispatched, skipped, cancelled>>

(* _populate_cache() learns a channel's access_hash.                        *)
LearnsHash(c) ==
  /\ c \notin hash
  /\ hash' = hash \cup {c}
  /\ UNCHANGED <<made, wire, pump, raised, fresh, box, banned, loop, held, call, calls, switches, base,
                 dispatched, answered, skipped, discarded, cancelled>>

(* _migrate(): a new connection, the same MessageBox; the pump is cancelled *)
(* wherever it is and restarted, unless it raised: the await raises again.  *)
Migrate ==
  /\ switches < MaxSwitches
  /\ switches' = switches + 1
  /\ wire' = {}
  /\ pump' = ("pump" \notin raised)
  /\ fresh' = TRUE
  /\ cancelled' = cancelled \cup ToSet(held["pump"])
  /\ held' = [held EXCEPT !["pump"] = <<>>]
  /\ UNCHANGED <<made, raised, box, banned, hash, loop, call, calls, base, dispatched,
                 answered, skipped, discarded>>

----------------------------------------------------------------------------
Next ==
  \/ \E b \in Boxes : ServerMakes(b) \/ LoopAsks(b) \/ CallSent(b)
  \/ \E u \in wire : PumpReads(u[1], u[2])
  \/ \E t \in Tasks : Dispatch(t) \/ DispatchRaises(t)
  \/ \E c \in Channels : LearnsHash(c)
  \/ Reconnects \/ PumpConnected \/ PumpReturns \/ LoopChecksEmpty \/ LoopSeeds
  \/ ServerAnswers \/ LoopApplies \/ LoopFails \/ CallReturns \/ Migrate \/ RunEnds

(* A request ends, one way or the other, and the common difference, asked   *)
(* again and again, is answered and applied infinitely often.               *)
Fairness ==
  /\ WF_vars(LoopChecksEmpty) /\ WF_vars(LoopSeeds) /\ WF_vars(PumpConnected)
  /\ \A t \in Tasks : WF_vars(Dispatch(t))
  /\ WF_vars(LoopApplies \/ LoopFails)
  /\ SF_vars(LoopAsks(Common))
  /\ SF_vars(ServerAnswers /\ loop.box = Common)
  /\ SF_vars(LoopApplies /\ loop.box = Common)

Spec == Init /\ [][Next]_vars
FairSpec == Spec /\ Fairness

----------------------------------------------------------------------------
(* Properties.                                                              *)

TypeOK ==
  /\ made \in [Boxes -> Nat]
  /\ wire \subseteq Updates
  /\ box \in [Boxes -> [known : BOOLEAN, pts : Nat, stash : SUBSET Nat, due : BOOLEAN]]
  /\ pump \in BOOLEAN /\ fresh \in BOOLEAN /\ raised \subseteq Tasks
  /\ banned \subseteq Channels /\ hash \subseteq Channels
  /\ loop.pc \in {"seed", "state", "poll", "asked", "ended"}
  /\ \A t \in Tasks : held[t] \in Seq(Updates)
  /\ call = NoCall \/ call \in Updates
  /\ dispatched \in Seq(Updates)
  /\ answered \cup skipped \cup discarded \cup cancelled \subseteq Updates
  /\ \A b \in Boxes : box[b].pts <= made[b]

Lost == skipped \cup discarded \cup cancelled
Settled == ToSet(dispatched) \cup answered \cup Lost
InHand == ToSet(held["pump"]) \cup ToSet(held["loop"])

(* Answers to own requests are "transparently classified and fed into it    *)
(* before returning - callers don't need to do anything extra"              *)
(* (connection.rs:443): the feed loses no update that was waiting.          *)
OwnAnswersLoseNothing == discarded = {}

(* No update reaches the dispatch queue twice, whichever of the pump and    *)
(* the loop brings it, nor at all once it was passed over: let pass by the  *)
(* feed of its own answer, left out, discarded, or cancelled.  (An answer   *)
(* fed while a difference is due, or ahead of a gap, lets nothing pass: its *)
(* update is dispatched by what closes the gap, its caller has it besides.) *)
NoDuplicates ==
  /\ \A i, j \in DOMAIN dispatched : i # j => dispatched[i] # dispatched[j]
  /\ ToSet(dispatched) \cap (answered \cup Lost) = {}

(* A box's pts never covers an update that nobody has: it was put, it is    *)
(* about to be, the caller got it, or it was lost in one of the three known *)
(* ways.                                                                    *)
NothingForgotten ==
  \A b \in Boxes : box[b].known =>
    \A i \in base[b] + 1 .. box[b].pts : <<b, i>> \in Settled \cup InHand

(* A box never goes back, not even when the state asked for before a live   *)
(* update is written after it.                                              *)
PtsNeverFalls ==
  [][\A b \in Boxes : box[b].known /\ box'[b].known => box[b].pts <= box'[b].pts]_vars

(* An update of the common box made after it was known is settled, unless   *)
(* the dispatch of a batch raised in the loop and ended it.                 *)
EveryUpdateSettles ==
  \A i \in 1 .. MaxMade[Common] :
    box[Common].known /\ base[Common] < i /\ i <= made[Common]
      ~> <<Common, i>> \in Settled \/ "loop" \in raised
=============================================================================
