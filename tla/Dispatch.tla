------------------------------ MODULE Dispatch ------------------------------
(***************************************************************************)
(* _dispatch() of one event type (client.py): the workers run handlers     *)
(* group by group over lists that add_handler() and remove_handler()       *)
(* change while a handler is awaited. A filter is the set of updates it    *)
(* lets through; one that raises is left out.                              *)
(***************************************************************************)
EXTENDS Integers, Sequences, SequencesExt

CONSTANTS
  Workers,        \* tasks that dispatch
  Handlers,       \* registrations, each made at most once
  Func,           \* the function of each
  Wants,          \* the updates its filters let through
  Groups,         \* group numbers
  Updates,        \* updates its filters tell apart
  MaxDispatches   \* bound: updates dispatched

ASSUME DispatchAssumption ==
  /\ Groups \subseteq Int /\ MaxDispatches \in Nat
  /\ Wants \in [Handlers -> SUBSET Updates] /\ DOMAIN Func = Handlers

VARIABLES
  keys,     \* the groups of _handlers[event], in the order they came
  bucket,   \* the list of each
  cache,    \* _handler_groups_sorted: {} or the one list
  task,     \* per worker: update, groups left (the head is under way), next index, awaited handler
  added,    \* history: registrations, oldest first
  log,      \* history: of the last dispatch of each worker, see Begin
  count     \* dispatches begun

vars == <<keys, bucket, cache, task, added, log, count>>

Idle == [update |-> {}, groups |-> <<>>, next |-> 1, runs |-> {}]
Waiting(w) == task[w].runs # {}

Init ==
  /\ keys = <<>> /\ bucket = [g \in Groups |-> <<>>] /\ cache = {}
  /\ task = [w \in Workers |-> Idle]
  /\ added = <<>> /\ count = 0
  /\ log = [w \in Workers |-> [ran |-> <<>>, since |-> {}, cut |-> {}, shifted |-> {}, stopped |-> FALSE]]

(* _add_handler() that leaves the sorted list as it was.                    *)
AddHandlerKeepingCache(h, g) ==
  /\ h \notin Range(added) /\ added' = Append(added, h)
  /\ keys' = IF g \in Range(keys) THEN keys ELSE Append(keys, g)
  /\ bucket' = [bucket EXCEPT ![g] = Append(@, h)]
  /\ UNCHANGED <<cache, task, log, count>>

AddHandler(h, g) ==
  /\ h \notin Range(added) /\ added' = Append(added, h)
  /\ keys' = IF g \in Range(keys) THEN keys ELSE Append(keys, g)
  /\ bucket' = [bucket EXCEPT ![g] = Append(@, h)]
  /\ cache' = {}
  /\ UNCHANGED <<task, log, count>>

(* remove_handler(): the first registration of f in the group.              *)
RemoveHandler(f, g) ==
  \E i \in DOMAIN bucket[g] :
    /\ Func[bucket[g][i]] = f /\ \A j \in 1 .. i - 1 : Func[bucket[g][j]] # f
    /\ bucket' = [bucket EXCEPT ![g] = RemoveAt(@, i)]
    /\ log' = [w \in Workers |->
         [log[w] EXCEPT !.since = @ \ {bucket[g][i]},
           !.shifted = IF Waiting(w) /\ Head(task[w].groups) = g /\ i < task[w].next
                         THEN @ \cup {g} ELSE @]]
    /\ UNCHANGED <<keys, cache, task, added, count>>

(* The handlers that want u from index n of the first group on.             *)
Hits(gs, n, u) ==
  {p \in (1 .. Len(gs)) \X (1 .. Len(added)) :
     /\ p[2] \in DOMAIN bucket[gs[p[1]]] /\ (p[1] = 1 => p[2] >= n)
     /\ u \in Wants[bucket[gs[p[1]]][p[2]]]}

Before(p, q) == p[1] < q[1] \/ (p[1] = q[1] /\ p[2] <= q[2])

(* Worker w goes on: up to the first of them, or to the end of the dispatch.*)
GoOn(w, gs, n, u, l) ==
  IF Hits(gs, n, u) = {}
  THEN task' = [task EXCEPT ![w] = Idle] /\ log' = [log EXCEPT ![w] = l]
  ELSE LET p == CHOOSE q \in Hits(gs, n, u) : \A r \in Hits(gs, n, u) : Before(q, r)
           g == gs[p[1]]
           h == bucket[g][p[2]]
       IN /\ task' = [task EXCEPT ![w] = [update |-> {u}, groups |-> SubSeq(gs, p[1], Len(gs)),
                                          next |-> p[2] + 1, runs |-> {h}]]
          /\ log' = [log EXCEPT ![w] = [l EXCEPT !.ran = Append(@, <<g, h>>)]]

Registered == UNION {Range(bucket[g]) : g \in Groups}

(* sorted(): the i-th group has i - 1 below it.                             *)
Below(g) == Cardinality({k \in Range(keys) : k < g})
UnsortedGroups == keys
SortedGroups ==
  [i \in 1 .. Cardinality(Range(keys)) |-> CHOOSE g \in Range(keys) : Below(g) = i - 1]

(* The log starts with the handlers that want the update now.               *)
Begin(w, u) ==
  /\ ~Waiting(w) /\ count < MaxDispatches /\ count' = count + 1
  /\ cache' = IF cache # {} THEN cache ELSE {SortedGroups}
  /\ \E gs \in cache' :
       GoOn(w, gs, 1, u, [ran |-> <<>>, since |-> {h \in Registered : u \in Wants[h]},
                          cut |-> {}, shifted |-> {}, stopped |-> FALSE])
  /\ UNCHANGED <<keys, bucket, added>>

(* The handler returned or raised anything else: the group is done.         *)
Returns(w, u) ==
  LET gs == task[w].groups
  IN GoOn(w, Tail(gs), 1, u, [log[w] EXCEPT !.cut = @ \cup {Head(gs)}])

(* ContinuePropagation ends the group.                                      *)
ContinuesInNextGroup(w, u) == GoOn(w, Tail(task[w].groups), 1, u, log[w])

(* ContinuePropagation: on in the list, wherever it is now.                 *)
Continues(w, u) == GoOn(w, task[w].groups, task[w].next, u, log[w])

(* StopPropagation.                                                         *)
Stops(w) == task' = [task EXCEPT ![w] = Idle] /\ log' = [log EXCEPT ![w].stopped = TRUE]

Answer(w) ==
  /\ \E u \in task[w].update : Returns(w, u) \/ Continues(w, u) \/ Stops(w)
  /\ UNCHANGED <<keys, bucket, cache, added, count>>

Next ==
  \/ \E h \in Handlers, g \in Groups : AddHandler(h, g)
  \/ \E f \in Range(Func), g \in Groups : RemoveHandler(f, g)
  \/ \E w \in Workers : Answer(w) \/ \E u \in Updates : Begin(w, u)

Spec == Init /\ [][Next]_vars

----------------------------------------------------------------------------
(* Properties.                                                              *)

(* The handlers in w's log that were there all the while, of group g.       *)
Present(w, g) == log[w].since \cap Range(bucket[g])
RanIn(w, g) == {h \in Handlers : <<g, h>> \in Range(log[w].ran)}
Over(w) == ~Waiting(w) /\ ~log[w].stopped

(* A dispatch that no handler stopped has run a handler of every group that *)
(* had a fitting one all the while, whatever was added or removed meanwhile *)
(* (_dispatch takes the sorted groups from a cache).                        *)
GroupServed ==
  \A w \in Workers, g \in Groups : Over(w) /\ Present(w, g) # {} => RanIn(w, g) # {}

(* One update runs no handler twice and its handlers in the order of groups *)
(* and, within one, of registration, through removals under its feet.       *)
Earlier(h, k) == \E n \in DOMAIN added : \E m \in 1 .. n - 1 : added[m] = h /\ added[n] = k
Follows(p, q) == p[1] < q[1] \/ (p[1] = q[1] /\ Earlier(p[2], q[2]))
InOrder ==
  \A w \in Workers : \A j \in DOMAIN log[w].ran : \A i \in 1 .. j - 1 :
    Follows(log[w].ran[i], log[w].ran[j])

(* ContinuePropagation skips "to the next matching handler in the same      *)
(* group" (_internal.py:229): a group whose handlers all passed the update  *)
(* on has run every one that fits and stayed. Except when the running one   *)
(* or one before it was removed meanwhile: the list shifts, and the handler *)
(* behind it is hidden.                                                     *)
PassedOnToAll ==
  \A w \in Workers : \A g \in Groups \ (log[w].cut \cup log[w].shifted) :
    Over(w) => Present(w, g) \subseteq RanIn(w, g)
=============================================================================
