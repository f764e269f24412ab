------------------------------ MODULE PeerCache ------------------------------
(***************************************************************************)
(* The access hashes a client knows (raw/proxy.py: PeerCache,              *)
(* _resolve_int_peer), what answers add to them, and their way to the      *)
(* session and back (client.py). A hash is 1, 0 (an answer without it) or  *)
(* None (not in the cache); a peer is its kind and its id.                 *)
(***************************************************************************)
EXTENDS Integers, FiniteSets

CONSTANTS
  Peers,    \* [kind, id]; channels and communities share the ids
  Limit,    \* 1_000_000_000
  MaxWrites \* bound: saves under way at once

Kinds == {"user", "channel", "community", "chat"}
None == -1

ASSUME PeersAssumption ==
  /\ Limit \in Nat /\ MaxWrites \in Nat /\ Peers \subseteq [kind : Kinds, id : Nat \ {0}]
  /\ \A p, q \in Peers : p.kind = "channel" /\ q.kind = "community" => p.id # q.id

Peer(k, n) == [kind |-> k, id |-> n]
Of(k) == {p \in Peers : p.kind = k}
Hashed == Peers \ Of("chat")

VARIABLES
  mem,      \* the cache: hash of each peer, basic groups, channels seen with min
  dirty,
  disk,     \* the peers in the session file
  writes,   \* saves on a thread: what they write, and whether the flush still waits
  phase,    \* "down", "up" or "stopping"
  safe,     \* history: the hashes known to the flush whose save landed last
  reread    \* history: this process read the file into a cache in use

vars == <<mem, dirty, disk, writes, phase, safe, reread>>

Empty == [hash |-> [p \in Hashed |-> None], chats |-> {}, mins |-> {}]

Init ==
  /\ mem = Empty /\ dirty = FALSE /\ disk = {} /\ writes = {}
  /\ phase = "down" /\ safe = {} /\ reread = FALSE

----------------------------------------------------------------------------
(* What an answer adds (_populate_cache and the store methods).             *)

StoredAnyway(m, p, h) == [m EXCEPT !.hash[p] = h]

(* A hash is never replaced by 0.                                           *)
Stored(m, p, h) == IF h # 0 \/ m.hash[p] = None THEN [m EXCEPT !.hash[p] = h] ELSE m

Seen(m, p, min, h) ==
  CASE p.kind = "chat" -> IF min THEN m ELSE [m EXCEPT !.chats = @ \cup {p}]
    [] p.kind = "channel" ->
         IF min THEN [m EXCEPT !.mins = IF m.hash[p] = None THEN @ \cup {p} ELSE @]
         ELSE [Stored(m, p, h) EXCEPT !.mins = @ \ {p}]
    [] OTHER -> IF min THEN m ELSE Stored(m, p, h)

(* discard() alone does not make the cache dirty.                           *)
Learn(p, min, h) ==
  /\ phase # "down"
  /\ LET m == Seen(mem, p, min, h)
     IN /\ mem' = m
        /\ dirty' = (dirty \/ [m EXCEPT !.mins = mem.mins] # mem \/ ~(m.mins \subseteq mem.mins))
  /\ UNCHANGED <<disk, writes, phase, safe, reread>>

----------------------------------------------------------------------------
(* The session file's rows, and back.                                       *)

Row(p, h) == [peer |-> p, hash |-> h]

ToPersisted(m) ==
  {Row(p, m.hash[p]) : p \in {q \in Hashed : m.hash[q] # None}}
    \cup {Row(p, 0) : p \in m.chats \cup m.mins}

(* A channel's row without a hash says no more than that there is one.      *)
LoadPersisted(m, rows) ==
  LET min(r) == r.peer.kind = "channel" /\ r.hash = 0
      new == {r \in rows : r.peer.kind # "chat" /\ ~min(r)}
  IN [hash |-> [p \in Hashed |->
        IF \E r \in new : r.peer = p THEN (CHOOSE r \in new : r.peer = p).hash ELSE m.hash[p]],
      chats |-> m.chats \cup {r.peer : r \in {s \in rows : s.peer.kind = "chat"}},
      mins |-> m.mins \cup {r.peer : r \in {s \in rows : min(s)}}]

Write(ws) == Cardinality(ws) < MaxWrites /\ writes' = ws \cup {[rows |-> ToPersisted(mem), waits |-> TRUE]}
Waits == \E w \in writes : w.waits

(* The autosave loop; one save of a cancelled flush may still be under way. *)
Autosave ==
  /\ phase = "up" /\ dirty /\ ~Waits
  /\ Write(writes)
  /\ UNCHANGED <<mem, dirty, disk, phase, safe, reread>>

(* stop() cancels the autosave, whose save goes on, and flushes.            *)
Stop ==
  /\ phase = "up" /\ phase' = "stopping"
  /\ Write({[w EXCEPT !.waits = FALSE] : w \in writes})
  /\ UNCHANGED <<mem, dirty, disk, safe, reread>>

Settled(w) ==
  /\ writes' = writes \ {w}
  /\ phase' = IF w.waits /\ phase = "stopping" THEN "down" ELSE phase

Lands(w) ==
  /\ disk' = w.rows /\ safe' = {r.peer : r \in {s \in w.rows : s.hash = 1}}
  /\ dirty' = (dirty /\ ~w.waits)
  /\ Settled(w)
  /\ UNCHANGED <<mem, reread>>

SaveFails(w) == Settled(w) /\ UNCHANGED <<mem, dirty, disk, safe, reread>>

(* start(), also from signal_network_restored().                            *)
Load ==
  /\ mem' = LoadPersisted(mem, disk)
  /\ reread' = (reread \/ mem # Empty)
  /\ UNCHANGED <<dirty, disk, writes, safe>>

Start == phase = "down" /\ phase' = "up" /\ Load
NetworkRestored == phase = "up" /\ UNCHANGED phase /\ Load

Crash ==
  /\ mem' = Empty /\ dirty' = FALSE /\ writes' = {} /\ phase' = "down" /\ reread' = FALSE
  /\ UNCHANGED <<disk, safe>>

Next ==
  \/ \E p \in Peers, min \in BOOLEAN, h \in {0, 1} : Learn(p, min, h)
  \/ Autosave \/ Stop \/ Start \/ NetworkRestored \/ Crash
  \/ \E w \in writes : Lands(w) \/ SaveFails(w)

Spec == Init /\ [][Next]_vars

----------------------------------------------------------------------------
(* The ids the program uses, and what they are resolved to.                 *)

(* _peer_to_id(), and Dialog.peer_id for a community.                       *)
IdOf(p) ==
  CASE p.kind = "user" -> p.id
    [] p.kind = "chat" -> -p.id
    [] OTHER -> -(Limit + p.id)

Get(m, p) == IF p \in Hashed THEN m.hash[p] ELSE None
Fetch == [as |-> "fetch", id |-> 0, hash |-> 0]
Input(k, n, h) == [as |-> k, id |-> n, hash |-> h]
Cached(k, n, h) == IF h # None THEN Input(k, n, h) ELSE Fetch

IsChatBelow(n) == n < Limit
IsChat(n) == n <= Limit

(* _resolve_int_peer(); a community is addressed as a channel.              *)
Resolve(m, n) ==
  IF n > 0 THEN Cached("user", n, Get(m, Peer("user", n)))
  ELSE IF IsChat(-n) THEN Input("chat", -n, 0)
  ELSE LET c == -n - Limit
           h == Get(m, Peer("channel", c))
       IN Cached("channel", c, IF h # None THEN h ELSE Get(m, Peer("community", c)))

Wire(p) == IF p.kind = "community" THEN "channel" ELSE p.kind

----------------------------------------------------------------------------
(* Properties.                                                              *)

(* The id the library gives a peer resolves to that peer, with the hash the *)
(* cache has, or is asked for; for a basic group only up to the limit,      *)
(* above it the id is taken for a channel's.                                *)
AddressedAsItself ==
  \A p \in Peers :
    /\ p.kind # "chat" => Resolve(mem, IdOf(p)) = Cached(Wire(p), p.id, mem.hash[p])
    /\ p.kind = "chat" /\ p.id <= Limit => Resolve(mem, IdOf(p)) = Input("chat", p.id, 0)

(* A hash that is in the session file is there for the client that runs,    *)
(* through restarts, crashes, failed and late saves and answers without it; *)
(* except when a start() that found the cache in use read an older file     *)
(* into it (load_persisted overwrites what is newer).                       *)
SavedIsKnown ==
  phase # "down" /\ ~reread =>
    \A p \in safe : Resolve(mem, IdOf(p)) = Input(Wire(p), p.id, 1)
=============================================================================
