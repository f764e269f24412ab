--------------------------- MODULE PeerCache_proofs ---------------------------
(***************************************************************************)
(* Theorems about PeerCache for every set of peers and every limit.        *)
(***************************************************************************)
EXTENDS PeerCache, TLAPS

Hashes == {None, 0, 1}
Rows == [peer : Peers, hash : {0, 1}]

Typed ==
  /\ mem.hash \in [Hashed -> Hashes]
  /\ mem.chats \subseteq Of("chat") /\ mem.mins \subseteq Of("channel")
  /\ DOMAIN mem = {"hash", "chats", "mins"}
  /\ disk \subseteq Rows
  /\ \A w \in writes : w.rows \subseteq Rows

LEMMA SeenTyped ==
  ASSUME Typed, NEW p \in Peers, NEW min \in BOOLEAN, NEW h \in {0, 1}
  PROVE  LET m == Seen(mem, p, min, h)
         IN  /\ m.hash \in [Hashed -> Hashes]
             /\ m.chats \subseteq Of("chat") /\ m.mins \subseteq Of("channel")
             /\ DOMAIN m = {"hash", "chats", "mins"}
  <1> DEFINE s == Stored(mem, p, h)
  <1>1. ASSUME p \in Hashed
        PROVE  /\ s.hash \in [Hashed -> Hashes] /\ s.chats = mem.chats /\ s.mins = mem.mins
               /\ DOMAIN s = {"hash", "chats", "mins"}
    BY <1>1 DEF Stored, Typed, Hashes
  <1>2. CASE p.kind = "chat"
    BY <1>2 DEF Seen, Typed, Of
  <1>3. CASE p.kind = "channel"
    <2>1. p \in Hashed /\ p \in Of("channel")
      BY <1>3 DEF Hashed, Of
    <2>2. CASE min
      BY <1>3, <2>1, <2>2 DEF Seen, Typed
    <2>3. CASE ~min
      <3>1. Seen(mem, p, min, h) = [s EXCEPT !.mins = @ \ {p}]
        BY <1>3, <2>3 DEF Seen
      <3> HIDE DEF s
      <3> QED
        BY <1>1, <2>1, <3>1 DEF Typed
    <2> QED
      BY <2>2, <2>3
  <1>4. CASE p.kind \notin {"chat", "channel"}
    <2>1. p \in Hashed
      BY <1>4 DEF Hashed, Of
    <2>2. Seen(mem, p, min, h) = mem \/ Seen(mem, p, min, h) = s
      BY <1>4 DEF Seen
    <2> HIDE DEF s
    <2> QED
      BY <1>1, <2>1, <2>2 DEF Typed
  <1> QED
    BY <1>2, <1>3, <1>4

LEMMA RowsTyped == Typed => ToPersisted(mem) \subseteq Rows
  <1> SUFFICES ASSUME Typed PROVE ToPersisted(mem) \subseteq Rows
    OBVIOUS
  <1>1. \A p \in Hashed : p \in Peers /\ (mem.hash[p] # None => mem.hash[p] \in {0, 1})
    BY DEF Typed, Hashes, Hashed
  <1>2. mem.chats \cup mem.mins \subseteq Peers
    BY DEF Typed, Of
  <1> QED
    BY <1>1, <1>2 DEF ToPersisted, Row, Rows

LEMMA LoadTyped ==
  ASSUME Typed
  PROVE  LET m == LoadPersisted(mem, disk)
         IN  /\ m.hash \in [Hashed -> Hashes]
             /\ m.chats \subseteq Of("chat") /\ m.mins \subseteq Of("channel")
             /\ DOMAIN m = {"hash", "chats", "mins"}
  <1> DEFINE new == {r \in disk : r.peer.kind # "chat" /\ ~(r.peer.kind = "channel" /\ r.hash = 0)}
             m == LoadPersisted(mem, disk)
  <1>1. ASSUME NEW p \in Hashed, \E r \in new : r.peer = p
        PROVE  (CHOOSE r \in new : r.peer = p).hash \in Hashes
    <2>1. (CHOOSE r \in new : r.peer = p) \in new
      BY <1>1
    <2> QED
      BY <2>1 DEF Typed, Rows, Hashes
  <1>2. m.hash = [p \in Hashed |-> IF \E r \in new : r.peer = p
                                   THEN (CHOOSE r \in new : r.peer = p).hash ELSE mem.hash[p]]
    BY DEF LoadPersisted
  <1>3. m.hash \in [Hashed -> Hashes]
    <2> HIDE DEF new, m
    <2> QED
      BY <1>1, <1>2 DEF Typed
  <1>4. m.chats \subseteq Of("chat") /\ m.mins \subseteq Of("channel")
    BY DEF LoadPersisted, Typed, Rows, Of
  <1>5. DOMAIN m = {"hash", "chats", "mins"}
    BY DEF LoadPersisted
  <1> QED
    BY <1>3, <1>4, <1>5

LEMMA InitTyped == Init => Typed
  BY DEF Init, Empty, Typed, Hashes

LEMMA WriteTyped ==
  ASSUME Typed, NEW ws, \A w \in ws : w.rows \subseteq Rows, Write(ws)
  PROVE  \A w \in writes' : w.rows \subseteq Rows
  BY RowsTyped DEF Write

LEMMA StepTyped == Typed /\ [Next]_vars => Typed'
  <1> SUFFICES ASSUME Typed, [Next]_vars PROVE Typed'
    OBVIOUS
  <1>1. ASSUME NEW p \in Peers, NEW min \in BOOLEAN, NEW h \in {0, 1}, Learn(p, min, h)
        PROVE  Typed'
    <2>1. mem' = Seen(mem, p, min, h) /\ UNCHANGED <<disk, writes>>
      BY <1>1 DEF Learn
    <2> QED
      BY <2>1, SeenTyped DEF Typed
  <1>2. CASE Autosave
    <2>1. Write(writes) /\ UNCHANGED <<mem, disk>>
      BY <1>2 DEF Autosave
    <2> QED
      BY <2>1, WriteTyped DEF Typed
  <1>3. CASE Stop
    <2> DEFINE ws == {[w EXCEPT !.waits = FALSE] : w \in writes}
    <2>1. Write(ws) /\ UNCHANGED <<mem, disk>>
      BY <1>3 DEF Stop
    <2>2. \A w \in ws : w.rows \subseteq Rows
      <3> SUFFICES ASSUME NEW w \in writes PROVE [w EXCEPT !.waits = FALSE].rows \subseteq Rows
        OBVIOUS
      <3> QED
        BY DEF Typed
    <2> HIDE DEF ws
    <2> QED
      BY <2>1, <2>2, WriteTyped DEF Typed
  <1>4. CASE Start \/ NetworkRestored
    <2>1. mem' = LoadPersisted(mem, disk) /\ UNCHANGED <<disk, writes>>
      BY <1>4 DEF Start, NetworkRestored, Load
    <2> QED
      BY <2>1, LoadTyped DEF Typed
  <1>5. CASE Crash
    BY <1>5 DEF Crash, Empty, Typed, Hashes
  <1>6. ASSUME NEW w \in writes, Lands(w) \/ SaveFails(w) PROVE Typed'
    BY <1>6 DEF Lands, SaveFails, Settled, Typed
  <1>7. CASE UNCHANGED vars
    BY <1>7 DEF vars, Typed
  <1> QED
    BY <1>1, <1>2, <1>3, <1>4, <1>5, <1>6, <1>7 DEF Next

(* The ids of two kinds do not meet: users are positive, groups are at most *)
(* the limit below zero, channels further.                                  *)
LEMMA TypedAddresses == Typed => AddressedAsItself
  <1> SUFFICES ASSUME Typed, NEW p \in Peers
               PROVE  /\ p.kind # "chat" => Resolve(mem, IdOf(p)) = Cached(Wire(p), p.id, mem.hash[p])
                      /\ p.kind = "chat" /\ p.id <= Limit =>
                           Resolve(mem, IdOf(p)) = Input("chat", p.id, 0)
    BY DEF AddressedAsItself
  <1>1. /\ p.kind \in Kinds /\ p.id \in Nat \ {0} /\ Limit \in Nat
        /\ p = Peer(p.kind, p.id)
    BY PeersAssumption DEF Peer
  <1>2. p.kind # "chat" => p \in Hashed
    BY DEF Hashed, Of
  <1>3. CASE p.kind = "user"
    <2>1. IdOf(p) = p.id /\ p.id > 0 /\ Peer("user", p.id) = p
      BY <1>1, <1>3 DEF IdOf
    <2> QED
      BY <1>2, <1>3, <2>1 DEF Resolve, Get, Wire
  <1>4. CASE p.kind = "chat"
    <2>1. IdOf(p) = -p.id
      BY <1>4 DEF IdOf
    <2>2. ~ (-p.id > 0) /\ -(-p.id) = p.id
      BY <1>1
    <2> QED
      BY <1>4, <2>1, <2>2 DEF Resolve, IsChat
  <1>5. CASE p.kind \in {"channel", "community"}
    <2> DEFINE n == -(Limit + p.id)
    <2>1. IdOf(p) = n
      BY <1>5 DEF IdOf
    <2>2. ~ (n > 0) /\ ~ (-n <= Limit) /\ -n - Limit = p.id
      BY <1>1
    <2> HIDE DEF n
    <2> DEFINE h == Get(mem, Peer("channel", p.id))
    <2>3. Resolve(mem, n) =
            Cached("channel", p.id, IF h # None THEN h ELSE Get(mem, Peer("community", p.id)))
      BY <2>2 DEF Resolve, IsChat
    <2>4. CASE p.kind = "channel"
      <3>1. h = mem.hash[p]
        BY <1>1, <1>2, <2>4 DEF Get
      <3>2. Get(mem, Peer("community", p.id)) = None
        <4>1. Peer("community", p.id) \notin Peers
          BY <2>4, PeersAssumption DEF Peer
        <4> QED
          BY <4>1 DEF Get, Hashed
      <3>3. Wire(p) = "channel"
        BY <2>4 DEF Wire
      <3> HIDE DEF h
      <3> QED
        BY <2>1, <2>3, <2>4, <3>1, <3>2, <3>3
    <2>5. CASE p.kind = "community"
      <3>1. h = None
        <4>1. Peer("channel", p.id) \notin Peers
          BY <2>5, PeersAssumption DEF Peer
        <4> QED
          BY <4>1 DEF Get, Hashed
      <3>2. Get(mem, Peer("community", p.id)) = mem.hash[p]
        BY <1>1, <1>2, <2>5 DEF Get
      <3>3. Wire(p) = "channel"
        BY <2>5 DEF Wire
      <3> HIDE DEF h
      <3> QED
        BY <2>1, <2>3, <2>5, <3>1, <3>2, <3>3
    <2> QED
      BY <1>5, <2>4, <2>5
  <1> QED
    BY <1>1, <1>3, <1>4, <1>5 DEF Kinds

(* Whatever was learned, saved and loaded, the id the library gives a peer  *)
(* resolves to that peer with the hash the cache has for it.                *)
THEOREM PeersAddressedAsThemselves == Spec => []AddressedAsItself
  <1> QED
    BY InitTyped, StepTyped, TypedAddresses, PTL DEF Spec

(***************************************************************************)
(* What is saved is known. A row with a hash stands in the file once, so a *)
(* load has no choice; what the saves under way write is known to whoever  *)
(* began them, also while nothing runs (a save a stop left behind).        *)
(***************************************************************************)
With(rows) == {r.peer : r \in {s \in rows : s.hash = 1}}
Known == {p \in Hashed : mem.hash[p] = 1}
Counts(r) == r.peer.kind # "chat" /\ ~(r.peer.kind = "channel" /\ r.hash = 0)

(* Rows that a load can tell apart: one that counts for each peer.          *)
Clear(rows) ==
  /\ With(rows) \subseteq Hashed
  /\ \A r, s \in rows : Counts(r) /\ Counts(s) /\ r.peer = s.peer => r.hash = s.hash

SavedInv ==
  /\ Typed
  /\ safe = With(disk) /\ Clear(disk)
  /\ \A w \in writes : Clear(w.rows)
  /\ ~reread => \A w \in writes : With(w.rows) \subseteq Known
  /\ phase # "down" /\ ~reread => safe \subseteq Known

LEMMA PersistedClear ==
  ASSUME Typed
  PROVE  Clear(ToPersisted(mem)) /\ With(ToPersisted(mem)) = Known
  <1>1. \A r \in ToPersisted(mem) :
          \/ r.peer \in Hashed /\ r.hash = mem.hash[r.peer]
          \/ r.peer \in mem.chats \cup mem.mins /\ r.hash = 0
    BY DEF ToPersisted, Row
  <1>2. \A r \in ToPersisted(mem) : Counts(r) => r.peer \in Hashed /\ r.hash = mem.hash[r.peer]
    BY <1>1 DEF Counts, Typed, Of
  <1>3. With(ToPersisted(mem)) \subseteq Known
    BY <1>1 DEF With, Known
  <1>4. Known \subseteq With(ToPersisted(mem))
    <2> SUFFICES ASSUME NEW p \in Hashed, mem.hash[p] = 1 PROVE p \in With(ToPersisted(mem))
      BY DEF Known
    <2>1. Row(p, 1) \in ToPersisted(mem)
      BY DEF ToPersisted, None
    <2> QED
      BY <2>1 DEF With, Row
  <1> QED
    BY <1>2, <1>3, <1>4 DEF Clear, Known

(* A load into an empty cache knows just what the rows have a hash for.     *)
LEMMA LoadKnows ==
  ASSUME Typed, Clear(disk), mem = Empty
  PROVE  {p \in Hashed : LoadPersisted(mem, disk).hash[p] = 1} = With(disk)
  <1> DEFINE new == {r \in disk : r.peer.kind # "chat" /\ ~(r.peer.kind = "channel" /\ r.hash = 0)}
             m == LoadPersisted(mem, disk)
  <1>1. new = {r \in disk : Counts(r)}
    BY DEF Counts
  <1>2. m.hash = [p \in Hashed |-> IF \E r \in new : r.peer = p
                                   THEN (CHOOSE r \in new : r.peer = p).hash ELSE mem.hash[p]]
    BY DEF LoadPersisted
  <1>3. \A p \in Hashed : mem.hash[p] # 1
    BY DEF Empty, None
  <1> HIDE DEF new, m
  <1>4. ASSUME NEW p \in Hashed, m.hash[p] = 1 PROVE p \in With(disk)
    <2>1. \E r \in new : r.peer = p
      BY <1>2, <1>3, <1>4
    <2> DEFINE r == CHOOSE q \in new : q.peer = p
    <2>2. r \in new /\ r.peer = p /\ m.hash[p] = r.hash
      BY <1>2, <2>1
    <2> QED
      BY <1>1, <1>4, <2>2 DEF With
  <1>5. ASSUME NEW p \in With(disk) PROVE p \in Hashed /\ m.hash[p] = 1
    <2>1. PICK s \in disk : s.hash = 1 /\ s.peer = p
      BY DEF With
    <2>2. p \in Hashed /\ s \in new
      BY <1>1, <2>1 DEF Clear, Counts, Hashed, Of
    <2> DEFINE r == CHOOSE q \in new : q.peer = p
    <2>3. r \in new /\ r.peer = p
      BY <2>1, <2>2
    <2>4. r.hash = 1
      BY <1>1, <2>1, <2>2, <2>3 DEF Clear
    <2> QED
      BY <1>2, <2>1, <2>2, <2>4
  <1> QED
    BY <1>4, <1>5 DEF m

(* An answer takes no hash away.                                            *)
LEMMA LearnKeeps ==
  ASSUME Typed, NEW p \in Peers, NEW min \in BOOLEAN, NEW h \in {0, 1}, Learn(p, min, h)
  PROVE  Known \subseteq Known'
  <1> SUFFICES ASSUME NEW q \in Hashed, mem.hash[q] = 1
               PROVE  Seen(mem, p, min, h).hash[q] = 1
    BY DEF Learn, Known
  <1>1. p \in Hashed => Stored(mem, p, h).hash[q] = 1
    BY DEF Stored, Typed, None
  <1>2. p.kind # "chat" => p \in Hashed
    BY DEF Hashed, Of
  <1> QED
    BY <1>1, <1>2 DEF Seen

LEMMA WriteClear ==
  ASSUME SavedInv, NEW ws, \A v \in ws : \E w \in writes : v.rows = w.rows,
         Write(ws), mem' = mem, UNCHANGED <<disk, safe, reread>>
  PROVE  /\ \A v \in writes' : Clear(v.rows)
         /\ ~reread' => \A v \in writes' : With(v.rows) \subseteq Known'
  <1>1. Known' = Known
    BY DEF Known
  <1>2. \A v \in writes' : v.rows = ToPersisted(mem) \/ \E w \in writes : v.rows = w.rows
    BY DEF Write
  <1> QED
    BY <1>1, <1>2, PersistedClear DEF SavedInv

LEMMA SavedStep == SavedInv /\ [Next]_vars => SavedInv'
  <1> SUFFICES ASSUME SavedInv, [Next]_vars PROVE SavedInv'
    OBVIOUS
  <1>1. Typed /\ Typed'
    BY StepTyped DEF SavedInv
  <1>2. ASSUME NEW p \in Peers, NEW min \in BOOLEAN, NEW h \in {0, 1}, Learn(p, min, h)
        PROVE  SavedInv'
    <2>1. Known \subseteq Known' /\ UNCHANGED <<disk, writes, phase, safe, reread>>
      BY <1>1, <1>2, LearnKeeps DEF Learn
    <2> QED
      BY <1>1, <2>1 DEF SavedInv
  <1>3. CASE Autosave
    <2>1. Write(writes) /\ UNCHANGED <<mem, disk, phase, safe, reread>>
      BY <1>3 DEF Autosave
    <2>2. Known' = Known
      BY <2>1 DEF Known
    <2> QED
      BY <1>1, <2>1, <2>2, WriteClear DEF SavedInv
  <1>4. CASE Stop
    <2> DEFINE ws == {[w EXCEPT !.waits = FALSE] : w \in writes}
    <2>1. Write(ws) /\ phase = "up" /\ UNCHANGED <<mem, disk, safe, reread>>
      BY <1>4 DEF Stop
    <2>2. \A v \in ws : \E w \in writes : v.rows = w.rows
      <3> SUFFICES ASSUME NEW w \in writes PROVE [w EXCEPT !.waits = FALSE].rows = w.rows
        OBVIOUS
      <3> QED
        OBVIOUS
    <2> HIDE DEF ws
    <2>3. Known' = Known
      BY <2>1 DEF Known
    <2> QED
      BY <1>1, <2>1, <2>2, <2>3, WriteClear DEF SavedInv
  <1>5. CASE Start \/ NetworkRestored
    <2>1. /\ mem' = LoadPersisted(mem, disk) /\ UNCHANGED <<disk, writes, safe>>
          /\ reread' = (reread \/ mem # Empty)
      BY <1>5 DEF Start, NetworkRestored, Load
    <2>2. ASSUME ~reread' PROVE Known = {} /\ Known' = safe' /\ ~reread
      <3>1. mem = Empty /\ ~reread
        BY <2>1, <2>2
      <3>2. Known = {}
        BY <3>1 DEF Known, Empty, None
      <3> QED
        BY <1>1, <2>1, <3>1, <3>2, LoadKnows DEF SavedInv, Known
    <2> QED
      BY <1>1, <2>1, <2>2 DEF SavedInv
  <1>6. CASE Crash
    BY <1>1, <1>6 DEF Crash, SavedInv
  <1>7. ASSUME NEW w \in writes, Lands(w) PROVE SavedInv'
    <2>1. /\ disk' = w.rows /\ safe' = With(w.rows) /\ UNCHANGED <<mem, reread>>
          /\ writes' \subseteq writes
      BY <1>7 DEF Lands, Settled, With
    <2>2. Known' = Known
      BY <2>1 DEF Known
    <2> QED
      BY <1>1, <2>1, <2>2 DEF SavedInv
  <1>8. ASSUME NEW w \in writes, SaveFails(w) PROVE SavedInv'
    <2>1. /\ UNCHANGED <<mem, disk, safe, reread>> /\ writes' \subseteq writes
          /\ phase = "down" => phase' = "down"
      BY <1>8 DEF SaveFails, Settled
    <2>2. Known' = Known
      BY <2>1 DEF Known
    <2> QED
      BY <1>1, <2>1, <2>2 DEF SavedInv
  <1>9. CASE UNCHANGED vars
    <2>1. UNCHANGED <<mem, disk, writes, phase, safe, reread>> /\ Known' = Known
      BY <1>9 DEF vars, Known
    <2> QED
      BY <1>1, <2>1 DEF SavedInv
  <1> QED
    BY <1>2, <1>3, <1>4, <1>5, <1>6, <1>7, <1>8, <1>9 DEF Next

(* A hash that is in the session file resolves, through restarts, crashes,  *)
(* failed and late saves, for any set of peers and number of saves at once. *)
THEOREM PeersSavedAreKnown == Spec => []SavedIsKnown
  <1>1. Init => SavedInv
    <2> SUFFICES ASSUME Init PROVE SavedInv
      OBVIOUS
    <2>1. With(disk) = {} /\ safe = {} /\ writes = {} /\ disk = {} /\ phase = "down"
      BY DEF Init, With
    <2> QED
      BY <2>1, InitTyped DEF SavedInv, Clear
  <1>2. SavedInv => SavedIsKnown
    <2> SUFFICES ASSUME SavedInv, phase # "down", ~reread, NEW p \in safe
                 PROVE  Resolve(mem, IdOf(p)) = Input(Wire(p), p.id, 1)
      BY DEF SavedIsKnown
    <2>1. p \in Hashed /\ mem.hash[p] = 1
      BY DEF SavedInv, Known
    <2>2. p \in Peers /\ p.kind # "chat"
      BY <2>1 DEF Hashed, Of
    <2>3. Resolve(mem, IdOf(p)) = Cached(Wire(p), p.id, mem.hash[p])
      BY <2>2, TypedAddresses DEF SavedInv, AddressedAsItself
    <2> QED
      BY <2>1, <2>3 DEF Cached, None
  <1> QED
    BY <1>1, <1>2, SavedStep, PTL DEF Spec
=============================================================================
