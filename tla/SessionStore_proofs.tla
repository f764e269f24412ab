------------------------- MODULE SessionStore_proofs -------------------------
(***************************************************************************)
(* Theorems about SessionStore for every set of data centres and of        *)
(* transfer workers, every kind of backend and every bound: the home key   *)
(* survives every order of saves, reconnections and crashes; the lock of   *)
(* the worker connections allows a second import only after one whose      *)
(* answer was lost; and an open that holds it removes no other's key.      *)
(***************************************************************************)
EXTENDS SessionStore, TLAPS

WorkerStates == {"closed", "loaded", "saving", "exported", "importing"}
Conns == [pc : WorkerStates, dc : DCs, key : 0 .. MaxKeys, copy : Records]
MainStates == {"up", "loaded", "saving", "down"}
MainConns == [pc : MainStates, kind : {"none", "migrate", "restore"}, dc : DCs,
              copy : Records]
Writers == Savers \cup Workers \cup {"main"}
Writes == [by : Writers, record : Records]

(* The types the two arguments need.                                        *)
Typed ==
  /\ backend \in Backends
  /\ disk \in Records /\ memory \in Records
  /\ main \in MainConns
  /\ pts \in 0 .. MaxPts
  /\ writes \subseteq Writes
  /\ worker \in [Workers -> Conns]
  /\ newest \in 1 .. MaxKeys
  /\ imported \subseteq DCs
  /\ imports \in [DCs -> Nat] /\ unheard \in [DCs -> Nat]

(* Every record that can still reach the backend holds the home key: the    *)
(* main copy, the saves in the pool, and the copy a connect() under way     *)
(* will write back.                                                         *)
HoldsHome(record) == record.keys[Home] = 1
HomeInv ==
  /\ HoldsHome(disk) /\ HoldsHome(memory)
  /\ \A x \in writes : HoldsHome(x.record)
  /\ \A w \in Workers :
       worker[w].pc = "loaded" /\ backend = "shared" => HoldsHome(worker[w].copy)
  /\ main.pc \in {"loaded", "saving"} => backend = "shared" /\ HoldsHome(main.copy)

(* An open under way holds the lock; one that has or uses an exported token *)
(* goes to a data centre no open has imported.                              *)
LockInv ==
  \A w \in Workers :
    /\ worker[w].pc # "closed" => lock = w
    /\ worker[w].pc \in {"exported", "importing"} => worker[w].dc \in DCs \ imported

(* One import beyond those unheard of for a data centre that was imported,  *)
(* or is being.                                                             *)
Importing(d) == \E w \in Workers : worker[w].pc = "importing" /\ worker[w].dc = d
ImportInv ==
  \A d \in DCs : imports[d] = unheard[d] + (IF d \in imported \/ Importing(d)
                                              THEN 1 ELSE 0)

SInv == Typed /\ HomeInv /\ LockInv /\ ImportInv

LEMMA FreshTyped ==
  /\ Fresh \in Records /\ SignedIn \in Records
  /\ HoldsHome(SignedIn)
  /\ Closed \in Conns /\ Up \in MainConns
BY StoreAssumption
   DEF Fresh, SignedIn, Closed, Up, Records, NoKey, DCs, HoldsHome, WorkerStates,
       Conns, MainStates, MainConns

(* Replacing a part of a record leaves the others.                          *)
LEMMA RecordUpdates ==
  ASSUME NEW r \in Records
  PROVE  /\ \A n \in 0 .. MaxPts :
              /\ [r EXCEPT !.pts = n] \in Records
              /\ [r EXCEPT !.pts = n].keys = r.keys
         /\ \A d \in DCs, k \in 0 .. MaxKeys :
              /\ [r EXCEPT !.keys[d] = k] \in Records
              /\ [r EXCEPT !.keys[d] = k].keys[d] = k
              /\ \A e \in DCs \ {d} : [r EXCEPT !.keys[d] = k].keys[e] = r.keys[e]
BY DEF Records

LEMMA InitSInv == Init => SInv
<1> SUFFICES ASSUME Init PROVE SInv
  OBVIOUS
<1>1. Typed
  BY FreshTyped, StoreAssumption DEF Init, Typed
<1>2. HomeInv
  BY FreshTyped DEF Init, HomeInv, Closed, Up
<1>3. LockInv
  BY DEF Init, LockInv, Closed
<1>4. ImportInv
  BY DEF Init, ImportInv, Importing, Closed
<1> QED BY <1>1, <1>2, <1>3, <1>4 DEF SInv

(* What a save adds: the main copy with its state replaced still holds the  *)
(* home key.                                                                *)
LEMMA SavesKeepHome ==
  ASSUME SInv, NEW s \in Savers, memory' \in Records, memory'.keys = memory.keys,
         writes' = writes \/ StartWrite(s),
         UNCHANGED <<backend, disk, main, Keys>>, pts' \in 0 .. MaxPts
  PROVE  SInv'
<1>1. writes' \subseteq Writes
  BY DEF SInv, Typed, Writes, Writers, StartWrite
<1>2. Typed'
  BY <1>1 DEF SInv, Typed, Keys
<1>3. HoldsHome(memory') /\ \A x \in writes' : HoldsHome(x.record)
  BY DEF SInv, HomeInv, HoldsHome, StartWrite
<1>4. HomeInv'
  BY <1>3 DEF SInv, HomeInv, HoldsHome, Keys
<1>5. LockInv' /\ ImportInv'
  BY DEF SInv, LockInv, ImportInv, Importing, Keys
<1> QED BY <1>2, <1>4, <1>5 DEF SInv

LEMMA SaverStep ==
  ASSUME SInv, NEW s \in Savers, Flush(s)
  PROVE  SInv'
<1> USE DEF SInv, Typed, Main
<1>1. CASE FlushPeers(s)
  BY <1>1, SavesKeepHome DEF FlushPeers
<1>2. CASE PeersFlushed(s)
  BY <1>2, SavesKeepHome DEF PeersFlushed
<1>3. CASE FlushState(s)
  <2>1. memory' \in Records /\ memory'.keys = memory.keys
    <3>1. CASE UNCHANGED memory
      BY <3>1
    <3>2. CASE memory' = [memory EXCEPT !.pts = pts]
      BY <3>2, RecordUpdates
    <3> QED BY <1>3, <3>1, <3>2 DEF FlushState
  <2> QED BY <1>3, <2>1, SavesKeepHome DEF FlushState
<1>4. CASE StateFlushed(s)
  BY <1>4, SavesKeepHome DEF StateFlushed
<1> QED BY <1>1, <1>2, <1>3, <1>4 DEF Flush

LEMMA FinalSaveStep == SInv /\ FinalSave => SInv'
BY SavesKeepHome DEF FinalSave, SInv, Typed, Savers, Main

(* Steps of the client that touch neither the backend nor a save.           *)
LEMMA ClientStep ==
  ASSUME SInv, LearnPeer \/ Advance \/ Stop
  PROVE  SInv'
<1> USE DEF SInv, Typed, Main
<1>1. "stop" \in Savers
  BY DEF Savers
<1>2. CASE LearnPeer
  BY <1>1, <1>2, SavesKeepHome DEF LearnPeer
<1>3. CASE Advance
  BY <1>1, <1>3, SavesKeepHome, StoreAssumption DEF Advance
<1>4. CASE Stop
  BY <1>1, <1>4, SavesKeepHome DEF Stop
<1> QED BY <1>2, <1>3, <1>4

(* A save that fails or lands leaves the pool; one that lands was given a   *)
(* record that holds the home key.                                          *)
LEMMA PoolStep ==
  ASSUME SInv, WriteLands \/ \E s \in Savers : SaveFails(s)
  PROVE  SInv'
<1>1. /\ writes' \subseteq writes
      /\ disk' = disk \/ \E x \in writes : disk' = x.record
      /\ UNCHANGED <<backend, memory, main, pts, Keys>>
  BY DEF WriteLands, Lands, SaveFails, Pending, Main
<1>2. disk' \in Records /\ HoldsHome(disk')
  BY <1>1 DEF SInv, Typed, Writes, HomeInv
<1>3. Typed'
  BY <1>1, <1>2 DEF SInv, Typed, Keys
<1>4. HomeInv'
  BY <1>1, <1>2 DEF SInv, HomeInv, HoldsHome, Keys
<1>5. LockInv' /\ ImportInv'
  BY <1>1 DEF SInv, LockInv, ImportInv, Importing, Keys
<1> QED BY <1>3, <1>4, <1>5 DEF SInv

LEMMA CrashStep == SInv /\ CrashRestart => SInv'
<1> SUFFICES ASSUME SInv, CrashRestart PROVE SInv'
  OBVIOUS
<1>1. disk' \in Records /\ HoldsHome(disk')
  BY DEF SInv, Typed, Writes, HomeInv, CrashRestart
<1>2. Typed'
  <2>1. disk'.pts \in 0 .. MaxPts
    BY <1>1 DEF Records
  <2> QED BY <1>1, <2>1, FreshTyped DEF SInv, Typed, CrashRestart
<1>3. HomeInv'
  BY <1>1 DEF HomeInv, HoldsHome, CrashRestart, Closed, Up
<1>4. LockInv'
  BY DEF LockInv, CrashRestart, Closed
<1>5. ImportInv'
  BY DEF ImportInv, Importing, CrashRestart, Closed
<1> QED BY <1>2, <1>3, <1>4, <1>5 DEF SInv

LEMMA StoredHolds ==
  SInv => Stored \in Records /\ (backend = "shared" => HoldsHome(Stored))
BY FreshTyped, StoreAssumption DEF SInv, Typed, HomeInv, Stored

(* The handshake keeps the key of the home data centre when it is stored,   *)
(* and puts another data centre's key beside it.                            *)
LEMMA HandshakeKeeps ==
  ASSUME NEW c, c.dc \in DCs, c.copy \in Records, newest \in 1 .. MaxKeys,
         Handshake(c)
  PROVE  /\ KeyOf(c) \in 1 .. MaxKeys /\ newest' \in 1 .. MaxKeys
         /\ WithKey(c) \in Records
         /\ WithKey(c).keys[c.dc] = KeyOf(c)
         /\ \A d \in DCs : c.copy.keys[d] # NoKey => WithKey(c).keys[d] = c.copy.keys[d]
         /\ HoldsHome(c.copy) => HoldsHome(WithKey(c))
<1>1. KnownKey(c) \in 0 .. MaxKeys
  BY DEF KnownKey, Records
<1>2. KeyOf(c) \in 1 .. MaxKeys /\ newest' \in 1 .. MaxKeys
  BY <1>1, StoreAssumption DEF KeyOf, Handshake, NoKey
<1>3. /\ WithKey(c) \in Records
      /\ WithKey(c).keys[c.dc] = KeyOf(c)
      /\ \A d \in DCs \ {c.dc} : WithKey(c).keys[d] = c.copy.keys[d]
  BY <1>2, RecordUpdates, StoreAssumption DEF WithKey
<1>4. \A d \in DCs : c.copy.keys[d] # NoKey => WithKey(c).keys[d] = c.copy.keys[d]
  BY <1>3 DEF KeyOf, KnownKey
<1>5. HoldsHome(c.copy) => HoldsHome(WithKey(c))
  BY <1>4 DEF HoldsHome, NoKey, DCs
<1> QED BY <1>2, <1>3, <1>4, <1>5
-----------------------------------------------------------------------------
(* The main connection.                                                      *)

LEMMA ConnectsStep ==
  ASSUME SInv, NEW kind \in {"migrate", "restore"}, NEW d \in DCs, Connects(kind, d)
  PROVE  SInv'
<1>1. /\ main' \in MainConns /\ main'.copy = Stored
      /\ UNCHANGED <<backend, disk, memory, pts, writes, Keys>> /\ backend = "shared"
  BY StoredHolds DEF Connects, MainConns, MainStates
<1>2. Typed'
  BY <1>1 DEF SInv, Typed, Keys
<1>3. HomeInv'
  BY <1>1, StoredHolds DEF SInv, HomeInv, HoldsHome, Keys
<1>4. LockInv' /\ ImportInv'
  BY <1>1 DEF SInv, LockInv, ImportInv, Importing, Keys
<1> QED BY <1>2, <1>3, <1>4 DEF SInv

LEMMA ReconnectSavesStep == SInv /\ ReconnectSaves => SInv'
<1> SUFFICES ASSUME SInv, ReconnectSaves PROVE SInv'
  OBVIOUS
<1>1. /\ main.dc \in DCs /\ main.copy \in Records /\ newest \in 1 .. MaxKeys
      /\ main \in MainConns /\ Handshake(main)
      /\ backend = "shared" /\ HoldsHome(main.copy)
  BY DEF SInv, Typed, HomeInv, ReconnectSaves, MainConns
<1>2. newest' \in 1 .. MaxKeys /\ WithKey(main) \in Records /\ HoldsHome(WithKey(main))
  BY <1>1, HandshakeKeeps
<1>3. /\ main' = [main EXCEPT !.pc = "saving", !.copy = WithKey(main)]
      /\ writes' = writes \cup {[by |-> "main", record |-> WithKey(main)]}
      /\ UNCHANGED <<backend, disk, memory, pts, lock, worker, imported, imports, unheard>>
  BY <1>1 DEF ReconnectSaves, SaveRecord
<1>4. main' \in MainConns /\ main'.copy = WithKey(main)
  BY <1>1, <1>2, <1>3 DEF MainConns, MainStates
<1>5. writes' \subseteq Writes /\ \A x \in writes' : HoldsHome(x.record)
  BY <1>2, <1>3 DEF SInv, Typed, HomeInv, Writes, Writers
<1>6. Typed'
  BY <1>2, <1>3, <1>4, <1>5 DEF SInv, Typed
<1>7. HomeInv'
  BY <1>1, <1>2, <1>3, <1>4, <1>5 DEF SInv, HomeInv, HoldsHome
<1>8. LockInv' /\ ImportInv'
  BY <1>3 DEF SInv, LockInv, ImportInv, Importing
<1> QED BY <1>6, <1>7, <1>8 DEF SInv

LEMMA ReconnectEndsStep ==
  ASSUME SInv, ReconnectDone \/ ReconnectFails
  PROVE  SInv'
<1>1. UNCHANGED <<backend, disk, Keys>> /\ writes' \subseteq writes
  BY DEF ReconnectDone, ReconnectFails, Pending
<1>2. main' \in MainConns /\ main'.pc \notin {"loaded", "saving"}
  BY FreshTyped DEF ReconnectDone, ReconnectFails, SInv, Typed, MainConns,
     MainStates, Up
<1>3. memory' \in Records /\ HoldsHome(memory') /\ pts' \in 0 .. MaxPts
  BY DEF ReconnectDone, ReconnectFails, SInv, Typed, HomeInv, HoldsHome, MainConns,
     Records
<1>4. Typed'
  BY <1>1, <1>2, <1>3 DEF SInv, Typed, Keys
<1>5. HomeInv'
  BY <1>1, <1>2, <1>3 DEF SInv, HomeInv, HoldsHome, Keys
<1>6. LockInv' /\ ImportInv'
  BY <1>1 DEF SInv, LockInv, ImportInv, Importing, Keys
<1> QED BY <1>4, <1>5, <1>6 DEF SInv
-----------------------------------------------------------------------------
(* The opens of worker connections.                                          *)

(* The lock is the opener's: no second open is under way.                   *)
LEMMA OpenerAlone ==
  ASSUME SInv, NEW w \in Workers, worker[w].pc # "closed"
  PROVE  \A v \in Workers \ {w} : worker[v].pc = "closed"
BY DEF SInv, LockInv

LEMMA OpenLoadsStep ==
  ASSUME SInv, NEW w \in Workers, NEW d \in DCs, OpenLoads(w, d)
  PROVE  SInv'
<1>1. Loading(d) \in Conns
  BY StoredHolds, StoreAssumption DEF Loading, Conns, WorkerStates, NoKey
<1>2. /\ worker' = [worker EXCEPT ![w] = Loading(d)] /\ lock' = w
      /\ worker'[w] = Loading(d)
      /\ \A v \in Workers \ {w} : worker'[v] = worker[v] /\ worker[v].pc = "closed"
      /\ UNCHANGED <<backend, disk, memory, main, pts, writes, newest, imported,
                     imports, unheard>>
  BY StoreAssumption DEF OpenLoads, Main, SInv, Typed, LockInv
<1>3. Typed'
  BY <1>1, <1>2 DEF SInv, Typed
<1>4. HomeInv'
  BY <1>2, StoredHolds DEF SInv, HomeInv, HoldsHome, Loading
<1>5. LockInv'
  BY <1>2 DEF LockInv, Loading
<1>6. ImportInv'
  <2>1. \A e \in DCs : Importing(e)' <=> Importing(e)
    BY <1>2 DEF Importing, Loading, OpenLoads
  <2> QED BY <1>2, <2>1 DEF SInv, ImportInv
<1> QED BY <1>3, <1>4, <1>5, <1>6 DEF SInv

LEMMA OpenSavesStep ==
  ASSUME SInv, NEW w \in Workers, OpenSaves(w)
  PROVE  SInv'
<1> DEFINE me == worker[w]
           new == [me EXCEPT !.pc = "saving", !.key = KeyOf(me), !.copy = Fresh]
<1>1. /\ me.pc = "loaded" /\ me.dc \in DCs /\ me.copy \in Records
      /\ me \in Conns /\ newest \in 1 .. MaxKeys /\ Handshake(me)
  BY DEF SInv, Typed, OpenSaves, Conns
<1>2. /\ KeyOf(me) \in 1 .. MaxKeys /\ newest' \in 1 .. MaxKeys
      /\ WithKey(me) \in Records
      /\ HoldsHome(me.copy) => HoldsHome(WithKey(me))
  BY <1>1, HandshakeKeeps
<1>3. /\ worker' = [worker EXCEPT ![w] = new]
      /\ SaveRecord(w, WithKey(me))
      /\ UNCHANGED <<backend, disk, memory, main, pts, lock, imported, imports, unheard>>
  BY <1>1 DEF OpenSaves, SInv, Typed, Main
<1>4. new \in Conns /\ new.pc = "saving" /\ new.dc = me.dc
  <2> HIDE DEF me
  <2>1. Fresh \in Records /\ "saving" \in WorkerStates /\ KeyOf(me) \in 0 .. MaxKeys
    BY <1>2, FreshTyped, StoreAssumption DEF WorkerStates
  <2> QED BY <1>1, <2>1 DEF Conns
<1> HIDE DEF new
<1>5. writes' \subseteq Writes /\ \A x \in writes' : HoldsHome(x.record)
  BY <1>1, <1>2, <1>3 DEF SaveRecord, SInv, Typed, HomeInv, Writes, Writers
<1>6. Typed'
  BY <1>2, <1>3, <1>4, <1>5 DEF SInv, Typed
<1>7. \A v \in Workers : worker'[v] = IF v = w THEN new ELSE worker[v]
  BY <1>3 DEF SInv, Typed
<1>8. HomeInv'
  BY <1>3, <1>4, <1>5, <1>7 DEF SInv, HomeInv, HoldsHome
<1>9. LockInv'
  BY <1>1, <1>3, <1>4, <1>7 DEF SInv, LockInv
<1>10. ImportInv'
  <2>1. \A e \in DCs : Importing(e)' <=> Importing(e)
    BY <1>1, <1>4, <1>7 DEF Importing
  <2> QED BY <1>3, <2>1 DEF SInv, ImportInv
<1> QED BY <1>6, <1>8, <1>9, <1>10 DEF SInv

(* The rest of an open: the lock goes with the last step, and the import is *)
(* of a data centre that had none, or none the client heard of.             *)
LEMMA OpenEndsStep ==
  ASSUME SInv, NEW w \in Workers,
         OpenNeedsNone(w) \/ OpenFails(w) \/ OpenCut(w) \/ OpenImports(w)
  PROVE  SInv'
<1>1. /\ worker[w].pc # "closed" /\ worker[w].dc \in DCs
      /\ \A v \in Workers \ {w} : worker[v].pc = "closed"
  BY OpenerAlone DEF OpenNeedsNone, OpenFails, OpenCut, OpenImports, OpenConnected,
     SInv, Typed, Conns
<1>2. /\ worker' = [worker EXCEPT ![w] = Closed]
      /\ UNCHANGED <<backend, disk, memory, main, pts, newest, imports>>
      /\ writes' \subseteq writes
  BY DEF OpenNeedsNone, OpenFails, OpenCut, OpenImports, Main, Pending
<1>3. worker' \in [Workers -> Conns] /\ \A v \in Workers : worker'[v].pc = "closed"
  BY <1>1, <1>2, FreshTyped DEF SInv, Typed, Closed
<1>4. HomeInv'
  BY <1>2, <1>3 DEF SInv, HomeInv, HoldsHome
<1>5. LockInv'
  BY <1>3 DEF LockInv
<1>6. \A d \in DCs : ~Importing(d)'
  BY <1>3 DEF Importing
<1>7. CASE worker[w].pc # "importing"
  <2>1. UNCHANGED <<imported, unheard>>
    BY <1>7 DEF OpenNeedsNone, OpenFails, OpenCut, OpenImports
  <2>2. \A d \in DCs : ~Importing(d)
    BY <1>1, <1>7 DEF Importing
  <2>3. ImportInv'
    BY <1>2, <1>6, <2>1, <2>2 DEF SInv, ImportInv
  <2> QED BY <1>2, <1>3, <1>4, <1>5, <2>1, <2>3 DEF SInv, Typed
<1>8. CASE worker[w].pc = "importing"
  <2>1. worker[w].dc \notin imported
    BY <1>8 DEF SInv, LockInv
  <2>2. \A d \in DCs : Importing(d) <=> d = worker[w].dc
    BY <1>1, <1>8 DEF Importing
  <2>3. \/ imported' = imported \cup {worker[w].dc} /\ UNCHANGED unheard
        \/ /\ UNCHANGED imported
           /\ unheard' = [unheard EXCEPT ![worker[w].dc] = unheard[worker[w].dc] + 1]
    BY <1>8 DEF OpenNeedsNone, OpenFails, OpenCut, OpenImports, OpenConnected
  <2>4. imported' \subseteq DCs /\ unheard' \in [DCs -> Nat]
    BY <1>1, <2>3 DEF SInv, Typed
  <2>5. ImportInv'
    BY <1>1, <1>2, <1>6, <2>1, <2>2, <2>3 DEF SInv, Typed, ImportInv
  <2> QED BY <1>2, <1>3, <1>4, <1>5, <2>4, <2>5 DEF SInv, Typed
<1> QED BY <1>7, <1>8

LEMMA OpenAuthorizesStep ==
  ASSUME SInv, NEW w \in Workers, OpenExports(w) \/ ServerImports(w)
  PROVE  SInv'
<1> DEFINE to == IF OpenExports(w) THEN "exported" ELSE "importing"
           new == [worker[w] EXCEPT !.pc = to]
<1>1. /\ worker[w] \in Conns /\ worker[w].pc \in {"saving", "exported"}
      /\ \A v \in Workers \ {w} : worker[v].pc = "closed"
      /\ worker[w].dc \in DCs \ imported /\ lock = w
  <2>1. worker[w] \in Conns /\ worker[w].pc \in {"saving", "exported"}
    BY DEF OpenExports, OpenConnected, ServerImports, SInv, Typed
  <2>2. worker[w].dc \in DCs \ imported /\ lock = w
    BY <2>1 DEF OpenExports, OpenConnected, ServerImports, SInv, LockInv, Conns
  <2> QED BY <2>1, <2>2, OpenerAlone
<1>2. /\ worker' = [worker EXCEPT ![w] = new]
      /\ UNCHANGED <<backend, disk, memory, main, pts, newest, writes, lock, imported,
                     unheard>>
  BY <1>1 DEF OpenExports, ServerImports, OpenConnected, Main, SInv, Typed
<1>3. new \in Conns /\ new.pc = to /\ new.dc = worker[w].dc
  BY <1>1 DEF Conns, WorkerStates
<1> HIDE DEF new
<1>4. \A v \in Workers : worker'[v] = IF v = w THEN new ELSE worker[v]
  BY <1>2 DEF SInv, Typed
<1>5. imports' \in [DCs -> Nat]
  BY <1>1 DEF OpenExports, ServerImports, SInv, Typed
<1>6. Typed'
  BY <1>2, <1>3, <1>5 DEF SInv, Typed
<1>7. HomeInv'
  BY <1>2, <1>3, <1>4 DEF SInv, HomeInv, HoldsHome
<1>8. LockInv'
  BY <1>1, <1>2, <1>3, <1>4 DEF LockInv
<1>9. \A d \in DCs : Importing(d)' <=> to = "importing" /\ d = worker[w].dc
  BY <1>1, <1>3, <1>4 DEF Importing
<1>10. \A d \in DCs : ~Importing(d)
  BY <1>1 DEF Importing
<1>11. ImportInv'
  <2>1. CASE OpenExports(w)
    BY <1>2, <1>9, <1>10, <2>1 DEF OpenExports, SInv, ImportInv
  <2>2. CASE ServerImports(w) /\ ~OpenExports(w)
    <3>1. imports' = [imports EXCEPT ![worker[w].dc] = imports[worker[w].dc] + 1]
      BY <2>2 DEF ServerImports
    <3> QED BY <1>1, <1>2, <1>9, <1>10, <2>2, <3>1 DEF SInv, Typed, ImportInv
  <2> QED BY <2>1, <2>2
<1> QED BY <1>6, <1>7, <1>8, <1>11 DEF SInv

LEMMA NextSInv == SInv /\ [Next]_vars => SInv'
<1> SUFFICES ASSUME SInv, [Next]_vars PROVE SInv'
  OBVIOUS
<1>1. CASE LearnPeer \/ Advance \/ Stop
  BY <1>1, ClientStep
<1>2. CASE FinalSave
  BY <1>2, FinalSaveStep
<1>3. CASE WriteLands \/ \E s \in Savers : SaveFails(s)
  BY <1>3, PoolStep
<1>4. CASE CrashRestart
  BY <1>4, CrashStep
<1>5. CASE \E s \in Savers : Flush(s)
  BY <1>5, SaverStep
<1>6. CASE Restore \/ \E d \in DCs : Migrate(d)
  BY <1>6, ConnectsStep DEF Restore, Migrate, DCs
<1>7. CASE ReconnectSaves
  BY <1>7, ReconnectSavesStep
<1>8. CASE ReconnectDone \/ ReconnectFails
  BY <1>8, ReconnectEndsStep
<1>9. CASE \E w \in Workers, d \in DCs : OpenLoads(w, d)
  BY <1>9, OpenLoadsStep
<1>10. CASE \E w \in Workers : OpenSaves(w)
  BY <1>10, OpenSavesStep
<1>11. CASE \E w \in Workers : OpenNeedsNone(w) \/ OpenFails(w) \/ OpenCut(w)
                               \/ OpenImports(w)
  BY <1>11, OpenEndsStep
<1>12. CASE \E w \in Workers : OpenExports(w) \/ ServerImports(w)
  BY <1>12, OpenAuthorizesStep
<1>13. CASE UNCHANGED vars
  BY <1>13 DEF vars, Main, Keys, SInv, Typed, HomeInv, HoldsHome, LockInv, ImportInv,
     Importing
<1> QED BY <1>1, <1>2, <1>3, <1>4, <1>5, <1>6, <1>7, <1>8, <1>9, <1>10, <1>11, <1>12,
           <1>13 DEF Next

LEMMA SpecSInv == Spec => []SInv
BY InitSInv, NextSInv, PTL DEF Spec

(* The backend holds the home key in every reachable state: after saves     *)
(* that land in any order, fail or are cut off by a crash, and after        *)
(* connections of workers, of migrations and of restores that write back a  *)
(* record they loaded earlier.                                              *)
THEOREM SessionKeepsHomeKey == Spec => []HomeKeyKept
<1>1. SInv => HomeKeyKept
  BY DEF SInv, HomeInv, HoldsHome, HomeKeyKept
<1> QED BY <1>1, SpecSInv, PTL

(* _worker_conn_lock is enough for the single-use tokens: however many      *)
(* transfers open connections, the server carries out one import into a     *)
(* data centre in a run, and one more only for each whose answer was lost.  *)
THEOREM SessionImportsOnce == Spec => []OneImport
<1>1. SInv => OneImport
  BY DEF SInv, Typed, ImportInv, OneImport
<1> QED BY <1>1, SpecSInv, PTL
-----------------------------------------------------------------------------
(* Opens and each other's entries.                                           *)

(* Of a shared backend: a key an open imported is on disk or was dropped by *)
(* a save made outside the lock; the record an open loaded, or gave to the  *)
(* pool, has those keys too, the lock keeping every other open out since;   *)
(* and the key an open is about to bind is on disk or was dropped.          *)
Kept == imported \ dropped
BoundOnDisk ==
  /\ dropped \subseteq DCs
  /\ NoKey \notin bound /\ \A d \in Kept : disk.keys[d] \in bound
LoadedAgrees ==
  \A w \in Workers : worker[w].pc = "loaded" =>
    /\ Pending(w) = {}
    /\ \A d \in Kept : worker[w].copy.keys[d] = disk.keys[d]
SavedAgrees ==
  \A w \in Workers : worker[w].pc = "saving" =>
    \A x \in Pending(w) :
      /\ x.record.keys[worker[w].dc] = worker[w].key
      /\ \A d \in Kept : x.record.keys[d] = disk.keys[d]
OwnKeyOnDisk ==
  \A w \in Workers :
    /\ worker[w].pc \in {"saving", "exported", "importing"} => worker[w].key # NoKey
    /\ OpenConnected(w) \/ worker[w].pc \in {"exported", "importing"} =>
         (worker[w].dc \notin imported \cup dropped =>
            disk.keys[worker[w].dc] = worker[w].key)
ImportedBound ==
  \A w \in Workers : worker[w].pc = "importing" => worker[w].key \in bound
DiskInv ==
  backend = "shared" => /\ BoundOnDisk /\ LoadedAgrees /\ SavedAgrees
                        /\ OwnKeyOnDisk /\ ImportedBound

LEMMA InitDisk == Init => DiskInv
BY DEF Init, DiskInv, BoundOnDisk, LoadedAgrees, SavedAgrees, OwnKeyOnDisk,
       ImportedBound, OpenConnected, Kept, NoKey, Closed

(* A step outside the opens keeps every key on disk that it does not drop,  *)
(* and leaves the saves of workers in the pool as they are.                 *)
LEMMA DiskKept ==
  ASSUME SInv, DiskInv,
         UNCHANGED <<backend, lock, worker, imported, bound>>,
         dropped \subseteq dropped', dropped' \subseteq DCs \/ UNCHANGED dropped,
         \A w \in Workers : worker[w].pc = "loaded" => Pending(w)' \subseteq Pending(w),
         \A w \in Workers : worker[w].pc = "saving" => Pending(w)' = Pending(w),
         \A d \in DCs \ dropped' : disk.keys[d] # NoKey => disk'.keys[d] = disk.keys[d]
  PROVE  DiskInv'
<1> SUFFICES ASSUME backend = "shared"
             PROVE  (/\ BoundOnDisk /\ LoadedAgrees /\ SavedAgrees
                     /\ OwnKeyOnDisk /\ ImportedBound)'
  BY DEF DiskInv
<1>1. Kept' \subseteq Kept /\ Kept' \subseteq DCs \ dropped'
  BY DEF Kept, SInv, Typed
<1>2. \A d \in Kept' : disk'.keys[d] = disk.keys[d]
  BY <1>1 DEF DiskInv, BoundOnDisk
<1>3. BoundOnDisk'
  BY <1>1, <1>2 DEF DiskInv, BoundOnDisk
<1>4. LoadedAgrees'
  BY <1>1, <1>2 DEF DiskInv, LoadedAgrees
<1>5. SavedAgrees'
  BY <1>1, <1>2 DEF DiskInv, SavedAgrees
<1>6. OwnKeyOnDisk'
  <2> SUFFICES ASSUME NEW w \in Workers
               PROVE  /\ worker[w].pc \in {"saving", "exported", "importing"} =>
                           worker[w].key # NoKey
                      /\ OpenConnected(w)' \/ worker[w].pc \in {"exported", "importing"} =>
                           (worker[w].dc \notin imported \cup dropped' =>
                              disk'.keys[worker[w].dc] = worker[w].key)
    BY DEF OwnKeyOnDisk
  <2>1. worker[w].dc \in DCs
    BY DEF SInv, Typed, Conns
  <2>2. OpenConnected(w)' => OpenConnected(w)
    BY DEF OpenConnected
  <2> QED BY <2>1, <2>2 DEF DiskInv, OwnKeyOnDisk, OpenConnected
<1>7. ImportedBound'
  BY DEF DiskInv, ImportedBound
<1> QED BY <1>3, <1>4, <1>5, <1>6, <1>7

(* A write that lands outside the lock drops what it removes; one of an     *)
(* open that holds the lock agrees with the disk on every kept key, and     *)
(* puts its own there.                                                      *)
LEMMA LandsDisk ==
  ASSUME SInv, DiskInv, NEW x \in writes, Lands(x)
  PROVE  DiskInv'
<1>1. /\ UNCHANGED <<backend, lock, worker, imported, bound>>
      /\ writes' = writes \ {x} /\ disk' = x.record
      /\ x.by \in Writers
  BY DEF Lands, Keys, SInv, Typed, Writes
<1>2. CASE Unlocked(x)
  <2>1. \A w \in Workers : worker[w].pc = "saving" => x.by # w
    BY <1>2 DEF Unlocked
  <2>2. \A w \in Workers : worker[w].pc = "saving" => Pending(w)' = Pending(w)
    BY <1>1, <2>1 DEF Pending
  <2>3. \A w \in Workers : Pending(w)' \subseteq Pending(w)
    BY <1>1 DEF Pending
  <2>4. /\ dropped \subseteq dropped' /\ (dropped' \subseteq DCs \/ backend # "shared")
        /\ \A d \in DCs \ dropped' : disk.keys[d] # NoKey => disk'.keys[d] = disk.keys[d]
    BY <1>2 DEF Lands, DiskInv, BoundOnDisk
  <2>5. CASE backend # "shared"
    BY <1>1, <2>5 DEF DiskInv
  <2>6. CASE backend = "shared"
    BY <1>1, <2>2, <2>3, <2>4, <2>6, DiskKept
  <2> QED BY <2>5, <2>6
<1>3. CASE ~Unlocked(x)
  <2> SUFFICES ASSUME backend = "shared"
               PROVE  (/\ BoundOnDisk /\ LoadedAgrees /\ SavedAgrees
                     /\ OwnKeyOnDisk /\ ImportedBound)'
    BY <1>1 DEF DiskInv
  <2> DEFINE w == x.by
  <2>1. /\ w \in Workers /\ worker[w].pc = "saving" /\ x \in Pending(w)
        /\ \A v \in Workers \ {w} : worker[v].pc = "closed"
    BY <1>3, OpenerAlone DEF Unlocked, Pending
  <2>2. dropped' = dropped /\ Kept' = Kept
    BY <1>1, <1>3 DEF Lands, Kept
  <2>3. \A d \in Kept : disk'.keys[d] = disk.keys[d]
    BY <1>1, <2>1 DEF DiskInv, SavedAgrees
  <2>4. disk'.keys[worker[w].dc] = worker[w].key
    BY <1>1, <2>1 DEF DiskInv, SavedAgrees
  <2> HIDE DEF w
  <2>5. BoundOnDisk'
    BY <1>1, <2>2, <2>3 DEF DiskInv, BoundOnDisk
  <2>6. LoadedAgrees'
    BY <1>1, <2>1 DEF LoadedAgrees
  <2>7. SavedAgrees'
    <3>1. Pending(w)' \subseteq Pending(w)
      BY <1>1 DEF Pending
    <3> QED BY <1>1, <2>1, <2>2, <2>3, <3>1 DEF DiskInv, SavedAgrees
  <2>8. OwnKeyOnDisk'
    BY <1>1, <2>1, <2>4 DEF DiskInv, OwnKeyOnDisk, OpenConnected
  <2>9. ImportedBound'
    BY <1>1 DEF DiskInv, ImportedBound
  <2> QED BY <2>5, <2>6, <2>7, <2>8, <2>9
<1> QED BY <1>2, <1>3

LEMMA OutsideOpensDisk ==
  ASSUME SInv, DiskInv,
         \/ LearnPeer \/ Advance \/ Stop \/ FinalSave
         \/ \E s \in Savers : Flush(s) \/ SaveFails(s)
         \/ \E d \in DCs : Migrate(d)
         \/ Restore \/ ReconnectSaves \/ ReconnectDone \/ ReconnectFails
         \/ UNCHANGED vars
  PROVE  DiskInv'
<1>1. UNCHANGED <<backend, disk, lock, worker, imported, bound, dropped>>
  BY DEF LearnPeer, Advance, Stop, FinalSave, Flush, FlushPeers, PeersFlushed, FlushState,
     StateFlushed, SaveFails, Migrate, Restore, Connects, ReconnectSaves, ReconnectDone,
     ReconnectFails, Keys, vars
<1>2. \A w \in Workers : w \notin Savers \cup {"main"}
  BY StoreAssumption
<1>3. ASSUME NEW w \in Workers PROVE Pending(w)' = Pending(w)
  <2>1. CASE UNCHANGED writes
    BY <2>1 DEF Pending
  <2>2. CASE \E s \in Savers \cup {"main"} : writes' = writes \ Pending(s)
    BY <1>2, <2>2 DEF Pending
  <2>3. CASE \E s \in Savers : \E x \in Pending(s) : writes' = writes \ {x}
    BY <1>2, <2>3 DEF Pending
  <2>4. CASE \E s \in Savers \cup {"main"}, r \in Records \cup {memory', WithKey(main)} :
               writes' = writes \cup {[by |-> s, record |-> r]}
    BY <1>2, <2>4 DEF Pending
  <2>5. CASE \/ LearnPeer \/ Advance \/ Stop \/ ReconnectDone \/ UNCHANGED vars
             \/ \E d \in DCs : Migrate(d)
             \/ Restore
    BY <2>1, <2>5 DEF LearnPeer, Advance, Stop, ReconnectDone, Migrate, Restore, Connects,
       vars
  <2>6. CASE ReconnectSaves \/ ReconnectFails
    BY <2>1, <2>2, <2>4, <2>6 DEF ReconnectSaves, ReconnectFails, SaveRecord
  <2>7. CASE FinalSave \/ \E s \in Savers : Flush(s) \/ SaveFails(s)
    BY <2>1, <2>3, <2>4, <2>7 DEF FinalSave, Flush, FlushPeers, PeersFlushed, FlushState,
       StateFlushed, SaveFails, StartWrite, Savers
  <2> QED BY <2>5, <2>6, <2>7
<1>4. dropped' = dropped /\ disk' = disk
  BY <1>1
<1> QED BY <1>1, <1>3, <1>4, DiskKept

LEMMA CrashDisk == DiskInv /\ CrashRestart => DiskInv'
BY DEF DiskInv, CrashRestart, BoundOnDisk, LoadedAgrees, SavedAgrees, OwnKeyOnDisk,
       ImportedBound, OpenConnected, Kept, Closed

LEMMA OpenLoadsDisk ==
  ASSUME SInv, DiskInv, NEW w \in Workers, NEW d \in DCs, OpenLoads(w, d)
  PROVE  DiskInv'
<1> SUFFICES ASSUME backend = "shared"
             PROVE  (/\ BoundOnDisk /\ LoadedAgrees /\ SavedAgrees
                     /\ OwnKeyOnDisk /\ ImportedBound)'
  BY DEF DiskInv, OpenLoads
<1>1. /\ UNCHANGED <<disk, writes, imported, bound, dropped>> /\ Kept' = Kept
      /\ worker'[w].pc = "loaded" /\ worker'[w].copy = disk /\ Pending(w) = {}
      /\ \A v \in Workers \ {w} : worker'[v] = worker[v]
      /\ \A v \in Workers : Pending(v)' = Pending(v)
  BY DEF OpenLoads, Loading, Kept, Stored, SInv, Typed, Pending
<1>2. BoundOnDisk'
  BY <1>1 DEF DiskInv, BoundOnDisk
<1>3. LoadedAgrees'
  BY <1>1 DEF DiskInv, LoadedAgrees
<1>4. SavedAgrees'
  BY <1>1 DEF DiskInv, SavedAgrees
<1>5. OwnKeyOnDisk' /\ ImportedBound'
  BY <1>1 DEF DiskInv, OwnKeyOnDisk, ImportedBound, OpenConnected
<1> QED BY <1>2, <1>3, <1>4, <1>5

(* The whole record given to the pool holds the kept keys it was loaded     *)
(* with, and the key of this open.                                          *)
LEMMA OpenSavesDisk ==
  ASSUME SInv, DiskInv, NEW w \in Workers, OpenSaves(w)
  PROVE  DiskInv'
<1> SUFFICES ASSUME backend = "shared"
             PROVE  (/\ BoundOnDisk /\ LoadedAgrees /\ SavedAgrees
                     /\ OwnKeyOnDisk /\ ImportedBound)'
  BY DEF DiskInv, OpenSaves
<1> DEFINE me == worker[w]
<1>1. /\ me.pc = "loaded" /\ me.dc \in DCs /\ me.copy \in Records
      /\ newest \in 1 .. MaxKeys /\ Handshake(me)
      /\ \A v \in Workers \ {w} : worker[v].pc = "closed"
      /\ imported \subseteq DCs
  BY OpenerAlone DEF SInv, Typed, OpenSaves, Conns
<1>2. /\ KeyOf(me) \in 1 .. MaxKeys
      /\ WithKey(me).keys[me.dc] = KeyOf(me)
      /\ \A d \in DCs : me.copy.keys[d] # NoKey => WithKey(me).keys[d] = me.copy.keys[d]
  BY <1>1, HandshakeKeeps
<1>3. /\ UNCHANGED <<disk, imported, bound, dropped>> /\ Kept' = Kept
      /\ writes' = writes \cup {[by |-> w, record |-> WithKey(me)]}
      /\ worker'[w].pc = "saving" /\ worker'[w].dc = me.dc /\ worker'[w].key = KeyOf(me)
      /\ \A v \in Workers \ {w} : worker'[v] = worker[v]
  BY DEF OpenSaves, SaveRecord, Kept, SInv, Typed
<1>4. Pending(w)' = {[by |-> w, record |-> WithKey(me)]}
  BY <1>1, <1>3 DEF DiskInv, LoadedAgrees, Pending
<1>5. \A d \in Kept : WithKey(me).keys[d] = disk.keys[d]
  BY <1>1, <1>2 DEF DiskInv, LoadedAgrees, BoundOnDisk, Kept
<1> HIDE DEF me
<1>6. BoundOnDisk'
  BY <1>3 DEF DiskInv, BoundOnDisk
<1>7. LoadedAgrees'
  BY <1>1, <1>3 DEF LoadedAgrees
<1>8. SavedAgrees'
  BY <1>1, <1>2, <1>3, <1>4, <1>5 DEF SavedAgrees
<1>9. OwnKeyOnDisk' /\ ImportedBound'
  <2>1. KeyOf(me) # NoKey /\ Pending(w)' # {}
    BY <1>2, <1>4 DEF NoKey
  <2> QED BY <1>1, <1>3, <2>1 DEF OwnKeyOnDisk, ImportedBound, OpenConnected
<1> QED BY <1>6, <1>7, <1>8, <1>9

(* An open that ends leaves nobody under way, and what it imported is kept. *)
LEMMA OpenEndsDisk ==
  ASSUME SInv, DiskInv, NEW w \in Workers,
         OpenNeedsNone(w) \/ OpenFails(w) \/ OpenCut(w) \/ OpenImports(w)
  PROVE  DiskInv'
<1> SUFFICES ASSUME backend = "shared"
             PROVE  (/\ BoundOnDisk /\ LoadedAgrees /\ SavedAgrees
                     /\ OwnKeyOnDisk /\ ImportedBound)'
  BY DEF DiskInv, OpenNeedsNone, OpenFails, OpenCut, OpenImports
<1>1. UNCHANGED <<disk, bound, dropped>> /\ \A v \in Workers : worker'[v].pc = "closed"
  BY OpenerAlone DEF OpenNeedsNone, OpenFails, OpenCut, OpenImports, OpenConnected, SInv,
     Typed, Closed
<1>2. BoundOnDisk'
  <2>1. CASE UNCHANGED imported
    BY <1>1, <2>1 DEF DiskInv, BoundOnDisk, Kept
  <2>2. CASE OpenImports(w)
    <3>1. /\ imported' = imported \cup {worker[w].dc} /\ worker[w].pc = "importing"
          /\ worker[w].dc \notin imported
      BY <2>2 DEF OpenImports, SInv, LockInv
    <3>2. worker[w].dc \notin dropped => disk.keys[worker[w].dc] = worker[w].key
      BY <3>1 DEF DiskInv, OwnKeyOnDisk
    <3>3. worker[w].key \in bound
      BY <3>1 DEF DiskInv, ImportedBound
    <3> QED BY <1>1, <3>1, <3>2, <3>3 DEF DiskInv, BoundOnDisk, Kept
  <2> QED BY <2>1, <2>2 DEF OpenNeedsNone, OpenFails, OpenCut
<1>3. LoadedAgrees' /\ SavedAgrees' /\ OwnKeyOnDisk' /\ ImportedBound'
  BY <1>1 DEF LoadedAgrees, SavedAgrees, OwnKeyOnDisk, ImportedBound, OpenConnected
<1> QED BY <1>2, <1>3

LEMMA OpenAuthorizesDisk ==
  ASSUME SInv, DiskInv, NEW w \in Workers, OpenExports(w) \/ ServerImports(w)
  PROVE  DiskInv'
<1> SUFFICES ASSUME backend = "shared"
             PROVE  (/\ BoundOnDisk /\ LoadedAgrees /\ SavedAgrees
                     /\ OwnKeyOnDisk /\ ImportedBound)'
  BY DEF DiskInv, OpenExports, ServerImports
<1> DEFINE to == IF OpenExports(w) THEN "exported" ELSE "importing"
<1>1. /\ UNCHANGED <<disk, imported, dropped>> /\ Kept' = Kept
      /\ worker' = [worker EXCEPT ![w] = [worker[w] EXCEPT !.pc = to]]
      /\ worker[w].pc \in {"saving", "exported"} /\ worker[w] \in Conns
      /\ bound' = IF to = "importing" THEN bound \cup {worker[w].key} ELSE bound
  BY DEF OpenExports, ServerImports, OpenConnected, SInv, Typed, Kept
<1>2. /\ \A v \in Workers \ {w} : worker'[v] = worker[v] /\ worker[v].pc = "closed"
      /\ worker'[w].dc = worker[w].dc /\ worker'[w].key = worker[w].key
      /\ worker'[w].pc = to
  BY <1>1, OpenerAlone DEF SInv, Typed, Conns
<1> HIDE DEF to
<1>3. worker[w].key # NoKey
  BY <1>1 DEF DiskInv, OwnKeyOnDisk
<1>4. BoundOnDisk'
  BY <1>1, <1>3 DEF DiskInv, BoundOnDisk
<1>5. LoadedAgrees' /\ SavedAgrees'
  BY <1>2 DEF LoadedAgrees, SavedAgrees, to
<1>6. OwnKeyOnDisk'
  <2>1. OpenConnected(w) \/ worker[w].pc = "exported"
    BY DEF OpenExports, ServerImports
  <2> QED BY <1>1, <1>2, <1>3, <2>1 DEF DiskInv, OwnKeyOnDisk, OpenConnected
<1>7. ImportedBound'
  BY <1>1, <1>2 DEF ImportedBound
<1> QED BY <1>4, <1>5, <1>6, <1>7

LEMMA NextDisk == SInv /\ DiskInv /\ [Next]_vars => DiskInv'
<1> SUFFICES ASSUME SInv, DiskInv, [Next]_vars PROVE DiskInv'
  OBVIOUS
<1>1. CASE \E w \in Workers, d \in DCs : OpenLoads(w, d)
  BY <1>1, OpenLoadsDisk
<1>2. CASE \E w \in Workers : OpenSaves(w)
  BY <1>2, OpenSavesDisk
<1>3. CASE \E w \in Workers : OpenNeedsNone(w) \/ OpenFails(w) \/ OpenCut(w)
                              \/ OpenImports(w)
  BY <1>3, OpenEndsDisk
<1>4. CASE \E w \in Workers : OpenExports(w) \/ ServerImports(w)
  BY <1>4, OpenAuthorizesDisk
<1>5. CASE CrashRestart
  BY <1>5, CrashDisk
<1>6. CASE WriteLands
  BY <1>6, LandsDisk DEF WriteLands
<1>7. CASE \/ LearnPeer \/ Advance \/ Stop \/ FinalSave
           \/ \E s \in Savers : Flush(s) \/ SaveFails(s)
           \/ \E d \in DCs : Migrate(d)
           \/ Restore \/ ReconnectSaves \/ ReconnectDone \/ ReconnectFails
           \/ UNCHANGED vars
  BY <1>7, OutsideOpensDisk
<1> QED BY <1>1, <1>2, <1>3, <1>4, <1>5, <1>6, <1>7 DEF Next

(* Opens that hold the lock never clobber each other's entries: on a shared *)
(* backend a key one of them imported stays on disk through every other     *)
(* open's load and whole-record save, unless a save made outside the lock   *)
(* dropped it: of the main copy, of a migration's or a restore's connect(), *)
(* or one that a cancelled open left in the pool.                           *)
THEOREM SessionOpensKeep == Spec => []OpensKeepEachOther
<1>1. SInv /\ DiskInv => OpensKeepEachOther
  BY DEF DiskInv, BoundOnDisk, Kept, OpensKeepEachOther
<1>2. Init => DiskInv
  BY InitDisk
<1>3. SInv /\ DiskInv /\ [Next]_vars => DiskInv'
  BY NextDisk
<1> QED BY <1>1, <1>2, <1>3, SpecSInv, PTL DEF Spec
-----------------------------------------------------------------------------
(* The lock and its holder.                                                  *)

(* Whoever holds _worker_conn_lock is between the load and the end of its    *)
(* open.                                                                     *)
LockHeld == lock = NoOne \/ (lock \in Workers /\ worker[lock].pc # "closed")

LEMMA HeldStep == SInv /\ LockHeld /\ [Next]_vars => LockHeld'
<1> SUFFICES ASSUME SInv, LockHeld, [Next]_vars PROVE LockHeld'
  OBVIOUS
<1>1. CASE UNCHANGED <<lock, worker>>
  BY <1>1 DEF LockHeld
<1>2. CASE lock' = NoOne
  BY <1>2 DEF LockHeld
<1>3. ASSUME NEW w \in Workers, NEW d \in DCs, OpenLoads(w, d) PROVE LockHeld'
  BY <1>3 DEF OpenLoads, Loading, LockHeld, SInv, Typed
<1>4. ASSUME NEW w \in Workers, OpenSaves(w) \/ OpenExports(w) \/ ServerImports(w)
      PROVE  LockHeld'
  <2>1. lock' = lock /\ \A v \in Workers \ {w} : worker'[v] = worker[v]
    BY <1>4 DEF OpenSaves, OpenExports, ServerImports, SInv, Typed
  <2>2. worker'[w].pc # "closed"
    <3>1. worker[w] \in Conns
      BY DEF SInv, Typed
    <3> QED BY <1>4, <3>1 DEF OpenSaves, OpenExports, ServerImports, SInv, Typed, Conns
  <2> QED
    BY <2>1, <2>2 DEF LockHeld
<1>5. CASE \E w \in Workers : OpenNeedsNone(w) \/ OpenFails(w) \/ OpenCut(w)
                              \/ OpenImports(w)
  BY <1>2, <1>5 DEF OpenNeedsNone, OpenFails, OpenCut, OpenImports
<1>6. CASE CrashRestart
  BY <1>2, <1>6 DEF CrashRestart
<1>7. CASE \/ LearnPeer \/ Advance \/ Stop \/ FinalSave \/ WriteLands
           \/ \E s \in Savers : Flush(s) \/ SaveFails(s)
           \/ \E d \in DCs : Migrate(d)
           \/ Restore \/ ReconnectSaves \/ ReconnectDone \/ ReconnectFails
           \/ UNCHANGED vars
  BY <1>1, <1>7 DEF LearnPeer, Advance, Stop, FinalSave, WriteLands, Lands, Flush,
     FlushPeers, PeersFlushed, FlushState, StateFlushed, SaveFails, Migrate, Restore,
     Connects, ReconnectSaves, ReconnectDone, ReconnectFails, Keys, vars
<1> QED BY <1>3, <1>4, <1>5, <1>6, <1>7 DEF Next

(* The lock of the worker connections is never left behind: not by an open   *)
(* that fails or is cancelled at its load, its handshake, its save, its      *)
(* export or its import, nor by a crash.  Whoever waits for it waits for an  *)
(* open that is still under way.                                             *)
THEOREM SessionLockHeld == Spec => []LockHeld
<1>1. Init => LockHeld
  BY DEF Init, LockHeld
<1> QED BY <1>1, HeldStep, SpecSInv, PTL DEF Spec
=============================================================================
