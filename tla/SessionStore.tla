----------------------------- MODULE SessionStore -----------------------------
(***************************************************************************)
(* What a running Client keeps in its session backend: the auth keys by    *)
(* data centre and the update state; the peers are in PeerCache.  The main *)
(* connection holds a copy in memory, loaded once; saving writes the whole *)
(* copy, off the event loop.  Every connect() loads the backend, adds its  *)
(* key and writes the whole of it back: that of a transfer worker under a  *)
(* lock, that of a migration or of a restored network under none.          *)
(*                                                                         *)
(* The behaviour starts after start(): connected and signed in.            *)
(***************************************************************************)
EXTENDS Naturals

CONSTANTS
  Home,        \* the data centre of the main connection
  Foreign,     \* other data centres transfers are sent to
  Workers,     \* tasks that open worker connections
  Backends,    \* "shared" (file, SQLite, custom), "string" or "memory"
  MaxPts,      \* bound: how far the update state advances
  MaxKeys,     \* bound: auth keys negotiated
  MaxFaults    \* bound: migrations, restores, crashes, and opens cut off while
               \* the pool or the server was at work for them

DCs == {Home} \cup Foreign
NoKey == 0
Savers == {"autosave", "stop"}
Idle == [autosave |-> "idle", stop |-> "off"]
NoOne == "no one"

ASSUME StoreAssumption ==
  /\ Home \notin Foreign
  /\ Backends \subseteq {"shared", "string", "memory"}
  /\ MaxPts \in Nat /\ MaxKeys \in Nat \ {0}
  /\ MaxFaults \in Nat
  /\ Workers \cap (Savers \cup {NoOne, "main"}) = {}

Records == [keys : [DCs -> 0 .. MaxKeys], pts : 0 .. MaxPts]
Fresh == [keys |-> [d \in DCs |-> NoKey], pts |-> 0]
SignedIn == [Fresh EXCEPT !.keys[Home] = 1]
Closed == [pc |-> "closed", dc |-> Home, key |-> NoKey, copy |-> Fresh]
Up == [pc |-> "up", kind |-> "none", dc |-> Home, copy |-> Fresh]

VARIABLES
  backend,     \* the kind of session backend
  disk,        \* what the backend holds
  memory,      \* DcConnection.persisted of the main connection
  here,        \* self._dc_id
  main,        \* the connect() of a migration or a restore, if one is under way
  dirty,       \* self._peer_cache.dirty
  pts,         \* the MessageBox's state
  saver,       \* where each flush stands: the autosave loop's and stop()'s
  writes,      \* saves handed to the blocking pool and not yet on disk
  lock,        \* self._worker_conn_lock
  worker,      \* each transfer task's connection
  imported,    \* self._auth_imported_dcs
  bound,       \* keys the server has bound to the account
  newest,      \* the last key negotiated
  imports,     \* history: imports the server carried out in this run, by DC
  unheard,     \* history: those of them whose answer never reached the client
  dropped,     \* history: DCs whose key a save made outside the lock removed
  faults

Main == <<memory, here, main, pts, faults>>
Keys == <<lock, worker, imported, bound, newest, imports, unheard>>
vars == <<backend, disk, Main, dirty, saver, writes, Keys, dropped>>

Init ==
  /\ backend \in Backends
  /\ disk = SignedIn /\ memory = SignedIn
  /\ here = Home /\ main = Up
  /\ dirty = FALSE
  /\ pts = 0
  /\ saver = Idle
  /\ writes = {}
  /\ lock = NoOne
  /\ worker = [w \in Workers |-> Closed]
  /\ imported = {}
  /\ bound = {1} /\ newest = 1
  /\ imports = [d \in DCs |-> 0] /\ unheard = [d \in DCs |-> 0]
  /\ dropped = {}
  /\ faults = 0

----------------------------------------------------------------------------
(* The client at work.                                                      *)

Running == saver["stop"] # "done"
(* self._conn is not None: a restore sets it to None until it has connected. *)
Connected == Running /\ ~(main.kind = "restore" /\ main.pc # "up")

(* _populate_cache() stores something new in the PeerCache.                 *)
LearnPeer ==
  /\ Connected /\ ~dirty
  /\ dirty' = TRUE
  /\ UNCHANGED <<backend, disk, Main, saver, writes, dropped, Keys>>

Advance ==
  /\ Connected /\ pts < MaxPts
  /\ pts' = pts + 1
  /\ UNCHANGED <<backend, disk, memory, here, main, faults, dirty, saver,
                 writes, dropped, Keys>>

----------------------------------------------------------------------------
(* Saving: _peer_cache_autosave_loop and stop().                            *)

(* save_session() clones the copy and gives it to the blocking pool; a      *)
(* cancelled task leaves its write there.                                   *)
StartWrite(s) == writes' = writes \cup {[by |-> s, record |-> memory']}
Pending(s) == {x \in writes : x.by = s}

(* _flush_peer_cache() saves the main copy with the peers in it; a loop     *)
(* does it only when the cache is dirty, stop() always, and nobody without  *)
(* a connection.                                                            *)
FlushPeers(s) ==
  /\ saver[s] = "idle" /\ Connected
  /\ s = "autosave" => dirty
  /\ UNCHANGED Main
  /\ StartWrite(s)
  /\ saver' = [saver EXCEPT ![s] = "peers"]
  /\ UNCHANGED <<backend, disk, dirty, dropped, Keys>>

(* The save returned: the flag is cleared, whatever was learned meanwhile.  *)
PeersFlushed(s) ==
  /\ saver[s] = "peers" /\ Pending(s) = {}
  /\ dirty' = FALSE
  /\ saver' = [saver EXCEPT ![s] = "state"]
  /\ UNCHANGED <<backend, disk, Main, writes, dropped, Keys>>

(* A flush of the update state only when the peer cache is dirty.           *)
FlushStateWhenDirty(s) ==
  /\ saver[s] = "state"
  /\ saver' = [saver EXCEPT ![s] = "saving"]
  /\ IF pts = 0 \/ ~Connected
       THEN UNCHANGED <<memory, writes>>
       ELSE /\ memory' = [memory EXCEPT !.pts = pts]
            /\ StartWrite(s)
  /\ UNCHANGED <<backend, disk, here, main, pts, faults, dirty, dropped, Keys>>

(* _flush_update_state(): skipped while there is no state or no connection. *)
FlushState(s) ==
  /\ \/ saver[s] = "state"
     \/ s = "autosave" /\ saver[s] = "idle" /\ ~dirty /\ Connected
  /\ saver' = [saver EXCEPT ![s] = "saving"]
  /\ IF pts = 0 \/ ~Connected
       THEN UNCHANGED <<memory, writes>>
       ELSE /\ memory' = [memory EXCEPT !.pts = pts]
            /\ StartWrite(s)
  /\ UNCHANGED <<backend, disk, here, main, pts, faults, dirty, dropped, Keys>>

(* stop() saves a third time, whatever became of the two flushes.           *)
FinalSave ==
  /\ saver["stop"] = "last"
  /\ saver' = [saver EXCEPT !["stop"] = "closing"]
  /\ UNCHANGED Main
  /\ StartWrite("stop")
  /\ UNCHANGED <<backend, disk, dirty, dropped, Keys>>

AfterSave(s) == CASE saver[s] = "peers" -> "state"
                  [] s = "autosave" -> "idle"
                  [] saver[s] = "saving" -> "last"
                  [] OTHER -> "done"

StateFlushed(s) ==
  /\ saver[s] \in {"saving", "closing"} /\ Pending(s) = {}
  /\ saver' = [saver EXCEPT ![s] = AfterSave(s)]
  /\ UNCHANGED <<backend, disk, Main, dirty, writes, dropped, Keys>>

(* A save that failed: the autosave loop logs it and goes on with the       *)
(* state, stop() suppresses it.  A cancelled one fails unseen.              *)
SaveFails(s) ==
  /\ \E x \in Pending(s) : writes' = writes \ {x}
  /\ saver' = IF saver[s] = "cancelled" THEN saver
              ELSE [saver EXCEPT ![s] = AfterSave(s)]
  /\ UNCHANGED <<backend, disk, Main, dirty, dropped, Keys>>

(* A save nobody makes under the lock: of the main copy, of an unlocked     *)
(* connect(), or left behind by an open that ended while it was pending.    *)
Unlocked(x) == x.by \in Workers => worker[x.by].pc # "saving"

(* The blocking pool writes one of the copies it was given; two of them     *)
(* land in either order.                                                    *)
Lands(x) ==
  /\ writes' = writes \ {x}
  /\ disk' = x.record
  /\ dropped' = dropped \cup {d \in DCs : /\ Unlocked(x)
                                          /\ disk.keys[d] # NoKey
                                          /\ x.record.keys[d] # disk.keys[d]}
  /\ UNCHANGED <<backend, Main, dirty, saver, Keys>>

WriteLands == \E x \in writes : Lands(x)

(* stop() cancels the autosave task where it is and flushes.                *)
Stop ==
  /\ saver["stop"] = "off" /\ Connected
  /\ saver' = [autosave |-> "cancelled", stop |-> "idle"]
  /\ UNCHANGED <<backend, disk, Main, dirty, writes, dropped, Keys>>

----------------------------------------------------------------------------
(* DcConnection.connect(), for a worker or for the main connection: c is    *)
(* where it stands.                                                         *)

(* What it loads.  A string session is the string the client was given, a   *)
(* memory session starts empty.                                             *)
Stored == CASE backend = "shared" -> disk
            [] backend = "string" -> SignedIn
            [] backend = "memory" -> Fresh

(* The handshake, with the stored key or a new one, and the whole record    *)
(* with that key in it, given to the blocking pool.                         *)
KnownKey(c) == c.copy.keys[c.dc]
KeyOf(c) == IF KnownKey(c) # NoKey THEN KnownKey(c) ELSE newest + 1
Handshake(c) ==
  /\ KeyOf(c) <= MaxKeys
  /\ newest' = IF KnownKey(c) # NoKey THEN newest ELSE newest + 1
WithKey(c) == [c.copy EXCEPT !.keys[c.dc] = KeyOf(c)]

(* Of another backend than a shared one the save is of the connection's own. *)
SaveRecord(s, record) ==
  writes' = IF backend = "shared" THEN writes \cup {[by |-> s, record |-> record]}
            ELSE writes

----------------------------------------------------------------------------
(* The main connection: _migrate() connects beside the old connection, a    *)
(* restore drops it first and start() connects, to the home data centre.    *)
(* Both are on a shared backend: of the others a restore finds the string   *)
(* or nothing again, and a migration another backend.  One at a time, and   *)
(* none begins during a stop().                                             *)

Connects(kind, d) ==
  /\ backend = "shared" /\ saver["stop"] = "off" /\ Pending("main") = {}
  /\ main' = [pc |-> "loaded", kind |-> kind, dc |-> d, copy |-> Stored]
  /\ UNCHANGED <<backend, disk, memory, here, pts, dirty, saver, writes,
                 dropped, Keys>>

(* A request answered by *_MIGRATE_d.                                       *)
Migrate(d) ==
  /\ main.pc = "up" /\ faults < MaxFaults
  /\ faults' = faults + 1
  /\ Connects("migrate", d)

(* signal_network_restored(), or start() again when that one failed.        *)
Restore ==
  /\ \/ /\ main.pc = "up" /\ faults < MaxFaults
        /\ faults' = faults + 1
     \/ main.pc = "down" /\ UNCHANGED faults
  /\ Connects("restore", Home)

ReconnectSaves ==
  /\ main.pc = "loaded"
  /\ Handshake(main)
  /\ main' = [main EXCEPT !.pc = "saving", !.copy = WithKey(main)]
  /\ SaveRecord("main", WithKey(main))
  /\ UNCHANGED <<backend, disk, memory, here, pts, faults, dirty, saver,
                 lock, worker, imported, bound, imports, unheard, dropped>>

(* What was saved is the main copy from here on, and start() reads the      *)
(* state from it.  The autosave loop stands for the one start() begins as   *)
(* well, and its saves for that of an address initConnection brings.        *)
ReconnectDone ==
  /\ main.pc = "saving" /\ Pending("main") = {}
  /\ memory' = main.copy /\ here' = main.dc /\ main' = Up
  /\ pts' = IF main.kind = "restore" /\ main.copy.pts > 0 THEN main.copy.pts ELSE pts
  /\ UNCHANGED <<backend, disk, faults, dirty, saver, writes, dropped, Keys>>

(* connect() raised or was cancelled, the save it was at with it or not.    *)
ReconnectFails ==
  /\ main.pc \in {"loaded", "saving"}
  /\ main' = IF main.kind = "migrate" THEN Up
             ELSE [main EXCEPT !.pc = "down", !.copy = Fresh]
  /\ writes' \in {writes, writes \ Pending("main")}
  /\ UNCHANGED <<backend, disk, memory, here, pts, faults, dirty, saver,
                 dropped, Keys>>

----------------------------------------------------------------------------
(* _open_worker_conn().                                                     *)

Loading(d) == [pc |-> "loaded", dc |-> d, key |-> NoKey, copy |-> Stored]

(* An open that does not take the lock.                                     *)
OpenLoadsUnlocked(w, d) ==
  /\ worker[w].pc = "closed" /\ Pending(w) = {}
  /\ worker' = [worker EXCEPT ![w] = Loading(d)]
  /\ UNCHANGED <<backend, disk, Main, dirty, saver, writes, lock, imported, bound,
                 newest, imports, unheard, dropped>>

(* Under the lock, connect() loads the backend.  While a write of an earlier *)
(* open of this task is pending, the opens in between are other tasks'.     *)
OpenLoads(w, d) ==
  /\ worker[w].pc = "closed" /\ Pending(w) = {}
  /\ lock = NoOne
  /\ lock' = w
  /\ worker' = [worker EXCEPT ![w] = Loading(d)]
  /\ UNCHANGED <<backend, disk, Main, dirty, saver, writes, imported, bound,
                 newest, imports, unheard, dropped>>

(* A save of nothing but the entry of the connection.                       *)
OpenSavesOwnEntry(w) ==
  /\ worker[w].pc = "loaded"
  /\ Handshake(worker[w])
  /\ worker' = [worker EXCEPT ![w].pc = "saving", ![w].key = KeyOf(worker[w]),
                              ![w].copy = Fresh]
  /\ SaveRecord(w, [Fresh EXCEPT !.keys[worker[w].dc] = KeyOf(worker[w])])
  /\ UNCHANGED <<backend, disk, Main, dirty, saver, lock, imported, bound, imports,
                 unheard, dropped>>

OpenSaves(w) ==
  /\ worker[w].pc = "loaded"
  /\ Handshake(worker[w])
  /\ worker' = [worker EXCEPT ![w].pc = "saving", ![w].key = KeyOf(worker[w]),
                              ![w].copy = Fresh]
  /\ SaveRecord(w, WithKey(worker[w]))
  /\ UNCHANGED <<backend, disk, Main, dirty, saver, lock, imported, bound, imports,
                 unheard, dropped>>

(* connect() returned.                                                      *)
OpenConnected(w) == worker[w].pc = "saving" /\ Pending(w) = {}

(* The client's own DC, and one already imported, need no authorization:    *)
(* the open is over, and its connection touches the record no more.         *)
OpenNeedsNone(w) ==
  /\ OpenConnected(w)
  /\ worker[w].dc \in {here} \cup imported
  /\ worker' = [worker EXCEPT ![w] = Closed]
  /\ lock' = NoOne
  /\ UNCHANGED <<backend, disk, Main, dirty, saver, writes, imported, bound, newest,
                 imports, unheard, dropped>>

(* Another asks for an exported authorization, over a main connection that  *)
(* is signed in ...                                                         *)
OpenExports(w) ==
  /\ worker[w].dc \notin {here} \cup imported
  /\ OpenConnected(w)
  /\ Connected /\ memory.keys[here] \in bound
  /\ worker' = [worker EXCEPT ![w].pc = "exported"]
  /\ UNCHANGED <<backend, disk, Main, dirty, saver, writes, lock, imported, bound,
                 newest, imports, unheard, dropped>>

(* ... which the server imports: the key of this connection is bound and    *)
(* the token used up, so a request that is sent again is refused ...        *)
ServerImports(w) ==
  /\ worker[w].pc = "exported"
  /\ worker' = [worker EXCEPT ![w].pc = "importing"]
  /\ bound' = bound \cup {worker[w].key}
  /\ imports' = [imports EXCEPT ![worker[w].dc] = @ + 1]
  /\ UNCHANGED <<backend, disk, Main, dirty, saver, writes, lock, imported, newest,
                 unheard, dropped>>

(* ... and the client notes when the answer arrives.                        *)
OpenImports(w) ==
  /\ worker[w].pc = "importing"
  /\ worker' = [worker EXCEPT ![w] = Closed]
  /\ imported' = imported \cup {worker[w].dc}
  /\ lock' = NoOne
  /\ UNCHANGED <<backend, disk, Main, dirty, saver, writes, bound, newest, imports,
                 unheard, dropped>>

(* The open failed, at its load, handshake or save or at a request the      *)
(* server did not carry out, or was cancelled there.                        *)
OpenFails(w) ==
  /\ worker[w].pc \notin {"closed", "importing"}
  /\ worker' = [worker EXCEPT ![w] = Closed]
  /\ lock' = NoOne
  /\ writes' = writes \ Pending(w)
  /\ UNCHANGED <<backend, disk, Main, dirty, saver, imported, bound, newest, imports,
                 unheard, dropped>>

(* It was cancelled, or its request failed, while the pool or the server    *)
(* was at work for it: the save goes on without it, and of the import the   *)
(* client never hears.                                                      *)
OpenCut(w) ==
  /\ \/ worker[w].pc = "saving" /\ Pending(w) # {}
     \/ worker[w].pc = "importing"
  /\ faults < MaxFaults
  /\ faults' = faults + 1
  /\ worker' = [worker EXCEPT ![w] = Closed]
  /\ lock' = NoOne
  /\ unheard' = IF worker[w].pc = "importing"
                  THEN [unheard EXCEPT ![worker[w].dc] = @ + 1] ELSE unheard
  /\ UNCHANGED <<backend, disk, memory, here, main, pts, dirty, saver, writes,
                 imported, bound, newest, imports, dropped>>

----------------------------------------------------------------------------
(* The process dies, what the pool was writing is on disk or is not, and    *)
(* start() loads the backend again, with catch_up.                          *)
CrashRestart ==
  /\ backend = "shared"
  /\ faults < MaxFaults
  /\ faults' = faults + 1
  /\ disk' \in {disk} \cup {x.record : x \in writes}
  /\ memory' = disk' /\ pts' = disk'.pts
  /\ here' = Home /\ main' = Up
  /\ dirty' = FALSE
  /\ saver' = Idle
  /\ writes' = {}
  /\ lock' = NoOne
  /\ worker' = [w \in Workers |-> Closed]
  /\ imported' = {}
  /\ imports' = [d \in DCs |-> 0] /\ unheard' = [d \in DCs |-> 0]
  /\ dropped' = {}
  /\ UNCHANGED <<backend, bound, newest>>

Flush(s) == FlushPeers(s) \/ PeersFlushed(s) \/ FlushState(s) \/ StateFlushed(s)

Next ==
  \/ LearnPeer \/ Advance \/ Stop \/ FinalSave \/ WriteLands \/ CrashRestart
  \/ \E s \in Savers : Flush(s) \/ SaveFails(s)
  \/ \E d \in DCs : Migrate(d)
  \/ Restore \/ ReconnectSaves \/ ReconnectDone \/ ReconnectFails
  \/ \E w \in Workers : \/ \E d \in DCs : OpenLoads(w, d)
                        \/ OpenSaves(w) \/ OpenNeedsNone(w)
                        \/ OpenExports(w) \/ ServerImports(w) \/ OpenImports(w)
                        \/ OpenFails(w) \/ OpenCut(w)

(* The autosave timer keeps firing and stop() goes on; what they gave the   *)
(* pool is written or fails, and a save that is repeated for ever is        *)
(* written infinitely often.                                                *)
Fairness ==
  /\ WF_vars(Flush("autosave"))
  /\ WF_vars(Flush("stop") \/ FinalSave)
  /\ SF_vars(\E x \in Pending("autosave") : Lands(x))
  /\ WF_vars(\E x \in Pending("stop") : Lands(x))

Spec == Init /\ [][Next]_vars
FairSpec == Spec /\ Fairness

----------------------------------------------------------------------------
(* The account is never lost: whoever wrote last, under the lock or not,    *)
(* and wherever the process dies, the backend holds the home key the        *)
(* account is bound to.                                                     *)
HomeKeyKept == disk.keys[Home] = 1

(* However many transfers want a data centre, the server carries out one    *)
(* import into it per run, and another one only after an import whose       *)
(* answer never reached the client.  The check of _auth_imported_dcs, the   *)
(* export and the import are several awaits apart.                          *)
OneImport == \A d \in DCs : imports[d] <= 1 + unheard[d]

(* Opens that hold the lock never clobber each other's entries              *)
(* (client.py:222): the key an open imported is on disk, unless a save made *)
(* outside the lock removed it: the main copy's, the unlocked connect() of  *)
(* a migration or a restore, or one a cancelled open left in the pool.      *)
OpensKeepEachOther ==
  backend = "shared" =>
    \A d \in imported : d \in dropped \/ disk.keys[d] \in bound

(* While the client runs and is connected, the update state it reached gets *)
(* to the disk, though every connect() may write an older record over it.   *)
StateReachesDisk ==
  \A n \in 1 .. MaxPts :
    Connected /\ pts >= n ~> disk.pts >= n \/ ~Connected \/ pts < n
=============================================================================
