----------------------------- MODULE FileTransfer -----------------------------
(***************************************************************************)
(* What upload_file() and download_media() promise of one file, whatever   *)
(* connections and windows its parts go through.                           *)
(***************************************************************************)
EXTENDS Integers

VARIABLES
  parts,     \* into how many parts the file is cut
  upload,    \* TRUE of an upload
  phase,     \* "new", "running", "returned" or "raised"
  got,       \* the parts transferred
  holes      \* the parts a server answered without data

vars == <<parts, upload, phase, got, holes>>

Part == 0 .. parts - 1

Init ==
  /\ parts \in Nat /\ upload \in BOOLEAN
  /\ phase = "new"
  /\ got = {} /\ holes = {}

Begin ==
  /\ phase = "new" /\ phase' = "running"
  /\ UNCHANGED <<parts, upload, got, holes>>

(* A call returns with every part; a download that met a hole may stop.     *)
Returns(g, h) ==
  /\ phase = "running" /\ phase' = "returned"
  /\ g \cup h = Part \/ h # {}

(* Each part is settled once; a call that raised may leave workers behind   *)
(* that go on.                                                              *)
Settle == \E p \in Part \ (got \cup holes) :
  /\ phase \in {"running", "raised"}
  /\ \/ got' = got \cup {p} /\ UNCHANGED holes
     \/ ~upload /\ holes' = holes \cup {p} /\ UNCHANGED got
  /\ UNCHANGED phase \/ Returns(got', holes')
  /\ UNCHANGED <<parts, upload>>

Return == Returns(got, holes) /\ UNCHANGED <<parts, upload, got, holes>>

Raise ==
  /\ phase = "running" /\ phase' = "raised"
  /\ UNCHANGED <<parts, upload, got, holes>>

Next == Begin \/ Settle \/ Return \/ Raise
Spec == Init /\ [][Next]_vars
=============================================================================
