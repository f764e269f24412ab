------------------------- MODULE PartTransfer_proofs -------------------------
(***************************************************************************)
(* Theorems about the part table of TransferMath, about PartTransfer, for  *)
(* files of any size, any number of workers and calls, windows of any      *)
(* depth and any number of faults, and about the slots the transfers share *)
(* (TransferPool), which that table bounds.                                *)
(***************************************************************************)
EXTENDS PartTransfer, TransferPool, WellFoundedInduction, FiniteSetTheorems, SequenceTheorems, TLAPS

(* The part table: how a file is cut.                                       *)

(* Dividing upwards gives the least number of pieces that covers a.         *)
LEMMA CeilDivCovers ==
  ASSUME NEW a \in Nat, NEW b \in Nat \ {0}
  PROVE  /\ CeilDiv(a, b) \in Nat
         /\ CeilDiv(a, b) * b >= a
         /\ a > 0 => CeilDiv(a, b) > 0 /\ (CeilDiv(a, b) - 1) * b < a
  BY DEF CeilDiv

LEMMA TimesMonotone ==
  ASSUME NEW x \in Int, NEW y \in Int, NEW b \in Nat, x <= y
  PROVE  x * b <= y * b
  <1>1. PICK d \in Nat : y = x + d
    BY y - x \in Nat
  <1>2. y * b = x * b + d * b /\ d * b \in Nat
    BY <1>1
  <1> QED
    BY <1>2

(* No more than n pieces are needed when n of them cover a.                 *)
LEMMA CeilDivAtMost ==
  ASSUME NEW a \in Nat, NEW b \in Nat \ {0}, NEW n \in Nat, a <= n * b
  PROVE  CeilDiv(a, b) <= n
  <1> DEFINE c == CeilDiv(a, b)
  <1>1. c \in Nat /\ (a > 0 => (c - 1) * b < a)
    BY CeilDivCovers
  <1>2. CASE a = 0
    BY <1>2 DEF CeilDiv
  <1>3. CASE a > 0
    <2> HIDE DEF c
    <2>1. (c - 1) * b < n * b
      BY <1>1, <1>3
    <2>2. ASSUME c - 1 >= n PROVE FALSE
      <3>1. n * b <= (c - 1) * b
        BY <1>1, <2>2, TimesMonotone
      <3>2. n * b \in Int /\ (c - 1) * b \in Int
        BY <1>1
      <3> QED
        BY <2>1, <3>1, <3>2
    <2> QED
      BY <1>1, <2>2 DEF c
  <1> QED
    BY <1>2, <1>3

LEMMA TableTyped ==
  ASSUME NEW size \in Nat
  PROVE  TablePartSize(size) \in {131072, 262144, 524288}
  BY DEF TablePartSize, MB, KB

(* The part of an upload is a positive multiple of 512 bytes: the table's   *)
(* entry, or what 4000 parts need.                                          *)
LEMMA PartSizeTyped ==
  ASSUME NEW size \in Nat
  PROVE  /\ UploadPartSize(size) \in Nat \ {0}
         /\ UploadPartSize(size) % 512 = 0
         /\ size <= MaxParts * UploadPartSize(size)
  <1> DEFINE t == TablePartSize(size)
             q == CeilDiv(size, MaxParts)
             n == CeilDiv(q, 512)
  <1>1. t \in {131072, 262144, 524288}
    BY TableTyped
  <1>2. CASE CeilDiv(size, t) > MaxParts
    <2>1. UploadPartSize(size) = n * 512
      BY <1>2 DEF UploadPartSize
    <2>2. q \in Nat /\ q * 4000 >= size
      BY CeilDivCovers DEF MaxParts
    <2>3. n \in Nat /\ n * 512 >= q
      <3>1. q \in Nat /\ 512 \in Nat \ {0}
        BY <2>2
      <3> HIDE DEF q
      <3> QED BY <3>1, CeilDivCovers
    <2>4. size > 0
      BY <1>1, <1>2 DEF CeilDiv, MaxParts
    <2> HIDE DEF q, n, t
    <2> QED
      BY <2>1, <2>2, <2>3, <2>4 DEF MaxParts
  <1>3. CASE ~ (CeilDiv(size, t) > MaxParts)
    <2>1. UploadPartSize(size) = t
      BY <1>3 DEF UploadPartSize
    <2>2. CeilDiv(size, t) \in Nat /\ CeilDiv(size, t) * t >= size
      BY <1>1, CeilDivCovers
    <2> HIDE DEF t
    <2>3. size <= 4000 * t
      BY <1>1, <1>3, <2>2 DEF MaxParts
    <2> QED
      BY <1>1, <2>1, <2>3 DEF MaxParts
  <1> QED
    BY <1>2, <1>3

(* _upload_part_size() never asks for more than 4000 parts, however large   *)
(* the file.                                                                *)
THEOREM UploadFitsPartLimit ==
  ASSUME NEW size \in Nat
  PROVE  UploadParts(size) \in 0 .. MaxParts
  <1>1. UploadParts(size) \in Nat
    BY PartSizeTyped, CeilDivCovers DEF UploadParts
  <1>2. UploadParts(size) <= MaxParts
    <2>1. MaxParts \in Nat
      BY DEF MaxParts
    <2> DEFINE part == UploadPartSize(size)
    <2>2. part \in Nat \ {0} /\ size <= MaxParts * part
      BY PartSizeTyped
    <2> HIDE DEF part
    <2>3. CeilDiv(size, part) <= MaxParts
      BY <2>1, <2>2, CeilDivAtMost
    <2> QED
      BY <2>3 DEF UploadParts, part
  <1> QED
    <2> DEFINE n == UploadParts(size)
    <2>1. n \in Nat /\ n <= MaxParts /\ MaxParts \in Nat
      BY <1>1, <1>2 DEF MaxParts
    <2> HIDE DEF n
    <2>2. n \in 0 .. MaxParts
      BY <2>1
    <2> QED
      BY <2>2 DEF n

(* The parts of an upload are its bytes: every part begins inside the file, *)
(* none is empty or longer than the part size, all but the last are full,   *)
(* and the last one ends where the file does.                               *)
THEOREM UploadPartsTile ==
  ASSUME NEW size \in Nat \ {0}, NEW p \in 0 .. UploadParts(size) - 1
  PROVE  LET part == UploadPartSize(size)
         IN  /\ PartLen(size, part, p) \in 1 .. part
             /\ p < UploadParts(size) - 1 => PartLen(size, part, p) = part
             /\ p = UploadParts(size) - 1 => p * part + PartLen(size, part, p) = size
  <1> DEFINE part == UploadPartSize(size)
             n    == UploadParts(size)
  <1>1. part \in Nat \ {0}
    BY PartSizeTyped
  <1>2. n \in Nat /\ n * part >= size /\ (n - 1) * part < size
    BY <1>1, CeilDivCovers DEF UploadParts
  <1>3. p \in Nat /\ p <= n - 1
    BY <1>2
  <1> HIDE DEF part, n
  <1>4. p * part \in Nat /\ p * part <= (n - 1) * part
    BY <1>1, <1>2, <1>3
  <1>5. PartLen(size, part, p) \in 1 .. part
    BY <1>1, <1>2, <1>4 DEF PartLen, Smaller
  <1>6. p < n - 1 => PartLen(size, part, p) = part
    <2> SUFFICES ASSUME p < n - 1 PROVE PartLen(size, part, p) = part
      OBVIOUS
    <2>1. (p + 1) * part <= (n - 1) * part
      BY <1>1, <1>2, <1>3
    <2>2. (p + 1) * part = p * part + part
      BY <1>1, <1>3
    <2> QED
      BY <1>1, <1>2, <1>4, <2>1, <2>2 DEF PartLen, Smaller
  <1>7. p = n - 1 => p * part + PartLen(size, part, p) = size
    <2> SUFFICES ASSUME p = n - 1 PROVE p * part + PartLen(size, part, p) = size
      OBVIOUS
    <2>1. n * part = p * part + part
      BY <1>1, <1>2, <1>3
    <2> QED
      BY <1>1, <1>2, <1>4, <2>1 DEF PartLen, Smaller
  <1> QED
    BY <1>5, <1>6, <1>7 DEF part, n

----------------------------------------------------------------------------
Labels == Over \cup {"idle", "poll", "fill", "wait", "direct", "claim", "try"}

Typed ==
  /\ job.parts \in Nat /\ job.mode \in Modes
  /\ next \in [Round -> Nat]
  /\ pc \in [Worker -> Labels]
  /\ window \in [Worker -> SUBSET Nat]
  /\ got \in [Round -> SUBSET Nat] /\ holes \in [Round -> SUBSET Nat]

(* What a worker at l has in flight, in each mode.                          *)
Fits(mode, l, win) ==
  /\ l \in {"returned", "claim", "idle"} => win = {}
  /\ l \in {"wait", "direct"} => win # {}
  /\ mode = "sequential" => win = {} /\ l \notin {"fill", "claim"}
  /\ mode = "plain" => /\ \A p, q \in win : p = q
                       /\ l \notin {"fill", "wait", "direct"}
                       /\ l \in {"poll", "try"} => win # {}
  /\ mode = "pipelined" => l # "claim"

AllFit == \A w \in Worker : Fits(job.mode, pc[w], window[w])

(* Below the counter: what is in flight, and what is settled (but for a     *)
(* sequential download, which settles the part the counter stands at).      *)
Claimed ==
  /\ \A w \in Worker : \A p \in window[w] :
       p < next[w[1]] /\ p \notin got[w[1]] \cup holes[w[1]]
  /\ job.mode # "sequential" =>
       \A r \in Round : \A p \in got[r] \cup holes[r] : p < next[r]

Disjoint ==
  \A v, w \in Worker : v[1] = w[1] /\ v # w => window[v] \cap window[w] = {}

Covered ==
  \A r \in Round : \A p \in Nat :
    p < next[r] => \/ p \in got[r] \cup holes[r]
                   \/ \E w \in Worker : w[1] = r /\ p \in window[w]

PInv == Typed /\ AllFit /\ Claimed /\ Disjoint /\ Covered

LEMMA MinIsIn ==
  ASSUME NEW S \in SUBSET Nat, S # {}
  PROVE  Min(S) \in S
  <1> DEFINE Less == {ss \in Nat \X Nat : ss[1] < ss[2]}
  <1>1. IsWellFoundedOn(Less, Nat)
    BY NatLessThanWellFounded DEF OpToRel
  <1>2. \A x, y \in Nat : ~ (<<y, x>> \in Less) => x =< y
    OBVIOUS
  <1> HIDE DEF Less
  <1>3. PICK x \in S : \A y \in S : ~ (<<y, x>> \in Less)
    BY <1>1, WFMin
  <1>4. \A y \in S : x =< y
    BY <1>2, <1>3
  <1> QED
    BY <1>3, <1>4 DEF Min

LEMMA WorkerRound ==
  ASSUME NEW w \in Worker PROVE w[1] \in Round
  BY DEF Worker

LEMMA CeilDivNat ==
  ASSUME NEW a \in Nat, NEW b \in Nat \ {0} PROVE CeilDiv(a, b) \in Nat
  BY DEF CeilDiv

LEMMA PartPositive ==
  ASSUME NEW size \in Nat
  PROVE  UploadPartSize(size) \in Nat \ {0} /\ DownloadChunk(size) \in Nat \ {0}
  <1> DEFINE t == TablePartSize(size)
  <1>1. t \in {131072, 262144, 524288}
    BY DEF TablePartSize, MB, KB
  <1>2. DownloadChunk(size) \in Nat \ {0}
    BY DEF DownloadChunk, MB, KB
  <1>3. CASE CeilDiv(size, t) > MaxParts
    <2>1. size > 0
      BY <1>1, <1>3 DEF CeilDiv, MaxParts
    <2>2. CeilDiv(size, MaxParts) \in Nat \ {0}
      BY <2>1 DEF CeilDiv, MaxParts
    <2> DEFINE q == CeilDiv(size, MaxParts)
    <2> HIDE DEF q
    <2>3. CeilDiv(q, 512) \in Nat \ {0}
      BY <2>2 DEF CeilDiv, q
    <2> QED
      BY <1>2, <1>3, <2>3 DEF UploadPartSize, q
  <1>4. CASE ~ (CeilDiv(size, t) > MaxParts)
    BY <1>1, <1>2, <1>4 DEF UploadPartSize
  <1> QED
    BY <1>3, <1>4

LEMMA InitInv == Init => PInv
  <1> SUFFICES ASSUME Init PROVE PInv
    OBVIOUS
  <1>1. job.parts \in Nat /\ job.mode \in Modes
    <2>1. PICK f \in Files, b \in BOOLEAN, n \in BOOLEAN, c \in 0 .. Ceiling :
            job = JobOf(f[1], f[2], f[3], f[4], b, n, c)
      BY DEF Init
    <2>2. f[2] \in Nat
      BY TransferAssumption
    <2> DEFINE part == IF f[1] = "upload" THEN UploadPartSize(f[2])
                       ELSE DownloadChunk(IF n THEN f[2] ELSE 0)
    <2>3. part \in Nat \ {0}
      BY <2>2, PartPositive
    <2>4. job.parts = CeilDiv(f[2], part)
      BY <2>1 DEF JobOf
    <2>5. job.mode \in Modes
      BY <2>1 DEF JobOf, Modes
    <2> HIDE DEF part
    <2> QED
      BY <2>2, <2>3, <2>4, <2>5, CeilDivNat
  <1>2. Typed
    BY <1>1 DEF Init, Typed, Labels
  <1>3. AllFit /\ Disjoint
    BY <1>1 DEF Init, AllFit, Fits, Disjoint, Modes
  <1>4. Claimed /\ Covered
    BY WorkerRound DEF Init, Claimed, Covered
  <1> QED
    BY <1>2, <1>3, <1>4 DEF PInv

----------------------------------------------------------------------------
(* The shapes of a step.                                                    *)

Core == <<job, next, window, got, holes>>

(* Workers move, and nothing else.                                          *)
LEMMA MoveKeeps ==
  ASSUME PInv, UNCHANGED Core, pc' \in [Worker -> Labels],
         \A w \in Worker : Fits(job.mode, pc'[w], window[w])
  PROVE  PInv'
  BY DEF PInv, Core, Typed, AllFit, Claimed, Disjoint, Covered

LEMMA OneMoves ==
  ASSUME PInv, NEW w \in Worker, NEW l \in Labels, UNCHANGED Core,
         pc' = [pc EXCEPT ![w] = l], Fits(job.mode, l, window[w])
  PROVE  PInv'
  <1>1. pc' \in [Worker -> Labels]
    BY DEF PInv, Typed
  <1>2. \A v \in Worker : Fits(job.mode, pc'[v], window[v])
    BY DEF PInv, Typed, AllFit
  <1> QED
    BY <1>1, <1>2, MoveKeeps

(* A worker claims the part at the counter.                                 *)
LEMMA ClaimKeeps ==
  ASSUME PInv, NEW w \in Worker, NEW l \in Labels, ClaimNext(w),
         UNCHANGED <<job, got, holes>>, pc' = [pc EXCEPT ![w] = l],
         job.mode # "sequential",
         Fits(job.mode, l, window[w] \cup {next[w[1]]})
  PROVE  PInv'
  <1> DEFINE r == w[1]
             n == next[r]
  <1>1. r \in Round /\ n \in Nat
    BY WorkerRound DEF PInv, Typed
  <1>2. /\ next' = [next EXCEPT ![r] = n + 1]
        /\ window' = [window EXCEPT ![w] = @ \cup {n}]
    BY DEF ClaimNext
  <1>3. Typed'
    BY <1>1, <1>2 DEF PInv, Typed
  <1>4. AllFit'
    BY <1>2 DEF PInv, Typed, AllFit
  <1>5. n \notin got[r] \cup holes[r] /\ \A v \in Worker : v[1] = r => n \notin window[v]
    <2>1. n \notin got[r] \cup holes[r]
      BY <1>1 DEF PInv, Claimed
    <2>2. ASSUME NEW v \in Worker, v[1] = r PROVE n \notin window[v]
      BY <1>1, <2>2 DEF PInv, Claimed
    <2> QED
      BY <2>1, <2>2
  <1>6. Claimed'
    <2>1. ASSUME NEW v \in Worker, NEW p \in window'[v]
          PROVE  p < next'[v[1]] /\ p \notin got[v[1]] \cup holes[v[1]]
      <3>1. v[1] \in Round /\ next[v[1]] \in Nat /\ next'[v[1]] \in Nat /\ next'[v[1]] >= next[v[1]]
        BY <1>1, <1>2, WorkerRound DEF PInv, Typed
      <3>2. CASE p \in window[v]
        <4>1. p \in Nat /\ p < next[v[1]] /\ p \notin got[v[1]] \cup holes[v[1]]
          BY <3>2 DEF PInv, Typed, Claimed
        <4> QED
          BY <3>1, <4>1
      <3>3. CASE p \notin window[v]
        <4>1. v = w /\ p = n
          BY <1>2, <3>3 DEF PInv, Typed
        <4>2. next'[r] = n + 1
          BY <1>1, <1>2 DEF PInv, Typed
        <4> QED
          BY <1>1, <1>5, <4>1, <4>2
      <3> QED
        BY <3>2, <3>3
    <2>2. ASSUME NEW s \in Round, NEW p \in got[s] \cup holes[s] PROVE p < next'[s]
      <3>1. p \in Nat /\ p < next[s] /\ next[s] \in Nat
        BY DEF PInv, Typed, Claimed
      <3>2. next'[s] \in {next[s], next[s] + 1}
        BY <1>1, <1>2 DEF PInv, Typed
      <3> QED
        BY <3>1, <3>2
    <2> QED
      BY <2>1, <2>2 DEF Claimed
  <1>7. Disjoint'
    BY <1>2, <1>5 DEF PInv, Typed, Disjoint
  <1>8. Covered'
    <2> SUFFICES ASSUME NEW s \in Round, NEW p \in Nat, p < next'[s]
                 PROVE  \/ p \in got[s] \cup holes[s]
                        \/ \E v \in Worker : v[1] = s /\ p \in window'[v]
      BY DEF Covered
    <2>1. CASE p < next[s]
      <3>1. \A v \in Worker : window[v] \subseteq window'[v]
        BY <1>2 DEF PInv, Typed
      <3> QED
        BY <2>1, <3>1 DEF PInv, Covered
    <2>2. CASE ~ (p < next[s])
      <3>1. s = r /\ p = n
        BY <1>1, <1>2, <2>2 DEF PInv, Typed
      <3>2. n \in window'[w]
        BY <1>2 DEF PInv, Typed
      <3> QED
        BY <3>1, <3>2
    <2> QED
      BY <2>1, <2>2
  <1> QED
    BY <1>3, <1>4, <1>6, <1>7, <1>8 DEF PInv

(* A worker's part is settled.                                              *)
LEMMA SettleKeeps ==
  ASSUME PInv, NEW w \in Worker, NEW l \in Labels, NEW p \in window[w],
         UNCHANGED <<job, next>>, pc' = [pc EXCEPT ![w] = l],
         window' = [window EXCEPT ![w] = @ \ {p}],
         \/ got' = [got EXCEPT ![w[1]] = @ \cup {p}] /\ UNCHANGED holes
         \/ holes' = [holes EXCEPT ![w[1]] = @ \cup {p}] /\ UNCHANGED got,
         Fits(job.mode, l, window[w] \ {p})
  PROVE  PInv'
  <1> DEFINE r == w[1]
             S(s) == got[s] \cup holes[s]
             T(s) == got'[s] \cup holes'[s]
  <1>1. r \in Round /\ p \in Nat /\ p < next[r]
    BY WorkerRound DEF PInv, Typed, Claimed
  <1>2. Typed'
    BY <1>1 DEF PInv, Typed
  <1>3. AllFit'
    BY DEF PInv, Typed, AllFit
  <1>4. \A s \in Round : T(s) = IF s = r THEN S(s) \cup {p} ELSE S(s)
    BY <1>1 DEF PInv, Typed
  <1>5. \A v \in Worker : window'[v] = IF v = w THEN window[v] \ {p} ELSE window[v]
    BY DEF PInv, Typed
  <1>6. \A v \in Worker : v # w /\ v[1] = r => p \notin window[v]
    BY DEF PInv, Disjoint
  <1>7. Claimed'
    <2>1. ASSUME NEW v \in Worker, NEW q \in window'[v]
          PROVE  q < next[v[1]] /\ q \notin T(v[1])
      <3>1. q \in window[v] /\ (v[1] = r => q # p) /\ v[1] \in Round
        BY <1>5, <1>6, WorkerRound
      <3>2. q < next[v[1]] /\ q \notin S(v[1])
        BY <3>1 DEF PInv, Claimed
      <3> HIDE DEF S, T
      <3> QED
        BY <1>4, <3>1, <3>2
    <2>2. ASSUME job.mode # "sequential", NEW s \in Round, NEW q \in T(s)
          PROVE  q < next[s]
      <3>1. q \in S(s) \/ (s = r /\ q = p)
        BY <1>4
      <3> QED
        BY <1>1, <2>2, <3>1 DEF PInv, Claimed
    <2> QED
      BY <2>1, <2>2 DEF Claimed
  <1>8. Disjoint'
    BY <1>5 DEF PInv, Disjoint
  <1>9. Covered'
    <2> SUFFICES ASSUME NEW s \in Round, NEW q \in Nat, q < next[s]
                 PROVE  q \in T(s) \/ \E v \in Worker : v[1] = s /\ q \in window'[v]
      BY DEF Covered
    <2>1. CASE q \in S(s)
      BY <1>4, <2>1
    <2>2. CASE \E v \in Worker : v[1] = s /\ q \in window[v]
      BY <1>1, <1>4, <1>5, <2>2
    <2> QED
      BY <2>1, <2>2 DEF PInv, Covered
  <1> QED
    BY <1>2, <1>3, <1>7, <1>8, <1>9 DEF PInv

(* A sequential download takes or skips the chunk at the counter.           *)
LEMMA ChunkKeeps ==
  ASSUME PInv, NEW w \in Worker, Chunk(w)
  PROVE  PInv'
  <1> DEFINE r == w[1]
             n == next[r]
  <1>1. r \in Round /\ n \in Nat /\ job.mode = "sequential" /\ job' = job
    BY WorkerRound DEF PInv, Typed, Chunk, Mode, Kept
  <1>2. \A v \in Worker : window[v] = {}
    BY <1>1 DEF PInv, AllFit, Fits
  <1>3. \E l \in {"poll", "returned"} : pc' = [pc EXCEPT ![w] = l]
    BY DEF Chunk, Goto, Leave
  <1>4. \/ /\ next' = [next EXCEPT ![r] = n + 1] /\ got' = [got EXCEPT ![r] = @ \cup {n}]
           /\ UNCHANGED holes /\ window' = [window EXCEPT ![w] = @ \ {n}]
        \/ /\ holes' = [holes EXCEPT ![r] = @ \cup {n}] /\ UNCHANGED <<next, got>>
           /\ window' = [window EXCEPT ![w] = @ \ {n}]
        \/ UNCHANGED <<next, got, holes, window>>
    BY DEF Chunk, Take, Skip
  <1>5. Typed'
    BY <1>1, <1>3, <1>4 DEF PInv, Typed, Labels, Over
  <1>6. \A v \in Worker : window'[v] = {}
    BY <1>2, <1>4 DEF PInv, Typed
  <1>7. AllFit'
    <2>1. \A v \in Worker : pc'[v] \in {pc[v], "poll", "returned"}
      BY <1>3 DEF PInv, Typed
    <2> QED
      BY <1>1, <1>6, <2>1 DEF PInv, AllFit, Fits
  <1>8. Claimed' /\ Disjoint'
    BY <1>1, <1>6 DEF Claimed, Disjoint
  <1>9. Covered'
    <2> SUFFICES ASSUME NEW s \in Round, NEW q \in Nat, q < next'[s]
                 PROVE  q \in got'[s] \cup holes'[s]
      BY DEF Covered
    <2>1. got[s] \subseteq got'[s] /\ holes[s] \subseteq holes'[s]
      BY <1>1, <1>4 DEF PInv, Typed
    <2>2. CASE q < next[s]
      BY <1>2, <2>1, <2>2 DEF PInv, Covered
    <2>3. CASE ~ (q < next[s])
      <3>1. s = r /\ q = n /\ got' = [got EXCEPT ![r] = @ \cup {n}]
        BY <1>1, <1>4, <2>3 DEF PInv, Typed
      <3> QED
        BY <1>1, <3>1 DEF PInv, Typed
    <2> QED
      BY <2>2, <2>3
  <1> QED
    BY <1>5, <1>7, <1>8, <1>9 DEF PInv

(* One step of one worker.                                                  *)
LEMMA WorkKeeps ==
  ASSUME PInv, NEW w \in Worker, Work(w)
  PROVE  PInv'
  <1> DEFINE r == w[1]
  <1>1. /\ r \in Round /\ next[r] \in Nat /\ window[w] \in SUBSET Nat
        /\ job.mode \in Modes /\ Fits(job.mode, pc[w], window[w])
    BY WorkerRound DEF PInv, Typed, AllFit
  <1>2. window[w] # {} => Min(window[w]) \in window[w]
    BY <1>1, MinIsIn
  <1>3. CASE Poll(w)
    <2>1. PICK l \in {"raised", "fill", "try"} : pc' = [pc EXCEPT ![w] = l] /\
            (l = "fill" => job.mode = "pipelined") /\ (l = "try" => job.mode # "pipelined")
      BY <1>3 DEF Poll, Raise, Goto, Mode
    <2>2. UNCHANGED Core /\ l \in Labels /\ pc[w] = "poll"
      BY <1>3 DEF Poll, Kept, Core, Labels, Over
    <2>3. Fits(job.mode, l, window[w])
      BY <1>1, <2>1, <2>2 DEF Fits
    <2> QED
      BY <2>1, <2>2, <2>3, OneMoves
  <1>4. CASE Submit(w)
    <2>1. PICK l \in {"raised", "fill"} : pc' = [pc EXCEPT ![w] = l]
      BY <1>4 DEF Submit, Raise, Goto
    <2>2. /\ ClaimNext(w) /\ UNCHANGED <<job, got, holes>>
          /\ l \in Labels /\ pc[w] = "fill"
      BY <1>4 DEF Submit, Kept, Labels, Over
    <2>3. job.mode # "sequential" /\ Fits(job.mode, l, window[w] \cup {next[r]})
      BY <1>1, <2>1, <2>2 DEF Fits, Modes
    <2> QED
      BY <2>1, <2>2, <2>3, ClaimKeeps
  <1>5. CASE Filled(w)
    <2>1. PICK l \in {"returned", "wait"} : pc' = [pc EXCEPT ![w] = l] /\
            (l = "returned" <=> window[w] = {})
      BY <1>5 DEF Filled, Leave, Goto
    <2>2. UNCHANGED Core /\ l \in Labels /\ pc[w] = "fill"
      BY <1>5 DEF Filled, Kept, Core, Labels, Over
    <2>3. Fits(job.mode, l, window[w])
      BY <1>1, <2>1, <2>2 DEF Fits
    <2> QED
      BY <2>1, <2>2, <2>3, OneMoves
  <1>6. CASE Got(w)
    <2> DEFINE p == Min(window[w])
    <2>1. p \in window[w] /\ pc[w] \in {"wait", "direct"}
      BY <1>1, <1>2, <1>6 DEF Got, Fits
    <2>2. pc' = [pc EXCEPT ![w] = "poll"] /\ UNCHANGED <<job, next>> /\ "poll" \in Labels
      BY <1>6 DEF Got, Goto, Kept, Labels
    <2>3. /\ window' = [window EXCEPT ![w] = @ \ {p}]
          /\ \/ got' = [got EXCEPT ![r] = @ \cup {p}] /\ UNCHANGED holes
             \/ holes' = [holes EXCEPT ![r] = @ \cup {p}] /\ UNCHANGED got
      BY <1>6 DEF Got, Answered, Take, Skip
    <2>4. Fits(job.mode, "poll", window[w] \ {p})
      BY <1>1, <2>1 DEF Fits, Modes
    <2> QED
      BY <2>1, <2>2, <2>3, <2>4, SettleKeeps
  <1>7. CASE Done(w)
    <2> DEFINE p == Min(window[w])
    <2>1. p \in window[w] /\ pc[w] = "try" /\ job.mode = "plain"
      BY <1>1, <1>2, <1>7 DEF Done, Mode, Fits
    <2>2. pc' = [pc EXCEPT ![w] = "claim"] /\ UNCHANGED <<job, next>> /\ "claim" \in Labels
      BY <1>7 DEF Done, Goto, Kept, Labels
    <2>3. /\ window' = [window EXCEPT ![w] = @ \ {p}]
          /\ \/ got' = [got EXCEPT ![r] = @ \cup {p}] /\ UNCHANGED holes
             \/ holes' = [holes EXCEPT ![r] = @ \cup {p}] /\ UNCHANGED got
      BY <1>7 DEF Done, Answered, Take, Skip
    <2>4. Fits(job.mode, "claim", window[w] \ {p})
      BY <1>1, <2>1 DEF Fits
    <2> QED
      BY <2>1, <2>2, <2>3, <2>4, SettleKeeps
  <1>8. CASE WaitFails(w) \/ Refused(w) \/ WaitMigrates(w) \/ DeadWait(w)
    <2>1. PICK l \in {"raised", "direct", "poll"} : pc' = [pc EXCEPT ![w] = l]
      BY <1>8 DEF WaitFails, Refused, WaitMigrates, DeadWait, Raise, Goto
    <2>2. UNCHANGED Core /\ l \in Labels /\ pc[w] \in {"wait", "direct"}
      BY <1>8 DEF WaitFails, Refused, WaitMigrates, DeadWait, Same, Kept, Core, Labels, Over
    <2>3. Fits(job.mode, l, window[w])
      BY <1>1, <2>1, <2>2 DEF Fits, Modes
    <2> QED
      BY <2>1, <2>2, <2>3, OneMoves
  <1>9. CASE Claim(w)
    <2>1. pc[w] = "claim" /\ UNCHANGED <<job, got, holes>> /\ window[w] = {}
      BY <1>1, <1>9 DEF Claim, Kept, Fits
    <2>2. CASE ClaimNext(w) /\ Goto(w, "poll")
      <3>1. job.mode = "plain" /\ Fits(job.mode, "poll", window[w] \cup {next[r]})
        BY <1>1, <2>1 DEF Fits, Modes
      <3>2. pc' = [pc EXCEPT ![w] = "poll"] /\ "poll" \in Labels
        BY <2>2 DEF Goto, Labels
      <3> QED
        BY <2>1, <2>2, <3>1, <3>2, ClaimKeeps
    <2>3. CASE Leave(w) /\ UNCHANGED <<next, window>>
      <3>1. Fits(job.mode, "returned", window[w])
        BY <1>1, <2>1 DEF Fits
      <3>2. pc' = [pc EXCEPT ![w] = "returned"] /\ "returned" \in Labels /\ UNCHANGED Core
        BY <2>1, <2>3 DEF Leave, Labels, Over, Core
      <3> QED
        BY <3>1, <3>2, OneMoves
    <2> QED
      BY <1>9, <2>2, <2>3 DEF Claim
  <1>10. CASE TryFails(w) \/ TryMigrates(w) \/ ChunkFails(w)
    <2>1. PICK l \in {"raised", "poll"} : pc' = [pc EXCEPT ![w] = l]
      BY <1>10 DEF TryFails, TryMigrates, ChunkFails, Raise, Goto
    <2>2. UNCHANGED Core /\ l \in Labels /\ pc[w] = "try"
      BY <1>10 DEF TryFails, TryMigrates, ChunkFails, Same, Kept, Core, Labels, Over
    <2>3. Fits(job.mode, l, window[w])
      BY <1>1, <2>1, <2>2 DEF Fits
    <2> QED
      BY <2>1, <2>2, <2>3, OneMoves
  <1>11. CASE Chunk(w)
    BY <1>11, ChunkKeeps
  <1> QED
    BY <1>3, <1>4, <1>5, <1>6, <1>7, <1>8, <1>9, <1>10, <1>11 DEF Work

----------------------------------------------------------------------------
(* The workers of a call that has not begun are idle.                       *)

Waiting ==
  /\ phase \in [Round -> Over \cup {"new", "running"}]
  /\ pc \in [Worker -> Labels]
  /\ \A w \in Worker : phase[w[1]] = "new" => pc[w] = "idle"

Advances(w) ==
  /\ pc[w] # "idle"
  /\ (\E l \in Labels : Goto(w, l)) \/ Raise(w) \/ Leave(w)

LEMMA WorkAdvances ==
  ASSUME NEW w \in Worker, Work(w)
  PROVE  Advances(w)
  <1> USE DEF Advances, Labels, Over
  <1>1. CASE Poll(w) \/ Submit(w) \/ Filled(w)
    BY <1>1 DEF Poll, Submit, Filled
  <1>2. CASE Got(w) \/ WaitFails(w) \/ Refused(w) \/ WaitMigrates(w) \/ DeadWait(w)
    BY <1>2 DEF Got, WaitFails, Refused, WaitMigrates, DeadWait
  <1>3. CASE Claim(w) \/ Done(w) \/ TryFails(w) \/ TryMigrates(w)
    BY <1>3 DEF Claim, Done, TryFails, TryMigrates
  <1>4. CASE Chunk(w) \/ ChunkFails(w)
    BY <1>4 DEF Chunk, ChunkFails
  <1> QED
    BY <1>1, <1>2, <1>3, <1>4 DEF Work

LEMMA WaitingKept == Waiting /\ [Next]_vars => Waiting'
  <1> SUFFICES ASSUME Waiting, [Next]_vars PROVE Waiting'
    OBVIOUS
  <1>1. ASSUME NEW r \in Round, Begin(r) PROVE Waiting'
    <2>1. /\ phase' = [phase EXCEPT ![r] = "running"]
          /\ pc' = [w \in Worker |-> IF w[1] = r /\ w[2] <= job.conns
                                       THEN IF Mode("plain") THEN "claim" ELSE "poll" ELSE pc[w]]
      BY <1>1 DEF Begin
    <2> QED
      BY <2>1, WorkerRound DEF Waiting, Labels
  <1>2. ASSUME NEW r \in Round, CancelTask(r) PROVE Waiting'
    BY <1>2, WorkerRound DEF CancelTask, Running, Waiting, Labels, Over
  <1>3. ASSUME NEW w \in Worker, Work(w) PROVE Waiting'
    <2>1. w[1] \in Round /\ phase[w[1]] # "new" /\ Advances(w)
      BY <1>3, WorkerRound, WorkAdvances DEF Advances, Waiting
    <2>2. \E l \in Labels : pc' = [pc EXCEPT ![w] = l]
      BY <2>1 DEF Advances, Goto, Raise, Leave, Labels, Over
    <2>3. \/ phase' = phase
          \/ \E f \in Over : phase' = [phase EXCEPT ![w[1]] = f]
      BY <2>1 DEF Advances, Goto, Raise, Leave, Over
    <2>4. phase' \in [Round -> Over \cup {"new", "running"}] /\ pc' \in [Worker -> Labels]
      BY <2>1, <2>2, <2>3 DEF Waiting, Over
    <2>5. ASSUME NEW v \in Worker, phase'[v[1]] = "new" PROVE pc'[v] = "idle"
      <3>1. phase[v[1]] = "new" /\ v # w
        BY <2>1, <2>3, <2>5, WorkerRound DEF Waiting, Over
      <3> QED
        BY <2>2, <3>1 DEF Waiting
    <2> QED
      BY <2>4, <2>5 DEF Waiting
  <1>4. CASE \/ Pause \/ Resume \/ CancelHandle \/ UNCHANGED vars
            \/ \E w \in Worker : ConnDies(w)
    BY <1>4 DEF Pause, Resume, CancelHandle, Control, ConnDies, vars, Waiting
  <1> QED
    BY <1>1, <1>2, <1>3, <1>4 DEF Next

LEMMA StepInv == Waiting /\ PInv /\ [Next]_vars => PInv'
  <1> SUFFICES ASSUME Waiting, PInv, [Next]_vars PROVE PInv'
    OBVIOUS
  <1>1. ASSUME NEW r \in Round, Begin(r) PROVE PInv'
    <2>1. UNCHANGED Core /\ phase[r] = "new"
      BY <1>1 DEF Begin, Core
    <2>2. pc' = [w \in Worker |-> IF w[1] = r /\ w[2] <= job.conns
                                    THEN IF Mode("plain") THEN "claim" ELSE "poll" ELSE pc[w]]
      BY <1>1 DEF Begin
    <2>3. pc' \in [Worker -> Labels]
      BY <2>2 DEF PInv, Typed, Labels
    <2>4. ASSUME NEW w \in Worker PROVE Fits(job.mode, pc'[w], window[w])
      <3>1. Fits(job.mode, pc[w], window[w])
        BY DEF PInv, AllFit
      <3>2. CASE w[1] = r
        <4>1. pc[w] = "idle"
          BY <2>1, <3>2 DEF Waiting
        <4>2. pc'[w] = pc[w] \/ pc'[w] = IF job.mode = "plain" THEN "claim" ELSE "poll"
          BY <2>2 DEF Mode
        <4> QED
          BY <3>1, <4>1, <4>2 DEF Fits
      <3>3. CASE w[1] # r
        BY <2>2, <3>1, <3>3
      <3> QED
        BY <3>2, <3>3
    <2> QED
      BY <2>1, <2>3, <2>4, MoveKeeps
  <1>2. ASSUME NEW r \in Round, CancelTask(r) PROVE PInv'
    <2>1. UNCHANGED Core
      BY <1>2 DEF CancelTask, Core
    <2>2. pc' \in [Worker -> Labels] /\ \A w \in Worker : pc'[w] \in {pc[w], "raised"}
      BY <1>2 DEF CancelTask, PInv, Typed, Labels, Over
    <2>3. \A w \in Worker : Fits(job.mode, pc'[w], window[w])
      BY <2>2 DEF PInv, AllFit, Fits
    <2> QED
      BY <2>1, <2>2, <2>3, MoveKeeps
  <1>3. ASSUME NEW w \in Worker, Work(w) PROVE PInv'
    BY <1>3, WorkKeeps
  <1>4. CASE \/ Pause \/ Resume \/ CancelHandle \/ UNCHANGED vars
            \/ \E w \in Worker : ConnDies(w)
    <2>1. UNCHANGED <<Core, pc>>
      BY <1>4 DEF Pause, Resume, CancelHandle, Control, ConnDies, Same, Kept, vars, Core
    <2> QED
      BY <2>1, MoveKeeps DEF PInv, Typed, AllFit
  <1> QED
    BY <1>1, <1>2, <1>3, <1>4 DEF Next

LEMMA InvGivesOwner == PInv => OneOwner
  <1> SUFFICES ASSUME PInv, NEW r \in Round
               PROVE  /\ \A v, w \in Team(r) : v # w => window[v] \cap window[w] = {}
                      /\ \A w \in Team(r) :
                           window[w] \cap Settled(r) = {} /\ (pc[w] = "returned" => window[w] = {})
                      /\ 0 .. next[r] - 1 \subseteq
                           Settled(r) \cup UNION {window[w] : w \in Team(r)}
    BY DEF OneOwner
  <1>1. \A v, w \in Team(r) : v # w => window[v] \cap window[w] = {}
    BY DEF PInv, Disjoint, Team
  <1>2. ASSUME NEW w \in Team(r)
        PROVE  window[w] \cap Settled(r) = {} /\ (pc[w] = "returned" => window[w] = {})
    BY DEF PInv, Claimed, AllFit, Fits, Team, Settled
  <1>3. ASSUME NEW p \in 0 .. next[r] - 1
        PROVE  p \in Settled(r) \cup UNION {window[w] : w \in Team(r)}
    <2>1. p \in Nat /\ p < next[r]
      BY DEF PInv, Typed
    <2> QED
      BY <2>1 DEF PInv, Covered, Settled, Team
  <1> QED
    BY <1>1, <1>2, <1>3

(* With any number of workers, parts, calls and faults, every part that was *)
(* claimed has one owner, and a worker that returns leaves none behind.     *)
THEOREM TransferOneOwner == Spec => []OneOwner
  <1>1. Init => Waiting
    BY DEF Init, Waiting, Labels
  <1> QED
    BY <1>1, InitInv, WaitingKept, StepInv, InvGivesOwner, PTL DEF Spec

----------------------------------------------------------------------------
(* A handle that was stopped.                                               *)

Parked == {"idle", "poll", "claim", "returned", "raised"}

(* A worker that settled a part since the handle was stopped is where it    *)
(* settles no other before it looks at the handle.                          *)
HandleInv ==
  /\ DOMAIN handle = {"paused", "cancelled", "done"}
  /\ handle.paused \in BOOLEAN /\ handle.cancelled \in BOOLEAN
  /\ late \in [Worker -> {0, 1}]
  /\ pc \in [Worker -> Labels]
  /\ ~Stopped => \A w \in Worker : late[w] = 0
  /\ \A w \in Worker : late[w] = 1 => pc[w] \in Parked

(* A step of w that settles nothing.                                        *)
LEMMA QuietKeeps ==
  ASSUME HandleInv, NEW w \in Worker, NEW l \in Labels,
         UNCHANGED <<handle, late>>, pc' = [pc EXCEPT ![w] = l],
         late[w] = 0 \/ l \in Parked
  PROVE  HandleInv'
  BY DEF HandleInv, Stopped

(* A step of w that settles a part.                                         *)
LEMMA TakeKeeps ==
  ASSUME HandleInv, NEW w \in Worker, NEW p, NEW l \in Labels \cap Parked,
         Take(w, p) \/ Skip(w, p), pc' = [pc EXCEPT ![w] = l], late[w] = 0
  PROVE  HandleInv'
  <1>1. /\ DOMAIN handle' = DOMAIN handle
        /\ handle'.paused = handle.paused /\ handle'.cancelled = handle.cancelled
    BY DEF HandleInv, Take, Skip
  <1>2. late' = [late EXCEPT ![w] = IF Stopped THEN 1 ELSE 0] \/ late' = late
    BY DEF HandleInv, Take, Skip
  <1> QED
    BY <1>1, <1>2 DEF HandleInv, Stopped

LEMMA WorkKeepsHandle ==
  ASSUME HandleInv, NEW w \in Worker, Work(w)
  PROVE  HandleInv'
  <1> USE DEF Labels, Over, Parked
  <1>1. late[w] = 0 \/ pc[w] \in Parked
    BY DEF HandleInv
  <1>2. CASE Poll(w)
    <2>1. PICK l \in {"raised", "fill", "try"} :
            pc' = [pc EXCEPT ![w] = l] /\ (l = "raised" \/ ~Stopped)
      BY <1>2 DEF Poll, Raise, Goto
    <2>2. UNCHANGED <<handle, late>>
      BY <1>2 DEF Poll
    <2>3. late[w] = 0 \/ l = "raised"
      BY <2>1 DEF HandleInv
    <2> QED
      BY <2>1, <2>2, <2>3, QuietKeeps
  <1>3. CASE Submit(w) \/ Filled(w) \/ WaitFails(w) \/ Refused(w) \/ WaitMigrates(w)
             \/ DeadWait(w) \/ TryFails(w) \/ TryMigrates(w) \/ ChunkFails(w)
    <2>1. PICK l \in Labels : pc' = [pc EXCEPT ![w] = l]
      BY <1>3 DEF Submit, Filled, WaitFails, Refused, WaitMigrates, DeadWait, TryFails,
                  TryMigrates, ChunkFails, Goto, Raise, Leave
    <2>2. UNCHANGED <<handle, late>> /\ pc[w] \notin Parked
      BY <1>3 DEF Submit, Filled, WaitFails, Refused, WaitMigrates, DeadWait, TryFails,
                  TryMigrates, ChunkFails, Same
    <2> QED
      BY <1>1, <2>1, <2>2, QuietKeeps
  <1>4. CASE Claim(w)
    <2>1. PICK l \in {"poll", "returned"} : pc' = [pc EXCEPT ![w] = l]
      BY <1>4 DEF Claim, Goto, Leave
    <2>2. UNCHANGED <<handle, late>>
      BY <1>4 DEF Claim
    <2> QED
      BY <2>1, <2>2, QuietKeeps
  <1>5. CASE Got(w) \/ Done(w)
    <2>1. PICK l \in {"poll", "claim"} : pc' = [pc EXCEPT ![w] = l]
      BY <1>5 DEF Got, Done, Goto
    <2>2. /\ Take(w, Min(window[w])) \/ Skip(w, Min(window[w]))
          /\ pc[w] \notin Parked
      BY <1>5 DEF Got, Done, Answered
    <2> QED
      BY <1>1, <2>1, <2>2, TakeKeeps
  <1>6. CASE Chunk(w)
    <2>1. PICK l \in {"poll", "returned"} : pc' = [pc EXCEPT ![w] = l]
      BY <1>6 DEF Chunk, Goto, Leave
    <2>2. pc[w] \notin Parked
      BY <1>6 DEF Chunk
    <2>3. \/ Take(w, next[w[1]]) \/ Skip(w, next[w[1]])
          \/ UNCHANGED <<handle, late>>
      BY <1>6 DEF Chunk
    <2> QED
      BY <1>1, <2>1, <2>2, <2>3, TakeKeeps, QuietKeeps
  <1> QED
    BY <1>2, <1>3, <1>4, <1>5, <1>6 DEF Work

LEMMA HandleStep == Waiting /\ HandleInv /\ [Next]_vars => HandleInv'
  <1> SUFFICES ASSUME Waiting, HandleInv, [Next]_vars PROVE HandleInv'
    OBVIOUS
  <1>1. ASSUME NEW r \in Round, Begin(r) PROVE HandleInv'
    <2>1. /\ phase[r] = "new"
          /\ pc' = [w \in Worker |-> IF w[1] = r /\ w[2] <= job.conns
                                       THEN IF Mode("plain") THEN "claim" ELSE "poll" ELSE pc[w]]
          /\ late' = [w \in Worker |-> IF w[1] = r /\ Stopped THEN 1 ELSE late[w]]
      BY <1>1 DEF Begin
    <2>2. /\ DOMAIN handle' = DOMAIN handle
          /\ handle'.paused = handle.paused /\ handle'.cancelled = handle.cancelled
      BY <1>1 DEF Begin, HandleInv
    <2>3. \A w \in Worker : w[1] = r => pc'[w] \in Parked
      BY <2>1 DEF Waiting, Parked
    <2>4. \A w \in Worker : w[1] # r => pc'[w] = pc[w] /\ late'[w] = late[w]
      BY <2>1
    <2>5. pc' \in [Worker -> Labels] /\ late' \in [Worker -> {0, 1}]
      BY <2>1 DEF HandleInv, Labels
    <2>6. ~Stopped => \A w \in Worker : late'[w] = 0
      BY <2>1 DEF HandleInv
    <2> QED
      BY <2>2, <2>3, <2>4, <2>5, <2>6 DEF HandleInv, Stopped
  <1>2. ASSUME NEW r \in Round, CancelTask(r) PROVE HandleInv'
    BY <1>2 DEF CancelTask, HandleInv, Stopped, Labels, Over, Parked
  <1>3. ASSUME NEW w \in Worker, Work(w) PROVE HandleInv'
    BY <1>3, WorkKeepsHandle
  <1>4. CASE Pause \/ CancelHandle
    BY <1>4 DEF Pause, CancelHandle, Control, HandleInv, Stopped
  <1>5. CASE Resume
    <2>1. /\ handle' = [handle EXCEPT !.paused = FALSE] /\ pc' = pc
          /\ late' = IF handle.cancelled THEN late ELSE [w \in Worker |-> 0]
      BY <1>5 DEF Resume, Control
    <2>2. handle'.cancelled = handle.cancelled /\ handle'.paused = FALSE
          /\ DOMAIN handle' = DOMAIN handle
      BY <2>1 DEF HandleInv
    <2> QED
      BY <2>1, <2>2 DEF HandleInv, Stopped
  <1>6. CASE UNCHANGED vars \/ \E w \in Worker : ConnDies(w)
    BY <1>6 DEF ConnDies, Same, vars, HandleInv, Stopped
  <1> QED
    BY <1>1, <1>2, <1>3, <1>4, <1>5, <1>6 DEF Next

(* Whatever the windows hold, a worker settles at most one part after its   *)
(* handle was paused or cancelled.                                          *)
THEOREM TransferStopsAfterOne == Spec => []StopsAfterOne
  <1>1. Init => Waiting /\ HandleInv
    BY DEF Init, Waiting, HandleInv, Labels, Parked, Stopped
  <1>2. HandleInv => StopsAfterOne
    BY DEF HandleInv, StopsAfterOne
  <1> QED
    BY <1>1, <1>2, WaitingKept, HandleStep, PTL DEF Spec
----------------------------------------------------------------------------
(* Types and bounds.                                                        *)

JobInv ==
  /\ job.kind \in Kinds /\ job.mode \in Modes
  /\ job.size \in Nat /\ job.part \in Nat \ {0}
  /\ job.parts = CeilDiv(job.size, job.part) /\ job.parts \in Nat
  /\ job.conns \in 1 .. Ceiling /\ job.faults \in Nat
  /\ job.mode = "sequential" => job.conns = 1

(* No part is claimed or settled past the end of the file, and only a       *)
(* worker that raised has used up its attempts.                             *)
Bounded ==
  /\ DOMAIN handle = {"paused", "cancelled", "done"} /\ handle.done \in Nat
  /\ next \in [Round -> 0 .. job.parts]
  /\ got \in [Round -> SUBSET Part] /\ holes \in [Round -> SUBSET Part]
  /\ tries \in [Worker -> 0 .. MaxAttempts]
  /\ \A w \in Worker : pc[w] # "raised" => tries[w] < MaxAttempts
  /\ alive \in [Worker -> BOOLEAN]
  /\ faults \in 0 .. job.faults

LEMMA InitJob == Init => JobInv
  <1> SUFFICES ASSUME Init PROVE JobInv
    OBVIOUS
  <1>1. PICK f \in Files, b \in BOOLEAN, n \in BOOLEAN, c \in 0 .. Ceiling :
          job = JobOf(f[1], f[2], f[3], f[4], b, n, c)
    BY DEF Init
  <1>2. f[1] \in Kinds /\ f[2] \in Nat /\ f[4] \in Nat /\ Ceiling \in Nat \ {0}
    BY TransferAssumption DEF Kinds
  <1> DEFINE part == IF f[1] = "upload" THEN UploadPartSize(f[2])
                     ELSE DownloadChunk(IF n THEN f[2] ELSE 0)
             count == CeilDiv(f[2], part)
             workers == IF f[1] = "upload" THEN UploadWorkers(f[2], b, Ceiling)
                        ELSE DownloadWorkers(IF n THEN f[2] ELSE 0, b, Ceiling)
             mode == IF f[1] = "download" /\ (~n \/ count <= 1 \/ workers = 1)
                       THEN "sequential" ELSE IF c = 0 THEN "plain" ELSE "pipelined"
  <1>3. part \in Nat \ {0} /\ count \in Nat
    <2>1. part \in Nat \ {0}
      BY <1>2, PartPositive
    <2> HIDE DEF part
    <2> QED BY <1>2, <2>1, CeilDivNat
  <1>4. workers \in Nat \ {0}
    BY <1>2 DEF UploadWorkers, DownloadWorkers, Smaller
  <1>5. /\ job.kind = f[1] /\ job.size = f[2] /\ job.part = part /\ job.parts = count
        /\ job.faults = f[4] /\ job.mode = mode
        /\ job.conns = IF mode # "pipelined" \/ count = 0 THEN 1
                       ELSE Smaller(c, Smaller(workers, count))
    BY <1>1 DEF JobOf
  <1>6. mode \in Modes /\ (mode = "pipelined" => c # 0)
    BY DEF Modes
  <1>7. job.parts = CeilDiv(job.size, job.part)
    BY <1>5
  <1> HIDE DEF part, count, workers, mode
  <1>8. job.conns \in 1 .. Ceiling
    BY <1>2, <1>3, <1>4, <1>5, <1>6 DEF Smaller
  <1>9. job.mode = "sequential" => job.conns = 1
    BY <1>5
  <1> QED
    BY <1>2, <1>3, <1>5, <1>6, <1>7, <1>8, <1>9 DEF JobInv

LEMMA JobStays == JobInv /\ [Next]_vars => JobInv' /\ job' = job
  <1> SUFFICES ASSUME [Next]_vars PROVE job' = job
    BY DEF JobInv
  <1>1. ASSUME NEW w \in Worker, Work(w) PROVE job' = job
    BY <1>1 DEF Work, Poll, Submit, Filled, Got, WaitFails, Refused, WaitMigrates, DeadWait,
         Claim, Done, TryFails, TryMigrates, Chunk, ChunkFails, Kept
  <1> QED
    BY <1>1 DEF Next, Begin, CancelTask, Pause, Resume, CancelHandle, Control, ConnDies, Kept, vars

(* The bytes of a part inside the file; all but the last part are full.     *)
LEMMA PartBytes ==
  ASSUME JobInv, NEW p \in Part
  PROVE  /\ PartLen(job.size, job.part, p) \in 1 .. job.part
         /\ p # job.parts - 1 => PartLen(job.size, job.part, p) = job.part
  <1> DEFINE part == job.part
             n    == job.parts
             size == job.size
  <1>1. part \in Nat \ {0} /\ n \in Nat /\ size \in Nat /\ p \in Nat /\ p <= n - 1
    BY DEF JobInv, Part
  <1>2. size > 0
    <2>1. size = 0 => CeilDiv(size, part) = 0
      BY <1>1 DEF CeilDiv
    <2> QED BY <1>1, <2>1 DEF JobInv
  <1>3. n * part >= size /\ (n - 1) * part < size
    BY <1>1, <1>2, CeilDivCovers DEF JobInv
  <1> HIDE DEF part, n, size
  <1>4. p * part \in Nat /\ p * part <= (n - 1) * part /\ (n - 1) * part \in Int
    BY <1>1, TimesMonotone
  <1>5. PartLen(size, part, p) \in 1 .. part
    BY <1>1, <1>3, <1>4 DEF PartLen, Smaller
  <1>6. ASSUME p # n - 1 PROVE PartLen(size, part, p) = part
    <2>1. (p + 1) * part <= (n - 1) * part
      BY <1>1, <1>6, TimesMonotone
    <2>2. (p + 1) * part = p * part + part
      BY <1>1
    <2> QED
      BY <1>1, <1>3, <1>4, <2>1, <2>2 DEF PartLen, Smaller
  <1> QED
    BY <1>5, <1>6 DEF part, n, size
(* A worker that steps is running, and goes on, raises or returns.          *)
LEMMA WorkMoves ==
  ASSUME NEW w \in Worker, pc \in [Worker -> Labels], Work(w)
  PROVE  /\ Running(w)
         /\ \/ \E l \in Labels \ (Over \cup {"idle"}) : Goto(w, l)
            \/ Raise(w) \/ Leave(w)
         /\ pc' \in [Worker -> Labels] /\ \A v \in Worker \ {w} : pc'[v] = pc[v]
  <1> USE DEF Labels, Over, Running
  <1>1. CASE Poll(w) \/ Submit(w) \/ Filled(w)
    BY <1>1 DEF Poll, Submit, Filled, Goto, Raise, Leave
  <1>2. CASE Got(w) \/ WaitFails(w) \/ Refused(w) \/ WaitMigrates(w) \/ DeadWait(w)
    BY <1>2 DEF Got, WaitFails, Refused, WaitMigrates, DeadWait, Goto, Raise, Leave
  <1>3. CASE Claim(w) \/ Done(w) \/ TryFails(w) \/ TryMigrates(w)
    BY <1>3 DEF Claim, Done, TryFails, TryMigrates, Goto, Raise, Leave
  <1>4. CASE Chunk(w) \/ ChunkFails(w)
    BY <1>4 DEF Chunk, ChunkFails, Goto, Raise, Leave
  <1> QED
    BY <1>1, <1>2, <1>3, <1>4 DEF Work

(* What a step of a worker does to the parts: it settles one of the file,   *)
(* which it had claimed or, sequentially, which the counter stands at; or   *)
(* none.                                                                    *)
Settles(w, p) ==
  /\ (Take(w, p) /\ UNCHANGED <<holes, faults>>) \/ Skip(w, p)
  /\ \/ p = Min(window[w]) /\ p \in window[w] /\ next' = next /\ UNCHANGED phase
     \/ Chunk(w) /\ p = next[w[1]]
LEMMA WorkSettles ==
  ASSUME PInv, Bounded, NEW w \in Worker, Work(w)
  PROVE  \/ \E p \in Part : Settles(w, p)
         \/ UNCHANGED <<got, holes, handle, late>>
  <1>1. CASE Got(w) \/ Done(w)
    <2> DEFINE p == Min(window[w])
    <2>1. window[w] # {} /\ window[w] \in SUBSET Nat
      BY <1>1 DEF Got, Done, Mode, PInv, Typed, AllFit, Fits
    <2>2. p \in window[w]
      BY <2>1, MinIsIn
    <2>3. w[1] \in Round /\ p \in Nat /\ p < next[w[1]]
      BY <2>1, <2>2, WorkerRound DEF PInv, Claimed
    <2>4. next[w[1]] \in Nat /\ next[w[1]] <= job.parts /\ job.parts \in Nat
      BY <2>3 DEF Bounded, PInv, Typed
    <2>5. p \in Part
      BY <2>3, <2>4 DEF Part
    <2>6. Settles(w, p)
      BY <1>1, <2>2 DEF Got, Done, Answered, Settles, Goto
    <2> QED
      BY <2>5, <2>6
  <1>2. CASE Chunk(w)
    BY <1>2 DEF Chunk, Settles
  <1>3. CASE ~ (Got(w) \/ Done(w) \/ Chunk(w))
    BY <1>3 DEF Work, Poll, Submit, Filled, WaitFails, Refused, WaitMigrates, DeadWait,
                Claim, TryFails, TryMigrates, ChunkFails, Same
  <1> QED
    BY <1>1, <1>2, <1>3

LEMMA FaultTyped ==
  ASSUME JobInv, Bounded, Fault PROVE faults' \in 0 .. job.faults
  BY DEF JobInv, Bounded, Fault

LEMMA BoundedWork ==
  ASSUME PInv, JobInv, Bounded, NEW w \in Worker, Work(w), job' = job
  PROVE  Bounded'
  <1>1. /\ w[1] \in Round /\ pc[w] # "raised" /\ Part' = Part
        /\ \A v \in Worker \ {w} : pc'[v] = pc[v]
        /\ tries[w] \in 0 .. MaxAttempts /\ tries[w] < MaxAttempts
    BY WorkerRound, WorkMoves DEF PInv, Typed, Running, Over, Part, Bounded
  <1>2. next' \in [Round -> 0 .. job.parts]
    <2>1. \/ UNCHANGED next
          \/ next' = [next EXCEPT ![w[1]] = @ + 1] /\ next[w[1]] < job.parts
      <3>1. CASE Chunk(w)
        <4>1. job.parts \in Nat /\ next[w[1]] \in Nat
          BY <1>1 DEF JobInv, PInv, Typed
        <4> QED
          BY <3>1, <4>1 DEF Chunk, Part
      <3>2. CASE Submit(w) \/ Claim(w)
        BY <3>2 DEF Submit, Claim, ClaimNext
      <3>3. CASE ~ (Chunk(w) \/ Submit(w) \/ Claim(w))
        BY <3>3 DEF Work, Poll, Filled, Got, WaitFails, Refused, WaitMigrates, DeadWait,
                    Done, TryFails, TryMigrates, ChunkFails, Same
      <3> QED
        BY <3>1, <3>2, <3>3
    <2> QED
      BY <1>1, <2>1 DEF Bounded, JobInv
  <1>3. faults' \in 0 .. job.faults
    <2>1. UNCHANGED faults \/ Fault
      BY DEF Work, Poll, Submit, Filled, Got, Answered, Skip, WaitFails, Refused, WaitMigrates,
             DeadWait, Claim, Done, TryFails, TryMigrates, Chunk, ChunkFails
    <2> QED
      BY <2>1, FaultTyped DEF Bounded
  <1>4. alive' \in [Worker -> BOOLEAN]
    <2>1. UNCHANGED alive \/ alive' = [alive EXCEPT ![w] = TRUE]
      BY DEF Work, Poll, Submit, Filled, Got, WaitFails, Refused, WaitMigrates,
             DeadWait, Claim, Done, TryFails, TryMigrates, Chunk, ChunkFails
    <2> QED
      BY <2>1 DEF Bounded
  <1>5. /\ tries' \in [Worker -> 0 .. MaxAttempts]
        /\ \A v \in Worker : pc'[v] # "raised" => tries'[v] < MaxAttempts
    <2>1. \/ UNCHANGED tries
          \/ tries' = [tries EXCEPT ![w] = 0]
          \/ /\ tries' = [tries EXCEPT ![w] = @ + 1]
             /\ tries[w] + 1 < MaxAttempts \/ pc' = [pc EXCEPT ![w] = "raised"]
      BY DEF Work, Poll, Submit, Filled, Got, WaitFails, Refused, WaitMigrates, DeadWait,
             Claim, Done, TryFails, TryMigrates, Chunk, ChunkFails, Raise
    <2> QED
      BY <1>1, <2>1, TransferAssumption DEF PInv, Typed, Bounded
  <1>6. /\ DOMAIN handle' = {"paused", "cancelled", "done"} /\ handle'.done \in Nat
        /\ got' \in [Round -> SUBSET Part] /\ holes' \in [Round -> SUBSET Part]
    <2>1. CASE \E p \in Part : Settles(w, p)
      <3>1. PICK p \in Part : (Take(w, p) /\ UNCHANGED holes) \/ Skip(w, p)
        BY <2>1 DEF Settles
      <3>2. PartLen(job.size, job.part, p) \in Nat
        BY PartBytes
      <3> QED
        BY <1>1, <3>1, <3>2 DEF Take, Skip, Bounded
    <2> QED
      BY <2>1, WorkSettles DEF Bounded
  <1> QED
    BY <1>1, <1>2, <1>3, <1>4, <1>5, <1>6 DEF Bounded

LEMMA BoundedStep ==
  PInv /\ JobInv /\ Waiting /\ HandleInv /\ Bounded /\ [Next]_vars => Bounded'
  <1> SUFFICES ASSUME PInv, JobInv, Waiting, HandleInv, Bounded, [Next]_vars PROVE Bounded'
    OBVIOUS
  <1>1. job' = job /\ Part' = Part
    BY JobStays DEF Part
  <1>2. ASSUME NEW r \in Round, Begin(r) PROVE Bounded'
    <2>1. /\ phase[r] = "new" /\ handle' = [handle EXCEPT !.done = 0]
          /\ UNCHANGED <<next, got, holes, tries, alive, faults>>
          /\ \A w \in Worker : pc'[w] = pc[w] \/ w[1] = r
      BY <1>2 DEF Begin
    <2>2. \A w \in Worker : w[1] = r => pc[w] # "raised"
      BY <2>1 DEF Waiting
    <2> QED
      BY <1>1, <2>1, <2>2 DEF Bounded
  <1>3. ASSUME NEW r \in Round, CancelTask(r) PROVE Bounded'
    BY <1>1, <1>3 DEF CancelTask, Bounded
  <1>4. ASSUME NEW w \in Worker, Work(w) PROVE Bounded'
    BY <1>1, <1>4, BoundedWork
  <1>5. CASE Pause \/ Resume \/ CancelHandle
    <2>1. UNCHANGED <<next, got, holes, pc, tries, alive, faults>>
      BY <1>5 DEF Pause, Resume, CancelHandle, Control
    <2>2. DOMAIN handle' = DOMAIN handle /\ handle'.done = handle.done
      BY <1>5 DEF Pause, Resume, CancelHandle, Control, Bounded
    <2> QED
      BY <1>1, <2>1, <2>2 DEF Bounded
  <1>6. ASSUME NEW w \in Worker, ConnDies(w) PROVE Bounded'
    BY <1>1, <1>6, FaultTyped DEF ConnDies, Same, Bounded
  <1>7. CASE UNCHANGED vars
    BY <1>1, <1>7 DEF vars, Bounded
  <1> QED
    BY <1>2, <1>3, <1>4, <1>5, <1>6, <1>7 DEF Next

LEMMA InitBounded == Init => Bounded
  <1> SUFFICES ASSUME Init PROVE Bounded
    OBVIOUS
  <1>1. JobInv
    BY InitJob
  <1> QED
    BY <1>1, TransferAssumption DEF Init, Bounded, JobInv

LEMMA SpecBounded ==
  Spec => [](PInv /\ JobInv /\ Waiting /\ HandleInv /\ Bounded)
  <1>1. Init => PInv /\ JobInv /\ Waiting /\ HandleInv /\ Bounded
    BY InitInv, InitJob, InitBounded DEF Init, Waiting, HandleInv, Labels, Parked, Stopped
  <1>2. PInv /\ JobInv /\ Waiting /\ HandleInv /\ Bounded /\ [Next]_vars
          => PInv' /\ JobInv' /\ Waiting' /\ HandleInv' /\ Bounded'
    BY StepInv, JobStays, WaitingKept, HandleStep, BoundedStep
  <1> QED
    BY <1>1, <1>2, PTL DEF Spec

(* For files of any size the counter, the windows and what is settled stay  *)
(* within the parts of the file, a part is tried MaxAttempts times at most, *)
(* and the progress never becomes negative.                                 *)
THEOREM TransferTyped == Spec => []TypeOK
  <1>1. PInv /\ JobInv /\ Waiting /\ HandleInv /\ Bounded => TypeOK
    <2> SUFFICES ASSUME PInv, JobInv, Waiting, HandleInv, Bounded PROVE TypeOK
      OBVIOUS
    <2>1. window \in [Worker -> SUBSET Part]
      <3>1. ASSUME NEW w \in Worker, NEW p \in window[w] PROVE p \in Part
        <4>1. w[1] \in Round /\ p \in Nat /\ p < next[w[1]]
          BY WorkerRound DEF PInv, Typed, Claimed
        <4> QED
          BY <4>1 DEF Bounded, JobInv, Part
      <3> QED
        BY <3>1 DEF PInv, Typed
    <2>2. late \in [Worker -> Nat]
      BY DEF HandleInv
    <2>3. next \in [Round -> Nat] /\ tries \in [Worker -> 0 .. MaxAttempts]
      BY DEF PInv, Typed, Bounded
    <2> QED
      BY <2>1, <2>2, <2>3 DEF TypeOK, JobInv, Waiting, HandleInv, Bounded, Labels
  <1> QED
    BY <1>1, SpecBounded, PTL
----------------------------------------------------------------------------
(* The transfer implements FileTransfer.                                    *)

(* A running call has no worker that raised, one that returned no worker    *)
(* that runs; a sequential download has one worker, and what it settled is  *)
(* below the counter until it is over.                                      *)
PhaseInv ==
  \A w \in Worker : /\ phase[w[1]] = "running" => pc[w] # "raised"
                    /\ phase[w[1]] = "returned" => ~Running(w)
SeqInv ==
  Mode("sequential") => \A w \in Worker :
    /\ w[2] # 1 => pc[w] = "idle"
    /\ w[2] = 1 /\ pc[w] \notin Over => \A p \in Settled(w[1]) : p < next[w[1]]

LEMMA PhaseStep == Waiting /\ PhaseInv /\ [Next]_vars => PhaseInv'
  <1> SUFFICES ASSUME Waiting, PhaseInv, [Next]_vars PROVE PhaseInv'
    OBVIOUS
  <1>1. ASSUME NEW r \in Round, Begin(r) PROVE PhaseInv'
    <2>1. /\ phase[r] = "new" /\ phase' = [phase EXCEPT ![r] = "running"]
          /\ \A w \in Worker : pc'[w] = pc[w] \/ (w[1] = r /\ pc'[w] \in {"claim", "poll"})
      <3>1. pc' = [w \in Worker |-> IF w[1] = r /\ w[2] <= job.conns
                                      THEN IF Mode("plain") THEN "claim" ELSE "poll" ELSE pc[w]]
        BY <1>1 DEF Begin
      <3>2. \A w \in Worker : pc'[w] = pc[w] \/ (w[1] = r /\ pc'[w] \in {"claim", "poll"})
        BY <3>1 DEF Mode
      <3> QED
        BY <1>1, <3>2 DEF Begin
    <2> QED
      BY <2>1, WorkerRound DEF Waiting, PhaseInv, Running
  <1>2. ASSUME NEW r \in Round, CancelTask(r) PROVE PhaseInv'
    <2>1. /\ phase[r] = "running" /\ phase' = [phase EXCEPT ![r] = "raised"]
          /\ \A w \in Worker : pc'[w] = pc[w] \/ w[1] = r
      BY <1>2 DEF CancelTask
    <2> QED
      BY <2>1, WorkerRound DEF Waiting, PhaseInv, Running
  <1>3. ASSUME NEW w \in Worker, Work(w) PROVE PhaseInv'
    <2> DEFINE r == w[1]
    <2>1. /\ r \in Round /\ Running(w)
          /\ \A v \in Worker \ {w} : pc'[v] = pc[v]
      BY <1>3, WorkerRound, WorkMoves DEF Waiting
    <2>2. phase[r] \in {"running", "raised"}
      BY <2>1 DEF Waiting, PhaseInv, Running, Over
    <2>3. CASE \E l \in Labels \ (Over \cup {"idle"}) : Goto(w, l)
      <3>1. UNCHANGED phase /\ pc'[w] # "raised"
        BY <2>3 DEF Goto, Waiting, Labels, Over
      <3> QED
        BY <2>1, <2>2, <3>1 DEF PhaseInv, Running
    <2>4. CASE Raise(w)
      <3>1. phase'[r] = "raised" /\ \A q \in Round \ {r} : phase'[q] = phase[q]
        BY <2>1, <2>2, <2>4 DEF Raise, Waiting
      <3> QED
        BY <2>1, <3>1, WorkerRound DEF PhaseInv, Running
    <2>5. CASE Leave(w)
      <3>1. /\ pc'[w] = "returned" /\ \A q \in Round \ {r} : phase'[q] = phase[q]
            /\ \/ phase' = phase
               \/ /\ phase'[r] = "returned"
                  /\ \A v \in Team(r) \ {w} : ~Running(v)
        BY <2>1, <2>5 DEF Leave, Waiting
      <3> QED
        BY <2>1, <2>2, <3>1, WorkerRound DEF PhaseInv, Running, Over, Team
    <2> QED
      BY <1>3, <2>3, <2>4, <2>5, WorkMoves DEF Waiting
  <1>4. CASE \/ Pause \/ Resume \/ CancelHandle \/ UNCHANGED vars
            \/ \E w \in Worker : ConnDies(w)
    BY <1>4 DEF Pause, Resume, CancelHandle, Control, ConnDies, vars, PhaseInv, Running
  <1> QED
    BY <1>1, <1>2, <1>3, <1>4 DEF Next

(* A worker of a sequential download has nothing in flight.                 *)
LEMMA SeqWork ==
  ASSUME PInv, Mode("sequential"), NEW w \in Worker, Work(w), ~Chunk(w)
  PROVE  UNCHANGED <<next, got, holes>>
  <1>1. window[w] = {} /\ pc[w] \notin {"fill", "claim", "wait", "direct"}
    BY DEF PInv, AllFit, Fits, Mode
  <1> QED
    BY <1>1 DEF Work, Poll, Submit, Filled, Got, WaitFails, Refused, WaitMigrates, DeadWait,
       Claim, Done, TryFails, TryMigrates, ChunkFails, Mode, Same

LEMMA SeqStep ==
  PInv /\ JobInv /\ Waiting /\ SeqInv /\ [Next]_vars => SeqInv'
  <1> SUFFICES ASSUME PInv, JobInv, Waiting, SeqInv, [Next]_vars, Mode("sequential")
               PROVE  \A w \in Worker :
                        /\ w[2] # 1 => pc'[w] = "idle"
                        /\ w[2] = 1 /\ pc'[w] \notin Over =>
                             \A p \in got'[w[1]] \cup holes'[w[1]] : p < next'[w[1]]
    BY JobStays DEF SeqInv, Mode, Settled
  <1> USE DEF SeqInv, Settled
  <1>1. ASSUME NEW r \in Round, Begin(r), NEW w \in Worker
        PROVE  /\ w[2] # 1 => pc'[w] = "idle"
               /\ w[2] = 1 /\ pc'[w] \notin Over =>
                    \A p \in got'[w[1]] \cup holes'[w[1]] : p < next'[w[1]]
    <2>1. /\ phase[r] = "new" /\ UNCHANGED <<next, got, holes>>
          /\ pc'[w] = pc[w] \/ (w[1] = r /\ w[2] <= job.conns)
      <3>1. pc' = [x \in Worker |-> IF x[1] = r /\ x[2] <= job.conns
                                      THEN IF Mode("plain") THEN "claim" ELSE "poll" ELSE pc[x]]
        BY <1>1 DEF Begin
      <3>2. pc'[w] = pc[w] \/ (w[1] = r /\ w[2] <= job.conns)
        BY <3>1 DEF Mode
      <3> QED
        BY <1>1, <3>2 DEF Begin
    <2>2. w[2] # 1 => pc'[w] = pc[w]
      <3>1. w[2] \in 1 .. Ceiling /\ job.conns = 1
        BY DEF Worker, JobInv, Mode
      <3> QED
        BY <2>1, <3>1, TransferAssumption
    <2>3. w[1] = r => pc[w] = "idle"
      BY <2>1 DEF Waiting
    <2> QED
      BY <2>1, <2>2, <2>3 DEF Over
  <1>2. ASSUME NEW v \in Worker, Work(v), NEW w \in Worker
        PROVE  /\ w[2] # 1 => pc'[w] = "idle"
               /\ w[2] = 1 /\ pc'[w] \notin Over =>
                    \A p \in got'[w[1]] \cup holes'[w[1]] : p < next'[w[1]]
    <2>1. /\ pc[v] # "idle" /\ pc[v] \notin Over /\ v[2] = 1
          /\ \A u \in Worker \ {v} : pc'[u] = pc[u]
      BY <1>2, WorkMoves DEF Running, Waiting
    <2>2. w[2] # 1 => pc'[w] = "idle"
      BY <2>1
    <2>3. CASE ~Chunk(v)
      <3>1. UNCHANGED <<next, got, holes>>
        BY <1>2, <2>3, SeqWork
      <3>2. w = v => pc[w] \notin Over
        BY <2>1
      <3> QED
        BY <2>1, <2>2, <3>1, <3>2
    <2>4. CASE Chunk(v)
      <3> DEFINE r == v[1]
                 n == next[r]
      <3>1. r \in Round /\ w[1] \in Round /\ n \in Nat
        BY WorkerRound DEF PInv, Typed
      <3>2. w[2] = 1 /\ w[1] = r => w = v
        BY <2>1 DEF Worker
      <3>3. CASE w[1] # r
        <4>1. got'[w[1]] = got[w[1]] /\ holes'[w[1]] = holes[w[1]] /\ next'[w[1]] = next[w[1]]
          BY <2>4, <3>1, <3>3 DEF Chunk, Take, Skip, PInv, Typed
        <4> QED
          BY <2>1, <2>2, <3>3, <4>1
      <3>4. CASE w = v /\ pc'[v] \notin Over
        <4>1. ~ Leave(v)
          BY <3>4 DEF Leave, Over, Waiting
        <4>2. next' = [next EXCEPT ![r] = n + 1] /\ got' = [got EXCEPT ![r] = @ \cup {n}]
              /\ UNCHANGED holes
          BY <2>4, <4>1 DEF Chunk, Take
        <4>3. next'[r] = n + 1 /\ got'[r] \cup holes'[r] = got[r] \cup holes[r] \cup {n}
          BY <3>1, <4>2 DEF PInv, Typed
        <4>4. \A p \in got[r] \cup holes[r] : p \in Nat /\ p < n
          BY <2>1, <3>1 DEF PInv, Typed
        <4> QED
          BY <2>1, <3>1, <3>4, <4>3, <4>4
      <3> QED
        BY <2>1, <2>2, <3>2, <3>3, <3>4
    <2> QED
      BY <2>3, <2>4
  <1>3. ASSUME NEW r \in Round, CancelTask(r), NEW w \in Worker
        PROVE  /\ w[2] # 1 => pc'[w] = "idle"
               /\ w[2] = 1 /\ pc'[w] \notin Over =>
                    \A p \in got'[w[1]] \cup holes'[w[1]] : p < next'[w[1]]
    BY <1>3 DEF CancelTask, Running, Over
  <1>4. CASE \/ Pause \/ Resume \/ CancelHandle \/ UNCHANGED vars
            \/ \E w \in Worker : ConnDies(w)
    BY <1>4 DEF Pause, Resume, CancelHandle, Control, ConnDies, Same, vars
  <1> QED
    BY <1>1, <1>2, <1>3, <1>4 DEF Next
TransferInv == PInv /\ JobInv /\ Waiting /\ HandleInv /\ Bounded /\ PhaseInv /\ SeqInv

LEMMA TransferInductive == Spec => []TransferInv
  <1>1. Init => PhaseInv /\ SeqInv
    BY WorkerRound DEF Init, PhaseInv, SeqInv, Settled, Over
  <1> QED
    BY <1>1, SpecBounded, PhaseStep, SeqStep, PTL DEF Spec, TransferInv

(* A part is settled by a call that runs or raised, and only once.          *)
LEMMA SettlesFresh ==
  ASSUME TransferInv, NEW w \in Worker, Work(w), NEW p \in Part, Settles(w, p)
  PROVE  phase[w[1]] \in {"running", "raised"} /\ p \notin got[w[1]] \cup holes[w[1]]
  <1> USE DEF TransferInv
  <1>1. w[1] \in Round /\ Running(w) /\ pc[w] \in Labels
    BY WorkerRound, WorkMoves DEF Waiting
  <1>2. phase[w[1]] \in {"running", "raised"}
    BY <1>1 DEF Waiting, PhaseInv, Running, Over
  <1>3. CASE p \in window[w]
    BY <1>2, <1>3 DEF PInv, Claimed
  <1>4. CASE Chunk(w) /\ p = next[w[1]]
    <2>1. w[2] = 1 /\ pc[w] \notin Over
      BY <1>1, <1>4 DEF Chunk, SeqInv, Running
    <2>2. \A q \in got[w[1]] \cup holes[w[1]] : q < p
      BY <1>4, <2>1 DEF Chunk, SeqInv, Settled
    <2>3. p \in Nat
      BY <1>1, <1>4 DEF PInv, Typed
    <2> QED
      BY <1>2, <2>2, <2>3
  <1> QED
    BY <1>2, <1>3, <1>4 DEF Settles

(* The step that ends a call well leaves no part of the file behind, unless *)
(* a server answered one without data.                                      *)
LEMMA ReturnsComplete ==
  ASSUME TransferInv, NEW w \in Worker, Work(w), job' = job,
         phase[w[1]] = "running", phase'[w[1]] = "returned"
  PROVE  got'[w[1]] \cup holes'[w[1]] = Part \/ holes'[w[1]] # {}
  <1> DEFINE r == w[1]
  <1> USE DEF TransferInv
  <1>1. /\ r \in Round /\ next[r] \in Nat /\ job.parts \in Nat
        /\ got[r] \subseteq Part /\ holes[r] \subseteq Part
    BY WorkerRound DEF PInv, Typed, JobInv, Bounded
  <1>2. Leave(w) /\ \A v \in Team(r) \ {w} : ~Running(v)
    <2>1. ~Raise(w) /\ \A l \in Labels : ~Goto(w, l)
      BY <1>1 DEF Raise, Goto, Waiting
    <2>2. Leave(w)
      BY <2>1, WorkMoves DEF Waiting
    <2> QED
      BY <2>2 DEF Leave
  <1>3. \A v \in Team(r) \ {w} : window[v] = {}
    <2> SUFFICES ASSUME NEW v \in Team(r) \ {w} PROVE window[v] = {}
      OBVIOUS
    <2>1. v \in Worker /\ v[1] = r /\ pc[v] \in {"idle", "returned"}
      BY <1>2 DEF Team, PhaseInv, Running, Over
    <2> QED
      BY <2>1 DEF PInv, AllFit, Fits
  <1>4. ASSUME window[w] = {}, next[r] >= job.parts, UNCHANGED <<got, holes>>
        PROVE  got'[r] \cup holes'[r] = Part
    <2>1. ASSUME NEW p \in Part PROVE p \in got[r] \cup holes[r]
      <3>1. p \in Nat /\ p < next[r]
        BY <1>1, <1>4 DEF Part
      <3>2. p \in got[r] \cup holes[r] \/ \E v \in Team(r) : p \in window[v]
        BY <1>1, <3>1 DEF PInv, Covered, Team
      <3> QED
        BY <1>3, <1>4, <3>2
    <2> QED
      BY <1>1, <1>4, <2>1
  <1>5. CASE Filled(w)
    <2>1. window[w] = {} /\ UNCHANGED <<got, holes>>
      <3>1. pc'[w] = "returned"
        BY <1>2 DEF Leave, Waiting
      <3> QED
        BY <1>5, <3>1 DEF Filled, Goto, Waiting
    <2>2. Cardinality(window[w]) = Depth \/ next[r] >= job.parts
      BY <1>5 DEF Filled
    <2> QED
      BY <1>4, <2>1, <2>2, FS_EmptySet, TransferAssumption
  <1>6. CASE Claim(w)
    <2>1. window[w] = {} /\ pc'[w] = "returned"
      BY <1>2, <1>6 DEF Claim, Leave, Waiting, PInv, AllFit, Fits
    <2>2. next[r] >= job.parts /\ UNCHANGED <<got, holes>>
      BY <1>6, <2>1 DEF Claim, Goto, Waiting
    <2> QED
      BY <1>4, <2>1, <2>2
  <1>7. CASE Chunk(w)
    <2> DEFINE p == next[r]
    <2>1. window[w] = {}
      BY <1>7 DEF Chunk, PInv, AllFit, Fits, Mode
    <2>2. p \notin got[r] \cup holes[r]
      <3>1. Running(w) /\ Mode("sequential")
        BY <1>7, WorkMoves DEF Chunk, Waiting
      <3>2. \A q \in got[r] \cup holes[r] : q < p
        BY <3>1 DEF SeqInv, Settled, Running
      <3> QED
        BY <1>1, <3>2
    <2>3. CASE p \in Part /\ Skip(w, p)
      BY <1>1, <2>3 DEF Skip, Bounded
    <2>4. CASE p \notin Part /\ UNCHANGED <<got, holes>>
      <3>1. next[r] >= job.parts
        BY <1>1, <2>4 DEF Part
      <3> QED
        BY <1>4, <2>1, <2>4, <3>1
    <2>5. CASE p \in Part /\ Take(w, p) /\ UNCHANGED holes
      <3>1. PartLen(job.size, job.part, p) < job.part
        <4>1. pc'[w] = "returned"
          BY <1>2 DEF Leave, Waiting
        <4>2. p \in got'[r] /\ ~ Skip(w, p)
          BY <1>1, <2>5, <2>2 DEF Skip, Take, Bounded
        <4>3. ~ UNCHANGED got
          BY <2>2, <4>2
        <4> QED
          BY <1>7, <4>1, <4>2, <4>3 DEF Chunk, Goto, Waiting
      <3>2. p = job.parts - 1
        BY <2>5, <3>1, PartBytes
      <3>3. ASSUME NEW q \in Part PROVE q \in got'[r] \cup holes'[r]
        <4>1. got'[r] = got[r] \cup {p} /\ holes' = holes
          BY <1>1, <2>5 DEF Take, Bounded
        <4>2. q = p \/ (q \in Nat /\ q < next[r])
          BY <1>1, <3>2 DEF Part
        <4>3. q < next[r] => q \in got[r] \cup holes[r]
          BY <1>1, <1>3, <2>1, <4>2 DEF PInv, Covered, Team, Part
        <4> QED
          BY <4>1, <4>2, <4>3
      <3>4. got'[r] \cup holes'[r] \subseteq Part
        BY <1>1, <2>5 DEF Take, Bounded
      <3> QED
        BY <3>3, <3>4
    <2> QED
      BY <1>7, <2>3, <2>4, <2>5 DEF Chunk
  <1>8. CASE ~ (Filled(w) \/ Claim(w) \/ Chunk(w))
    <2>1. pc'[w] = "returned"
      BY <1>2 DEF Leave, Waiting
    <2> QED
      BY <1>8, <2>1 DEF Work, Poll, Submit, Got, WaitFails, Refused, WaitMigrates, DeadWait,
         Done, TryFails, TryMigrates, ChunkFails, Goto, Raise, Waiting
  <1> QED
    BY <1>5, <1>6, <1>7, <1>8
(* A settled part was transferred or, of a download, answered without data; *)
(* the step does not raise.                                                 *)
LEMMA SettlesKinds ==
  ASSUME TransferInv, NEW w \in Worker, NEW p \in Part, Settles(w, p)
  PROVE  /\ \/ got'[w[1]] = got[w[1]] \cup {p} /\ holes'[w[1]] = holes[w[1]]
            \/ /\ job.kind # "upload"
               /\ holes'[w[1]] = holes[w[1]] \cup {p} /\ got'[w[1]] = got[w[1]]
         /\ phase'[w[1]] # "raised" \/ phase'[w[1]] = phase[w[1]]
  <1>1. w[1] \in Round
    BY WorkerRound
  <1>2. phase'[w[1]] # "raised" \/ phase'[w[1]] = phase[w[1]]
    BY <1>1 DEF Settles, Chunk, Goto, Leave, TransferInv, Waiting
  <1> QED
    BY <1>1, <1>2 DEF Settles, Take, Skip, TransferInv, Bounded

(* Every step of the transfer is, for each of its calls, a step of the      *)
(* abstract transfer or none: parts are settled once and by a call that was *)
(* begun, and a call that returns has all of them or met a hole.            *)
THEOREM TransferImplements == Spec => Implements
  <1>1. Init => \A r \in Round : Abstract(r)!Init
    BY InitJob DEF Init, JobInv, Abstract!Init
  <1>2. TransferInv /\ [Next]_vars => \A r \in Round : [Abstract(r)!Next]_(Abstract(r)!vars)
    <2> SUFFICES ASSUME TransferInv, [Next]_vars, NEW r \in Round
                 PROVE  [Abstract(r)!Next]_(Abstract(r)!vars)
      OBVIOUS
    <2> USE DEF TransferInv
    <2>1. job' = job /\ phase \in [Round -> Over \cup {"new", "running"}]
      BY JobStays DEF Waiting
    <2>2. CASE UNCHANGED <<phase[r], got[r], holes[r]>>
      BY <2>1, <2>2 DEF Abstract!vars
    <2>3. CASE Begin(r)
      BY <2>1, <2>3 DEF Begin, Abstract!Next, Abstract!Begin
    <2>4. CASE CancelTask(r)
      BY <2>1, <2>4 DEF CancelTask, Abstract!Next, Abstract!Raise
    <2>5. ASSUME NEW q \in Round \ {r}, Begin(q) \/ CancelTask(q)
          PROVE  UNCHANGED <<phase[r], got[r], holes[r]>>
      BY <2>1, <2>5 DEF Begin, CancelTask
    <2>6. ASSUME NEW w \in Worker, Work(w), w[1] # r
          PROVE  UNCHANGED <<phase[r], got[r], holes[r]>>
      <3>1. phase'[r] = phase[r]
        BY <2>1, <2>6, WorkMoves DEF Waiting, Goto, Raise, Leave
      <3>2. got'[r] = got[r] /\ holes'[r] = holes[r]
        <4>1. \/ \E p \in Part : Settles(w, p)
              \/ UNCHANGED <<got, holes>>
          BY <2>6, WorkSettles
        <4> QED
          BY <2>6, <4>1 DEF Settles, Take, Skip, Bounded
      <3> QED
        BY <3>1, <3>2
    <2>7. ASSUME NEW w \in Worker, Work(w), w[1] = r
          PROVE  [Abstract(r)!Next]_(Abstract(r)!vars)
      <3>1. \/ phase'[r] = phase[r]
            \/ phase[r] = "running" /\ phase'[r] = "raised" /\ Raise(w)
            \/ phase[r] = "running" /\ phase'[r] = "returned"
        BY <2>1, <2>7, WorkMoves DEF Waiting, Goto, Raise, Leave
      <3>2. phase'[r] = "returned" /\ phase[r] = "running" =>
              got'[r] \cup holes'[r] = Part \/ holes'[r] # {}
        BY <2>1, <2>7, ReturnsComplete
      <3>3. ASSUME NEW p \in Part, Settles(w, p) PROVE Abstract(r)!Settle
        <4>1. phase[r] \in {"running", "raised"} /\ p \in Part \ (got[r] \cup holes[r])
          BY <2>7, <3>3, SettlesFresh
        <4>2. \/ got'[r] = got[r] \cup {p} /\ holes'[r] = holes[r]
              \/ job.kind # "upload" /\ holes'[r] = holes[r] \cup {p} /\ got'[r] = got[r]
          BY <2>7, <3>3, SettlesKinds
        <4>3. phase'[r] # "raised" \/ phase'[r] = phase[r]
          BY <2>1, <2>7, <3>3, SettlesKinds
        <4> QED
          BY <2>1, <3>1, <3>2, <4>1, <4>2, <4>3 DEF Abstract!Settle, Abstract!Returns, Abstract!Part, Part
      <3>4. CASE UNCHANGED <<got, holes>>
        <4>1. CASE phase[r] = "running" /\ phase'[r] = "returned"
          BY <2>1, <3>2, <3>4, <4>1
             DEF Abstract!Next, Abstract!Return, Abstract!Returns, Abstract!Part, Part
        <4>2. CASE phase[r] = "running" /\ phase'[r] = "raised"
          BY <2>1, <3>4, <4>2 DEF Abstract!Next, Abstract!Raise
        <4> QED
          BY <2>2, <3>1, <3>4, <4>1, <4>2
      <3> QED
        BY <2>7, <3>3, <3>4, WorkSettles DEF Abstract!Next
    <2>8. CASE \/ Pause \/ Resume \/ CancelHandle \/ UNCHANGED vars
              \/ \E w \in Worker : ConnDies(w)
      BY <2>2, <2>8 DEF Pause, Resume, CancelHandle, Control, ConnDies, Same, vars
    <2> QED
      BY <2>2, <2>3, <2>4, <2>5, <2>6, <2>7, <2>8 DEF Next
  <1> QED
    BY <1>1, <1>2, TransferInductive, PTL DEF Spec, Implements
----------------------------------------------------------------------------
(* The progress.                                                            *)

ProgressInv == base \subseteq Moved /\ ProgressExact

LEMMA MovedFinite == TransferInv => Moved \subseteq Round \X Part /\ IsFiniteSet(Moved)
  <1> SUFFICES ASSUME TransferInv PROVE Moved \subseteq Round \X Part /\ IsFiniteSet(Moved)
    OBVIOUS
  <1>1. Moved \subseteq Round \X Part
    BY DEF Moved, TransferInv, Bounded
  <1>2. IsFiniteSet(Round) /\ IsFiniteSet(Part)
    <2>1. Rounds \in Int /\ job.parts - 1 \in Int
      BY TransferAssumption DEF TransferInv, JobInv
    <2> QED
      BY <2>1, FS_Interval DEF Round, Part
  <1>3. IsFiniteSet(Round \X Part)
    BY <1>2, FS_Product
  <1> QED
    BY <1>1, <1>3, FS_Subset

LEMMA OnceMore == ASSUME NEW n \in Nat, NEW x \in Nat PROVE (n + 1) * x = n * x + x /\ n * x \in Nat
  OBVIOUS

(* One part more is its bytes more.                                         *)
LEMMA BytesOfOneMore ==
  ASSUME TransferInv, NEW S, IsFiniteSet(S), NEW r, NEW p \in Part, <<r, p>> \notin S
  PROVE  Bytes(S \cup {<<r, p>>}) = Bytes(S) + PartLen(job.size, job.part, p)
  <1> DEFINE c == <<r, p>>
             T == S \cup {c}
             n == Cardinality(S \ Final(S))
             m == Cardinality(Final(S))
             last == PartLen(job.size, job.part, job.parts - 1)
  <1>1. IsFiniteSet(Final(S)) /\ IsFiniteSet(S \ Final(S)) /\ n \in Nat /\ m \in Nat
    BY FS_Subset, FS_CardinalityType DEF Final
  <1>2. /\ job.part \in Nat /\ PartLen(job.size, job.part, p) \in Nat
        /\ p # job.parts - 1 => PartLen(job.size, job.part, p) = job.part
    BY PartBytes DEF TransferInv, JobInv
  <1>3. CASE p = job.parts - 1
    <2>1. Final(T) = Final(S) \cup {c} /\ T \ Final(T) = S \ Final(S) /\ c \notin Final(S)
      BY <1>3 DEF Final
    <2>2. Cardinality(Final(T)) = m + 1 /\ Cardinality(T \ Final(T)) = n
      BY <1>1, <2>1, FS_AddElement
    <2> HIDE DEF n, m, last, T
    <2>3. Bytes(T) = n * job.part + (m + 1) * last /\ Bytes(S) = n * job.part + m * last
      BY <2>2 DEF Bytes, n, m, last
    <2>4. last \in Nat /\ last = PartLen(job.size, job.part, p)
      BY <1>2, <1>3 DEF last
    <2>5. n * job.part \in Nat
      BY <1>1, <1>2
    <2>6. (m + 1) * last = m * last + last /\ m * last \in Nat
      BY <1>1, <2>4, OnceMore
    <2> QED
      BY <2>3, <2>4, <2>5, <2>6 DEF T
  <1>4. CASE p # job.parts - 1
    <2>1. /\ Final(T) = Final(S) /\ T \ Final(T) = (S \ Final(S)) \cup {c}
          /\ c \notin S \ Final(S)
      BY <1>4 DEF Final
    <2>2. Cardinality(Final(T)) = m /\ Cardinality(T \ Final(T)) = n + 1
      BY <1>1, <2>1, FS_AddElement
    <2>3. last \in Nat
      <3>1. job.parts - 1 \in Part
        BY DEF TransferInv, JobInv, Part
      <3> QED
        BY <3>1, PartBytes DEF TransferInv
    <2> HIDE DEF n, m, last, T
    <2>4. Bytes(T) = (n + 1) * job.part + m * last /\ Bytes(S) = n * job.part + m * last
      BY <2>2 DEF Bytes, n, m, last
    <2>5. m * last \in Nat
      BY <1>1, <2>3
    <2>6. (n + 1) * job.part = n * job.part + job.part /\ n * job.part \in Nat
      BY <1>1, <1>2, OnceMore
    <2> QED
      BY <1>2, <1>4, <2>4, <2>5, <2>6 DEF T
  <1> QED
    BY <1>3, <1>4

LEMMA ProgressStep == TransferInv /\ ProgressInv /\ [Next]_vars => ProgressInv'
  <1> SUFFICES ASSUME TransferInv, ProgressInv, [Next]_vars PROVE ProgressInv'
    OBVIOUS
  <1>1. job' = job
    BY JobStays DEF TransferInv
  <1>2. ASSUME UNCHANGED <<base, got>>, handle'.done = handle.done PROVE ProgressInv'
    BY <1>1, <1>2 DEF ProgressInv, ProgressExact, Moved, Bytes, Final
  <1>3. ASSUME NEW r \in Round, Begin(r) PROVE ProgressInv'
    <2>1. base' = Moved /\ Moved' = Moved /\ handle'.done = 0
      BY <1>3 DEF Begin, Moved, TransferInv, Bounded
    <2>2. (Moved \ base)' = {} /\ Final({}) = {} /\ Final({})' = {}
      BY <2>1 DEF Final
    <2>3. job.part \in Int /\ PartLen(job.size, job.part, job.parts - 1) \in Int
      BY DEF TransferInv, JobInv, PartLen, Smaller
    <2>4. Bytes({})' = 0
      <3>1. Cardinality({} \ Final({})) = 0 /\ Cardinality(Final({})) = 0
        BY <2>2, FS_EmptySet
      <3>2. Bytes({}) = 0
        BY <2>3, <3>1 DEF Bytes
      <3> QED
        BY <1>1, <3>2 DEF Bytes, Final
    <2> QED
      BY <2>1, <2>2, <2>4 DEF ProgressInv, ProgressExact
  <1>4. ASSUME NEW w \in Worker, Work(w) PROVE ProgressInv'
    <2>1. base' = base /\ w[1] \in Round
      BY <1>4, WorkerRound DEF Work, Poll, Submit, Filled, Got, WaitFails, Refused, WaitMigrates,
         DeadWait, Claim, Done, TryFails, TryMigrates, Chunk, ChunkFails, Kept
    <2>2. CASE UNCHANGED <<got, handle>>
      BY <1>2, <2>1, <2>2
    <2>3. ASSUME NEW p \in Part, Settles(w, p) PROVE ProgressInv'
      <3>1. p \notin got[w[1]]
        BY <1>4, <2>3, SettlesFresh
      <3>2. CASE Skip(w, p)
        BY <1>2, <2>1, <3>2 DEF Skip
      <3>3. CASE Take(w, p)
        <4>1. /\ got' = [got EXCEPT ![w[1]] = @ \cup {p}]
              /\ handle'.done = handle.done + PartLen(job.size, job.part, p)
          BY <3>3 DEF Take, TransferInv, Bounded
        <4>2. Moved' = Moved \cup {<<w[1], p>>} /\ <<w[1], p>> \notin Moved
          BY <2>1, <3>1, <4>1 DEF Moved, TransferInv, Bounded
        <4>3. base \subseteq Moved /\ (Moved \ base)' = (Moved \ base) \cup {<<w[1], p>>}
          BY <2>1, <4>2 DEF ProgressInv, ProgressExact
        <4>4. Bytes((Moved \ base) \cup {<<w[1], p>>})
                = Bytes(Moved \ base) + PartLen(job.size, job.part, p)
          BY <4>2, MovedFinite, FS_Subset, BytesOfOneMore
        <4>5. handle'.done = Bytes((Moved \ base)')
          BY <4>1, <4>3, <4>4 DEF ProgressInv, ProgressExact
        <4>6. handle'.done = Bytes(Moved \ base)'
          BY <1>1, <4>5 DEF Bytes, Final
        <4> QED
          BY <2>1, <4>2, <4>3, <4>6 DEF ProgressInv, ProgressExact
      <3> QED
        BY <2>3, <3>2, <3>3 DEF Settles
    <2> QED
      BY <1>4, <2>2, <2>3, WorkSettles DEF TransferInv
  <1>5. CASE \/ Pause \/ Resume \/ CancelHandle \/ UNCHANGED vars
            \/ \E w \in Worker : ConnDies(w)
    <2>1. UNCHANGED <<base, got>> /\ handle'.done = handle.done
      BY <1>5 DEF Pause, Resume, CancelHandle, Control, ConnDies, Same, Kept, vars,
                  TransferInv, Bounded
    <2> QED
      BY <1>2, <2>1
  <1>6. ASSUME NEW r \in Round, CancelTask(r) PROVE ProgressInv'
    BY <1>2, <1>6 DEF CancelTask
  <1> QED
    BY <1>3, <1>4, <1>5, <1>6 DEF Next

(* The progress a handle shows is the bytes of the parts transferred since  *)
(* its last reset, each counted once, for files of any size, through any    *)
(* number of retries, redirects and workers left behind by an earlier call. *)
THEOREM TransferProgress == Spec => []ProgressExact
  <1>1. Init => ProgressInv
    <2> SUFFICES ASSUME Init PROVE ProgressInv
      OBVIOUS
    <2>1. Moved = {} /\ base = {} /\ handle.done = 0 /\ Final({}) = {}
      BY DEF Init, Moved, Final
    <2>2. job.part \in Int /\ PartLen(job.size, job.part, job.parts - 1) \in Int
      BY InitJob DEF JobInv, PartLen, Smaller
    <2>3. Bytes({}) = 0
      <3>1. Cardinality({} \ Final({})) = 0 /\ Cardinality(Final({})) = 0
        BY <2>1, FS_EmptySet
      <3> QED
        BY <2>2, <3>1 DEF Bytes
    <2> QED
      BY <2>1, <2>3 DEF ProgressInv, ProgressExact
  <1>2. ProgressInv => ProgressExact
    BY DEF ProgressInv, ProgressExact
  <1> QED
    BY <1>1, <1>2, TransferInductive, ProgressStep, PTL DEF Spec

----------------------------------------------------------------------------
(* The slots of the transfers: TransferPool, for any set of transfers, any  *)
(* number of permits and whatever each transfer asks for.                   *)

PoolTyped ==
  /\ stage \in [Transfers -> Phases]
  /\ held \in [Transfers -> Nat]
  /\ free \in Nat
  /\ line \in Seq(Transfers)
  /\ live \in [Transfers -> Nat] /\ orphans \in [Transfers -> Nat]

(* What a transfer has at each place: one that waits for a permit lacks     *)
(* one, one whose connection is being made has it, one that is over has     *)
(* none.                                                                    *)
Entitled == \A t \in Transfers :
  /\ held[t] <= Want[t]
  /\ stage[t] \in Ended \cup {"new"} => held[t] = 0
  /\ stage[t] = "opening" => held[t] > 0
  /\ stage[t] = "queued" => held[t] < Want[t]
  /\ stage[t] = "working" => live[t] > 0

(* Those who wait are in the line, each of them once.                       *)
InLine ==
  /\ \A t \in Transfers : stage[t] = "queued" <=> \E i \in 1 .. Len(line) : line[i] = t
  /\ \A i, j \in 1 .. Len(line) : line[i] = line[j] => i = j

(* The permits of all transfers, numbered within each.                      *)
PairsOf(s) == UNION {{t} \X (1 .. s[t]) : t \in Transfers}

Counted ==
  /\ IsFiniteSet(PairsOf(held))
  /\ free + Cardinality(PairsOf(held)) = MaxConns

PoolInv == PoolTyped /\ Entitled /\ InLine /\ Counted

LEMMA PairsAre ==
  ASSUME NEW s \in [Transfers -> Nat], NEW x
  PROVE  x \in PairsOf(s) <=>
           \E t \in Transfers, k \in Nat : k > 0 /\ k <= s[t] /\ x = <<t, k>>
  BY DEF PairsOf

LEMMA PairsOfOne ==
  ASSUME NEW t, NEW n \in Nat
  PROVE  /\ IsFiniteSet({t} \X (1 .. n))
         /\ Cardinality({t} \X (1 .. n)) = n
  <1>1. IsFiniteSet(1 .. n) /\ Cardinality(1 .. n) = n
    BY FS_Interval
  <1>2. IsFiniteSet({t}) /\ Cardinality({t}) = 1
    BY FS_Singleton
  <1>3. IsFiniteSet({t} \X (1 .. n)) /\ Cardinality({t} \X (1 .. n)) = 1 * n
    BY <1>1, <1>2, FS_Product
  <1> QED
    BY <1>3

(* One transfer's share is replaced: the others' stay as they are.          *)
LEMMA ShareReplaced ==
  ASSUME NEW s \in [Transfers -> Nat], NEW t \in Transfers, NEW n \in Nat,
         IsFiniteSet(PairsOf(s))
  PROVE  LET after == PairsOf([s EXCEPT ![t] = n])
         IN  /\ IsFiniteSet(after)
             /\ Cardinality(after) = Cardinality(PairsOf(s)) - s[t] + n
  <1> DEFINE s2 == [s EXCEPT ![t] = n]
             A == {t} \X (1 .. s[t])
             B == {t} \X (1 .. n)
             R == PairsOf(s) \ A
  <1>1. s2 \in [Transfers -> Nat] /\ \A u \in Transfers : s2[u] = IF u = t THEN n ELSE s[u]
    OBVIOUS
  <1> HIDE DEF s2
  <1>2. PairsOf(s) = R \cup A
    BY DEF PairsOf
  <1>3. PairsOf(s2) = R \cup B
    <2>1. ASSUME NEW x \in PairsOf(s2) PROVE x \in R \cup B
      <3>1. PICK u \in Transfers, k \in Nat : k > 0 /\ k <= s2[u] /\ x = <<u, k>>
        BY <1>1, <2>1, PairsAre
      <3>2. CASE u = t
        <4>1. k \in 1 .. n /\ x = <<t, k>>
          BY <3>1, <3>2, <1>1
        <4> QED
          BY <4>1
      <3>3. CASE u # t
        <4>1. x \in PairsOf(s)
          BY <3>1, <3>3, <1>1, PairsAre
        <4>2. x \notin A
          BY <3>1, <3>3
        <4> QED
          BY <4>1, <4>2
      <3> QED
        BY <3>2, <3>3
    <2>2. ASSUME NEW x \in R \cup B PROVE x \in PairsOf(s2)
      <3>1. CASE x \in B
        <4>1. PICK k \in 1 .. n : x = <<t, k>>
          BY <3>1
        <4> QED
          BY <4>1, <1>1, PairsAre
      <3>2. CASE x \in R
        <4>1. PICK u \in Transfers, k \in Nat : k > 0 /\ k <= s[u] /\ x = <<u, k>>
          BY <3>2, PairsAre
        <4>2. u # t
          BY <3>2, <4>1
        <4> QED
          BY <4>1, <4>2, <1>1, PairsAre
      <3> QED
        BY <2>2, <3>1, <3>2
    <2> QED
      BY <2>1, <2>2
  <1>4. R \cap A = {}
    OBVIOUS
  <1>5. R \cap B = {}
    <2> SUFFICES ASSUME NEW x \in R, x \in B PROVE FALSE
      OBVIOUS
    <2>1. PICK u \in Transfers, k \in Nat : k > 0 /\ k <= s[u] /\ x = <<u, k>>
      BY PairsAre
    <2> QED
      BY <2>1
  <1>6. IsFiniteSet(R)
    BY FS_Difference
  <1>7. IsFiniteSet(A) /\ Cardinality(A) = s[t] /\ IsFiniteSet(B) /\ Cardinality(B) = n
    <2>1. s[t] \in Nat
      OBVIOUS
    <2> QED
      BY <2>1, PairsOfOne
  <1> HIDE DEF A, B, R
  <1>8. Cardinality(R) \in Nat /\ Cardinality({}) = 0
    BY <1>6, FS_CardinalityType, FS_EmptySet
  <1>9. Cardinality(PairsOf(s)) = Cardinality(R) + Cardinality(A) - Cardinality({})
    BY <1>2, <1>4, <1>6, <1>7, FS_Union
  <1>10. IsFiniteSet(PairsOf(s2)) /\ Cardinality(PairsOf(s2)) = Cardinality(R) + Cardinality(B) - Cardinality({})
    BY <1>3, <1>5, <1>6, <1>7, FS_Union
  <1>11. s[t] \in Nat
    OBVIOUS
  <1> QED
    BY <1>7, <1>8, <1>9, <1>10, <1>11 DEF s2

(* A transfer's permits change by as many as the semaphore's value.         *)
LEMMA CountMoves ==
  ASSUME PoolTyped, Counted, NEW t \in Transfers, NEW n \in Nat,
         held' = [held EXCEPT ![t] = n], free' = free + held[t] - n
  PROVE  Counted'
  <1>1. held \in [Transfers -> Nat] /\ held[t] \in Nat /\ free \in Nat
    BY DEF PoolTyped
  <1>2. /\ IsFiniteSet(PairsOf(held'))
        /\ Cardinality(PairsOf(held')) = Cardinality(PairsOf(held)) - held[t] + n
    BY <1>1, ShareReplaced DEF Counted
  <1>3. Cardinality(PairsOf(held)) \in Nat
    BY FS_CardinalityType DEF Counted
  <1> QED
    BY <1>1, <1>2, <1>3, PoolAssumption DEF Counted

(* The line when nobody joins or leaves it.                                 *)
LEMMA LineStays ==
  ASSUME PoolTyped, InLine, NEW t \in Transfers, NEW p, Enter(t, p),
         stage[t] # "queued", p # "queued", line' = line
  PROVE  InLine'
  <1>1. \A u \in Transfers : stage'[u] = IF u = t THEN p ELSE stage[u]
    BY DEF PoolTyped, Enter
  <1> QED
    BY <1>1 DEF InLine

LEMMA BeginSlots ==
  ASSUME PoolInv, NEW t \in Transfers, BeginTransfer(t)
  PROVE  PoolInv'
  <1>1. /\ stage[t] = "new" /\ Enter(t, "asking")
        /\ UNCHANGED <<held, free, line, live, orphans>>
    BY DEF BeginTransfer
  <1>2. PoolTyped'
    BY <1>1 DEF PoolInv, PoolTyped, Enter, Phases
  <1>3. Entitled'
    BY <1>1 DEF PoolInv, PoolTyped, Entitled, Enter, Ended
  <1>4. InLine'
    BY <1>1, LineStays DEF PoolInv
  <1>5. Counted'
    BY <1>1 DEF PoolInv, Counted
  <1> QED
    BY <1>2, <1>3, <1>4, <1>5 DEF PoolInv

(* A permit is taken: by who came first, or by who is asked next.           *)
LEMMA TakeSlot ==
  ASSUME PoolInv, NEW t \in Transfers, held[t] < Want[t],
         free > 0, free' = free - 1, held' = [held EXCEPT ![t] = @ + 1],
         Enter(t, "opening"), UNCHANGED <<live, orphans>>, line' \in Seq(Transfers)
  PROVE  PoolTyped' /\ Entitled' /\ Counted'
  <1>1. held \in [Transfers -> Nat] /\ held[t] \in Nat /\ free \in Nat
    BY DEF PoolInv, PoolTyped
  <1>2. PoolTyped'
    BY <1>1 DEF PoolInv, PoolTyped, Enter, Phases
  <1>3. Entitled'
    <2> SUFFICES ASSUME NEW u \in Transfers
                 PROVE  /\ held'[u] <= Want[u]
                        /\ stage'[u] \in Ended \cup {"new"} => held'[u] = 0
                        /\ stage'[u] = "opening" => held'[u] > 0
                        /\ stage'[u] = "queued" => held'[u] < Want[u]
                        /\ stage'[u] = "working" => live'[u] > 0
      BY DEF Entitled
    <2>1. Want[u] \in Nat
      BY PoolAssumption
    <2>2. CASE u = t
      BY <1>1, <2>1, <2>2 DEF PoolInv, PoolTyped, Enter, Ended
    <2>3. CASE u # t
      BY <2>3 DEF PoolInv, PoolTyped, Entitled, Enter
    <2> QED
      BY <2>2, <2>3
  <1>4. Counted'
    <2>1. /\ held[t] + 1 \in Nat /\ held' = [held EXCEPT ![t] = held[t] + 1]
          /\ free' = free + held[t] - (held[t] + 1)
      BY <1>1
    <2> QED
      BY <2>1, CountMoves DEF PoolInv
  <1> QED
    BY <1>2, <1>3, <1>4

LEMMA AcquireSlots ==
  ASSUME PoolInv, NEW t \in Transfers, Acquire(t)
  PROVE  PoolInv'
  <1>1. /\ stage[t] = "asking" /\ held[t] < Want[t]
        /\ UNCHANGED <<live, orphans>>
    BY DEF Acquire
  <1>2. CASE free > 0 /\ line = <<>>
    <2>1. /\ free' = free - 1 /\ held' = [held EXCEPT ![t] = @ + 1]
          /\ Enter(t, "opening") /\ line' = line
      BY <1>2 DEF Acquire
    <2>2. PoolTyped' /\ Entitled' /\ Counted'
      BY <1>1, <1>2, <2>1, TakeSlot DEF PoolInv, PoolTyped
    <2>3. InLine'
      BY <1>1, <2>1, LineStays DEF PoolInv
    <2> QED
      BY <2>2, <2>3 DEF PoolInv
  <1>3. CASE ~(free > 0 /\ line = <<>>)
    <2>1. /\ line' = Append(line, t) /\ Enter(t, "queued")
          /\ UNCHANGED <<free, held>>
      BY <1>3 DEF Acquire
    <2>2. /\ line' \in Seq(Transfers) /\ Len(line') = Len(line) + 1 /\ Len(line) \in Nat
          /\ \A i \in 1 .. Len(line) : line'[i] = line[i]
          /\ line'[Len(line) + 1] = t
      BY <2>1, AppendProperties, LenProperties DEF PoolInv, PoolTyped
    <2>3. PoolTyped'
      BY <1>1, <2>1, <2>2 DEF PoolInv, PoolTyped, Enter, Phases
    <2>4. Entitled'
      BY <1>1, <2>1 DEF PoolInv, PoolTyped, Entitled, Enter, Ended
    <2>5. InLine'
      <3>1. \A u \in Transfers : stage'[u] = IF u = t THEN "queued" ELSE stage[u]
        BY <2>1 DEF PoolInv, PoolTyped, Enter
      <3>2. \A i \in 1 .. Len(line) : line[i] # t
        BY <1>1 DEF PoolInv, InLine
      <3>3. \A u \in Transfers : stage'[u] = "queued" <=> \E i \in 1 .. Len(line') : line'[i] = u
        BY <2>2, <3>1, <3>2 DEF PoolInv, InLine
      <3>4. \A i, j \in 1 .. Len(line') : line'[i] = line'[j] => i = j
        BY <2>2, <3>2 DEF PoolInv, InLine
      <3> QED
        BY <3>3, <3>4 DEF InLine
    <2>6. Counted'
      BY <2>1 DEF PoolInv, Counted
    <2> QED
      BY <2>3, <2>4, <2>5, <2>6 DEF PoolInv
  <1> QED
    BY <1>2, <1>3

LEMMA WokenSlots ==
  ASSUME PoolInv, NEW t \in Transfers, Woken(t)
  PROVE  PoolInv'
  <1>1. /\ stage[t] = "queued" /\ Head(line) = t /\ free > 0
        /\ free' = free - 1 /\ line' = Tail(line) /\ held' = [held EXCEPT ![t] = @ + 1]
        /\ Enter(t, "opening") /\ UNCHANGED <<live, orphans>>
    BY DEF Woken
  <1>2. line \in Seq(Transfers) /\ line # <<>> /\ Len(line) \in Nat /\ Head(line) = line[1]
    <2>1. line \in Seq(Transfers) /\ Len(line) \in Nat
      BY LenProperties DEF PoolInv, PoolTyped
    <2>2. \E i \in 1 .. Len(line) : TRUE
      BY <1>1 DEF PoolInv, InLine
    <2> QED
      BY <2>1, <2>2
  <1>3. /\ line' \in Seq(Transfers) /\ Len(line') = Len(line) - 1
        /\ \A i \in 1 .. Len(line') : line'[i] = line[i + 1]
    BY <1>1, <1>2, HeadTailProperties
  <1>4. PoolTyped' /\ Entitled' /\ Counted'
    BY <1>1, <1>3, TakeSlot DEF PoolInv, Entitled
  <1>5. InLine'
    <2>1. \A u \in Transfers : stage'[u] = IF u = t THEN "opening" ELSE stage[u]
      BY <1>1 DEF PoolInv, PoolTyped, Enter
    <2>2. \A i \in 2 .. Len(line) : line[i] # t
      BY <1>1, <1>2 DEF PoolInv, InLine
    <2>3. ASSUME NEW u \in Transfers
          PROVE  stage'[u] = "queued" <=> \E i \in 1 .. Len(line') : line'[i] = u
      <3>1. ASSUME stage'[u] = "queued" PROVE \E i \in 1 .. Len(line') : line'[i] = u
        <4>1. PICK i \in 1 .. Len(line) : line[i] = u
          BY <2>1, <3>1 DEF PoolInv, InLine
        <4>2. i # 1
          BY <1>1, <1>2, <2>1, <3>1, <4>1
        <4>3. i - 1 \in 1 .. Len(line') /\ (i - 1) + 1 = i
          BY <1>2, <1>3, <4>2
        <4> QED
          BY <1>3, <4>1, <4>3
      <3>2. ASSUME NEW i \in 1 .. Len(line'), line'[i] = u PROVE stage'[u] = "queued"
        <4>1. i + 1 \in 2 .. Len(line) /\ line[i + 1] = u
          BY <1>2, <1>3, <3>2
        <4>2. u # t
          BY <2>2, <4>1
        <4> QED
          BY <1>2, <2>1, <4>1, <4>2 DEF PoolInv, InLine
      <3> QED
        BY <3>1, <3>2
    <2>4. ASSUME NEW i \in 1 .. Len(line'), NEW j \in 1 .. Len(line'), line'[i] = line'[j]
          PROVE  i = j
      <3>1. i + 1 \in 1 .. Len(line) /\ j + 1 \in 1 .. Len(line) /\ line[i + 1] = line[j + 1]
        BY <1>2, <1>3, <2>4
      <3>2. i + 1 = j + 1
        BY <3>1 DEF PoolInv, InLine
      <3> QED
        BY <3>2
    <2> QED
      BY <2>3, <2>4 DEF InLine
  <1> QED
    BY <1>4, <1>5 DEF PoolInv

LEMMA OpenSucceedsSlots ==
  ASSUME PoolInv, NEW t \in Transfers, OpenSucceeds(t)
  PROVE  PoolInv'
  <1>1. /\ stage[t] = "opening" /\ Enter(t, "asking")
        /\ UNCHANGED <<held, free, line, live, orphans>>
    BY DEF OpenSucceeds
  <1>2. PoolTyped'
    BY <1>1 DEF PoolInv, PoolTyped, Enter, Phases
  <1>3. Entitled'
    BY <1>1 DEF PoolInv, PoolTyped, Entitled, Enter, Ended
  <1>4. InLine'
    BY <1>1, LineStays DEF PoolInv
  <1>5. Counted'
    BY <1>1 DEF PoolInv, Counted
  <1> QED
    BY <1>2, <1>3, <1>4, <1>5 DEF PoolInv

LEMMA OpenFailsSlots ==
  ASSUME PoolInv, NEW t \in Transfers, OpenFails(t)
  PROVE  PoolInv'
  <1>1. /\ stage[t] = "opening" /\ Enter(t, "starting")
        /\ held' = [held EXCEPT ![t] = held[t] - 1] /\ free' = free + 1
        /\ UNCHANGED <<line, live, orphans>>
    BY DEF OpenFails
  <1>2. /\ held \in [Transfers -> Nat] /\ held[t] \in Nat /\ held[t] - 1 \in Nat
        /\ free \in Nat /\ Want[t] \in Nat
    <2>1. held \in [Transfers -> Nat] /\ free \in Nat /\ held[t] > 0
      BY <1>1 DEF PoolInv, PoolTyped, Entitled
    <2>2. Want[t] \in Nat
      BY PoolAssumption
    <2>3. held[t] \in Nat /\ held[t] - 1 \in Nat
      BY <2>1
    <2> QED
      BY <2>1, <2>2, <2>3
  <1>3. PoolTyped'
    BY <1>1, <1>2 DEF PoolInv, PoolTyped, Enter, Phases
  <1>4. Entitled'
    BY <1>1, <1>2 DEF PoolInv, PoolTyped, Entitled, Enter, Ended
  <1>5. InLine'
    BY <1>1, LineStays DEF PoolInv
  <1>6. Counted'
    <2>1. free' = free + held[t] - (held[t] - 1)
      BY <1>1, <1>2
    <2> QED
      BY <1>1, <1>2, <2>1, CountMoves DEF PoolInv
  <1> QED
    BY <1>3, <1>4, <1>5, <1>6 DEF PoolInv

LEMMA StartSlots ==
  ASSUME PoolInv, NEW t \in Transfers, Start(t)
  PROVE  PoolInv'
  <1>1. /\ stage[t] \in {"starting", "asking"} /\ Enter(t, "working")
        /\ live' = [live EXCEPT ![t] = IF held[t] = 0 THEN 1 ELSE held[t]]
        /\ UNCHANGED <<held, free, line, orphans>>
    BY DEF Start
  <1>2. held[t] \in Nat
    BY DEF PoolInv, PoolTyped
  <1>3. PoolTyped'
    BY <1>1, <1>2 DEF PoolInv, PoolTyped, Enter, Phases
  <1>4. Entitled'
    BY <1>1, <1>2 DEF PoolInv, PoolTyped, Entitled, Enter, Ended
  <1>5. InLine'
    BY <1>1, LineStays DEF PoolInv
  <1>6. Counted'
    BY <1>1 DEF PoolInv, Counted
  <1> QED
    BY <1>3, <1>4, <1>5, <1>6 DEF PoolInv

(* A transfer is over: whatever it had is free again.                       *)
LEMMA CloseSlots ==
  ASSUME PoolInv, NEW t \in Transfers, NEW p \in Ended,
         Close(t), Enter(t, p), live' \in [Transfers -> Nat],
         \A u \in Transfers \ {t} : live'[u] = live[u],
         orphans' \in [Transfers -> Nat], line' \in Seq(Transfers)
  PROVE  PoolTyped' /\ Entitled' /\ Counted'
  <1>1. held' = [held EXCEPT ![t] = 0] /\ free' = free + held[t]
    BY DEF Close
  <1>2. held \in [Transfers -> Nat] /\ held[t] \in Nat /\ free \in Nat
    BY DEF PoolInv, PoolTyped
  <1>3. PoolTyped'
    BY <1>1, <1>2 DEF PoolInv, PoolTyped, Enter, Phases, Ended
  <1>4. Entitled'
    <2> SUFFICES ASSUME NEW u \in Transfers
                 PROVE  /\ held'[u] <= Want[u]
                        /\ stage'[u] \in Ended \cup {"new"} => held'[u] = 0
                        /\ stage'[u] = "opening" => held'[u] > 0
                        /\ stage'[u] = "queued" => held'[u] < Want[u]
                        /\ stage'[u] = "working" => live'[u] > 0
      BY DEF Entitled
    <2>1. Want[u] \in Nat
      BY PoolAssumption
    <2>2. CASE u = t
      BY <1>1, <1>2, <2>1, <2>2 DEF PoolInv, PoolTyped, Enter, Ended
    <2>3. CASE u # t
      BY <1>1, <2>3 DEF PoolInv, PoolTyped, Entitled, Enter
    <2> QED
      BY <2>2, <2>3
  <1>5. Counted'
    <2>1. free' = free + held[t] - 0
      BY <1>1, <1>2
    <2> QED
      BY <1>1, <2>1, CountMoves DEF PoolInv
  <1> QED
    BY <1>3, <1>4, <1>5

LEMMA WorkerReturnsSlots ==
  ASSUME PoolInv, NEW t \in Transfers, WorkerReturns(t)
  PROVE  PoolInv'
  <1>1. /\ stage[t] = "working" /\ live' = [live EXCEPT ![t] = live[t] - 1]
        /\ UNCHANGED <<line, orphans>>
    BY DEF WorkerReturns
  <1>2. live \in [Transfers -> Nat] /\ live[t] \in Nat /\ live[t] > 0
    BY <1>1 DEF PoolInv, PoolTyped, Entitled
  <1>3. live' \in [Transfers -> Nat] /\ \A u \in Transfers \ {t} : live'[u] = live[u]
    BY <1>1, <1>2
  <1>4. CASE live[t] = 1
    <2>1. Close(t) /\ Enter(t, "done")
      BY <1>4 DEF WorkerReturns
    <2>2. "done" \in Ended
      BY DEF Ended
    <2>3. PoolTyped' /\ Entitled' /\ Counted'
      BY <1>1, <1>3, <2>1, <2>2, CloseSlots DEF PoolInv, PoolTyped
    <2>4. InLine'
      BY <1>1, <2>1, LineStays DEF PoolInv
    <2> QED
      BY <2>3, <2>4 DEF PoolInv
  <1>5. CASE live[t] # 1
    <2>1. UNCHANGED <<held, free, stage>>
      BY <1>5 DEF WorkerReturns
    <2>2. live'[t] > 0
      BY <1>1, <1>2, <1>5
    <2> QED
      BY <1>1, <1>3, <2>1, <2>2 DEF PoolInv, PoolTyped, Entitled, InLine, Counted
  <1> QED
    BY <1>4, <1>5

LEMMA WorkerRaisesSlots ==
  ASSUME PoolInv, NEW t \in Transfers, WorkerRaises(t)
  PROVE  PoolInv'
  <1>1. /\ stage[t] = "working" /\ Close(t) /\ Enter(t, "failed")
        /\ orphans' = [orphans EXCEPT ![t] = live[t] - 1]
        /\ live' = [live EXCEPT ![t] = 0] /\ line' = line
    BY DEF WorkerRaises
  <1>2. /\ live \in [Transfers -> Nat] /\ live[t] - 1 \in Nat
        /\ orphans \in [Transfers -> Nat]
    BY <1>1 DEF PoolInv, PoolTyped, Entitled
  <1>3. /\ live' \in [Transfers -> Nat] /\ \A u \in Transfers \ {t} : live'[u] = live[u]
        /\ orphans' \in [Transfers -> Nat]
    BY <1>1, <1>2
  <1>4. "failed" \in Ended
    BY DEF Ended
  <1>5. PoolTyped' /\ Entitled' /\ Counted'
    BY <1>1, <1>3, <1>4, CloseSlots DEF PoolInv, PoolTyped
  <1>6. InLine'
    BY <1>1, LineStays DEF PoolInv
  <1> QED
    BY <1>5, <1>6 DEF PoolInv

LEMMA OrphanEndsSlots ==
  ASSUME PoolInv, NEW t \in Transfers, OrphanEnds(t)
  PROVE  PoolInv'
  <1>1. /\ orphans[t] > 0 /\ orphans' = [orphans EXCEPT ![t] = orphans[t] - 1]
        /\ UNCHANGED <<stage, held, free, line, live>>
    BY DEF OrphanEnds
  <1>2. orphans' \in [Transfers -> Nat]
    <2>1. orphans \in [Transfers -> Nat] /\ orphans[t] - 1 \in Nat
      BY <1>1 DEF PoolInv, PoolTyped
    <2> QED
      BY <1>1, <2>1
  <1> QED
    BY <1>1, <1>2 DEF PoolInv, PoolTyped, Entitled, InLine, Counted

(* What is left of a sequence of which one element is taken.                *)
LEMMA LineWithout ==
  ASSUME NEW S, NEW s \in Seq(S), NEW i \in 1 .. Len(s)
  PROVE  /\ RemoveAt(s, i) \in Seq(S) /\ Len(RemoveAt(s, i)) = Len(s) - 1
         /\ \A j \in 1 .. Len(s) - 1 :
              RemoveAt(s, i)[j] = IF j < i THEN s[j] ELSE s[j + 1]
  <1> DEFINE front == SubSeq(s, 1, i - 1)
             back == SubSeq(s, i + 1, Len(s))
  <1>1. Len(s) \in Nat /\ i - 1 \in Int /\ i + 1 \in Int
    BY LenProperties
  <1>2. \A j \in 1 .. Len(s) : s[j] \in S
    BY ElementOfSeq
  <1>3. /\ front \in Seq(S) /\ Len(front) = i - 1
        /\ \A j \in 1 .. i - 1 : front[j] = s[j]
    <2>1. \A j \in 1 .. i - 1 : s[j] \in S
      BY <1>1, <1>2
    <2>2. /\ front \in Seq(S) /\ Len(front) = IF 1 <= i - 1 THEN (i - 1) - 1 + 1 ELSE 0
          /\ \A j \in 1 .. (i - 1) - 1 + 1 : front[j] = s[1 + j - 1]
      BY <1>1, <2>1, SubSeqProperties
    <2>3. (i - 1) - 1 + 1 = i - 1 /\ (1 <= i - 1 \/ i - 1 = 0)
      BY <1>1
    <2>4. \A j \in Int : 1 + j - 1 = j
      OBVIOUS
    <2> HIDE DEF front
    <2> QED
      BY <2>2, <2>3, <2>4
  <1>4. /\ back \in Seq(S) /\ Len(back) = Len(s) - i
        /\ \A j \in 1 .. Len(s) - i : back[j] = s[i + j]
    <2>1. \A j \in i + 1 .. Len(s) : s[j] \in S
      BY <1>1, <1>2
    <2>2. /\ back \in Seq(S)
          /\ Len(back) = IF i + 1 <= Len(s) THEN Len(s) - (i + 1) + 1 ELSE 0
          /\ \A j \in 1 .. Len(s) - (i + 1) + 1 : back[j] = s[(i + 1) + j - 1]
      BY <1>1, <2>1, SubSeqProperties
    <2>3. /\ Len(s) - (i + 1) + 1 = Len(s) - i
          /\ i + 1 <= Len(s) \/ Len(s) - i = 0
      BY <1>1
    <2> HIDE DEF back
    <2>4. Len(back) = Len(s) - i
      BY <2>2, <2>3
    <2>5. ASSUME NEW j \in 1 .. Len(s) - i PROVE back[j] = s[i + j]
      <3>1. back[j] = s[(i + 1) + j - 1]
        BY <2>2, <2>3
      <3>2. (i + 1) + j - 1 = i + j
        OBVIOUS
      <3> HIDE DEF front
      <3> QED
        BY <3>1, <3>2
    <2> QED
      BY <2>2, <2>4, <2>5
  <1> HIDE DEF front, back
  <1>5. /\ front \o back \in Seq(S) /\ Len(front \o back) = Len(front) + Len(back)
        /\ \A j \in 1 .. Len(front) + Len(back) :
             (front \o back)[j] = IF j <= Len(front) THEN front[j] ELSE back[j - Len(front)]
    BY <1>3, <1>4, ConcatProperties
  <1>6. RemoveAt(s, i) = front \o back
    BY DEF RemoveAt, front, back
  <1>7. ASSUME NEW j \in 1 .. Len(s) - 1
        PROVE  (front \o back)[j] = IF j < i THEN s[j] ELSE s[j + 1]
    <2>1. j \in 1 .. Len(front) + Len(back)
      BY <1>1, <1>3, <1>4
    <2>2. CASE j < i
      BY <1>1, <1>3, <1>5, <2>1, <2>2
    <2>3. CASE ~(j < i)
      <3>1. j - Len(front) \in 1 .. Len(s) - i /\ ~(j <= Len(front)) /\ i + (j - Len(front)) = j + 1
        BY <1>1, <1>3, <2>3
      <3> QED
        BY <1>4, <1>5, <2>1, <2>3, <3>1
    <2> QED
      BY <2>2, <2>3
  <1>8. Len(front \o back) = Len(s) - 1
    BY <1>1, <1>3, <1>4, <1>5
  <1> QED
    BY <1>5, <1>6, <1>7, <1>8

(* Leaving the line from anywhere in it keeps the others in it, once each.  *)
LEMMA OutOfLine ==
  ASSUME PoolTyped, InLine, NEW i \in 1 .. Len(line), NEW p, p # "queued",
         Enter(line[i], p), line' = RemoveAt(line, i)
  PROVE  InLine' /\ line' \in Seq(Transfers)
  <1> DEFINE n == Len(line)
  <1>1. line \in Seq(Transfers) /\ n \in Nat
    BY LenProperties DEF PoolTyped
  <1>2. \A j \in 1 .. n : line[j] \in Transfers
    BY <1>1, ElementOfSeq
  <1>3. /\ line' \in Seq(Transfers) /\ Len(line') = n - 1
        /\ \A j \in 1 .. n - 1 : line'[j] = IF j < i THEN line[j] ELSE line[j + 1]
    BY <1>1, LineWithout
  <1>4. \A u \in Transfers : stage'[u] = IF u = line[i] THEN p ELSE stage[u]
    BY <1>2 DEF PoolTyped, Enter
  <1>5. ASSUME NEW u \in Transfers
        PROVE  stage'[u] = "queued" <=> \E j \in 1 .. Len(line') : line'[j] = u
    <2>1. ASSUME stage'[u] = "queued" PROVE \E j \in 1 .. Len(line') : line'[j] = u
      <3>1. u # line[i] /\ stage[u] = "queued"
        BY <1>4, <2>1
      <3>2. PICK k \in 1 .. n : line[k] = u
        BY <3>1 DEF InLine
      <3>3. CASE k < i
        BY <1>1, <1>3, <3>2, <3>3
      <3>4. CASE ~(k < i)
        <4>1. k - 1 \in 1 .. n - 1 /\ ~(k - 1 < i) /\ (k - 1) + 1 = k
          BY <1>1, <3>1, <3>2, <3>4
        <4> QED
          BY <1>3, <3>2, <4>1
      <3> QED
        BY <3>3, <3>4
    <2>2. ASSUME NEW j \in 1 .. Len(line'), line'[j] = u PROVE stage'[u] = "queued"
      <3>1. PICK k \in 1 .. n : k # i /\ line[k] = u
        <4>1. CASE j < i
          BY <1>1, <1>3, <2>2, <4>1
        <4>2. CASE ~(j < i)
          <5>1. j + 1 \in 1 .. n /\ j + 1 # i /\ line[j + 1] = u
            BY <1>1, <1>3, <2>2, <4>2
          <5> QED
            BY <5>1
        <4> QED
          BY <4>1, <4>2
      <3>2. u # line[i] /\ stage[u] = "queued"
        BY <3>1 DEF InLine
      <3> QED
        BY <1>4, <3>2
    <2> QED
      BY <2>1, <2>2
  <1>6. ASSUME NEW j \in 1 .. Len(line'), NEW k \in 1 .. Len(line'), line'[j] = line'[k]
        PROVE  j = k
    <2> DEFINE at(m) == IF m < i THEN m ELSE m + 1
    <2>1. at(j) \in 1 .. n /\ at(k) \in 1 .. n /\ line[at(j)] = line[at(k)]
      BY <1>1, <1>3, <1>6
    <2>2. at(j) = at(k)
      <3> HIDE DEF at
      <3> QED
        BY <2>1 DEF InLine
    <2> QED
      BY <1>1, <1>3, <2>2
  <1> QED
    BY <1>3, <1>5, <1>6 DEF InLine

LEMMA CancelSlots ==
  ASSUME PoolInv, NEW t \in Transfers, Cancel(t)
  PROVE  PoolInv'
  <1>1. /\ Close(t) /\ Enter(t, "failed")
        /\ live' = [live EXCEPT ![t] = 0] /\ orphans' = orphans
    BY DEF Cancel
  <1>2. /\ live' \in [Transfers -> Nat] /\ \A u \in Transfers \ {t} : live'[u] = live[u]
        /\ orphans' \in [Transfers -> Nat]
    BY <1>1 DEF PoolInv, PoolTyped
  <1>3. InLine' /\ line' \in Seq(Transfers)
    <2>1. CASE stage[t] = "queued"
      <3>1. PICK i \in DOMAIN line : line[i] = t /\ line' = RemoveAt(line, i)
        BY <2>1 DEF Cancel
      <3>2. i \in 1 .. Len(line)
        BY <3>1, LenProperties DEF PoolInv, PoolTyped
      <3> QED
        BY <1>1, <3>1, <3>2, OutOfLine DEF PoolInv
    <2>2. CASE stage[t] # "queued"
      <3>1. line' = line
        BY <2>2 DEF Cancel
      <3> QED
        BY <1>1, <2>2, <3>1, LineStays DEF PoolInv, PoolTyped
    <2> QED
      BY <2>1, <2>2
  <1>4. PoolTyped' /\ Entitled' /\ Counted'
    <2>1. "failed" \in Ended
      BY DEF Ended
    <2> QED
      BY <1>1, <1>2, <1>3, <2>1, CloseSlots
  <1> QED
    BY <1>3, <1>4 DEF PoolInv

(* The invariant of TransferPool.                                           *)
LEMMA PoolSound == PoolSpec => []PoolInv
  <1>1. PoolInit => PoolInv
    <2> SUFFICES ASSUME PoolInit PROVE PoolInv
      OBVIOUS
    <2>1. /\ stage = [t \in Transfers |-> "new"] /\ held = [t \in Transfers |-> 0]
          /\ free = MaxConns /\ line = <<>>
          /\ live = [t \in Transfers |-> 0] /\ orphans = [t \in Transfers |-> 0]
      BY DEF PoolInit
    <2>2. MaxConns \in Nat /\ \A t \in Transfers : Want[t] \in Nat
      BY PoolAssumption
    <2>3. PoolTyped
      BY <2>1, <2>2 DEF PoolTyped, Phases
    <2>4. Entitled
      BY <2>1, <2>2 DEF Entitled, Ended
    <2>5. InLine
      BY <2>1 DEF InLine
    <2>6. PairsOf(held) = {}
      BY <2>1, PairsAre, held \in [Transfers -> Nat]
    <2>7. Counted
      BY <2>1, <2>2, <2>6, FS_EmptySet DEF Counted
    <2> QED
      BY <2>3, <2>4, <2>5, <2>7 DEF PoolInv
  <1>2. PoolInv /\ [PoolNext]_poolVars => PoolInv'
    <2> SUFFICES ASSUME PoolInv, [PoolNext]_poolVars PROVE PoolInv'
      OBVIOUS
    <2>1. CASE UNCHANGED poolVars
      BY <2>1 DEF poolVars, PoolInv, PoolTyped, Entitled, InLine, Counted
    <2>2. CASE PoolNext
      <3>1. PICK t \in Transfers :
              \/ BeginTransfer(t) \/ Acquire(t) \/ Woken(t)
              \/ OpenSucceeds(t) \/ OpenFails(t) \/ Start(t)
              \/ WorkerReturns(t) \/ WorkerRaises(t)
              \/ OrphanEnds(t) \/ Cancel(t)
        BY <2>2 DEF PoolNext
      <3> QED
        BY <3>1, BeginSlots, AcquireSlots, WokenSlots, OpenSucceedsSlots, OpenFailsSlots,
           StartSlots, WorkerReturnsSlots, WorkerRaisesSlots, OrphanEndsSlots, CancelSlots
    <2> QED
      BY <2>1, <2>2
  <1> QED
    BY <1>1, <1>2, PTL DEF PoolSpec

(* An instance has its own name for the number of elements.                 *)
LEMMA SameCardinality ==
  ASSUME NEW S
  PROVE  Cardinality(S) = Cardinality(S)
  BY DEF Cardinality, Cardinality

(* No permit of max_tcp_connections is lost or made by openings that fail,  *)
(* workers that raise, or transfers cancelled in the line, in an opening or *)
(* at work: what is free and what unfinished transfers hold add up.         *)
THEOREM PoolConserves == PoolSpec => []PermitsConserved
  <1>1. PoolInv => PermitsConserved
    <2> SUFFICES ASSUME PoolInv PROVE PermitsConserved
      OBVIOUS
    <2> DEFINE under == UNION {Permits(t) : t \in {u \in Transfers : stage[u] \notin Ended}}
    <2>1. held \in [Transfers -> Nat] /\ \A t \in Transfers : stage[t] \in Ended => held[t] = 0
      BY DEF PoolInv, PoolTyped, Entitled
    <2>2. under = PairsOf(held)
      BY <2>1 DEF Permits, PairsOf
    <2>3. Cardinality(under) = Cardinality(under)
      BY SameCardinality
    <2>4. free + Cardinality(under) = MaxConns
      BY <2>2, <2>3 DEF PoolInv, Counted
    <2> QED
      BY <2>4 DEF PermitsConserved
  <1> QED
    BY <1>1, PoolSound, PTL

UnderWay(t) == stage[t] \notin Ended \cup {"new"}

(* A step of t other than its cancellation has its guard: it is not in the  *)
(* line, or first in it with a permit there to take.                        *)
CanMove(t) ==
  \/ stage[t] \in {"asking", "opening", "starting", "working"}
  \/ stage[t] = "queued" /\ Head(line) = t /\ free > 0

(* The most that transfers can hold while each of them lacks a permit.      *)
OneShort == [t \in Transfers |-> Want[t] - 1]

(* Nobody moves only when the permits are all taken by transfers that wait  *)
(* for more.                                                                *)
LEMMA StuckHoldsAll ==
  ASSUME PoolInv, NEW t \in Transfers, UnderWay(t),
         \A u \in Transfers : ~CanMove(u)
  PROVE  free = 0 /\ PairsOf(held) \subseteq PairsOf(OneShort)
  <1>1. /\ stage \in [Transfers -> Phases] /\ held \in [Transfers -> Nat] /\ free \in Nat
        /\ line \in Seq(Transfers) /\ Len(line) \in Nat
    BY LenProperties DEF PoolInv, PoolTyped
  <1>2. \A u \in Transfers : stage[u] = "queued" \/ stage[u] \in Ended \cup {"new"}
    BY <1>1 DEF CanMove, Phases, Ended
  <1>3. free = 0
    <2>1. stage[t] = "queued"
      BY <1>2 DEF UnderWay
    <2>2. 1 \in 1 .. Len(line) /\ Head(line) = line[1]
      <3>1. PICK i \in 1 .. Len(line) : line[i] = t
        BY <2>1 DEF PoolInv, InLine
      <3> QED
        BY <1>1, <3>1
    <2>3. line[1] \in Transfers
      BY <1>1, <2>2, ElementOfSeq
    <2>4. stage[line[1]] = "queued"
      BY <2>2, <2>3 DEF PoolInv, InLine
    <2> QED
      BY <1>1, <2>2, <2>3, <2>4 DEF CanMove
  <1>4. OneShort \in [Transfers -> Nat]
    BY PoolAssumption DEF OneShort
  <1>5. \A u \in Transfers : held[u] <= OneShort[u]
    <2> SUFFICES ASSUME NEW u \in Transfers PROVE held[u] <= OneShort[u]
      OBVIOUS
    <2>1. Want[u] \in Nat \ {0} /\ OneShort[u] = Want[u] - 1
      BY PoolAssumption DEF OneShort
    <2>2. held[u] \in Nat /\ (held[u] < Want[u] \/ held[u] = 0)
      BY <1>1, <1>2 DEF PoolInv, Entitled
    <2> QED
      BY <2>1, <2>2
  <1>6. ASSUME NEW x \in PairsOf(held) PROVE x \in PairsOf(OneShort)
    <2>1. PICK u \in Transfers, k \in Nat : k > 0 /\ k <= held[u] /\ x = <<u, k>>
      BY <1>1, PairsAre
    <2>2. k <= OneShort[u]
      BY <1>1, <1>4, <1>5, <2>1
    <2> QED
      BY <1>4, <2>1, <2>2, PairsAre
  <1> QED
    BY <1>3, <1>6

LEMMA SharesFinite ==
  ASSUME NEW s \in [Transfers -> Nat]
  PROVE  IsFiniteSet(PairsOf(s))
  <1>1. IsFiniteSet({{t} \X (1 .. s[t]) : t \in Transfers})
    <2> DEFINE shares == {{t} \X (1 .. s[t]) : t \in Transfers}
               share == [t \in Transfers |-> {t} \X (1 .. s[t])]
    <2>1. share \in Surjection(Transfers, shares)
      BY DEF Surjection
    <2> HIDE DEF shares, share
    <2>2. IsFiniteSet(shares)
      BY <2>1, FS_Surjection, PoolAssumption
    <2> QED
      BY <2>2 DEF shares
  <1>2. \A t \in Transfers : IsFiniteSet({t} \X (1 .. s[t]))
    BY PairsOfOne
  <1> QED
    BY <1>1, <1>2, FS_UNION DEF PairsOf

(* While the permits outnumber what the transfers could hold with each of   *)
(* them one short, a transfer that is under way is never in the way of all  *)
(* others: one of them can take its next step.  pool_deadlock has equality. *)
THEOREM PoolNeverStuck ==
  ASSUME Cardinality(PairsOf(OneShort)) < MaxConns
  PROVE  PoolSpec => [](\A t \in Transfers : UnderWay(t) => \E u \in Transfers : CanMove(u))
  <1>1. PoolInv => \A t \in Transfers : UnderWay(t) => \E u \in Transfers : CanMove(u)
    <2> SUFFICES ASSUME PoolInv, NEW t \in Transfers, UnderWay(t),
                        \A u \in Transfers : ~CanMove(u)
                 PROVE  FALSE
      OBVIOUS
    <2>1. free = 0 /\ PairsOf(held) \subseteq PairsOf(OneShort)
      BY StuckHoldsAll
    <2>2. IsFiniteSet(PairsOf(OneShort))
      BY SharesFinite, PoolAssumption DEF OneShort
    <2>3. Cardinality(PairsOf(held)) <= Cardinality(PairsOf(OneShort))
      BY <2>1, <2>2, FS_Subset
    <2>4. Cardinality(PairsOf(held)) \in Nat /\ Cardinality(PairsOf(OneShort)) \in Nat
      BY <2>2, FS_CardinalityType DEF PoolInv, Counted
    <2>5. Cardinality(PairsOf(held)) = MaxConns /\ MaxConns \in Nat
      BY <2>1, <2>4, PoolAssumption DEF PoolInv, Counted
    <2> QED
      BY <2>3, <2>4, <2>5
  <1> QED
    BY <1>1, PoolSound, PTL

(* The tables of media.py never ask for more than four workers.             *)
LEMMA TablesAskForFour ==
  ASSUME NEW size \in Nat, NEW ceiling \in Nat
  PROVE  UploadWorkers(size, FALSE, ceiling) <= 4 /\ DownloadWorkers(size, FALSE, ceiling) <= 4
  BY DEF UploadWorkers, DownloadWorkers, Smaller, MB, KB

(* Without bypass_tcp_allotments as many transfers as a third of the        *)
(* permits, less one permit, never block each other, however large their    *)
(* files are: three with the default of 12.                                 *)
THEOREM PoolTablesNeverStuck ==
  ASSUME 3 * Cardinality(Transfers) < MaxConns,
         \A t \in Transfers : \E size, ceiling \in Nat :
           \/ Want[t] <= UploadWorkers(size, FALSE, ceiling)
           \/ Want[t] <= DownloadWorkers(size, FALSE, ceiling)
  PROVE  PoolSpec => [](\A t \in Transfers : UnderWay(t) => \E u \in Transfers : CanMove(u))
  <1>1. \A t \in Transfers : Want[t] \in Nat \ {0} /\ Want[t] <= 4
    <2> SUFFICES ASSUME NEW t \in Transfers PROVE Want[t] \in Nat \ {0} /\ Want[t] <= 4
      OBVIOUS
    <2>1. Want[t] \in Nat \ {0}
      BY PoolAssumption
    <2>2. PICK size \in Nat, ceiling \in Nat :
            \/ Want[t] <= UploadWorkers(size, FALSE, ceiling)
            \/ Want[t] <= DownloadWorkers(size, FALSE, ceiling)
      OBVIOUS
    <2> DEFINE up == UploadWorkers(size, FALSE, ceiling)
               down == DownloadWorkers(size, FALSE, ceiling)
    <2>3. up \in Int /\ down \in Int
      BY DEF UploadWorkers, DownloadWorkers, Smaller
    <2>4. up <= 4 /\ down <= 4
      BY TablesAskForFour
    <2>5. Want[t] <= up \/ Want[t] <= down
      BY <2>2
    <2> HIDE DEF up, down
    <2> QED
      BY <2>1, <2>3, <2>4, <2>5
  <1>2. OneShort \in [Transfers -> Nat] /\ \A t \in Transfers : OneShort[t] <= 3
    BY <1>1 DEF OneShort
  <1>3. PairsOf(OneShort) \subseteq Transfers \X (1 .. 3)
    <2> SUFFICES ASSUME NEW x \in PairsOf(OneShort) PROVE x \in Transfers \X (1 .. 3)
      OBVIOUS
    <2>1. PICK u \in Transfers, k \in Nat : k > 0 /\ k <= OneShort[u] /\ x = <<u, k>>
      BY <1>2, PairsAre
    <2>2. OneShort[u] \in Nat /\ OneShort[u] <= 3
      BY <1>2
    <2> QED
      BY <2>1, <2>2
  <1>4. IsFiniteSet(1 .. 3) /\ Cardinality(1 .. 3) = 3
    <2>1. 1 \in Int /\ 3 \in Int /\ ~(1 > 3) /\ 3 - 1 + 1 = 3
      OBVIOUS
    <2>2. IsFiniteSet(1 .. 3) /\ Cardinality(1 .. 3) = IF 1 > 3 THEN 0 ELSE 3 - 1 + 1
      BY <2>1, FS_Interval
    <2> QED
      BY <2>1, <2>2
  <1>5. /\ IsFiniteSet(Transfers \X (1 .. 3))
        /\ Cardinality(Transfers \X (1 .. 3)) = Cardinality(Transfers) * 3
    BY <1>4, FS_Product, PoolAssumption
  <1>6. Cardinality(PairsOf(OneShort)) <= Cardinality(Transfers) * 3
    BY <1>3, <1>5, FS_Subset
  <1>7. /\ IsFiniteSet(PairsOf(OneShort)) /\ Cardinality(PairsOf(OneShort)) \in Nat
        /\ Cardinality(Transfers) \in Nat /\ MaxConns \in Nat
    BY <1>2, SharesFinite, FS_CardinalityType, PoolAssumption
  <1>8. Cardinality(PairsOf(OneShort)) < MaxConns
    BY <1>6, <1>7
  <1> QED
    BY <1>8, PoolNeverStuck
=============================================================================
