-------------------------- MODULE UpdateFlow_proofs --------------------------
(***************************************************************************)
(* Theorems about UpdateFlow for any number of channels, updates, requests *)
(* and reconnections.                                                      *)
(***************************************************************************)
EXTENDS UpdateFlow, FiniteSetTheorems, SequenceTheorems, WellFoundedInduction, TLAPS

----------------------------------------------------------------------------
(* A batch: the updates of a finite set of pts, each once.                  *)
Rank(S, i) == Cardinality({j \in S : j < i})

LEMMA RankGrows ==
  ASSUME NEW S, S \subseteq Nat, IsFiniteSet(S), NEW g \in S, NEW h \in S
  PROVE  /\ Rank(S, g) \in 0 .. Cardinality(S) - 1
         /\ g < h => Rank(S, g) < Rank(S, h)
  <1> DEFINE Less(x) == {k \in S : k < x}
  <1>1. ASSUME NEW x \in S PROVE IsFiniteSet(Less(x)) /\ Cardinality(Less(x)) \in Nat
                                 /\ Cardinality(Less(x)) <= Cardinality(S) - 1
    <2>1. Less(x) \subseteq S \ {x} /\ Less(x) \subseteq S
      OBVIOUS
    <2>2. IsFiniteSet(S \ {x}) /\ Cardinality(S \ {x}) = Cardinality(S) - 1
      BY FS_RemoveElement
    <2> HIDE DEF Less
    <2> QED
      BY <2>1, <2>2, FS_Subset, FS_CardinalityType
  <1>2. Cardinality(S) \in Nat
    BY FS_CardinalityType
  <1>3. ASSUME g < h PROVE Cardinality(Less(g)) < Cardinality(Less(h))
    <2>1. Less(g) \cup {g} \subseteq Less(h) /\ g \notin Less(g)
      <3>1. \A k \in S : k < g => k < h
        BY <1>3
      <3>2. Less(g) \subseteq Less(h)
        BY <3>1
      <3>3. g \in Less(h)
        BY <1>3
      <3>4. g \notin Less(g)
        OBVIOUS
      <3> QED
        BY <3>2, <3>3, <3>4
    <2> HIDE DEF Less
    <2>2. Cardinality(Less(g) \cup {g}) = Cardinality(Less(g)) + 1
      BY <1>1, <2>1, FS_AddElement
    <2>3. Cardinality(Less(g) \cup {g}) <= Cardinality(Less(h))
      BY <1>1, <2>1, FS_Subset
    <2> QED
      BY <1>1, <2>2, <2>3
  <1>4. \A x \in S : Rank(S, x) = Cardinality(Less(x))
    BY DEF Rank
  <1> HIDE DEF Less
  <1>5. Rank(S, g) \in 0 .. Cardinality(S) - 1
    BY <1>1, <1>2, <1>4
  <1> QED
    BY <1>3, <1>4, <1>5

Distinct(s) == \A i, j \in DOMAIN s : s[i] = s[j] => i = j

LEMMA Batch ==
  ASSUME NEW b, NEW S, S \subseteq Nat, IsFiniteSet(S)
  PROVE  /\ InOrder(b, S) \in Seq({b} \X S) /\ ToSet(InOrder(b, S)) = {b} \X S
         /\ Distinct(InOrder(b, S))
  <1> DEFINE n == Cardinality(S)
             at(k) == CHOOSE i \in S : Rank(S, i) = k - 1
             s == InOrder(b, S)
             rank == [i \in S |-> Rank(S, i)]
  <1>1. n \in Nat
    BY FS_CardinalityType
  <1>2. \A g, h \in S : Rank(S, g) \in 0 .. n - 1 /\ (g < h => Rank(S, g) < Rank(S, h))
    BY RankGrows
  <1>3. \A g, h \in S : Rank(S, g) = Rank(S, h) => g = h
    <2> SUFFICES ASSUME NEW g \in S, NEW h \in S, Rank(S, g) = Rank(S, h), g # h PROVE FALSE
      OBVIOUS
    <2>1. g < h \/ h < g
      OBVIOUS
    <2> QED
      BY <1>2, <2>1
  <1>4. rank \in Injection(S, 0 .. n - 1)
    BY <1>2, <1>3 DEF Injection, IsInjective
  <1> HIDE DEF n
  <1>5. IsFiniteSet(0 .. n - 1) /\ Cardinality(0 .. n - 1) = n
    <2> DEFINE c == n - 1
    <2>1. 0 \in Int /\ c \in Int /\ (0 > c => n = 0) /\ c - 0 + 1 = n
      BY <1>1
    <2> HIDE DEF c
    <2>2. IsFiniteSet(0 .. c) /\ Cardinality(0 .. c) = IF 0 > c THEN 0 ELSE c - 0 + 1
      BY <2>1, FS_Interval
    <2> QED
      BY <2>1, <2>2 DEF c
  <1>6. rank \in Surjection(S, 0 .. n - 1)
    <2> HIDE DEF rank
    <2> QED
      BY <1>4, <1>5, FS_Injection DEF n
  <1>7. ASSUME NEW k \in 1 .. n PROVE at(k) \in S /\ Rank(S, at(k)) = k - 1
    <2>1. k - 1 \in 0 .. n - 1
      BY <1>1
    <2>2. \E i \in S : Rank(S, i) = k - 1
      BY <1>6, <2>1 DEF Surjection
    <2> QED
      BY <2>2
  <1>8. s = [k \in 1 .. n |-> <<b, at(k)>>]
    BY DEF InOrder, Rank, n
  <1> HIDE DEF at, s
  <1>9. s \in Seq({b} \X S) /\ DOMAIN s = 1 .. n
    <2>1. s \in [1 .. n -> {b} \X S]
      BY <1>7, <1>8
    <2> QED
      BY <1>1, <1>8, <2>1, SeqDef
  <1>10. Distinct(s)
    BY <1>1, <1>7, <1>8 DEF Distinct
  <1>11. ASSUME NEW i \in S PROVE \E k \in DOMAIN s : s[k] = <<b, i>>
    <2>1. Rank(S, i) + 1 \in 1 .. n
      BY <1>1, <1>2
    <2>2. at(Rank(S, i) + 1) \in S /\ Rank(S, at(Rank(S, i) + 1)) = Rank(S, i)
      BY <1>1, <1>2, <1>7, <2>1
    <2>3. at(Rank(S, i) + 1) = i
      BY <1>3, <2>2
    <2> QED
      BY <1>8, <2>1, <2>3
  <1>12. \A k \in DOMAIN s : s[k] \in {b} \X S
    BY <1>7, <1>8
  <1>13. ToSet(s) = {b} \X S
    <2>1. ToSet(s) \subseteq {b} \X S
      BY <1>12 DEF ToSet
    <2>2. ASSUME NEW u \in {b} \X S PROVE u \in ToSet(s)
      <3>1. u = <<b, u[2]>> /\ u[2] \in S
        OBVIOUS
      <3>2. PICK k \in DOMAIN s : s[k] = <<b, u[2]>>
        BY <1>11, <3>1
      <3> QED
        BY <3>1, <3>2 DEF ToSet
    <2> QED
      BY <2>1, <2>2
  <1> QED
    BY <1>9, <1>10, <1>13 DEF s

(* The front of a batch moves to the end of the queue.                      *)
LEMMA OneTaken ==
  ASSUME NEW S, NEW s \in Seq(S), s # <<>>, NEW q \in Seq(S)
  PROVE  /\ Head(s) \in S /\ Tail(s) \in Seq(S) /\ Append(q, Head(s)) \in Seq(S)
         /\ ToSet(s) = ToSet(Tail(s)) \cup {Head(s)}
         /\ ToSet(Append(q, Head(s))) = ToSet(q) \cup {Head(s)}
         /\ Distinct(s) => Distinct(Tail(s)) /\ Head(s) \notin ToSet(Tail(s))
         /\ Distinct(q) /\ Head(s) \notin ToSet(q) => Distinct(Append(q, Head(s)))
  <1> DEFINE h == Head(s)
             t == Tail(s)
             r == Append(q, h)
  <1>1. Len(s) \in Nat \ {0} /\ DOMAIN s = 1 .. Len(s) /\ h = s[1] /\ s[1] \in S
    BY EmptySeq, LenProperties, ElementOfSeq, HeadTailProperties
  <1>2. t \in Seq(S) /\ DOMAIN t = 1 .. Len(s) - 1 /\ \A i \in 1 .. Len(s) - 1 : t[i] = s[i + 1]
    BY HeadTailProperties, LenProperties
  <1>3. /\ r \in Seq(S) /\ DOMAIN q = 1 .. Len(q) /\ DOMAIN r = 1 .. Len(q) + 1 /\ Len(q) \in Nat
        /\ r[Len(q) + 1] = h /\ \A i \in DOMAIN q : r[i] = q[i]
    BY <1>1, AppendProperties, LenProperties
  <1> HIDE DEF h, t, r
  <1>4. \A i \in DOMAIN s : i = 1 \/ (i - 1 \in DOMAIN t /\ t[i - 1] = s[i])
    BY <1>1, <1>2
  <1>5. \A i \in DOMAIN t : i + 1 \in DOMAIN s /\ t[i] = s[i + 1] /\ i + 1 # 1 /\ i \in Nat
    BY <1>1, <1>2
  <1>6. 1 \in DOMAIN s
    BY <1>1
  <1>7. ToSet(s) = ToSet(t) \cup {h}
    BY <1>1, <1>4, <1>5, <1>6 DEF ToSet
  <1>8. \A i \in DOMAIN r : i \in DOMAIN q \/ i = Len(q) + 1
    BY <1>3
  <1>9. Len(q) + 1 \in DOMAIN r /\ \A i \in DOMAIN q : i \in DOMAIN r
    BY <1>3
  <1>10. ToSet(r) = ToSet(q) \cup {h}
    BY <1>3, <1>8, <1>9 DEF ToSet
  <1>11. ASSUME Distinct(s) PROVE Distinct(t) /\ h \notin ToSet(t)
    <2>1. Distinct(t)
      <3> SUFFICES ASSUME NEW i \in DOMAIN t, NEW j \in DOMAIN t, t[i] = t[j] PROVE i = j
        BY DEF Distinct
      <3>1. i + 1 = j + 1
        BY <1>5, <1>11 DEF Distinct
      <3> QED
        BY <1>5, <3>1
    <2>2. h \notin ToSet(t)
      BY <1>1, <1>5, <1>6, <1>11 DEF Distinct, ToSet
    <2> QED
      BY <2>1, <2>2
  <1>12. ASSUME Distinct(q), h \notin ToSet(q) PROVE Distinct(r)
    <2>1. \A i \in DOMAIN q : q[i] # h
      BY <1>12 DEF ToSet
    <2> QED
      BY <1>3, <1>8, <1>12, <2>1 DEF Distinct
  <1> QED
    BY <1>1, <1>2, <1>3, <1>7, <1>10, <1>11, <1>12 DEF h, t, r

(* The largest of a bounded set of numbers.                                 *)
LEMMA Largest ==
  ASSUME NEW S \in SUBSET Nat, S # {}, NEW m \in Nat, \A x \in S : x <= m
  PROVE  \E x \in S : \A y \in S : y <= x
  <1> DEFINE T == {m - x : x \in S}
             Less == {ss \in Nat \X Nat : ss[1] < ss[2]}
  <1>1. T \subseteq Nat /\ T # {}
    <2>1. \A x \in S : m - x \in Nat
      OBVIOUS
    <2> QED
      BY <2>1
  <1>2. IsWellFoundedOn(Less, Nat)
    BY NatLessThanWellFounded DEF OpToRel
  <1>3. \A x, y \in Nat : ~ (<<y, x>> \in Less) => x <= y
    OBVIOUS
  <1> HIDE DEF Less, T
  <1>4. PICK t \in T : \A y \in T : ~ (<<y, t>> \in Less)
    BY <1>1, <1>2, WFMin
  <1>5. \A y \in T : t <= y
    BY <1>1, <1>3, <1>4
  <1>6. PICK x \in S : t = m - x
    BY DEF T
  <1>7. \A y \in S : m - x <= m - y
    BY <1>5, <1>6 DEF T
  <1>8. \A y \in S : y <= x
    BY <1>7
  <1> QED
    BY <1>8

----------------------------------------------------------------------------
(* The invariant.                                                           *)
Box == [known : BOOLEAN, pts : Nat, stash : SUBSET Nat, due : BOOLEAN]
LoopState == [pc : {"seed", "state", "poll", "asked", "ended"}, box : Boxes, from : Nat,
              answer : {"none", "all", "slice", "toolong"}, upto : Nat]

Typed ==
  /\ made \in [Boxes -> Nat] /\ \A b \in Boxes : made[b] <= MaxMade[b]
  /\ wire \subseteq Updates /\ (call = NoCall \/ call \in Updates)
  /\ pump \in BOOLEAN /\ raised \subseteq Tasks /\ fresh \in BOOLEAN /\ banned \subseteq Channels /\ hash \subseteq Channels
  /\ box \in [Boxes -> Box] /\ base \in [Boxes -> Nat] /\ loop \in LoopState
  /\ held \in [Tasks -> Seq(Updates)] /\ dispatched \in Seq(Updates)
  /\ answered \subseteq Updates /\ skipped \subseteq Updates
  /\ discarded \subseteq Updates /\ cancelled \subseteq Updates

(* Nothing is ahead of the server: what is on its way, waits or was asked.  *)
Behind ==
  /\ \A u \in wire : u[2] <= made[u[1]]
  /\ call # NoCall => call[2] <= made[call[1]]
  /\ \A b \in Boxes : box[b].pts <= made[b] /\ box[b].stash \subseteq 1 .. made[b]
  /\ loop.pc = "state" => loop.upto <= made[Common]
  /\ loop.pc = "asked" /\ loop.answer # "none" => loop.from <= loop.upto /\ loop.upto <= made[loop.box]

(* A box is known or as new; a banned one stays unknown; the box of a       *)
(* difference that is awaited stands still.                                 *)
Boxed ==
  /\ \A b \in Boxes : ~box[b].known => box[b] = Unknown
  /\ \A b \in banned : ~box[b].known
  /\ loop.pc = "asked" => /\ box[loop.box].known /\ box[loop.box].due /\ held["loop"] = <<>>
                          /\ box[loop.box].pts = loop.from

(* What was put or is about to be lies at or below its box's pts, and is    *)
(* there once.                                                              *)
Covers(u) == u[1] \in banned \/ (box[u[1]].known /\ u[2] <= box[u[1]].pts)
Once ==
  /\ \A u \in ToSet(dispatched) \cup InHand : Covers(u)
  /\ Distinct(dispatched) /\ \A t \in Tasks : Distinct(held[t])
  /\ ToSet(dispatched) \cap InHand = {} /\ ToSet(held["pump"]) \cap ToSet(held["loop"]) = {}

(* What was passed over lies there too, and is neither put nor held.        *)
Passed == answered \cup Lost
Apart == /\ \A u \in Passed : Covers(u)
         /\ (ToSet(dispatched) \cup InHand) \cap Passed = {}

FlowInv == Typed /\ Behind /\ Boxed /\ Once /\ Apart /\ NothingForgotten

LEMMA BoundsNat == \A b \in Boxes : MaxMade[b] \in Nat
  BY FlowAssumption

LEMMA UpdateIs ==
  ASSUME NEW u \in Updates
  PROVE  u[1] \in Boxes /\ u[2] \in 1 .. MaxMade[u[1]] /\ u[2] \in Nat \ {0} /\ u = <<u[1], u[2]>>
  <1>1. PICK b \in Boxes : u \in {<<b, i>> : i \in 1 .. MaxMade[b]}
    BY DEF Updates
  <1>2. PICK i \in 1 .. MaxMade[b] : u = <<b, i>>
    BY <1>1
  <1>3. i \in Nat \ {0}
    BY BoundsNat
  <1> QED
    BY <1>2, <1>3

LEMMA IsUpdate ==
  ASSUME NEW b \in Boxes, NEW i \in 1 .. MaxMade[b]
  PROVE  <<b, i>> \in Updates
  BY DEF Updates

LEMMA BoxIs ==
  ASSUME Typed, NEW b \in Boxes
  PROVE  /\ box[b] \in Box /\ box[b].known \in BOOLEAN /\ box[b].pts \in Nat /\ box[b].stash \in SUBSET Nat
         /\ box[b].due \in BOOLEAN /\ base[b] \in Nat /\ made[b] \in Nat /\ made[b] <= MaxMade[b]
         /\ MaxMade[b] \in Nat
  BY BoundsNat DEF Typed, Box

(* The update i of box b is fed: what comes out is the run of pts that      *)
(* begins above the box's.                                                  *)
LEMMA ReleasedIs ==
  ASSUME Typed, Behind, Boxed, NEW b \in Boxes, NEW i \in 1 .. made[b]
  PROVE  LET start == IF box[b].known THEN box[b].pts ELSE i - 1
             R == Released(b, i)
         IN  /\ R \subseteq 1 .. made[b] /\ R \subseteq Nat /\ IsFiniteSet(R) /\ start \in Nat
             /\ R # {} => ~box[b].due /\ b \notin banned
             /\ \A j \in R : start < j /\ \A k \in start + 1 .. j : k \in R
             /\ ~box[b].known /\ b \notin banned => i \in R
  <1> DEFINE start == IF box[b].known THEN box[b].pts ELSE i - 1
             there == box[b].stash \cup {i}
             R == Released(b, i)
  <1>1. /\ box[b].pts \in Nat /\ made[b] \in Nat /\ MaxMade[b] \in Nat /\ made[b] <= MaxMade[b]
        /\ i \in Nat \ {0} /\ i <= made[b]
    BY BoxIs
  <1>2. start \in Nat /\ there \subseteq 1 .. made[b]
    BY <1>1 DEF Behind
  <1>3. R = IF box[b].due \/ b \in banned THEN {}
            ELSE {j \in start + 1 .. MaxMade[b] : \A k \in start + 1 .. j : k \in there}
    BY DEF Released
  <1>4. ~box[b].known => box[b].due = FALSE /\ start = i - 1
    BY DEF Boxed, Unknown
  <1>5. i \in there
    OBVIOUS
  <1> HIDE DEF start, there, R
  <1>6. ASSUME NEW j \in R PROVE j \in Nat /\ start < j /\ j \in there /\ \A k \in start + 1 .. j : k \in R
    <2>1. j \in start + 1 .. MaxMade[b] /\ \A k \in start + 1 .. j : k \in there
      BY <1>3, <1>6
    <2>2. j \in start + 1 .. j /\ j \in Nat /\ start < j /\ j <= MaxMade[b]
      BY <1>1, <1>2, <2>1
    <2>3. ASSUME NEW k \in start + 1 .. j PROVE k \in R
      <3>1. k \in start + 1 .. MaxMade[b] /\ \A m \in start + 1 .. k : m \in start + 1 .. j
        BY <1>1, <1>2, <2>2
      <3> QED
        BY <1>3, <1>6, <2>1, <3>1
    <2> QED
      BY <2>1, <2>2, <2>3
  <1>7. R \subseteq 1 .. made[b] /\ R \subseteq Nat
    BY <1>2, <1>6
  <1>8. IsFiniteSet(R)
    <2> DEFINE top == made[b]
    <2>1. 1 \in Int /\ top \in Int
      BY <1>1
    <2> HIDE DEF top
    <2>2. IsFiniteSet(1 .. top)
      BY <2>1, FS_Interval
    <2> QED
      BY <1>7, <2>2, FS_Subset DEF top
  <1>9. ~box[b].known /\ b \notin banned => i \in R
    <2> SUFFICES ASSUME ~box[b].known, b \notin banned PROVE i \in R
      OBVIOUS
    <2>1. start + 1 = i /\ i \in start + 1 .. MaxMade[b]
      BY <1>1, <1>4
    <2>2. \A k \in start + 1 .. i : k = i
      BY <1>1, <2>1
    <2> QED
      BY <1>3, <1>4, <1>5, <2>1, <2>2
  <1>10. R # {} => ~box[b].due /\ b \notin banned
    BY <1>3
  <1> QED
    BY <1>2, <1>6, <1>7, <1>8, <1>9, <1>10 DEF start, R

LEMMA FeedIs ==
  ASSUME Typed, Behind, Boxed, NEW b \in Boxes, NEW i \in 1 .. made[b], Feed(b, i)
  PROVE  /\ box' \in [Boxes -> Box] /\ base' \in [Boxes -> Nat]
         /\ \A c \in Boxes \ {b} : box'[c] = box[c] /\ base'[c] = base[c]
         /\ IF b \in banned THEN UNCHANGED <<box, base>> ELSE box'[b].known
         /\ box'[b].pts <= made[b] /\ box'[b].stash \subseteq 1 .. made[b]
         /\ box[b].known => box[b].pts <= box'[b].pts /\ base'[b] = base[b]
         /\ box[b].due => box'[b].due /\ box'[b].pts = box[b].pts
         /\ \A j \in Released(b, i) : b \notin banned /\ j <= box'[b].pts /\ (box[b].known => box[b].pts < j)
         /\ box'[b].known => \A j \in base'[b] + 1 .. box'[b].pts :
              j \in Released(b, i) \/ (box[b].known /\ j \in base[b] + 1 .. box[b].pts)
  <1> DEFINE start == IF box[b].known THEN box[b].pts ELSE i - 1
             R == Released(b, i)
             top == IF R = {} THEN box[b].pts ELSE CHOOSE j \in R : \A k \in R : k <= j
             new == [known |-> TRUE, pts |-> top,
                     stash |-> IF box[b].due THEN box[b].stash ELSE {j \in box[b].stash \cup {i} : j > top},
                     due |-> box[b].due]
  <1>1. /\ box[b] \in Box /\ box[b].pts \in Nat /\ base[b] \in Nat /\ made[b] \in Nat
        /\ box[b].known \in BOOLEAN /\ box[b].due \in BOOLEAN
        /\ box[b].pts <= made[b] /\ box[b].stash \subseteq 1 .. made[b] /\ i \in Nat \ {0} /\ i <= made[b]
    BY BoxIs DEF Behind
  <1>2. /\ R \subseteq 1 .. made[b] /\ R \subseteq Nat /\ start \in Nat
        /\ R # {} => ~box[b].due /\ b \notin banned
        /\ \A j \in R : start < j /\ \A k \in start + 1 .. j : k \in R
        /\ ~box[b].known /\ b \notin banned => i \in R
    BY ReleasedIs
  <1>3. CASE b \in banned
    <2>1. UNCHANGED <<box, base>> /\ ~box[b].known /\ R = {}
      BY <1>2, <1>3 DEF Feed, Boxed
    <2>2. box[b] = Unknown
      BY <2>1 DEF Boxed
    <2> HIDE DEF R, start, top, new
    <2> QED
      BY <1>1, <1>3, <2>1, <2>2 DEF Typed, R, Unknown
  <1>4. CASE b \notin banned
    <2>1. top \in Nat /\ (R = {} => top = box[b].pts) /\ (R # {} => top \in R /\ \A k \in R : k <= top)
      <3>1. CASE R = {}
        BY <1>1, <3>1
      <3>2. CASE R # {}
        <4>1. \A x \in R : x <= made[b]
          BY <1>1, <1>2
        <4> HIDE DEF R
        <4>2. \E j \in R : \A k \in R : k <= j
          BY <1>1, <1>2, <3>2, <4>1, Largest
        <4> QED
          BY <1>2, <3>2, <4>2
      <3> QED
        BY <3>1, <3>2
    <2>2. /\ box' = [box EXCEPT ![b].known = TRUE, ![b].pts = top,
                      ![b].stash = IF box[b].due THEN @ ELSE {j \in @ \cup {i} : j > top}]
          /\ base' = [base EXCEPT ![b] = IF box[b].known THEN @ ELSE i - 1]
      BY <1>4 DEF Feed
    <2> HIDE DEF top, R
    <2>3. /\ box'[b] = new /\ \A c \in Boxes \ {b} : box'[c] = box[c] /\ base'[c] = base[c]
      BY <1>1, <2>2 DEF Typed, Box
    <2>4. base'[b] = IF box[b].known THEN base[b] ELSE i - 1
      BY <2>2 DEF Typed
    <2>5. new.stash \subseteq 1 .. made[b] /\ new.stash \subseteq Nat /\ new \in Box
      <3>1. new.stash \subseteq 1 .. made[b]
        BY <1>1
      <3>2. new.stash \subseteq Nat
        BY <1>1, <3>1
      <3> QED
        BY <1>1, <2>1, <3>1, <3>2 DEF Box
    <2>6. /\ new.known /\ new.pts = top /\ new.due = box[b].due
      OBVIOUS
    <2> HIDE DEF new, start
    <2>7. top <= made[b]
      BY <1>1, <1>2, <2>1
    <2>8. box[b].known => box[b].pts <= top
      BY <1>1, <1>2, <2>1 DEF start
    <2>9. box[b].due => top = box[b].pts
      BY <1>2, <2>1
    <2>10. \A j \in R : j <= top /\ (box[b].known => box[b].pts < j)
      BY <1>1, <1>2, <2>1 DEF start
    <2>11. ASSUME NEW j \in base'[b] + 1 .. top
           PROVE  j \in R \/ (box[b].known /\ j \in base[b] + 1 .. box[b].pts)
      <3>1. CASE ~box[b].known
        <4>1. start = i - 1 /\ base'[b] = i - 1 /\ top \in R
          BY <1>2, <1>4, <2>1, <2>4, <3>1 DEF start
        <4> QED
          BY <1>2, <2>11, <4>1
      <3>2. CASE box[b].known
        <4>1. start = box[b].pts /\ base'[b] = base[b]
          BY <2>4, <3>2 DEF start
        <4>2. CASE j <= box[b].pts
          BY <1>1, <2>1, <2>11, <3>2, <4>1, <4>2
        <4>3. CASE box[b].pts < j
          <5>1. R # {} /\ j \in start + 1 .. top
            BY <1>1, <2>1, <2>11, <4>1, <4>3
          <5> QED
            BY <1>2, <2>1, <5>1
        <4> QED
          BY <1>1, <2>1, <2>11, <4>1, <4>2, <4>3
      <3> QED
        BY <1>1, <3>1, <3>2
    <2>12. box' \in [Boxes -> Box] /\ base' \in [Boxes -> Nat]
      <3>1. i - 1 \in Nat
        BY <1>1
      <3>2. base' \in [Boxes -> Nat]
        BY <2>2, <3>1 DEF Typed
      <3>3. DOMAIN box' = Boxes /\ \A c \in Boxes : box'[c] \in Box
        BY <2>2, <2>3, <2>5 DEF Typed
      <3>4. box' = [c \in Boxes |-> box'[c]]
        BY <2>2, <3>3 DEF Typed
      <3> QED
        BY <3>2, <3>3, <3>4
    <2> QED
      BY <1>4, <2>3, <2>4, <2>5, <2>6, <2>7, <2>8, <2>9, <2>10, <2>11, <2>12 DEF R
  <1> QED
    BY <1>3, <1>4

----------------------------------------------------------------------------
(* What the steps have in common.                                           *)
PtsUp == \A b \in Boxes : box[b].known /\ box'[b].known => box[b].pts <= box'[b].pts
Onward == /\ banned \subseteq banned'
          /\ \A b \in Boxes : box[b].known => b \in banned' \/ (box'[b].known /\ box[b].pts <= box'[b].pts)

LEMMA CoversStays ==
  ASSUME Typed, Typed', Onward, NEW u \in Updates, Covers(u)
  PROVE  Covers(u)'
  <1>1. u[1] \in Boxes /\ u[2] \in Nat
    BY UpdateIs
  <1>2. box[u[1]].pts \in Nat /\ box'[u[1]].pts \in Nat
    BY <1>1 DEF Typed, Box
  <1>3. CASE u[1] \in banned
    BY <1>3 DEF Onward, Covers
  <1>4. CASE box[u[1]].known /\ u[2] <= box[u[1]].pts
    BY <1>1, <1>2, <1>4 DEF Onward, Covers
  <1> QED
    BY <1>3, <1>4 DEF Covers

LEMMA PutsAre ==
  ASSUME Typed
  PROVE  ToSet(dispatched) \subseteq Updates /\ \A t \in Tasks : ToSet(held[t]) \subseteq Updates
  BY LenProperties, ElementOfSeq DEF Typed, ToSet

(* Nothing was released.                                                    *)
LEMMA OnceStays ==
  ASSUME Typed, Typed', Once, Onward, UNCHANGED <<held, dispatched>>
  PROVE  Once'
  <1>1. \A u \in ToSet(dispatched) \cup InHand : Covers(u)'
    <2> SUFFICES ASSUME NEW u \in ToSet(dispatched) \cup InHand PROVE Covers(u)'
      OBVIOUS
    <2>1. u \in Updates
      BY PutsAre DEF InHand, Tasks
    <2> QED
      BY <2>1, CoversStays DEF Once
  <1> HIDE DEF Covers
  <1>2. InHand' = InHand /\ ToSet(dispatched') = ToSet(dispatched)
    BY DEF InHand
  <1>3. \A u \in ToSet(dispatched') \cup InHand' : Covers(u)'
    BY <1>1, <1>2
  <1> QED
    BY <1>2, <1>3 DEF Once

(* What is passed over anew, and what is held anew, was not covered.        *)
LEMMA ApartGrows ==
  ASSUME Typed, Typed', Once, Apart, Onward, NEW over, NEW more, Passed' = Passed \cup over,
         ToSet(dispatched') \cup InHand' \subseteq ToSet(dispatched) \cup InHand \cup more,
         over = {} \/ more = {}, \A u \in over \cup more : ~Covers(u), \A u \in over : Covers(u)'
  PROVE  Apart'
  <1>1. Passed \subseteq Updates
    BY DEF Typed, Passed, Lost
  <1>2. \A u \in Passed : Covers(u)'
    BY <1>1, CoversStays DEF Apart
  <1>3. \A u \in Passed \cup ToSet(dispatched) \cup InHand : Covers(u)
    BY DEF Apart, Once
  <1> HIDE DEF Covers
  <1>4. \A u \in Passed' : Covers(u)'
    BY <1>2
  <1>5. (ToSet(dispatched') \cup InHand') \cap Passed' = {}
    BY <1>3 DEF Apart
  <1> QED
    BY <1>4, <1>5 DEF Apart

(* Nothing was passed over, put or held anew.                               *)
LEMMA ApartStays ==
  ASSUME Typed, Typed', Once, Apart, Onward, UNCHANGED <<answered, skipped, discarded, cancelled>>,
         ToSet(dispatched') \cup InHand' = ToSet(dispatched) \cup InHand
  PROVE  Apart'
  <1>1. PICK none : none = {}
    OBVIOUS
  <1>2. Passed' = Passed \cup none
    BY <1>1 DEF Passed, Lost
  <1>3. ToSet(dispatched') \cup InHand' \subseteq ToSet(dispatched) \cup InHand \cup none
    OBVIOUS
  <1>4. (\A u \in none \cup none : ~Covers(u)) /\ (\A u \in none : Covers(u)')
    BY <1>1
  <1> QED
    BY <1>1, <1>2, <1>3, <1>4, ApartGrows

(* A task holds what was released.                                          *)
LEMMA OnceMore ==
  ASSUME Typed, Once, NEW t \in Tasks, NEW b \in Boxes, NEW S, S \subseteq 1 .. MaxMade[b], IsFiniteSet(S),
         held[t] = <<>>, held' = [held EXCEPT ![t] = InOrder(b, S)]
  PROVE  /\ held' \in [Tasks -> Seq(Updates)] /\ InHand' = InHand \cup ({b} \X S)
         /\ Typed' /\ Onward /\ dispatched' = dispatched
              /\ (\A i \in S : ~Covers(<<b, i>>) /\ Covers(<<b, i>>)') => Once'
  <1> DEFINE s == InOrder(b, S)
             new == {b} \X S
             r == CHOOSE x \in Tasks : x # t
  <1>1. held \in [Tasks -> Seq(Updates)] /\ MaxMade[b] \in Nat
    BY BoundsNat DEF Typed
  <1>2. s \in Seq(new) /\ ToSet(s) = new /\ Distinct(s)
    <2>1. S \subseteq Nat
      BY <1>1
    <2> QED
      BY <2>1, Batch
  <1>3. new \subseteq Updates
    <2> SUFFICES ASSUME NEW u \in new PROVE u \in Updates
      OBVIOUS
    <2>1. u[2] \in S /\ u = <<b, u[2]>>
      OBVIOUS
    <2>2. u[2] \in 1 .. MaxMade[b]
      BY <2>1
    <2> QED
      BY <2>1, <2>2, IsUpdate
  <1>4. s \in Seq(Updates)
    <2> HIDE DEF s, new
    <2>1. s \in [1 .. Len(s) -> Updates] /\ Len(s) \in Nat
      BY <1>2, <1>3, LenProperties
    <2> QED
      BY <2>1, SeqDef
  <1> HIDE DEF s, new
  <1>5. r \in Tasks /\ r # t /\ \A x \in Tasks : x = t \/ x = r
    BY DEF Tasks
  <1> HIDE DEF r
  <1>6. /\ held' \in [Tasks -> Seq(Updates)] /\ held'[t] = s /\ held'[r] = held[r]
    BY <1>1, <1>4, <1>5 DEF s
  <1>7. ToSet(held[t]) = {}
    BY DEF ToSet
  <1>8. /\ InHand = ToSet(held[t]) \cup ToSet(held[r]) /\ InHand' = ToSet(held'[t]) \cup ToSet(held'[r])
        /\ Once => ToSet(held[t]) \cap ToSet(held[r]) = {}
        /\ ToSet(held'[t]) \cap ToSet(held'[r]) = {} => ToSet(held'["pump"]) \cap ToSet(held'["loop"]) = {}
    BY <1>5 DEF InHand, Once, Tasks
  <1>9. InHand = ToSet(held[r]) /\ InHand' = InHand \cup new /\ ToSet(held'[t]) = new
    BY <1>2, <1>6, <1>7, <1>8
  <1>10. ASSUME Typed', Onward, dispatched' = dispatched, \A i \in S : ~Covers(<<b, i>>) /\ Covers(<<b, i>>)'
         PROVE  Once'
    <2>1. ASSUME NEW u \in new PROVE ~Covers(u) /\ Covers(u)'
      <3>1. u[2] \in S /\ u = <<b, u[2]>>
        BY <2>1 DEF new
      <3> QED
        BY <1>10, <3>1
    <2>2. \A u \in ToSet(dispatched) \cup InHand : Covers(u) /\ Covers(u)'
      <3> SUFFICES ASSUME NEW u \in ToSet(dispatched) \cup InHand PROVE Covers(u) /\ Covers(u)'
        OBVIOUS
      <3>1. u \in Updates /\ Covers(u)
        BY PutsAre DEF InHand, Tasks, Once
      <3> QED
        BY <1>10, <3>1, CoversStays
    <2> HIDE DEF Covers
    <2>3. new \cap (ToSet(dispatched) \cup InHand) = {}
      BY <2>1, <2>2
    <2>4. \A u \in ToSet(dispatched') \cup InHand' : Covers(u)'
      BY <1>9, <1>10, <2>1, <2>2
    <2>5. ToSet(dispatched') \cap InHand' = {}
      BY <1>9, <1>10, <2>3 DEF Once
    <2>6. ToSet(held'[t]) \cap ToSet(held'[r]) = {}
      BY <1>6, <1>9, <2>3
    <2>7. \A x \in Tasks : Distinct(held'[x])
      BY <1>2, <1>5, <1>6 DEF Once
    <2>8. Distinct(dispatched')
      BY <1>10 DEF Once
    <2> QED
      BY <1>8, <2>4, <2>5, <2>6, <2>7, <2>8 DEF Once
  <1> QED
    BY <1>6, <1>9, <1>10 DEF new

(* What a box's pts covers anew is accounted for.                           *)
LEMMA NothingNew ==
  ASSUME NothingForgotten, Settled \cup InHand \subseteq Settled' \cup InHand',
         \A b \in Boxes : box'[b].known => \A i \in base'[b] + 1 .. box'[b].pts :
           (box[b].known /\ i \in base[b] + 1 .. box[b].pts) \/ <<b, i>> \in Settled' \cup InHand'
  PROVE  NothingForgotten'
  <1> SUFFICES ASSUME NEW b \in Boxes, box'[b].known, NEW i \in base'[b] + 1 .. box'[b].pts
               PROVE  <<b, i>> \in Settled' \cup InHand'
    BY DEF NothingForgotten
  <1> QED
    BY DEF NothingForgotten

(* A step that moves no box and puts nothing.                               *)
LEMMA Quiet ==
  ASSUME FlowInv, Typed', Behind', Boxed', \A b \in Boxes : box'[b].known = box[b].known /\ box'[b].pts = box[b].pts,
         UNCHANGED <<banned, base, held, dispatched, answered, skipped, discarded, cancelled>>
  PROVE  FlowInv' /\ PtsUp
  <1>1. \A b \in Boxes : box[b].pts \in Nat
    BY DEF FlowInv, Typed, Box
  <1>2. Onward /\ PtsUp
    BY <1>1 DEF Onward, PtsUp
  <1>3. Once'
    BY <1>2, OnceStays DEF FlowInv
  <1>4. Settled' = Settled /\ InHand' = InHand
    BY DEF Settled, Lost, InHand
  <1>5. NothingForgotten'
    BY <1>4, NothingNew DEF FlowInv
  <1>6. Apart'
    BY <1>2, <1>4, ApartStays DEF FlowInv
  <1> QED
    BY <1>2, <1>3, <1>5, <1>6 DEF FlowInv

----------------------------------------------------------------------------
(* The server, the connection and the client's own requests.                *)

(* An update more than the server had.                                      *)
LEMMA MadeMore ==
  ASSUME FlowInv, NEW b \in Boxes, made[b] < MaxMade[b], made' = [made EXCEPT ![b] = @ + 1]
  PROVE  /\ made' \in [Boxes -> Nat] /\ \A c \in Boxes : made[c] <= made'[c] /\ made'[c] <= MaxMade[c]
         /\ <<b, made'[b]>> \in Updates
  <1>1. \A c \in Boxes : made[c] \in Nat /\ MaxMade[c] \in Nat /\ made[c] <= MaxMade[c]
    BY BoxIs DEF FlowInv
  <1>2. made' \in [Boxes -> Nat] /\ made'[b] = made[b] + 1 /\ \A c \in Boxes \ {b} : made'[c] = made[c]
    BY <1>1 DEF FlowInv, Typed
  <1>3. made'[b] \in 1 .. MaxMade[b]
    BY <1>1, <1>2
  <1>4. \A c \in Boxes : made[c] <= made'[c] /\ made'[c] <= MaxMade[c]
    BY <1>1, <1>2
  <1> QED
    BY <1>2, <1>3, <1>4, IsUpdate

LEMMA BehindStays ==
  ASSUME Typed, Behind, made' \in [Boxes -> Nat], \A c \in Boxes : made[c] <= made'[c],
         UNCHANGED <<box, loop>>, \A u \in wire' : u \in wire \/ u[2] <= made'[u[1]],
         call' # NoCall => call' = call \/ call'[2] <= made'[call'[1]]
  PROVE  Behind'
  <1>1. \A c \in Boxes : made[c] \in Nat /\ made'[c] \in Nat /\ box[c].pts \in Nat
    BY BoxIs
  <1>2. \A u \in wire' : u[2] <= made'[u[1]]
    <2> SUFFICES ASSUME NEW u \in wire, u[2] <= made[u[1]] PROVE u[2] <= made'[u[1]]
      BY DEF Behind
    <2>1. u[1] \in Boxes /\ u[2] \in Nat
      BY UpdateIs DEF Typed
    <2> QED
      BY <1>1, <2>1
  <1>3. call' # NoCall => call'[2] <= made'[call'[1]]
    <2> SUFFICES ASSUME call' = call, call # NoCall PROVE call[2] <= made'[call[1]]
      OBVIOUS
    <2>1. call[1] \in Boxes /\ call[2] \in Nat /\ call[2] <= made[call[1]]
      BY UpdateIs DEF Typed, Behind
    <2> QED
      BY <1>1, <2>1
  <1>4. \A c \in Boxes : box[c].pts <= made'[c] /\ box[c].stash \subseteq 1 .. made'[c]
    <2> SUFFICES ASSUME NEW c \in Boxes PROVE box[c].pts <= made'[c] /\ box[c].stash \subseteq 1 .. made'[c]
      OBVIOUS
    <2>1. box[c].pts <= made[c] /\ box[c].stash \subseteq 1 .. made[c] /\ 1 .. made[c] \subseteq 1 .. made'[c]
      BY <1>1 DEF Behind
    <2> QED
      BY <1>1, <2>1
  <1>5. loop.pc = "state" => loop.upto <= made'[Common]
    <2>1. Common \in Boxes /\ loop.upto \in Nat
      BY DEF Boxes, Typed, LoopState
    <2> QED
      BY <1>1, <2>1 DEF Behind
  <1>6. loop.pc = "asked" /\ loop.answer # "none" => loop.from <= loop.upto /\ loop.upto <= made'[loop.box]
    <2>1. loop.box \in Boxes /\ loop.upto \in Nat
      BY DEF Typed, LoopState
    <2> QED
      BY <1>1, <2>1 DEF Behind
  <1> QED
    BY <1>2, <1>3, <1>4, <1>5, <1>6 DEF Behind

LEMMA ServerMakesStep ==
  ASSUME FlowInv, NEW b \in Boxes, ServerMakes(b)
  PROVE  FlowInv' /\ PtsUp
  <1>1. Typed /\ Behind /\ Boxed
    BY DEF FlowInv
  <1>2. /\ made' \in [Boxes -> Nat] /\ \A c \in Boxes : made[c] <= made'[c] /\ made'[c] <= MaxMade[c]
        /\ <<b, made'[b]>> \in Updates
    BY MadeMore DEF ServerMakes
  <1>3. wire' \subseteq wire \cup {<<b, made'[b]>>}
    BY DEF ServerMakes
  <1>4. Typed'
    BY <1>1, <1>2, <1>3 DEF Typed, ServerMakes
  <1>5. \A u \in wire' : u \in wire \/ u[2] <= made'[u[1]]
    BY <1>2, <1>3
  <1>6. Behind'
    BY <1>1, <1>2, <1>5, BehindStays DEF ServerMakes
  <1>7. Boxed'
    BY <1>1 DEF Boxed, ServerMakes
  <1> QED
    BY <1>4, <1>6, <1>7, Quiet DEF ServerMakes

LEMMA CallSentStep ==
  ASSUME FlowInv, NEW b \in Boxes, CallSent(b)
  PROVE  FlowInv' /\ PtsUp
  <1>1. Typed /\ Behind /\ Boxed
    BY DEF FlowInv
  <1>2. /\ made' \in [Boxes -> Nat] /\ \A c \in Boxes : made[c] <= made'[c] /\ made'[c] <= MaxMade[c]
        /\ <<b, made'[b]>> \in Updates
    BY MadeMore DEF CallSent
  <1>3. call' = <<b, made'[b]>>
    BY DEF CallSent
  <1>4. Typed'
    BY <1>1, <1>2, <1>3 DEF Typed, CallSent
  <1>5. call' # NoCall => call'[2] <= made'[call'[1]]
    BY <1>2, <1>3
  <1>6. Behind'
    BY <1>1, <1>2, <1>5, BehindStays DEF CallSent
  <1>7. Boxed'
    BY <1>1 DEF Boxed, CallSent
  <1> QED
    BY <1>4, <1>6, <1>7, Quiet DEF CallSent

LEMMA IdleIs == /\ Idle \in LoopState /\ Idle.pc = "poll" /\ Common \in Boxes
                /\ Unknown \in Box /\ Unknown.pts = 0 /\ Unknown.stash = {} /\ ~Unknown.known
  BY DEF Idle, LoopState, Boxes, Unknown, Box

(* Steps that leave box, held and the histories alone.                      *)
LEMMA SmallSteps ==
  ASSUME FlowInv, Reconnects \/ PumpReturns \/ LoopChecksEmpty \/ ServerAnswers
                  \/ (\E c \in Channels : LearnsHash(c)) \/ UNCHANGED vars
  PROVE  FlowInv' /\ PtsUp
  <1>1. Typed /\ Behind /\ Boxed
    BY DEF FlowInv
  <1>2. UNCHANGED <<box, banned, base, held, dispatched, answered, skipped, discarded, cancelled>>
    BY DEF Reconnects, PumpReturns, LoopChecksEmpty, ServerAnswers, LearnsHash, LoopMoves, vars
  <1>3. CASE UNCHANGED loop /\ made' = made /\ call' = call
    <2>1. wire' \subseteq wire /\ pump' \in BOOLEAN /\ fresh' \in BOOLEAN /\ hash' \subseteq Channels /\ raised' = raised
      BY <1>1, <1>3 DEF Typed, Reconnects, PumpReturns, LoopChecksEmpty, ServerAnswers, LearnsHash, LoopMoves, vars
    <2>2. Typed'
      BY <1>1, <1>2, <1>3, <2>1 DEF Typed
    <2>3. Behind'
      BY <1>1, <1>2, <1>3, <2>1 DEF Behind
    <2>4. Boxed'
      BY <1>1, <1>2, <1>3 DEF Boxed
    <2> QED
      BY <1>2, <2>2, <2>3, <2>4, Quiet
  <1>4. CASE LoopChecksEmpty
    <2>1. UNCHANGED <<made, wire, pump, raised, fresh, hash, call>>
      BY <1>4 DEF LoopChecksEmpty, LoopMoves
    <2>2. loop' = Idle \/ loop' = [Idle EXCEPT !.pc = "state", !.upto = made[Common]]
      BY <1>4 DEF LoopChecksEmpty
    <2>3. loop' \in LoopState /\ loop'.pc # "asked" /\ (loop'.pc = "state" => loop'.upto = made[Common])
      <3>1. made[Common] \in Nat
        BY <1>1, IdleIs, BoxIs
      <3> QED
        BY <2>2, <3>1, IdleIs DEF LoopState, Idle
    <2>4. Typed'
      BY <1>1, <1>2, <2>1, <2>3 DEF Typed
    <2>5. Behind'
      <3>1. made[Common] <= made[Common]
        BY <1>1, IdleIs, BoxIs
      <3> QED
        BY <1>1, <1>2, <2>1, <2>3, <3>1 DEF Behind
    <2>6. Boxed'
      BY <1>1, <1>2, <2>3 DEF Boxed
    <2> QED
      BY <1>2, <2>4, <2>5, <2>6, Quiet
  <1>5. CASE ServerAnswers
    <2>1. UNCHANGED <<made, wire, pump, raised, fresh, hash, call>>
      BY <1>5 DEF ServerAnswers, LoopMoves
    <2>2. PICK upto \in loop.from .. made[loop.box], kind \in {"all", "slice", "toolong"} :
            loop' = [loop EXCEPT !.answer = kind, !.upto = upto]
      BY <1>5 DEF ServerAnswers
    <2>3. loop \in LoopState /\ loop.from \in Nat /\ loop.pc = "asked" /\ made[loop.box] \in Nat
      BY <1>1, <1>5, BoxIs DEF Typed, LoopState, ServerAnswers
    <2>4. upto \in Nat /\ loop.from <= upto /\ upto <= made[loop.box]
      BY <2>3
    <2>5. /\ loop' \in LoopState /\ loop'.pc = "asked" /\ loop'.box = loop.box /\ loop'.from = loop.from
          /\ loop'.upto = upto
      BY <2>2, <2>3, <2>4 DEF LoopState
    <2>6. Typed'
      BY <1>1, <1>2, <2>1, <2>5 DEF Typed
    <2>7. Behind'
      BY <1>1, <1>2, <2>1, <2>4, <2>5 DEF Behind
    <2>8. Boxed'
      BY <1>1, <1>2, <2>3, <2>5 DEF Boxed
    <2> QED
      BY <1>2, <2>6, <2>7, <2>8, Quiet
  <1>6. \/ UNCHANGED loop /\ made' = made /\ call' = call
        \/ LoopChecksEmpty \/ ServerAnswers
    BY DEF Reconnects, PumpReturns, LearnsHash, vars
  <1> QED
    BY <1>3, <1>4, <1>5, <1>6

----------------------------------------------------------------------------
(* A feed.                                                                  *)
LEMMA Fed ==
  ASSUME FlowInv, NEW b \in Boxes, NEW i \in 1 .. made[b], Feed(b, i),
         UNCHANGED <<made, banned, loop>>, held'["loop"] = held["loop"]
  PROVE  /\ box' \in [Boxes -> Box] /\ base' \in [Boxes -> Nat] /\ Boxed' /\ Onward /\ PtsUp
         /\ \A c \in Boxes : box'[c].pts <= made[c] /\ box'[c].stash \subseteq 1 .. made[c]
         /\ \A j \in Released(b, i) : ~Covers(<<b, j>>) /\ Covers(<<b, j>>)'
         /\ \A c \in Boxes : box'[c].known => \A j \in base'[c] + 1 .. box'[c].pts :
              (box[c].known /\ j \in base[c] + 1 .. box[c].pts) \/ (c = b /\ j \in Released(b, i))
  <1>1. Typed /\ Behind /\ Boxed
    BY DEF FlowInv
  <1>2. /\ box' \in [Boxes -> Box] /\ base' \in [Boxes -> Nat]
        /\ \A c \in Boxes \ {b} : box'[c] = box[c] /\ base'[c] = base[c]
        /\ IF b \in banned THEN UNCHANGED <<box, base>> ELSE box'[b].known
        /\ box'[b].pts <= made[b] /\ box'[b].stash \subseteq 1 .. made[b]
        /\ box[b].known => box[b].pts <= box'[b].pts /\ base'[b] = base[b]
        /\ box[b].due => box'[b].due /\ box'[b].pts = box[b].pts
        /\ \A j \in Released(b, i) : b \notin banned /\ j <= box'[b].pts /\ (box[b].known => box[b].pts < j)
        /\ box'[b].known => \A j \in base'[b] + 1 .. box'[b].pts :
             j \in Released(b, i) \/ (box[b].known /\ j \in base[b] + 1 .. box[b].pts)
    BY <1>1, FeedIs
  <1>3. /\ Released(b, i) \subseteq Nat /\ b \in Boxes
        /\ \A c \in Boxes : box[c].pts \in Nat /\ box[c].pts <= made[c] /\ box[c].stash \subseteq 1 .. made[c]
    BY <1>1, ReleasedIs, BoxIs DEF Behind
  <1> HIDE DEF Released
  <1>4. Boxed'
    <2>1. \A c \in Boxes : ~box'[c].known => box'[c] = Unknown
      BY <1>1, <1>2 DEF Boxed
    <2>2. \A c \in banned' : ~box'[c].known
      <3>1. \A c \in banned : c \in Boxes
        BY <1>1 DEF Typed, Boxes
      <3> QED
        BY <1>1, <1>2, <3>1 DEF Boxed
    <2>3. loop.pc = "asked" => box'[loop.box].known /\ box'[loop.box].due /\ box'[loop.box].pts = loop.from
      <3>1. loop.box \in Boxes
        BY <1>1 DEF Typed, LoopState
      <3>2. CASE loop.box # b
        BY <1>1, <1>2, <3>1, <3>2 DEF Boxed
      <3>3. CASE loop.box = b
        BY <1>1, <1>2, <3>3 DEF Boxed
      <3> QED
        BY <3>2, <3>3
    <2> QED
      BY <1>1, <2>1, <2>2, <2>3 DEF Boxed
  <1>5. Onward /\ PtsUp
    <2>1. \A c \in Boxes : box[c].pts <= box[c].pts
      BY <1>3
    <2>2. \A c \in banned : ~box[c].known
      BY <1>1 DEF Boxed
    <2> QED
      BY <1>2, <2>1, <2>2 DEF Onward, PtsUp
  <1>6. ASSUME NEW j \in Released(b, i) PROVE ~Covers(<<b, j>>) /\ Covers(<<b, j>>)'
    <2>1. b \notin banned /\ j <= box'[b].pts /\ (box[b].known => box[b].pts < j) /\ box'[b].known /\ j \in Nat
      BY <1>2, <1>3
    <2>2. ~(box[b].known /\ j <= box[b].pts)
      BY <1>3, <2>1
    <2> QED
      BY <2>1, <2>2 DEF Covers
  <1>7. ASSUME NEW c \in Boxes, box'[c].known, NEW j \in base'[c] + 1 .. box'[c].pts
        PROVE  (box[c].known /\ j \in base[c] + 1 .. box[c].pts) \/ (c = b /\ j \in Released(b, i))
    BY <1>2, <1>7
  <1>8. \A c \in Boxes : box'[c].pts <= made[c] /\ box'[c].stash \subseteq 1 .. made[c]
    BY <1>2, <1>3
  <1> QED
    BY <1>2, <1>4, <1>5, <1>6, <1>7, <1>8

LEMMA PumpReadsStep ==
  ASSUME FlowInv, NEW b, NEW i, PumpReads(b, i)
  PROVE  FlowInv' /\ PtsUp
  <1>1. Typed /\ Behind /\ Boxed /\ Once /\ Apart /\ NothingForgotten
    BY DEF FlowInv
  <1>2. /\ <<b, i>> \in wire /\ wire' = wire \ {<<b, i>>} /\ held["pump"] = <<>>
        /\ UNCHANGED <<made, pump, raised, fresh, banned, hash, loop, call, dispatched, answered, skipped,
                       discarded, cancelled>>
    BY DEF PumpReads
  <1>3. b \in Boxes /\ i \in 1 .. made[b]
    <2>1. <<b, i>> \in Updates /\ i <= made[b]
      BY <1>1, <1>2 DEF Typed, Behind
    <2>2. b \in Boxes /\ i \in Nat \ {0} /\ made[b] \in Nat
      BY <1>1, <2>1, UpdateIs, BoxIs
    <2> QED
      BY <2>1, <2>2
  <1>4. CASE UNCHANGED <<box, base, held>>
    <2>1. Typed'
      BY <1>1, <1>2, <1>4 DEF Typed
    <2>2. Behind' /\ Boxed'
      BY <1>1, <1>2, <1>4 DEF Behind, Boxed
    <2> QED
      BY <1>2, <1>4, <2>1, <2>2, Quiet
  <1>5. CASE Feed(b, i) /\ held' = [held EXCEPT !["pump"] = InOrder(b, Released(b, i))]
    <2> DEFINE R == Released(b, i)
    <2>1. /\ R \subseteq 1 .. made[b] /\ IsFiniteSet(R)
      BY <1>1, <1>3, ReleasedIs
    <2>2. R \subseteq 1 .. MaxMade[b]
      <3>1. made[b] \in Nat /\ MaxMade[b] \in Nat /\ made[b] <= MaxMade[b]
        BY <1>1, <1>3, BoxIs
      <3> QED
        BY <2>1, <3>1
    <2>3. "pump" \in Tasks /\ held'["loop"] = held["loop"]
      BY <1>1, <1>5 DEF Tasks, Typed
    <2>4. /\ box' \in [Boxes -> Box] /\ base' \in [Boxes -> Nat] /\ Boxed' /\ Onward /\ PtsUp
          /\ \A c \in Boxes : box'[c].pts <= made[c] /\ box'[c].stash \subseteq 1 .. made[c]
          /\ \A j \in R : ~Covers(<<b, j>>) /\ Covers(<<b, j>>)'
          /\ \A c \in Boxes : box'[c].known => \A j \in base'[c] + 1 .. box'[c].pts :
               (box[c].known /\ j \in base[c] + 1 .. box[c].pts) \/ (c = b /\ j \in R)
      BY <1>2, <1>3, <1>5, <2>3, Fed
    <2> HIDE DEF R
    <2>5. /\ held' \in [Tasks -> Seq(Updates)] /\ InHand' = InHand \cup ({b} \X R)
          /\ (Typed' /\ Onward /\ dispatched' = dispatched
                /\ (\A j \in R : ~Covers(<<b, j>>) /\ Covers(<<b, j>>)')) => Once'
      BY <1>1, <1>2, <1>3, <1>5, <2>1, <2>2, <2>3, OnceMore DEF R
    <2>6. Typed'
      BY <1>1, <1>2, <2>4, <2>5 DEF Typed
    <2>7. Behind'
      BY <1>1, <1>2, <2>4 DEF Behind
    <2>8. Once'
      BY <1>2, <2>4, <2>5, <2>6
    <2>9. NothingForgotten'
      <3>1. Settled' = Settled
        BY <1>2 DEF Settled, Lost
      <3>2. \A j \in R : <<b, j>> \in InHand'
        BY <2>5
      <3> HIDE DEF Settled, InHand
      <3> QED
        BY <1>1, <2>4, <2>5, <3>1, <3>2, NothingNew
    <2>10. Apart'
      <3>1. Passed' = Passed \cup {} /\ dispatched' = dispatched
        BY <1>2 DEF Passed, Lost
      <3>2. \A u \in {b} \X R : ~Covers(u)
        BY <2>4
      <3>3. PICK none, more : none = {} /\ more = {b} \X R
        OBVIOUS
      <3> HIDE DEF InHand, Covers
      <3>4. /\ Passed' = Passed \cup none
            /\ ToSet(dispatched') \cup InHand' \subseteq ToSet(dispatched) \cup InHand \cup more
            /\ \A u \in none \cup more : ~Covers(u)
            /\ \A u \in none : Covers(u)'
        BY <2>5, <3>1, <3>2, <3>3
      <3> QED
        BY <1>1, <2>4, <2>6, <3>3, <3>4, ApartGrows
    <2> QED
      BY <2>4, <2>6, <2>7, <2>8, <2>9, <2>10 DEF FlowInv
  <1> QED
    BY <1>4, <1>5 DEF PumpReads

LEMMA CallReturnsStep ==
  ASSUME FlowInv, CallReturns
  PROVE  FlowInv' /\ PtsUp
  <1>1. Typed /\ Behind /\ Boxed /\ Once /\ Apart /\ NothingForgotten
    BY DEF FlowInv
  <1>0. PICK b, i, R : b = call[1] /\ i = call[2] /\ R = Released(b, i)
    OBVIOUS
  <1>2. /\ call # NoCall /\ call' = NoCall
        /\ UNCHANGED <<made, wire, pump, raised, fresh, banned, hash, loop, held, dispatched, skipped, cancelled>>
    BY DEF CallReturns
  <1>3. call \in Updates /\ call = <<b, i>> /\ b \in Boxes /\ i \in 1 .. made[b]
    <2>1. call \in Updates /\ i <= made[b]
      BY <1>0, <1>1, <1>2 DEF Typed, Behind
    <2>2. b \in Boxes /\ i \in Nat \ {0} /\ made[b] \in Nat /\ call = <<b, i>>
      BY <1>0, <1>1, <2>1, UpdateIs, BoxIs
    <2> QED
      BY <2>1, <2>2
  <1>4. CASE UNCHANGED <<box, base, answered, discarded>>
    <2>1. Typed'
      BY <1>1, <1>2, <1>4 DEF Typed
    <2>2. Behind' /\ Boxed'
      BY <1>1, <1>2, <1>4 DEF Behind, Boxed
    <2> QED
      BY <1>2, <1>4, <2>1, <2>2, Quiet
  <1>5. CASE /\ Feed(b, i) /\ answered' = answered \cup ({call} \cap {<<b, j>> : j \in R})
             /\ discarded' = discarded \cup {<<b, j>> : j \in R \ {i}}
    <2>1. /\ R \subseteq 1 .. made[b] /\ IsFiniteSet(R)
      BY <1>0, <1>1, <1>3, ReleasedIs
    <2>2. R \subseteq 1 .. MaxMade[b]
      <3>1. made[b] \in Nat /\ MaxMade[b] \in Nat /\ made[b] <= MaxMade[b]
        BY <1>1, <1>3, BoxIs
      <3> QED
        BY <2>1, <3>1
    <2>4. /\ box' \in [Boxes -> Box] /\ base' \in [Boxes -> Nat] /\ Boxed' /\ Onward /\ PtsUp
          /\ \A c \in Boxes : box'[c].pts <= made[c] /\ box'[c].stash \subseteq 1 .. made[c]
          /\ \A j \in R : ~Covers(<<b, j>>) /\ Covers(<<b, j>>)'
          /\ \A c \in Boxes : box'[c].known => \A j \in base'[c] + 1 .. box'[c].pts :
               (box[c].known /\ j \in base[c] + 1 .. box[c].pts) \/ (c = b /\ j \in R)
      BY <1>0, <1>2, <1>3, <1>5, Fed
    <2>5. {<<b, j>> : j \in R \ {i}} \subseteq Updates
      BY <1>3, <2>2, IsUpdate
    <2>6. Typed'
      BY <1>1, <1>2, <1>3, <1>5, <2>4, <2>5 DEF Typed
    <2>7. Behind'
      BY <1>1, <1>2, <2>4 DEF Behind
    <2>8. Once'
      BY <1>1, <1>2, <2>4, <2>6, OnceStays
    <2>9. NothingForgotten'
      <3>1. Settled \subseteq Settled' /\ InHand' = InHand
        BY <1>2, <1>5 DEF Settled, Lost, InHand
      <3>2. \A j \in R : <<b, j>> \in Settled'
        <4> SUFFICES ASSUME NEW j \in R PROVE <<b, j>> \in answered' \cup discarded'
          BY DEF Settled, Lost
        <4> QED
          BY <1>3, <1>5
      <3> HIDE DEF Settled, InHand
      <3> QED
        BY <1>1, <2>4, <3>1, <3>2, NothingNew
    <2>10. Apart'
      <3>1. answered' \cup discarded' = answered \cup discarded \cup ({b} \X R)
        <4>1. \A u \in {b} \X R : u \in answered' \cup discarded'
          BY <1>3, <1>5
        <4> QED
          BY <1>5, <4>1
      <3>2. Passed' = Passed \cup ({b} \X R)
        BY <1>2, <3>1 DEF Passed, Lost
      <3>3. \A u \in {b} \X R : ~Covers(u) /\ Covers(u)'
        <4> SUFFICES ASSUME NEW u \in {b} \X R PROVE ~Covers(u) /\ Covers(u)'
          OBVIOUS
        <4>1. u = <<b, u[2]>> /\ u[2] \in R
          OBVIOUS
        <4> QED
          BY <2>4, <4>1
      <3>4. ToSet(dispatched') \cup InHand' = ToSet(dispatched) \cup InHand
        BY <1>2 DEF InHand
      <3>5. PICK over, none : over = {b} \X R /\ none = {}
        OBVIOUS
      <3> HIDE DEF InHand, Covers
      <3>6. ToSet(dispatched') \cup InHand' \subseteq ToSet(dispatched) \cup InHand \cup none
        BY <3>4
      <3>7. /\ Passed' = Passed \cup over
            /\ \A u \in over \cup none : ~Covers(u)
            /\ \A u \in over : Covers(u)'
        BY <3>2, <3>3, <3>5
      <3> QED
        BY <1>1, <2>4, <2>6, <3>5, <3>6, <3>7, ApartGrows
    <2> QED
      BY <2>4, <2>6, <2>7, <2>8, <2>9, <2>10 DEF FlowInv
  <1> QED
    BY <1>0, <1>4, <1>5 DEF CallReturns

----------------------------------------------------------------------------
(* Steps that mark a box and leave its pts.                                 *)
LEMMA PumpConnectedStep ==
  ASSUME FlowInv, PumpConnected
  PROVE  FlowInv' /\ PtsUp
  <1>1. Typed /\ Behind /\ Boxed
    BY DEF FlowInv
  <1>2. /\ box' = [b \in Boxes |-> [box[b] EXCEPT !.due = @ \/ (b \in Boxes /\ box[b].known)]] /\ fresh' = FALSE
        /\ UNCHANGED <<made, wire, pump, raised, banned, hash, loop, held, call, base,
                       dispatched, answered, skipped, discarded, cancelled>>
    BY DEF PumpConnected, Due
  <1>3. ASSUME NEW b \in Boxes
        PROVE  /\ box'[b] \in Box /\ box'[b].known = box[b].known /\ box'[b].pts = box[b].pts
               /\ box'[b].stash = box[b].stash /\ (~box[b].known => box'[b] = box[b])
               /\ (box[b].due => box'[b].due)
    <2>1. box[b] \in Box /\ box'[b] = [box[b] EXCEPT !.due = @ \/ (b \in Boxes /\ box[b].known)]
      BY <1>1, <1>2 DEF Typed
    <2>2. ~box[b].known => box[b].due = FALSE
      BY <1>1 DEF Boxed, Unknown
    <2> QED
      BY <2>1, <2>2 DEF Box
  <1>4. box' \in [Boxes -> Box]
    BY <1>2, <1>3
  <1>5. Typed'
    BY <1>1, <1>2, <1>4 DEF Typed
  <1>6. Behind'
    BY <1>1, <1>2, <1>3 DEF Behind
  <1>7. Boxed'
    <2>1. loop.box \in Boxes /\ \A b \in banned : b \in Boxes
      BY <1>1 DEF Typed, LoopState, Boxes
    <2>2. \A b \in Boxes : ~box'[b].known => box'[b] = Unknown
      BY <1>1, <1>3 DEF Boxed
    <2>3. \A b \in banned : ~box'[b].known
      BY <1>1, <1>3, <2>1 DEF Boxed
    <2>4. loop.pc = "asked" => /\ box'[loop.box].known /\ box'[loop.box].due /\ held["loop"] = <<>>
                              /\ box'[loop.box].pts = loop.from
      BY <1>1, <1>3, <2>1 DEF Boxed
    <2> QED
      BY <1>2, <2>2, <2>3, <2>4 DEF Boxed
  <1> QED
    BY <1>2, <1>3, <1>5, <1>6, <1>7, Quiet

(* One box is changed, in what is due of it and waits for it.               *)
LEMMA Marked ==
  ASSUME Typed, NEW b \in Boxes, NEW new \in Box, new.known = box[b].known, new.pts = box[b].pts,
         new.stash \subseteq box[b].stash, box' = [box EXCEPT ![b] = new]
  PROVE  /\ box' \in [Boxes -> Box] /\ \A c \in Boxes \ {b} : box'[c] = box[c]
         /\ box'[b] = new
         /\ \A c \in Boxes : box'[c].known = box[c].known /\ box'[c].pts = box[c].pts
                             /\ box'[c].stash \subseteq box[c].stash
  <1>1. box \in [Boxes -> Box]
    BY DEF Typed
  <1>2. box' \in [Boxes -> Box] /\ box'[b] = new /\ \A c \in Boxes \ {b} : box'[c] = box[c]
    BY <1>1
  <1> QED
    BY <1>2

LEMMA LoopAsksStep ==
  ASSUME FlowInv, NEW b \in Boxes, LoopAsks(b)
  PROVE  FlowInv' /\ PtsUp
  <1>1. Typed /\ Behind /\ Boxed
    BY DEF FlowInv
  <1>2. /\ loop.pc = "poll" /\ held["loop"] = <<>> /\ box[b].known
        /\ UNCHANGED <<made, wire, pump, raised, fresh, hash, call, banned, held, base,
                       dispatched, answered, skipped, discarded, cancelled>>
    BY DEF LoopAsks, LoopMoves
  <1>3. box[b] \in Box /\ box[b].pts \in Nat
    BY <1>1, BoxIs
  <1>4. CASE box' = [box EXCEPT ![b].due = FALSE, ![b].stash = {}] /\ UNCHANGED loop
    <2>1. /\ box' \in [Boxes -> Box] /\ \A c \in Boxes \ {b} : box'[c] = box[c]
          /\ \A c \in Boxes : box'[c].known = box[c].known /\ box'[c].pts = box[c].pts
                              /\ box'[c].stash \subseteq box[c].stash
      <3> DEFINE new == [box[b] EXCEPT !.due = FALSE, !.stash = {}]
      <3>1. box' = [box EXCEPT ![b] = new]
        BY <1>1, <1>4 DEF Typed
      <3>2. new \in Box /\ new.known = box[b].known /\ new.pts = box[b].pts /\ new.stash \subseteq box[b].stash
        BY <1>3 DEF Box
      <3> HIDE DEF new
      <3> QED
        BY <1>1, <3>1, <3>2, Marked
    <2>2. Typed'
      BY <1>1, <1>2, <1>4, <2>1 DEF Typed
    <2>3. Behind'
      <3>1. \A c \in Boxes : box'[c].pts <= made[c] /\ box'[c].stash \subseteq 1 .. made[c]
        BY <1>1, <2>1 DEF Behind
      <3> QED
        BY <1>1, <1>2, <1>4, <3>1 DEF Behind
    <2>4. Boxed'
      <3>1. \A c \in banned : c \in Boxes
        BY <1>1 DEF Typed, Boxes
      <3>2. \A c \in Boxes : ~box'[c].known => box'[c] = Unknown
        BY <1>1, <1>2, <2>1 DEF Boxed
      <3> QED
        BY <1>1, <1>2, <1>4, <2>1, <3>1, <3>2 DEF Boxed
    <2> QED
      BY <1>2, <2>1, <2>2, <2>3, <2>4, Quiet
  <1>5. CASE /\ box' = [box EXCEPT ![b].due = TRUE]
             /\ loop' = [Idle EXCEPT !.pc = "asked", !.box = b, !.from = box[b].pts]
    <2>2. /\ box' \in [Boxes -> Box] /\ box'[b].due /\ \A c \in Boxes \ {b} : box'[c] = box[c]
          /\ \A c \in Boxes : box'[c].known = box[c].known /\ box'[c].pts = box[c].pts
                              /\ box'[c].stash \subseteq box[c].stash
      <3> DEFINE new == [box[b] EXCEPT !.due = TRUE]
      <3>1. box' = [box EXCEPT ![b] = new]
        BY <1>1, <1>5 DEF Typed
      <3>2. /\ new \in Box /\ new.known = box[b].known /\ new.pts = box[b].pts
            /\ new.stash \subseteq box[b].stash /\ new.due
        BY <1>3 DEF Box
      <3> HIDE DEF new
      <3> QED
        BY <1>1, <3>1, <3>2, Marked
    <2>7. /\ loop' \in LoopState /\ loop'.pc = "asked" /\ loop'.box = b /\ loop'.from = box[b].pts
          /\ loop'.answer = "none"
      BY <1>3, <1>5 DEF Idle, LoopState, Boxes
    <2>3. Typed'
      BY <1>1, <1>2, <2>2, <2>7 DEF Typed
    <2>4. Behind'
      <3>1. \A c \in Boxes : box'[c].pts <= made[c] /\ box'[c].stash \subseteq 1 .. made[c]
        BY <1>1, <2>2 DEF Behind
      <3> QED
        BY <1>1, <1>2, <2>7, <3>1 DEF Behind
    <2>5. Boxed'
      <3>1. \A c \in banned : c \in Boxes
        BY <1>1 DEF Typed, Boxes
      <3>2. \A c \in Boxes : ~box'[c].known => box'[c] = Unknown
        BY <1>1, <1>2, <2>2 DEF Boxed
      <3> QED
        BY <1>1, <1>2, <2>2, <2>7, <3>1, <3>2 DEF Boxed
    <2> QED
      BY <1>2, <2>2, <2>3, <2>4, <2>5, Quiet
  <1> QED
    BY <1>4, <1>5 DEF LoopAsks

----------------------------------------------------------------------------
(* The loop gets its answer.                                                *)
LEMMA LoopSeedsStep ==
  ASSUME FlowInv, LoopSeeds
  PROVE  FlowInv' /\ PtsUp
  <1>1. Typed /\ Behind /\ Boxed /\ Once /\ Apart /\ NothingForgotten
    BY DEF FlowInv
  <1>2. /\ loop.pc = "state" /\ loop' = Idle
        /\ UNCHANGED <<made, wire, pump, raised, fresh, hash, call, banned, held,
                       dispatched, answered, skipped, discarded, cancelled>>
    BY DEF LoopSeeds, LoopMoves
  <1>3. CASE UNCHANGED <<box, base>>
    <2>1. Typed'
      BY <1>1, <1>2, <1>3, IdleIs DEF Typed
    <2>2. Behind' /\ Boxed'
      BY <1>1, <1>2, <1>3, IdleIs DEF Behind, Boxed
    <2> QED
      BY <1>2, <1>3, <2>1, <2>2, Quiet
  <1>4. CASE /\ \A b \in Boxes : ~box[b].known
             /\ box' = [box EXCEPT ![Common].known = TRUE, ![Common].pts = loop.upto]
             /\ base' = [base EXCEPT ![Common] = loop.upto]
    <2>1. Common \in Boxes /\ Common \notin banned /\ box[Common] = Unknown /\ box[Common] \in Box
      BY <1>1, <1>4, IdleIs, FlowAssumption DEF Typed, Boxed
    <2>2. loop.upto \in Nat /\ loop.upto <= made[Common]
      BY <1>1, <1>2 DEF Typed, LoopState, Behind
    <2>3. /\ box'[Common] \in Box /\ box'[Common].known = TRUE
          /\ box'[Common].pts = loop.upto /\ box'[Common].stash = {}
          /\ \A b \in Boxes \ {Common} : box'[b] = box[b]
      <3> DEFINE new == [box[Common] EXCEPT !.known = TRUE, !.pts = loop.upto]
      <3>1. box' = [box EXCEPT ![Common] = new]
        BY <1>1, <1>4 DEF Typed
      <3>2. new \in Box /\ new.known = TRUE /\ new.pts = loop.upto /\ new.stash = {}
        <4>1. box[Common].stash = {}
          BY <2>1 DEF Unknown
        <4>2. new \in Box
          BY <2>1, <2>2 DEF Box
        <4>3. new.known = TRUE /\ new.pts = loop.upto
          BY <2>1, <2>2 DEF Box
        <4>4. new.stash = box[Common].stash
          BY <2>1, <2>2 DEF Box
        <4> QED
          BY <4>1, <4>2, <4>3, <4>4
      <3> HIDE DEF new
      <3> QED
        BY <1>1, <2>1, <3>1, <3>2 DEF Typed
    <2>4. box' \in [Boxes -> Box]
      <3>1. box' = [b \in Boxes |-> box'[b]]
        BY <1>1, <1>4 DEF Typed
      <3>2. \A b \in Boxes : box'[b] \in Box
        BY <1>1, <2>3 DEF Typed
      <3> QED
        BY <3>1, <3>2
    <2>5. base' \in [Boxes -> Nat] /\ base'[Common] = loop.upto
      BY <1>1, <1>4, <2>1, <2>2 DEF Typed
    <2>6. Typed'
      BY <1>1, <1>2, <2>4, <2>5, IdleIs DEF Typed
    <2>7. Behind'
      <3>1. \A b \in Boxes : box'[b].pts <= made[b] /\ box'[b].stash \subseteq 1 .. made[b]
        BY <1>1, <2>2, <2>3 DEF Behind
      <3> QED
        BY <1>1, <1>2, <3>1, IdleIs DEF Behind
    <2>8. Boxed'
      <3>1. \A b \in banned : b \in Boxes /\ b # Common
        BY <1>1, <2>1 DEF Typed, Boxes
      <3>2. \A b \in banned : ~box'[b].known
        BY <1>4, <2>3, <3>1
      <3>3. \A b \in Boxes : ~box'[b].known => box'[b] = Unknown
        BY <1>1, <2>3 DEF Boxed
      <3> QED
        BY <1>2, <3>2, <3>3, IdleIs DEF Boxed
    <2>9. Onward /\ PtsUp
      BY <1>2, <1>4 DEF Onward, PtsUp
    <2>10. Once'
      BY <1>1, <1>2, <2>6, <2>9, OnceStays
    <2>11. NothingForgotten'
      <3>1. Settled' = Settled /\ InHand' = InHand
        BY <1>2 DEF Settled, Lost, InHand
      <3>2. \A b \in Boxes : box'[b].known => b = Common
        BY <1>4, <2>3
      <3>3. \A i \in base'[Common] + 1 .. box'[Common].pts : FALSE
        BY <2>2, <2>3, <2>5
      <3> HIDE DEF Settled, InHand
      <3> QED
        BY <1>1, <3>1, <3>2, <3>3, NothingNew
    <2>12. Apart'
      <3>1. InHand' = InHand
        BY <1>2 DEF InHand
      <3> QED
        BY <1>1, <1>2, <2>6, <2>9, <3>1, ApartStays
    <2> QED
      BY <2>6, <2>7, <2>8, <2>9, <2>10, <2>11, <2>12 DEF FlowInv
  <1> QED
    BY <1>3, <1>4 DEF LoopSeeds

LEMMA LoopFailsStep ==
  ASSUME FlowInv, LoopFails
  PROVE  FlowInv' /\ PtsUp
  <1>1. Typed /\ Behind /\ Boxed /\ Once /\ Apart /\ NothingForgotten
    BY DEF FlowInv
  <1> DEFINE b == loop.box
  <1>2. /\ loop.pc = "asked" /\ loop' = Idle
        /\ UNCHANGED <<made, wire, pump, raised, fresh, hash, call, held, base,
                       dispatched, answered, skipped, discarded, cancelled>>
    BY DEF LoopFails, LoopMoves
  <1>3. b \in Boxes /\ box[b].known
    BY <1>1, <1>2 DEF Typed, LoopState, Boxed
  <1>4. CASE box' = [box EXCEPT ![b].due = FALSE, ![b].stash = {}] /\ UNCHANGED banned
    <2> HIDE DEF b
    <2>1. /\ box' \in [Boxes -> Box] /\ \A c \in Boxes \ {b} : box'[c] = box[c]
          /\ \A c \in Boxes : box'[c].known = box[c].known /\ box'[c].pts = box[c].pts
                              /\ box'[c].stash \subseteq box[c].stash
      <3> DEFINE new == [box[b] EXCEPT !.due = FALSE, !.stash = {}]
      <3>1. box' = [box EXCEPT ![b] = new]
        BY <1>1, <1>4 DEF Typed
      <3>2. new \in Box /\ new.known = box[b].known /\ new.pts = box[b].pts /\ new.stash \subseteq box[b].stash
        BY <1>1, <1>3, BoxIs DEF Box
      <3> HIDE DEF new
      <3> QED
        BY <1>1, <1>3, <3>1, <3>2, Marked
    <2>2. Typed'
      BY <1>1, <1>2, <1>4, <2>1, IdleIs DEF Typed
    <2>3. Behind'
      <3>1. \A c \in Boxes : box'[c].pts <= made[c] /\ box'[c].stash \subseteq 1 .. made[c]
        BY <1>1, <2>1 DEF Behind
      <3> QED
        BY <1>1, <1>2, <3>1, IdleIs DEF Behind
    <2>4. Boxed'
      <3>1. \A c \in banned : c \in Boxes
        BY <1>1 DEF Typed, Boxes
      <3>2. \A c \in Boxes : ~box'[c].known => box'[c] = Unknown
        BY <1>1, <1>3, <2>1 DEF Boxed
      <3> QED
        BY <1>1, <1>2, <1>4, <2>1, <3>1, <3>2, IdleIs DEF Boxed
    <2> QED
      BY <1>2, <1>4, <2>1, <2>2, <2>3, <2>4, Quiet
  <1>5. CASE b \in Channels /\ box' = [box EXCEPT ![b] = Unknown] /\ banned' = banned \cup {b}
    <2> HIDE DEF b
    <2>1. /\ box' \in [Boxes -> Box] /\ box'[b] = Unknown /\ \A c \in Boxes \ {b} : box'[c] = box[c]
      BY <1>1, <1>3, <1>5, IdleIs DEF Typed
    <2>2. Typed'
      BY <1>1, <1>2, <1>5, <2>1, IdleIs DEF Typed
    <2>3. Behind'
      <3>1. 0 <= made[b] /\ Unknown.pts = 0 /\ Unknown.stash \subseteq 1 .. made[b]
        BY <1>1, <1>3, IdleIs, BoxIs
      <3>2. \A c \in Boxes : box'[c].pts <= made[c] /\ box'[c].stash \subseteq 1 .. made[c]
        BY <1>1, <2>1, <3>1 DEF Behind
      <3> QED
        BY <1>1, <1>2, <3>2, IdleIs DEF Behind
    <2>4. Boxed'
      <3>1. \A c \in banned : c \in Boxes
        BY <1>1 DEF Typed, Boxes
      <3>2. \A c \in Boxes : ~box'[c].known => box'[c] = Unknown
        BY <1>1, <2>1 DEF Boxed
      <3>3. \A c \in banned' : ~box'[c].known
        BY <1>1, <1>5, <2>1, <3>1, IdleIs DEF Boxed
      <3> QED
        BY <1>2, <3>2, <3>3, IdleIs DEF Boxed
    <2>5. Onward /\ PtsUp
      <3>1. \A c \in Boxes : box[c].pts <= box[c].pts
        BY <1>1, BoxIs
      <3> QED
        BY <1>5, <2>1, <3>1, IdleIs DEF Onward, PtsUp
    <2>6. Once'
      BY <1>1, <1>2, <2>2, <2>5, OnceStays
    <2>7. NothingForgotten'
      <3>1. Settled' = Settled /\ InHand' = InHand
        BY <1>2 DEF Settled, Lost, InHand
      <3>2. \A c \in Boxes : box'[c].known => c # b /\ base'[c] = base[c] /\ box'[c] = box[c]
        BY <1>2, <2>1, IdleIs
      <3> HIDE DEF Settled, InHand
      <3> QED
        BY <1>1, <3>1, <3>2, NothingNew
    <2>8. Apart'
      <3>1. InHand' = InHand
        BY <1>2 DEF InHand
      <3> QED
        BY <1>1, <1>2, <2>2, <2>5, <3>1, ApartStays
    <2> QED
      BY <2>2, <2>3, <2>4, <2>5, <2>6, <2>7, <2>8 DEF FlowInv
  <1> QED
    BY <1>4, <1>5 DEF LoopFails

(* A run of pts that begins after f.                                        *)
LEMMA SpanIs ==
  ASSUME NEW f \in Nat, NEW u \in Nat, NEW m \in Nat, u <= m
  PROVE  f + 1 .. u \subseteq 1 .. m /\ f + 1 .. u \subseteq Nat /\ IsFiniteSet(f + 1 .. u)
  <1> DEFINE low == f + 1
  <1>1. low \in Int /\ u \in Int /\ low >= 1
    OBVIOUS
  <1> HIDE DEF low
  <1>2. IsFiniteSet(low .. u)
    BY <1>1, FS_Interval
  <1>3. low .. u \subseteq 1 .. m /\ low .. u \subseteq Nat
    BY <1>1
  <1> QED
    BY <1>2, <1>3 DEF low

LEMMA LoopAppliesStep ==
  ASSUME FlowInv, LoopApplies
  PROVE  FlowInv' /\ PtsUp
  <1>1. Typed /\ Behind /\ Boxed /\ Once /\ Apart /\ NothingForgotten
    BY DEF FlowInv
  <1>0. PICK b, got : b = loop.box /\ got = loop.from + 1 .. loop.upto
    OBVIOUS
  <1> DEFINE d == loop.answer = "slice"
             new == [box[b] EXCEPT !.pts = loop.upto, !.stash = {}, !.due = d]
  <1> USE <1>0
  <1>2. /\ loop.pc = "asked" /\ loop.answer # "none" /\ loop' = Idle
        /\ UNCHANGED <<made, wire, pump, raised, fresh, hash, call, banned, base, dispatched, answered,
                       discarded, cancelled>>
    BY DEF LoopApplies, LoopMoves
  <1>3. /\ b \in Boxes /\ box[b].known /\ box[b].pts = loop.from /\ held["loop"] = <<>> /\ b \notin banned
        /\ loop.from \in Nat /\ loop.upto \in Nat /\ loop.from <= loop.upto /\ loop.upto <= made[b]
        /\ box[b] \in Box
    BY <1>1, <1>2 DEF Typed, LoopState, Boxed, Behind
  <1>4. box' = [box EXCEPT ![b].pts = loop.upto, ![b].stash = {}, ![b].due = d]
    BY DEF LoopApplies
  <1>5. box' = [box EXCEPT ![b] = new]
    BY <1>1, <1>4 DEF Typed
  <1>6. new \in Box /\ new.known = box[b].known /\ new.pts = loop.upto
    BY <1>3 DEF Box
  <1>7. new.stash = {}
    BY <1>3 DEF Box
  <1>8. /\ \/ held' = held /\ skipped' = skipped \cup {<<b, i>> : i \in got}
           \/ held' = [held EXCEPT !["loop"] = InOrder(b, got)] /\ skipped' = skipped
    BY DEF LoopApplies
  <1> HIDE DEF new, d
  <1>9. /\ box' \in [Boxes -> Box] /\ box'[b] = new /\ \A c \in Boxes \ {b} : box'[c] = box[c]
    BY <1>1, <1>3, <1>5, <1>6 DEF Typed
  <1>10. got \subseteq 1 .. MaxMade[b] /\ got \subseteq Nat /\ IsFiniteSet(got)
    <2>1. made[b] \in Nat /\ MaxMade[b] \in Nat /\ made[b] <= MaxMade[b]
      BY <1>1, <1>3, BoxIs
    <2>2. loop.upto <= MaxMade[b]
      BY <1>3, <2>1
    <2> QED
      BY <1>3, <2>1, <2>2, SpanIs
  <1>11. {<<b, i>> : i \in got} \subseteq Updates /\ {<<b, i>> : i \in got} = {b} \X got
    BY <1>3, <1>10, IsUpdate
  <1>12. Onward /\ PtsUp
    <2>1. \A c \in Boxes : box[c].pts <= box[c].pts
      BY <1>1, BoxIs
    <2> QED
      BY <1>2, <1>3, <1>6, <1>9, <2>1 DEF Onward, PtsUp
  <1>13. "loop" \in Tasks
    BY DEF Tasks
  <1>14. \A i \in got : ~Covers(<<b, i>>) /\ Covers(<<b, i>>)'
    <2> SUFFICES ASSUME NEW i \in got PROVE ~Covers(<<b, i>>) /\ Covers(<<b, i>>)'
      OBVIOUS
    <2>1. i \in Nat /\ loop.from < i /\ i <= loop.upto
      BY <1>3
    <2>2. box[b].pts = loop.from /\ box'[b].known /\ box'[b].pts = loop.upto
      BY <1>3, <1>6, <1>9
    <2>3. ~(i <= box[b].pts) /\ i <= box'[b].pts
      BY <1>3, <2>1, <2>2
    <2>4. b \notin banned' /\ b \notin banned
      BY <1>2, <1>3
    <2> QED
      BY <2>2, <2>3, <2>4 DEF Covers
  <1>15. \A i \in base'[b] + 1 .. box'[b].pts : i \in got \/ i \in base[b] + 1 .. box[b].pts
    <2>1. base'[b] = base[b] /\ base[b] \in Nat /\ box'[b].pts = loop.upto
      BY <1>1, <1>2, <1>3, <1>6, <1>9, BoxIs
    <2> QED
      BY <1>3, <2>1
  <1>16. Behind'
    <2>1. \A c \in Boxes : box'[c].pts <= made[c] /\ box'[c].stash \subseteq 1 .. made[c]
      BY <1>1, <1>3, <1>6, <1>7, <1>9 DEF Behind
    <2> QED
      BY <1>1, <1>2, <2>1, IdleIs DEF Behind
  <1>17. Boxed'
    <2>1. \A c \in banned : c \in Boxes
      BY <1>1 DEF Typed, Boxes
    <2>2. \A c \in Boxes : ~box'[c].known => box'[c] = Unknown
      BY <1>1, <1>3, <1>6, <1>9 DEF Boxed
    <2>3. \A c \in banned : ~box'[c].known
      BY <1>1, <1>3, <1>9, <2>1 DEF Boxed
    <2> QED
      BY <1>2, <2>2, <2>3, IdleIs DEF Boxed
  <1>20. \A u \in {b} \X got : ~Covers(u) /\ Covers(u)'
    <2> SUFFICES ASSUME NEW u \in {b} \X got PROVE ~Covers(u) /\ Covers(u)'
      OBVIOUS
    <2>1. PICK k : k \in got /\ u = <<b, k>>
      OBVIOUS
    <2> QED
      BY <1>14, <2>1
  <1>18. CASE held' = held /\ skipped' = skipped \cup {<<b, i>> : i \in got}
    <2>1. Typed'
      BY <1>1, <1>2, <1>9, <1>11, <1>18, IdleIs DEF Typed
    <2>2. Once'
      BY <1>1, <1>2, <1>12, <1>18, <2>1, OnceStays
    <2>3. NothingForgotten'
      <3>1. Settled' = Settled \cup {<<b, i>> : i \in got} /\ InHand' = InHand
        BY <1>2, <1>18 DEF Settled, Lost, InHand
      <3>2. \A i \in got : <<b, i>> \in Settled'
        BY <3>1
      <3> HIDE DEF Settled, InHand
      <3> QED
        BY <1>1, <1>2, <1>3, <1>9, <1>15, <3>1, <3>2, NothingNew
    <2>4. Apart'
      <3>1. Passed' = Passed \cup ({b} \X got)
        BY <1>2, <1>11, <1>18 DEF Passed, Lost
      <3>2. ToSet(dispatched') \cup InHand' = ToSet(dispatched) \cup InHand
        BY <1>2, <1>18 DEF InHand
      <3>3. PICK over, none : over = {b} \X got /\ none = {}
        OBVIOUS
      <3> HIDE DEF InHand, Covers
      <3>4. /\ Passed' = Passed \cup over
            /\ ToSet(dispatched') \cup InHand' \subseteq ToSet(dispatched) \cup InHand \cup none
            /\ \A u \in over \cup none : ~Covers(u)
            /\ \A u \in over : Covers(u)'
        BY <1>20, <3>1, <3>2, <3>3
      <3> QED
        BY <1>1, <1>12, <2>1, <3>3, <3>4, ApartGrows
    <2> QED
      BY <1>12, <1>16, <1>17, <2>1, <2>2, <2>3, <2>4 DEF FlowInv
  <1>19. CASE held' = [held EXCEPT !["loop"] = InOrder(b, got)] /\ skipped' = skipped
    <2>1. /\ held' \in [Tasks -> Seq(Updates)] /\ InHand' = InHand \cup ({b} \X got)
          /\ (Typed' /\ Onward /\ dispatched' = dispatched
                /\ (\A i \in got : ~Covers(<<b, i>>) /\ Covers(<<b, i>>)')) => Once'
      <3> HIDE <1>0
      <3>1. PICK t \in Tasks : t = "loop"
        BY <1>13
      <3>2. held[t] = <<>> /\ held' = [held EXCEPT ![t] = InOrder(b, got)]
        BY <1>3, <1>19, <3>1
      <3>3. b \in Boxes /\ got \subseteq 1 .. MaxMade[b] /\ IsFiniteSet(got)
        BY <1>3, <1>10
      <3> QED
        BY <1>1, <3>2, <3>3, OnceMore
    <2>2. Typed'
      BY <1>1, <1>2, <1>9, <1>19, <2>1, IdleIs DEF Typed
    <2>3. Once'
      BY <1>2, <1>12, <1>14, <2>1, <2>2
    <2>4. NothingForgotten'
      <3>1. Settled' = Settled
        BY <1>2, <1>19 DEF Settled, Lost
      <3>2. \A i \in got : <<b, i>> \in InHand'
        BY <2>1
      <3> HIDE DEF Settled, InHand
      <3> QED
        BY <1>1, <1>2, <1>3, <1>9, <1>15, <2>1, <3>1, <3>2, NothingNew
    <2>5. Apart'
      <3>1. Passed' = Passed \cup {}
        BY <1>2, <1>19 DEF Passed, Lost
      <3>2. PICK none, more : none = {} /\ more = {b} \X got
        OBVIOUS
      <3> HIDE DEF InHand, Covers
      <3>3. /\ Passed' = Passed \cup none
            /\ ToSet(dispatched') \cup InHand' \subseteq ToSet(dispatched) \cup InHand \cup more
            /\ \A u \in none \cup more : ~Covers(u)
            /\ \A u \in none : Covers(u)'
        BY <1>2, <1>20, <2>1, <3>1, <3>2
      <3> QED
        BY <1>1, <1>12, <2>2, <3>2, <3>3, ApartGrows
    <2> QED
      BY <1>12, <1>16, <1>17, <2>2, <2>3, <2>4, <2>5 DEF FlowInv
  <1> QED
    BY <1>8, <1>18, <1>19

----------------------------------------------------------------------------
(* What a task holds is put, or dropped with the task.                      *)
LEMMA DispatchStep ==
  ASSUME FlowInv, NEW t \in Tasks, Dispatch(t)
  PROVE  FlowInv' /\ PtsUp
  <1>1. Typed /\ Behind /\ Boxed /\ Once /\ Apart /\ NothingForgotten
    BY DEF FlowInv
  <1> DEFINE s == held[t]
             u == Head(s)
             r == CHOOSE x \in Tasks : x # t
  <1>2. /\ s # <<>> /\ dispatched' = Append(dispatched, u) /\ held' = [held EXCEPT ![t] = Tail(s)]
        /\ UNCHANGED <<made, wire, pump, raised, fresh, box, banned, hash, loop, call, base,
                       answered, skipped, discarded, cancelled>>
    BY DEF Dispatch
  <1>3. s \in Seq(Updates) /\ dispatched \in Seq(Updates)
    BY <1>1 DEF Typed
  <1>4. /\ u \in Updates /\ Tail(s) \in Seq(Updates) /\ dispatched' \in Seq(Updates)
        /\ ToSet(s) = ToSet(Tail(s)) \cup {u} /\ ToSet(dispatched') = ToSet(dispatched) \cup {u}
        /\ Distinct(s) => Distinct(Tail(s)) /\ u \notin ToSet(Tail(s))
        /\ Distinct(dispatched) /\ u \notin ToSet(dispatched) => Distinct(dispatched')
    BY <1>2, <1>3, OneTaken
  <1>5. r \in Tasks /\ r # t /\ \A x \in Tasks : x = t \/ x = r
    BY DEF Tasks
  <1> HIDE DEF r, u, s
  <1>6. held' \in [Tasks -> Seq(Updates)] /\ held'[t] = Tail(s) /\ held'[r] = held[r]
    BY <1>1, <1>2, <1>4, <1>5 DEF Typed
  <1>7. /\ InHand = ToSet(s) \cup ToSet(held[r]) /\ InHand' = ToSet(held'[t]) \cup ToSet(held'[r])
        /\ ToSet(s) \cap ToSet(held[r]) = {}
        /\ ToSet(held'[t]) \cap ToSet(held'[r]) = {} => ToSet(held'["pump"]) \cap ToSet(held'["loop"]) = {}
        /\ Distinct(s) /\ Distinct(held[r]) /\ Distinct(dispatched)
    BY <1>1, <1>5 DEF InHand, Once, Tasks, s
  <1>8. ToSet(dispatched') \cup InHand' = ToSet(dispatched) \cup InHand
    BY <1>4, <1>6, <1>7
  <1>9. Typed'
    BY <1>1, <1>2, <1>4, <1>6 DEF Typed
  <1>10. Behind'
    BY <1>1, <1>2 DEF Behind
  <1>11. Boxed'
    <2>1. loop.pc = "asked" => t # "loop"
      BY <1>1, <1>2 DEF Boxed, s
    <2>2. t # "loop" => held'["loop"] = held["loop"]
      BY <1>5, <1>6 DEF Tasks
    <2> QED
      BY <1>1, <1>2, <2>1, <2>2 DEF Boxed
  <1>12. \A x : Covers(x)' <=> Covers(x)
    BY <1>2 DEF Covers
  <1>13. Once'
    <2>1. \A x \in ToSet(dispatched') \cup InHand' : Covers(x)'
      BY <1>1, <1>8, <1>12 DEF Once
    <2>2. ToSet(dispatched) \cap InHand = {} /\ u \in InHand /\ u \notin ToSet(dispatched)
          /\ u \notin ToSet(held[r])
      BY <1>1, <1>4, <1>7 DEF Once
    <2>3. ToSet(dispatched') \cap InHand' = {}
      BY <1>4, <1>6, <1>7, <2>2
    <2>4. ToSet(held'[t]) \cap ToSet(held'[r]) = {}
      BY <1>4, <1>6, <1>7
    <2>5. \A x \in Tasks : Distinct(held'[x])
      BY <1>4, <1>5, <1>6, <1>7
    <2>6. Distinct(dispatched')
      BY <1>4, <1>7, <2>2
    <2> QED
      BY <1>7, <2>1, <2>3, <2>4, <2>5, <2>6 DEF Once
  <1>14. NothingForgotten'
    <2>1. Settled' \cup InHand' = Settled \cup InHand
      BY <1>2, <1>8 DEF Settled, Lost
    <2> HIDE DEF Settled, InHand
    <2> QED
      BY <1>1, <1>2, <2>1, NothingNew
  <1>15. PtsUp
    <2>1. \A b \in Boxes : box[b].pts <= box[b].pts
      BY <1>1, BoxIs
    <2> QED
      BY <1>2, <2>1 DEF PtsUp
  <1>16. Apart'
    <2>1. Onward
      <3>1. \A b \in Boxes : box[b].pts <= box[b].pts
        BY <1>1, BoxIs
      <3> QED
        BY <1>2, <3>1 DEF Onward
    <2> QED
      BY <1>1, <1>2, <1>8, <1>9, <2>1, ApartStays
  <1> QED
    BY <1>9, <1>10, <1>11, <1>13, <1>14, <1>15, <1>16 DEF FlowInv

(* A task drops what it holds and goes on, or ends.                         *)
LEMMA HeldDropped ==
  ASSUME FlowInv, Typed', NEW t \in Tasks,
         cancelled' = cancelled \cup ToSet(held[t]), held' = [held EXCEPT ![t] = <<>>],
         wire' \subseteq wire, loop' = loop \/ loop'.pc = "ended",
         UNCHANGED <<made, box, banned, call, base, dispatched, answered, skipped, discarded>>
  PROVE  FlowInv' /\ PtsUp
  <1> DEFINE r == CHOOSE x \in Tasks : x # t
  <1>1. Typed /\ Behind /\ Boxed /\ Once /\ Apart /\ NothingForgotten
    BY DEF FlowInv
  <1>2. r \in Tasks /\ r # t /\ \A x \in Tasks : x = t \/ x = r
    BY DEF Tasks
  <1> HIDE DEF r
  <1>3. held'[t] = <<>> /\ held'[r] = held[r] /\ held' \in [Tasks -> Seq(Updates)]
    BY <1>1, <1>2 DEF Typed
  <1>4. Behind'
    BY <1>1 DEF Behind
  <1>5. Boxed'
    <2>1. held["loop"] = <<>> => held'["loop"] = <<>>
      BY <1>2, <1>3 DEF Tasks
    <2> QED
      BY <1>1, <2>1 DEF Boxed
  <1>6. ToSet(held'[t]) = {}
    BY <1>3 DEF ToSet
  <1>7. /\ InHand = ToSet(held[t]) \cup ToSet(held[r]) /\ InHand' = ToSet(held[r])
        /\ ToSet(held[t]) \cap ToSet(held[r]) = {} /\ ToSet(dispatched) \cap InHand = {}
        /\ ToSet(held'["pump"]) \cap ToSet(held'["loop"]) = {}
    BY <1>1, <1>2, <1>3, <1>6 DEF InHand, Once, Tasks
  <1>8. \A x : Covers(x)' <=> Covers(x)
    BY DEF Covers
  <1>9. Once'
    <2>1. \A x \in ToSet(dispatched') \cup InHand' : Covers(x)'
      BY <1>1, <1>7, <1>8 DEF Once
    <2>2. \A x \in Tasks : Distinct(held'[x])
      <3>1. Distinct(<<>>)
        BY DEF Distinct
      <3> QED
        BY <1>1, <1>2, <1>3, <3>1 DEF Once
    <2> QED
      BY <1>1, <1>7, <2>1, <2>2 DEF Once
  <1>10. Apart'
    <2>1. Passed' = Passed \cup ToSet(held[t]) /\ dispatched' = dispatched
      BY DEF Passed, Lost
    <2>2. \A x \in Passed \cup InHand : Covers(x)'
      BY <1>1, <1>8 DEF Apart, Once
    <2>3. (ToSet(dispatched) \cup InHand) \cap Passed = {}
      BY <1>1 DEF Apart
    <2> HIDE DEF Covers, InHand
    <2>4. \A x \in Passed' : Covers(x)'
      BY <1>7, <2>1, <2>2
    <2>5. (ToSet(dispatched') \cup InHand') \cap Passed' = {}
      BY <1>7, <2>1, <2>3
    <2> QED
      BY <2>4, <2>5 DEF Apart
  <1>11. NothingForgotten'
    <2>1. Settled \cup InHand \subseteq Settled' \cup InHand'
      BY <1>7 DEF Settled, Lost
    <2> HIDE DEF Settled, InHand
    <2> QED
      BY <1>1, <2>1, NothingNew
  <1>12. PtsUp
    <2>1. \A b \in Boxes : box[b].pts <= box[b].pts
      BY <1>1, BoxIs
    <2> QED
      BY <2>1 DEF PtsUp
  <1> QED
    BY <1>4, <1>5, <1>9, <1>10, <1>11, <1>12 DEF FlowInv

LEMMA DropSteps ==
  ASSUME FlowInv, Migrate \/ RunEnds \/ \E t \in Tasks : DispatchRaises(t)
  PROVE  FlowInv' /\ PtsUp
  <1>1. Typed
    BY DEF FlowInv
  <1>2. ASSUME NEW t \in Tasks, Migrate \/ RunEnds, t = "pump" PROVE FlowInv' /\ PtsUp
    <2>1. /\ cancelled' = cancelled \cup ToSet(held[t]) /\ held' = [held EXCEPT ![t] = <<>>]
          /\ wire' \subseteq wire /\ pump' \in BOOLEAN /\ fresh' \in {fresh, TRUE}
          /\ UNCHANGED <<made, raised, box, banned, hash, loop, call, base, dispatched, answered,
                         skipped, discarded>>
      BY <1>2 DEF Migrate, RunEnds
    <2>2. held' \in [Tasks -> Seq(Updates)] /\ ToSet(held[t]) \subseteq Updates
      BY <1>1, <1>2, <2>1, EmptySeq, PutsAre DEF Typed
    <2>3. Typed'
      BY <1>1, <2>1, <2>2 DEF Typed
    <2> QED
      BY <1>2, <2>1, <2>3, HeldDropped
  <1>3. ASSUME NEW t \in Tasks, DispatchRaises(t) PROVE FlowInv' /\ PtsUp
    <2>1. /\ cancelled' = cancelled \cup ToSet(held[t]) /\ held' = [held EXCEPT ![t] = <<>>]
          /\ raised' = raised \cup {t} /\ pump' \in BOOLEAN
          /\ loop' = loop \/ loop' = [Idle EXCEPT !.pc = "ended"]
          /\ UNCHANGED <<made, wire, fresh, box, banned, hash, call, base, dispatched, answered,
                         skipped, discarded>>
      BY <1>3 DEF DispatchRaises
    <2>2. held' \in [Tasks -> Seq(Updates)] /\ ToSet(held[t]) \subseteq Updates
      BY <1>1, <1>3, <2>1, EmptySeq, PutsAre DEF Typed
    <2>3. loop' \in LoopState /\ (loop' = loop \/ loop'.pc = "ended")
      BY <1>1, <2>1, IdleIs DEF Typed, LoopState, Idle
    <2>4. Typed'
      BY <1>1, <2>1, <2>2, <2>3 DEF Typed
    <2> QED
      BY <2>1, <2>3, <2>4, HeldDropped
  <1>4. "pump" \in Tasks
    BY DEF Tasks
  <1> QED
    BY <1>2, <1>3, <1>4

----------------------------------------------------------------------------
LEMMA FlowStart == Init => FlowInv
  <1> SUFFICES ASSUME Init PROVE FlowInv
    OBVIOUS
  <1>1. <<>> \in Seq(Updates) /\ ToSet(<<>>) = {} /\ Distinct(<<>>)
    BY EmptySeq DEF ToSet, Distinct
  <1>2. \A b \in Boxes : MaxMade[b] \in Nat
    BY BoundsNat
  <1>3. loop \in LoopState /\ loop.pc = "seed"
    BY IdleIs DEF Init, LoopState
  <1>4. /\ made = [b \in Boxes |-> 0] /\ box = [b \in Boxes |-> Unknown] /\ base = [b \in Boxes |-> 0]
        /\ held = [t \in Tasks |-> <<>>] /\ dispatched = <<>> /\ wire = {} /\ call = NoCall /\ banned = {}
        /\ pump = TRUE /\ raised = {} /\ fresh = TRUE /\ hash \subseteq Channels
        /\ answered = {} /\ skipped = {} /\ discarded = {} /\ cancelled = {}
    BY DEF Init
  <1>5. Typed
    BY <1>1, <1>2, <1>3, <1>4, IdleIs DEF Typed
  <1>6. Behind
    <2>1. \A b \in Boxes : made[b] = 0 /\ box[b].pts = 0 /\ box[b].stash = {}
      BY <1>4, IdleIs
    <2> QED
      BY <1>3, <1>4, <2>1 DEF Behind
  <1>7. Boxed /\ NothingForgotten
    BY <1>3, <1>4, IdleIs DEF Boxed, NothingForgotten
  <1>8. Once
    <2>1. InHand = {}
      BY <1>1, <1>4 DEF InHand, Tasks
    <2> QED
      BY <1>1, <1>4, <2>1 DEF Once, Tasks
  <1>9. Apart
    <2>1. InHand = {} /\ Passed = {}
      BY <1>1, <1>4 DEF InHand, Tasks, Passed, Lost
    <2> QED
      BY <1>1, <1>4, <2>1 DEF Apart
  <1> QED
    BY <1>5, <1>6, <1>7, <1>8, <1>9 DEF FlowInv

LEMMA FlowStep == FlowInv /\ [Next]_vars => FlowInv' /\ PtsUp
  <1> SUFFICES ASSUME FlowInv, [Next]_vars PROVE FlowInv' /\ PtsUp
    OBVIOUS
  <1>1. CASE \E b \in Boxes : ServerMakes(b) \/ LoopAsks(b) \/ CallSent(b)
    BY <1>1, ServerMakesStep, LoopAsksStep, CallSentStep
  <1>2. CASE \E u \in wire : PumpReads(u[1], u[2])
    BY <1>2, PumpReadsStep
  <1>3. CASE \E t \in Tasks : Dispatch(t)
    BY <1>3, DispatchStep
  <1>4. CASE Reconnects \/ PumpReturns \/ LoopChecksEmpty \/ ServerAnswers
             \/ (\E c \in Channels : LearnsHash(c)) \/ UNCHANGED vars
    BY <1>4, SmallSteps
  <1>5. CASE PumpConnected
    BY <1>5, PumpConnectedStep
  <1>6. CASE LoopSeeds
    BY <1>6, LoopSeedsStep
  <1>7. CASE LoopApplies
    BY <1>7, LoopAppliesStep
  <1>8. CASE LoopFails
    BY <1>8, LoopFailsStep
  <1>9. CASE CallReturns
    BY <1>9, CallReturnsStep
  <1>10. CASE Migrate \/ RunEnds \/ \E t \in Tasks : DispatchRaises(t)
    BY <1>10, DropSteps
  <1> QED
    BY <1>1, <1>2, <1>3, <1>4, <1>5, <1>6, <1>7, <1>8, <1>9, <1>10 DEF Next

(* The invariant holds in every state the program reaches.                  *)
THEOREM FlowInvariant == Spec => []FlowInv
  BY FlowStart, FlowStep, PTL DEF Spec

----------------------------------------------------------------------------
(* Every variable has its type, and no box is ahead of the server.          *)
THEOREM FlowTyped == Spec => []TypeOK
  <1>1. FlowInv => TypeOK
    <2> SUFFICES ASSUME FlowInv PROVE TypeOK
      OBVIOUS
    <2>1. Typed /\ Behind
      BY DEF FlowInv
    <2>2. loop.pc \in {"seed", "state", "poll", "asked", "ended"}
      BY <2>1 DEF Typed, LoopState
    <2> QED
      BY <2>1, <2>2 DEF Typed, Behind, TypeOK, Box
  <1> QED
    BY <1>1, FlowInvariant, PTL

(* No update reaches the dispatch queue twice, nor once it was passed over: *)
(* what the pump and the loop get lies above all that was put, let pass,    *)
(* left out, discarded or cancelled before.                                 *)
THEOREM FlowNoDuplicates == Spec => []NoDuplicates
  <1>1. FlowInv => NoDuplicates
    <2> SUFFICES ASSUME FlowInv PROVE NoDuplicates
      OBVIOUS
    <2>1. \A i, j \in DOMAIN dispatched : i # j => dispatched[i] # dispatched[j]
      BY DEF FlowInv, Once, Distinct
    <2>2. ToSet(dispatched) \cap (answered \cup Lost) = {}
      BY DEF FlowInv, Apart, Passed
    <2> QED
      BY <2>1, <2>2 DEF NoDuplicates
  <1> QED
    BY <1>1, FlowInvariant, PTL

(* What a box's pts covers was put, is about to be, was returned to the     *)
(* caller of a request, or was lost in one of the three known ways.         *)
THEOREM FlowForgetsNothing == Spec => []NothingForgotten
  <1>1. FlowInv => NothingForgotten
    BY DEF FlowInv
  <1> QED
    BY <1>1, FlowInvariant, PTL

(* A box that stays known never goes back.                                  *)
THEOREM FlowPtsNeverFall == Spec => PtsNeverFalls
  <1>1. FlowInv /\ [Next]_vars => [\A b \in Boxes : box[b].known /\ box'[b].known => box[b].pts <= box'[b].pts]_vars
    BY FlowStep DEF PtsUp
  <1> QED
    BY <1>1, FlowInvariant, PTL DEF Spec, PtsNeverFalls
=============================================================================
