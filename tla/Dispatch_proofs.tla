---------------------------- MODULE Dispatch_proofs ----------------------------
(***************************************************************************)
(* Theorems about Dispatch for any number of workers, handlers, groups and *)
(* updates.                                                                *)
(***************************************************************************)
EXTENDS Dispatch, FiniteSetTheorems, SequenceTheorems, WellFoundedInduction, TLAPS

Lists ==
  /\ keys \in Seq(Groups) /\ bucket \in [Groups -> Seq(Handlers)] /\ added \in Seq(Handlers)
  /\ cache \subseteq {SortedGroups}
  /\ \A i, j \in DOMAIN added : added[i] = added[j] => i = j
  /\ \A g \in Groups : /\ Len(bucket[g]) <= Len(added) /\ (bucket[g] # <<>> => g \in Range(keys))
                       /\ Range(bucket[g]) \subseteq Range(added)
                       /\ \A j \in DOMAIN bucket[g] : \A i \in 1 .. j - 1 : Earlier(bucket[g][i], bucket[g][j])
  /\ \A g, k \in Groups : g # k => Range(bucket[g]) \cap Range(bucket[k]) = {}

(* A dispatch: the groups it has left, the index in the first of them, and  *)
(* its log.                                                                 *)
LogType == [ran : Seq(Groups \X Handlers), since : SUBSET Handlers, cut : SUBSET Groups,
            shifted : SUBSET Groups, stopped : BOOLEAN]
Sorted(gs) == gs \in Seq(Groups) /\ \A j \in DOMAIN gs : \A i \in 1 .. j - 1 : gs[i] < gs[j]
Known(l) == l.since \subseteq Range(added) /\ \A i \in DOMAIN l.ran : l.ran[i][2] \in Range(added)

(* What ran is in order, and what may still run comes after it.             *)
RanInOrder(l) == \A j \in DOMAIN l.ran : \A i \in 1 .. j - 1 : Follows(l.ran[i], l.ran[j])
Ahead(l, gs, n) ==
  \A i \in DOMAIN l.ran : \A k \in DOMAIN gs :
    /\ l.ran[i][1] <= gs[k]
    /\ \A m \in DOMAIN bucket[gs[k]] : (k = 1 => m >= n) => Follows(l.ran[i], <<gs[k], bucket[gs[k]][m]>>)

(* A group with a fitting handler has run one or is still to be begun.      *)
Served(l, gs, n) ==
  \A g \in Groups : l.since \cap Range(bucket[g]) # {} =>
    \/ \E i \in DOMAIN l.ran : l.ran[i][1] = g
    \/ \E k \in DOMAIN gs : gs[k] = g /\ (k = 1 => n = 1)

(* A fitting handler of a group that nobody ended has run or is ahead.      *)
PassedOn(l, gs, n) ==
  \A g \in Groups \ (l.cut \cup l.shifted) : \A m \in DOMAIN bucket[g] : bucket[g][m] \in l.since =>
    \/ <<g, bucket[g][m]>> \in Range(l.ran)
    \/ \E k \in DOMAIN gs : gs[k] = g /\ (k = 1 => m >= n)

Sound(l, gs, n) ==
  /\ Sorted(gs) /\ Known(l) /\ RanInOrder(l) /\ Ahead(l, gs, n)
  /\ ~l.stopped => Served(l, gs, n) /\ PassedOn(l, gs, n)

TaskType == [update : SUBSET Updates, groups : Seq(Groups), next : Nat \ {0}, runs : SUBSET Handlers]
Dispatches ==
  /\ task \in [Workers -> TaskType] /\ log \in [Workers -> LogType]
  /\ \A w \in Workers :
       /\ Sound(log[w], task[w].groups, task[w].next)
       /\ Waiting(w) => /\ ~log[w].stopped /\ task[w].groups # <<>> /\ task[w].next > 1
                        /\ \A u \in task[w].update : \A h \in log[w].since : u \in Wants[h]
       /\ ~Waiting(w) => task[w].groups = <<>> /\ task[w].update = {}

DispatchInv == Lists /\ Dispatches

----------------------------------------------------------------------------
(* Sequences: one more, one less, and the rest from an index on.            *)
LEMMA Appended ==
  ASSUME NEW S, NEW s \in Seq(S), NEW x \in S
  PROVE  /\ Append(s, x) \in Seq(S) /\ Len(Append(s, x)) = Len(s) + 1
         /\ DOMAIN s = 1 .. Len(s) /\ DOMAIN Append(s, x) = 1 .. Len(s) + 1
         /\ Append(s, x)[Len(s) + 1] = x /\ \A i \in DOMAIN s : Append(s, x)[i] = s[i]
         /\ Range(Append(s, x)) = Range(s) \cup {x}
  <1>1. /\ Append(s, x) \in Seq(S) /\ Len(Append(s, x)) = Len(s) + 1
        /\ DOMAIN s = 1 .. Len(s) /\ DOMAIN Append(s, x) = 1 .. Len(s) + 1
        /\ Append(s, x)[Len(s) + 1] = x /\ \A i \in DOMAIN s : Append(s, x)[i] = s[i]
    BY AppendProperties, LenProperties
  <1>2. DOMAIN Append(s, x) = DOMAIN s \cup {Len(s) + 1} /\ Len(s) \in Nat
    BY <1>1, LenProperties
  <1>3. \A i \in DOMAIN Append(s, x) : i \in DOMAIN s \/ i = Len(s) + 1
    BY <1>2
  <1>4. Range(Append(s, x)) \subseteq Range(s) \cup {x}
    BY <1>1, <1>3 DEF Range
  <1>5. Range(s) \cup {x} \subseteq Range(Append(s, x))
    BY <1>1, <1>2 DEF Range
  <1> QED
    BY <1>1, <1>4, <1>5

LEMMA Removed ==
  ASSUME NEW S, NEW s \in Seq(S), NEW i \in DOMAIN s
  PROVE  /\ RemoveAt(s, i) \in Seq(S) /\ Len(RemoveAt(s, i)) = Len(s) - 1
         /\ DOMAIN s = 1 .. Len(s) /\ DOMAIN RemoveAt(s, i) = 1 .. Len(s) - 1
         /\ \A j \in 1 .. Len(s) - 1 : RemoveAt(s, i)[j] = IF j < i THEN s[j] ELSE s[j + 1]
  <1> DEFINE a == SubSeq(s, 1, i - 1)
             b == SubSeq(s, i + 1, Len(s))
  <1>1. Len(s) \in Nat /\ DOMAIN s = 1 .. Len(s) /\ \A j \in 1 .. Len(s) : s[j] \in S
    BY LenProperties, ElementOfSeq
  <1>2. i \in 1 .. Len(s)
    BY <1>1
  <1>3. /\ a \in Seq(S) /\ Len(a) = i - 1
        /\ \A j \in 1 .. i - 1 : a[j] = s[j]
    <2>1. i - 1 \in Int /\ \A j \in 1 .. i - 1 : s[j] \in S
      BY <1>1, <1>2
    <2>2. /\ SubSeq(s, 1, i - 1) \in Seq(S)
          /\ Len(SubSeq(s, 1, i - 1)) = IF 1 <= i - 1 THEN (i - 1) - 1 + 1 ELSE 0
          /\ \A j \in 1 .. (i - 1) - 1 + 1 : SubSeq(s, 1, i - 1)[j] = s[1 + j - 1]
      BY <2>1, SubSeqProperties
    <2>3. (i - 1) - 1 + 1 = i - 1 /\ i - 1 >= 0 /\ (1 <= i - 1 \/ i - 1 = 0)
      BY <1>1, <1>2
    <2>4. \A j \in 1 .. i - 1 : 1 + j - 1 = j
      OBVIOUS
    <2>5. \A j \in 1 .. i - 1 : SubSeq(s, 1, i - 1)[j] = s[j]
      BY <2>2, <2>3, <2>4
    <2>6. Len(SubSeq(s, 1, i - 1)) = i - 1
      BY <2>2, <2>3
    <2> QED
      BY <2>2, <2>5, <2>6
  <1>4. /\ b \in Seq(S) /\ Len(b) = Len(s) - i
        /\ \A j \in 1 .. Len(s) - i : b[j] = s[i + j]
    <2>1. i + 1 \in Int /\ \A j \in i + 1 .. Len(s) : s[j] \in S
      BY <1>1, <1>2
    <2>2. /\ SubSeq(s, i + 1, Len(s)) \in Seq(S)
          /\ Len(SubSeq(s, i + 1, Len(s))) = IF i + 1 <= Len(s) THEN Len(s) - (i + 1) + 1 ELSE 0
          /\ \A j \in 1 .. Len(s) - (i + 1) + 1 : SubSeq(s, i + 1, Len(s))[j] = s[(i + 1) + j - 1]
      BY <1>1, <2>1, SubSeqProperties
    <2>3. Len(s) - (i + 1) + 1 = Len(s) - i /\ (i + 1 <= Len(s) \/ Len(s) - i = 0)
      BY <1>1, <1>2
    <2>4. \A j \in 1 .. Len(s) - i : (i + 1) + j - 1 = i + j
      BY <1>1, <1>2
    <2>5. \A j \in 1 .. Len(s) - i : SubSeq(s, i + 1, Len(s))[j] = s[i + j]
      BY <2>2, <2>3, <2>4
    <2>6. Len(SubSeq(s, i + 1, Len(s))) = Len(s) - i
      BY <2>2, <2>3
    <2> QED
      BY <2>2, <2>5, <2>6
  <1> HIDE DEF a, b
  <1>5. /\ a \o b \in Seq(S) /\ Len(a \o b) = Len(a) + Len(b)
        /\ \A j \in 1 .. Len(a) + Len(b) : (a \o b)[j] = IF j <= Len(a) THEN a[j] ELSE b[j - Len(a)]
    BY <1>3, <1>4, ConcatProperties
  <1>6. RemoveAt(s, i) = a \o b
    BY DEF RemoveAt, a, b
  <1>7. ASSUME NEW j \in 1 .. Len(s) - 1 PROVE (a \o b)[j] = IF j < i THEN s[j] ELSE s[j + 1]
    <2>0. j \in 1 .. Len(a) + Len(b)
      BY <1>1, <1>2, <1>3, <1>4
    <2>1. CASE j < i
      <3>1. j <= Len(a) /\ j \in 1 .. i - 1
        BY <1>1, <1>2, <1>3, <2>1
      <3> QED
        BY <1>3, <1>5, <2>0, <2>1, <3>1
    <2>2. CASE ~(j < i)
      <3>1. j - Len(a) \in 1 .. Len(s) - i /\ ~(j <= Len(a)) /\ i + (j - Len(a)) = j + 1
        BY <1>1, <1>2, <1>3, <2>2
      <3>2. (a \o b)[j] = b[j - Len(a)]
        BY <1>5, <2>0, <3>1
      <3>3. b[j - Len(a)] = s[j + 1]
        BY <1>4, <3>1
      <3> QED
        BY <2>2, <3>2, <3>3
    <2> QED
      BY <2>1, <2>2
  <1>8. Len(a \o b) = Len(s) - 1 /\ DOMAIN (a \o b) = 1 .. Len(s) - 1
    <2>1. Len(a \o b) = Len(s) - 1
      BY <1>1, <1>2, <1>3, <1>4, <1>5
    <2>2. DOMAIN (a \o b) = 1 .. Len(a \o b)
      BY <1>5, LenProperties
    <2> QED
      BY <2>1, <2>2
  <1> QED
    BY <1>1, <1>5, <1>6, <1>7, <1>8

LEMMA RestFrom ==
  ASSUME NEW S, NEW s \in Seq(S), NEW k \in DOMAIN s
  PROVE  /\ DOMAIN s = 1 .. Len(s) /\ Len(s) \in Nat /\ k \in Nat
         /\ SubSeq(s, k, Len(s)) \in Seq(S) /\ DOMAIN SubSeq(s, k, Len(s)) = 1 .. Len(s) - k + 1
         /\ \A i \in 1 .. Len(s) - k + 1 : SubSeq(s, k, Len(s))[i] = s[k + i - 1]
  <1>1. Len(s) \in Nat /\ DOMAIN s = 1 .. Len(s) /\ \A j \in 1 .. Len(s) : s[j] \in S
    BY LenProperties, ElementOfSeq
  <1>2. k \in 1 .. Len(s) /\ \A j \in k .. Len(s) : s[j] \in S
    BY <1>1
  <1>3. /\ SubSeq(s, k, Len(s)) \in Seq(S)
        /\ Len(SubSeq(s, k, Len(s))) = IF k <= Len(s) THEN Len(s) - k + 1 ELSE 0
        /\ \A j \in 1 .. Len(s) - k + 1 : SubSeq(s, k, Len(s))[j] = s[k + j - 1]
    BY <1>1, <1>2, SubSeqProperties
  <1> QED
    BY <1>1, <1>2, <1>3, LenProperties

LEMMA TailOf ==
  ASSUME NEW S, NEW s \in Seq(S), s # <<>>
  PROVE  /\ Tail(s) \in Seq(S) /\ Head(s) = s[1] /\ 1 \in DOMAIN s
         /\ DOMAIN s = 1 .. Len(s) /\ Len(s) \in Nat /\ DOMAIN Tail(s) = 1 .. Len(s) - 1
         /\ \A i \in 1 .. Len(s) - 1 : Tail(s)[i] = s[i + 1]
  <1>1. Len(s) \in Nat \ {0} /\ DOMAIN s = 1 .. Len(s)
    BY EmptySeq, LenProperties
  <1>2. /\ Tail(s) \in Seq(S) /\ Len(Tail(s)) = Len(s) - 1
        /\ \A i \in 1 .. Len(Tail(s)) : Tail(s)[i] = s[i + 1]
    BY HeadTailProperties
  <1>3. DOMAIN Tail(s) = 1 .. Len(s) - 1
    BY <1>2, LenProperties
  <1> QED
    BY <1>1, <1>2, <1>3

----------------------------------------------------------------------------
(* The sorted groups, and the first handler that wants an update.           *)
LEMMA BelowGrows ==
  ASSUME IsFiniteSet(Range(keys)), Range(keys) \subseteq Int,
         NEW g \in Range(keys), NEW h \in Range(keys)
  PROVE  /\ Below(g) \in 0 .. Cardinality(Range(keys)) - 1
         /\ g < h => Below(g) < Below(h)
  <1> DEFINE S == Range(keys)
             Less(x) == {k \in S : k < x}
  <1>1. ASSUME NEW x \in S PROVE IsFiniteSet(Less(x)) /\ Cardinality(Less(x)) \in Nat
                                 /\ Cardinality(Less(x)) <= Cardinality(S) - 1
    <2>1. Less(x) \subseteq S \ {x} /\ Less(x) \subseteq S
      OBVIOUS
    <2>2. IsFiniteSet(S \ {x}) /\ Cardinality(S \ {x}) = Cardinality(S) - 1
      BY FS_RemoveElement
    <2> HIDE DEF Less
    <2> QED
      BY <2>1, <2>2, FS_Subset, FS_CardinalityType
  <1>2. g < h => Cardinality(Less(g)) < Cardinality(Less(h))
    <2> SUFFICES ASSUME g < h PROVE Cardinality(Less(g)) < Cardinality(Less(h))
      OBVIOUS
    <2>1. Less(g) \cup {g} \subseteq Less(h) /\ g \notin Less(g)
      OBVIOUS
    <2> HIDE DEF Less
    <2>2. Cardinality(Less(g) \cup {g}) = Cardinality(Less(g)) + 1
      BY <1>1, <2>1, FS_AddElement
    <2>3. Cardinality(Less(g) \cup {g}) <= Cardinality(Less(h))
      BY <1>1, <2>1, FS_Subset
    <2> QED
      BY <1>1, <2>2, <2>3
  <1>3. Cardinality(S) \in Nat /\ Below(g) = Cardinality(Less(g)) /\ Below(h) = Cardinality(Less(h))
    BY FS_CardinalityType DEF Below
  <1> HIDE DEF Less, S
  <1> QED
    BY <1>1, <1>2, <1>3 DEF S

LEMMA KeysFinite == ASSUME keys \in Seq(Groups) PROVE IsFiniteSet(Range(keys)) /\ Range(keys) \subseteq Int
  <1>1. DOMAIN keys = 1 .. Len(keys) /\ Len(keys) \in Nat /\ keys \in [1 .. Len(keys) -> Groups]
    BY LenProperties
  <1>2. keys \in Surjection(1 .. Len(keys), Range(keys))
    BY <1>1 DEF Surjection, Range
  <1>3. IsFiniteSet(1 .. Len(keys))
    BY <1>1, FS_Interval
  <1>4. Range(keys) \subseteq Int
    BY <1>1, DispatchAssumption DEF Range
  <1> QED
    BY <1>2, <1>3, <1>4, FS_Surjection

LEMMA GroupsSorted ==
  ASSUME keys \in Seq(Groups)
  PROVE  Sorted(SortedGroups) /\ Range(SortedGroups) = Range(keys)
  <1> DEFINE S == Range(keys)
             n == Cardinality(S)
             gs == SortedGroups
             rank == [g \in S |-> Below(g)]
  <1>1. IsFiniteSet(S) /\ n \in Nat /\ S \subseteq Int /\ S \subseteq Groups
    BY KeysFinite, FS_CardinalityType, LenProperties DEF Range
  <1>2. \A g, h \in S : Below(g) \in 0 .. n - 1 /\ (g < h => Below(g) < Below(h))
    BY <1>1, BelowGrows
  <1> HIDE DEF S
  <1>3. \A g, h \in S : Below(g) = Below(h) => g = h
    <2> SUFFICES ASSUME NEW g \in S, NEW h \in S, Below(g) = Below(h), g # h PROVE FALSE
      OBVIOUS
    <2>1. g < h \/ h < g
      BY <1>1
    <2> QED
      BY <1>2, <2>1
  <1>4. rank \in Injection(S, 0 .. n - 1)
    BY <1>2, <1>3 DEF Injection, IsInjective
  <1> HIDE DEF n
  <1>5. IsFiniteSet(0 .. n - 1) /\ Cardinality(0 .. n - 1) = n
    <2> DEFINE b == n - 1
    <2>1. 0 \in Int /\ b \in Int /\ (0 > b => n = 0) /\ b - 0 + 1 = n
      BY <1>1
    <2> HIDE DEF b
    <2>2. IsFiniteSet(0 .. b) /\ Cardinality(0 .. b) = IF 0 > b THEN 0 ELSE b - 0 + 1
      BY <2>1, FS_Interval
    <2> QED
      BY <2>1, <2>2
  <1>6. rank \in Surjection(S, 0 .. n - 1)
    <2> HIDE DEF rank
    <2> QED
      BY <1>4, <1>5, FS_Injection DEF n
  <1>7. ASSUME NEW i \in 1 .. n PROVE gs[i] \in S /\ Below(gs[i]) = i - 1
    <2>1. i - 1 \in 0 .. n - 1
      BY <1>1
    <2>2. \E g \in S : Below(g) = i - 1
      BY <1>6, <2>1 DEF Surjection
    <2>3. gs[i] = CHOOSE g \in S : Below(g) = i - 1
      BY DEF SortedGroups, n, S
    <2> QED
      BY <2>2, <2>3
  <1>8. gs = [i \in 1 .. n |-> CHOOSE g \in S : Below(g) = i - 1]
    BY DEF SortedGroups, n, S
  <1>9. gs \in Seq(Groups) /\ DOMAIN gs = 1 .. n
    <2>1. DOMAIN gs = 1 .. n
      BY <1>8
    <2>2. gs \in [1 .. n -> Groups]
      BY <1>1, <1>7, <1>8
    <2> HIDE DEF gs
    <2> QED
      BY <1>1, <2>1, <2>2, SeqDef
  <1> HIDE DEF gs
  <1>10. ASSUME NEW j \in 1 .. n, NEW i \in 1 .. j - 1 PROVE gs[i] < gs[j]
    <2>0. i \in 1 .. n /\ i < j
      BY <1>1
    <2>1. i \in 1 .. n /\ gs[i] \in Int /\ gs[j] \in Int
      BY <1>1, <1>7, <2>0
    <2>2. gs[i] < gs[j] \/ gs[i] = gs[j] \/ gs[j] < gs[i]
      <3>1. \A x, y \in Int : x < y \/ x = y \/ y < x
        OBVIOUS
      <3> HIDE DEF gs
      <3> QED
        BY <2>1, <3>1, Zenon
    <2>3. ~ (gs[j] < gs[i]) /\ gs[i] # gs[j]
      BY <1>1, <1>2, <1>7, <2>1
    <2> QED
      BY <2>2, <2>3
  <1>11. ASSUME NEW g \in S PROVE g \in Range(gs)
    <2>1. Below(g) + 1 \in 1 .. n
      BY <1>1, <1>2
    <2>2. Below(gs[Below(g) + 1]) = Below(g) /\ gs[Below(g) + 1] \in S
      BY <1>1, <1>2, <1>7, <2>1
    <2> QED
      BY <1>3, <1>9, <2>1, <2>2 DEF Range
  <1>12. Range(gs) = S
    BY <1>7, <1>9, <1>11 DEF Range
  <1> QED
    BY <1>9, <1>10, <1>12 DEF Sorted, gs, S

LEMMA Least ==
  ASSUME NEW S \in SUBSET Nat, S # {}
  PROVE  \E x \in S : \A y \in S : x <= y
  <1> DEFINE Less == {ss \in Nat \X Nat : ss[1] < ss[2]}
  <1>1. IsWellFoundedOn(Less, Nat)
    BY NatLessThanWellFounded DEF OpToRel
  <1>2. \A x, y \in Nat : ~ (<<y, x>> \in Less) => x <= y
    OBVIOUS
  <1> HIDE DEF Less
  <1>3. PICK x \in S : \A y \in S : ~ (<<y, x>> \in Less)
    BY <1>1, WFMin
  <1> QED
    BY <1>2, <1>3

LEMMA FirstHit ==
  ASSUME NEW gs, NEW n, NEW u, Len(gs) \in Nat, Len(added) \in Nat, Hits(gs, n, u) # {}
  PROVE  \E p \in Hits(gs, n, u) : \A r \in Hits(gs, n, u) : Before(p, r)
  <1> DEFINE H == Hits(gs, n, u)
             K == {p[1] : p \in H}
  <1>1. H \subseteq Nat \X Nat
    BY DEF Hits
  <1> HIDE DEF H
  <1>2. K \subseteq Nat /\ K # {}
    BY <1>1 DEF H
  <1>3. PICK k \in K : \A x \in K : k <= x
    BY <1>2, Least
  <1> DEFINE M == {p[2] : p \in {q \in H : q[1] = k}}
  <1>4. M \subseteq Nat /\ M # {}
    BY <1>1
  <1>5. PICK m \in M : \A x \in M : m <= x
    BY <1>4, Least
  <1>6. PICK p \in H : p[1] = k /\ p[2] = m
    OBVIOUS
  <1>7. ASSUME NEW r \in H PROVE Before(p, r)
    <2>1. r[1] \in Nat /\ k <= r[1] /\ k \in Nat
      BY <1>1, <1>2, <1>3
    <2>2. r[1] = k => m <= r[2]
      BY <1>5
    <2> QED
      BY <1>6, <2>1, <2>2 DEF Before
  <1> QED
    BY <1>6, <1>7 DEF H

----------------------------------------------------------------------------
(* A dispatch goes on: to the first handler that fits, or to its end.       *)
LEMMA RanMore ==
  ASSUME NEW l \in LogType, NEW e \in Groups \X Handlers, RanInOrder(l),
         \A i \in DOMAIN l.ran : Follows(l.ran[i], e)
  PROVE  LET m == [l EXCEPT !.ran = Append(@, e)]
         IN  /\ m \in LogType /\ RanInOrder(m) /\ m.since = l.since /\ m.cut = l.cut
             /\ m.shifted = l.shifted /\ m.stopped = l.stopped
             /\ Range(m.ran) = Range(l.ran) \cup {e}
             /\ Len(l.ran) + 1 \in DOMAIN m.ran /\ m.ran[Len(l.ran) + 1] = e
             /\ \A i \in DOMAIN l.ran : i \in DOMAIN m.ran /\ m.ran[i] = l.ran[i]
             /\ \A i \in DOMAIN m.ran : i \in DOMAIN l.ran \/ i = Len(l.ran) + 1
  <1> DEFINE r == Append(l.ran, e)
             m == [l EXCEPT !.ran = Append(@, e)]
  <1>1. l.ran \in Seq(Groups \X Handlers)
    BY DEF LogType
  <1>2. /\ r \in Seq(Groups \X Handlers) /\ DOMAIN l.ran = 1 .. Len(l.ran) /\ DOMAIN r = 1 .. Len(l.ran) + 1
        /\ r[Len(l.ran) + 1] = e /\ \A i \in DOMAIN l.ran : r[i] = l.ran[i]
        /\ Range(r) = Range(l.ran) \cup {e} /\ Len(l.ran) \in Nat
    BY <1>1, Appended, LenProperties
  <1> HIDE DEF r
  <1>3. /\ m \in LogType /\ m.ran = r /\ m.since = l.since /\ m.cut = l.cut
        /\ m.shifted = l.shifted /\ m.stopped = l.stopped
    BY <1>2 DEF LogType, r
  <1>4. \A i \in DOMAIN r : i \in DOMAIN l.ran \/ i = Len(l.ran) + 1
    BY <1>2
  <1>5. \A i \in DOMAIN l.ran : i \in DOMAIN r
    BY <1>2
  <1>6. RanInOrder(m)
    <2> SUFFICES ASSUME NEW j \in DOMAIN r, NEW i \in 1 .. j - 1 PROVE Follows(r[i], r[j])
      BY <1>3 DEF RanInOrder
    <2>1. i \in DOMAIN l.ran
      BY <1>2
    <2>2. CASE j \in DOMAIN l.ran
      BY <1>2, <2>1, <2>2 DEF RanInOrder
    <2>3. CASE j = Len(l.ran) + 1
      BY <1>2, <2>1, <2>3
    <2> QED
      BY <1>4, <2>2, <2>3
  <1>7. Len(l.ran) + 1 \in DOMAIN r
    BY <1>2
  <1> HIDE DEF m
  <1> QED
    BY <1>2, <1>3, <1>4, <1>5, <1>6, <1>7 DEF m

(* The first fitting handler from n of the first group on: what is skipped  *)
(* does not fit.                                                            *)
LEMMA HitIs ==
  ASSUME Lists, NEW gs, Sorted(gs), NEW n \in Nat, NEW u, NEW p \in Hits(gs, n, u)
  PROVE  /\ p[1] \in DOMAIN gs /\ gs[p[1]] \in Groups /\ p[2] \in DOMAIN bucket[gs[p[1]]]
         /\ p[1] \in Nat \ {0} /\ p[2] \in Nat \ {0} /\ (p[1] = 1 => p[2] >= n)
         /\ bucket[gs[p[1]]][p[2]] \in Handlers /\ bucket[gs[p[1]]][p[2]] \in Range(added)
  <1>1. p[1] \in 1 .. Len(gs) /\ p[2] \in DOMAIN bucket[gs[p[1]]] /\ (p[1] = 1 => p[2] >= n)
    BY DEF Hits
  <1>2. DOMAIN gs = 1 .. Len(gs) /\ Len(gs) \in Nat /\ gs[p[1]] \in Groups
    BY <1>1, LenProperties, ElementOfSeq DEF Sorted
  <1>3. bucket[gs[p[1]]] \in Seq(Handlers)
    BY <1>2 DEF Lists
  <1>4. DOMAIN bucket[gs[p[1]]] = 1 .. Len(bucket[gs[p[1]]]) /\ Len(bucket[gs[p[1]]]) \in Nat
        /\ bucket[gs[p[1]]][p[2]] \in Handlers
    BY <1>1, <1>3, LenProperties, ElementOfSeq
  <1>5. bucket[gs[p[1]]][p[2]] \in Range(added)
    BY <1>1, <1>2 DEF Lists, Range
  <1> QED
    BY <1>1, <1>2, <1>4, <1>5

LEMMA IsHit ==
  ASSUME Lists, NEW gs, Sorted(gs), NEW n \in Nat, NEW u,
         NEW k \in DOMAIN gs, NEW m \in DOMAIN bucket[gs[k]], k = 1 => m >= n,
         u \in Wants[bucket[gs[k]][m]]
  PROVE  <<k, m>> \in Hits(gs, n, u)
  <1>1. DOMAIN gs = 1 .. Len(gs) /\ gs[k] \in Groups
    BY LenProperties, ElementOfSeq DEF Sorted
  <1>2. bucket[gs[k]] \in Seq(Handlers) /\ Len(bucket[gs[k]]) <= Len(added) /\ added \in Seq(Handlers)
    BY <1>1 DEF Lists
  <1>3. m \in 1 .. Len(bucket[gs[k]]) /\ Len(bucket[gs[k]]) \in Nat /\ Len(added) \in Nat
    BY <1>2, LenProperties
  <1>4. m \in 1 .. Len(added) /\ k \in 1 .. Len(gs)
    BY <1>1, <1>2, <1>3
  <1> QED
    BY <1>4 DEF Hits

Fits(l, u) == \A h \in l.since : u \in Wants[h]

(* Nothing fits any more: all groups were served.                           *)
LEMMA NoMore ==
  ASSUME Lists, NEW l \in LogType, NEW gs, NEW n \in Nat, NEW u, Sound(l, gs, n), Fits(l, u),
         Hits(gs, n, u) = {}
  PROVE  Sound(l, <<>>, 1)
  <1>1. Sorted(<<>>) /\ Ahead(l, <<>>, 1)
    BY EmptySeq DEF Sorted, Ahead
  <1>2. Known(l) /\ RanInOrder(l) /\ Sorted(gs)
    BY DEF Sound
  <1>3. ASSUME ~l.stopped PROVE Served(l, <<>>, 1)
    <2> SUFFICES ASSUME NEW g \in Groups, NEW h \in l.since, h \in Range(bucket[g])
                 PROVE  \E i \in DOMAIN l.ran : l.ran[i][1] = g
      BY DEF Served
    <2>1. PICK m \in DOMAIN bucket[g] : bucket[g][m] = h
      BY DEF Range
    <2>2. ASSUME NEW k \in DOMAIN gs, gs[k] = g, k = 1 => n = 1 PROVE FALSE
      <3>1. m >= 1
        BY LenProperties DEF Lists
      <3>2. <<k, m>> \in Hits(gs, n, u)
        BY <1>2, <2>1, <2>2, <3>1, IsHit DEF Fits
      <3> QED
        BY <3>2
    <2>3. l.since \cap Range(bucket[g]) # {}
      OBVIOUS
    <2> QED
      BY <1>3, <2>2, <2>3 DEF Sound, Served
  <1>4. ASSUME ~l.stopped PROVE PassedOn(l, <<>>, 1)
    <2> SUFFICES ASSUME NEW g \in Groups \ (l.cut \cup l.shifted), NEW m \in DOMAIN bucket[g],
                        bucket[g][m] \in l.since
                 PROVE  <<g, bucket[g][m]>> \in Range(l.ran)
      BY DEF PassedOn
    <2>1. ASSUME NEW k \in DOMAIN gs, gs[k] = g, k = 1 => m >= n PROVE FALSE
      <3>1. <<k, m>> \in Hits(gs, n, u)
        BY <1>2, <2>1, IsHit DEF Fits
      <3> QED
        BY <3>1
    <2> QED
      BY <1>4, <2>1 DEF Sound, PassedOn
  <1> QED
    BY <1>1, <1>2, <1>3, <1>4 DEF Sound

(* The next handler runs.                                                   *)
LEMMA OneMore ==
  ASSUME Lists, NEW l \in LogType, NEW gs, NEW n \in Nat, NEW u, Sound(l, gs, n), Fits(l, u),
         NEW p \in Hits(gs, n, u), \A r \in Hits(gs, n, u) : Before(p, r)
  PROVE  LET h == bucket[gs[p[1]]][p[2]]
             m == [l EXCEPT !.ran = Append(@, <<gs[p[1]], h>>)]
         IN  m \in LogType /\ Sound(m, SubSeq(gs, p[1], Len(gs)), p[2] + 1)
             /\ Fits(m, u) /\ m.stopped = l.stopped
  <1> DEFINE a == p[1]
             b == p[2]
             g == gs[a]
             h == bucket[g][b]
             e == <<g, h>>
             m == [l EXCEPT !.ran = Append(@, e)]
             rest == SubSeq(gs, a, Len(gs))
  <1>1. Sorted(gs) /\ Known(l) /\ RanInOrder(l) /\ Ahead(l, gs, n)
    BY DEF Sound
  <1>2. /\ a \in DOMAIN gs /\ g \in Groups /\ b \in DOMAIN bucket[g]
        /\ a \in Nat \ {0} /\ b \in Nat \ {0} /\ (a = 1 => b >= n)
        /\ h \in Handlers /\ h \in Range(added)
    BY <1>1, HitIs
  <1>3. \A i \in DOMAIN l.ran : Follows(l.ran[i], e)
    BY <1>1, <1>2 DEF Ahead
  <1>4. e \in Groups \X Handlers
    BY <1>2
  <1>5. /\ m \in LogType /\ RanInOrder(m) /\ m.since = l.since /\ m.cut = l.cut
        /\ m.shifted = l.shifted /\ m.stopped = l.stopped
        /\ Range(m.ran) = Range(l.ran) \cup {e}
        /\ Len(l.ran) + 1 \in DOMAIN m.ran /\ m.ran[Len(l.ran) + 1] = e
        /\ \A i \in DOMAIN l.ran : i \in DOMAIN m.ran /\ m.ran[i] = l.ran[i]
        /\ \A i \in DOMAIN m.ran : i \in DOMAIN l.ran \/ i = Len(l.ran) + 1
    <2> HIDE DEF e
    <2> QED
      BY <1>1, <1>3, <1>4, RanMore
  <1>6. /\ DOMAIN gs = 1 .. Len(gs) /\ Len(gs) \in Nat
        /\ rest \in Seq(Groups) /\ DOMAIN rest = 1 .. Len(gs) - a + 1
        /\ \A i \in 1 .. Len(gs) - a + 1 : rest[i] = gs[a + i - 1]
    BY <1>1, <1>2, RestFrom DEF Sorted
  <1>7. ASSUME NEW k \in DOMAIN rest
        PROVE  /\ a + k - 1 \in DOMAIN gs /\ rest[k] = gs[a + k - 1] /\ k \in Nat \ {0}
               /\ (a + k - 1 = 1 => k = 1 /\ a = 1) /\ (k = 1 => a + k - 1 = a) /\ a <= a + k - 1
               /\ (k # 1 => a < a + k - 1)
    <2> HIDE DEF a, rest
    <2>1. k \in Nat \ {0} /\ k <= Len(gs) - a + 1 /\ a \in 1 .. Len(gs)
      BY <1>2, <1>6, <1>7
    <2>2. a + k - 1 \in 1 .. Len(gs) /\ (a + k - 1 = 1 => k = 1 /\ a = 1) /\ a <= a + k - 1
          /\ (k = 1 => a + k - 1 = a) /\ (k # 1 => a < a + k - 1)
      BY <1>6, <2>1
    <2> QED
      BY <1>6, <1>7, <2>1, <2>2
  <1>8. ASSUME NEW k \in DOMAIN gs, a <= k
        PROVE  k - a + 1 \in DOMAIN rest /\ rest[k - a + 1] = gs[k] /\ (k - a + 1 = 1 => k = a)
    <2>1. k \in 1 .. Len(gs) /\ k - a + 1 \in 1 .. Len(gs) - a + 1 /\ a + (k - a + 1) - 1 = k
          /\ (k - a + 1 = 1 => k = a)
      BY <1>2, <1>6, <1>8
    <2> QED
      BY <1>6, <2>1
  <1>9. \A k \in DOMAIN gs : gs[k] \in Groups /\ gs[k] \in Int
    BY <1>1, <1>6, ElementOfSeq, DispatchAssumption DEF Sorted
  <1> HIDE DEF a, b, h, m, rest
  <1>10. Sorted(rest)
    <2> SUFFICES ASSUME NEW j \in DOMAIN rest, NEW i \in 1 .. j - 1 PROVE rest[i] < rest[j]
      BY <1>6 DEF Sorted
    <2>1. i \in DOMAIN rest
      BY <1>2, <1>6
    <2>2. a + i - 1 \in 1 .. (a + j - 1) - 1
      BY <1>2, <1>6
    <2> QED
      BY <1>1, <1>7, <2>1, <2>2 DEF Sorted
  <1>11. Known(m)
    <2>1. e[2] \in Range(added)
      BY <1>2
    <2> HIDE DEF e
    <2> QED
      BY <1>1, <1>5, <2>1 DEF Known
  <1>12. Ahead(m, rest, b + 1)
    <2> SUFFICES ASSUME NEW i \in DOMAIN m.ran, NEW k \in DOMAIN rest
                 PROVE  /\ m.ran[i][1] <= rest[k]
                        /\ \A x \in DOMAIN bucket[rest[k]] : (k = 1 => x >= b + 1) =>
                             Follows(m.ran[i], <<rest[k], bucket[rest[k]][x]>>)
      BY DEF Ahead
    <2>1. CASE i \in DOMAIN l.ran
      <3>1. m.ran[i] = l.ran[i] /\ a + k - 1 \in DOMAIN gs /\ rest[k] = gs[a + k - 1]
        BY <1>5, <1>7, <2>1
      <3>2. m.ran[i][1] <= rest[k]
        BY <1>1, <2>1, <3>1 DEF Ahead
      <3>3. ASSUME NEW x \in DOMAIN bucket[rest[k]], k = 1 => x >= b + 1
            PROVE  Follows(m.ran[i], <<rest[k], bucket[rest[k]][x]>>)
        <4>1. rest[k] \in Groups
          BY <1>9, <3>1
        <4>2. x \in Nat
          BY <3>3, <4>1, LenProperties DEF Lists
        <4>3. a + k - 1 = 1 => x >= n
          BY <1>2, <1>7, <3>3, <4>2
        <4> QED
          BY <1>1, <2>1, <3>1, <4>3 DEF Ahead
      <3> QED
        BY <3>2, <3>3
    <2>2. CASE i = Len(l.ran) + 1
      <3>1. m.ran[i] = e /\ e[1] = g /\ e[2] = h
        BY <1>5, <2>2
      <3>2. CASE k = 1
        <4>1. rest[k] = g
          BY <1>7, <3>2
        <4>2. ASSUME NEW x \in DOMAIN bucket[g], x >= b + 1 PROVE Follows(e, <<g, bucket[g][x]>>)
          <5>1. x \in Nat /\ b \in 1 .. x - 1
            BY <1>2, <4>2, LenProperties DEF Lists
          <5>2. Earlier(bucket[g][b], bucket[g][x])
            BY <1>2, <5>1 DEF Lists
          <5> QED
            BY <3>1, <5>2 DEF Follows, h
        <4> QED
          BY <1>2, <1>9, <3>1, <3>2, <4>1, <4>2
      <3>3. CASE k # 1
        <4>1. a + k - 1 \in DOMAIN gs /\ a \in 1 .. (a + k - 1) - 1
          BY <1>2, <1>7, <3>3
        <4>2. g < rest[k] /\ g \in Int /\ rest[k] \in Int
          BY <1>1, <1>2, <1>7, <1>9, <4>1 DEF Sorted
        <4> QED
          BY <3>1, <4>2 DEF Follows
      <3> QED
        BY <3>2, <3>3
    <2> QED
      BY <1>5, <2>1, <2>2
  <1>13. ASSUME ~l.stopped PROVE Served(m, rest, b + 1)
    <2> SUFFICES ASSUME NEW k \in Groups, NEW x \in l.since, x \in Range(bucket[k])
                 PROVE  \/ \E i \in DOMAIN m.ran : m.ran[i][1] = k
                        \/ \E j \in DOMAIN rest : rest[j] = k /\ (j = 1 => b + 1 = 1)
      BY <1>5 DEF Served
    <2>1. CASE \E i \in DOMAIN l.ran : l.ran[i][1] = k
      BY <1>5, <2>1
    <2>2. CASE \E j \in DOMAIN gs : gs[j] = k /\ (j = 1 => n = 1)
      <3>1. PICK j \in DOMAIN gs : gs[j] = k /\ (j = 1 => n = 1)
        BY <2>2
      <3>2. PICK y \in DOMAIN bucket[k] : bucket[k][y] = x
        BY DEF Range
      <3>3. y \in Nat /\ y >= 1
        BY <3>2, LenProperties DEF Lists
      <3>4. <<j, y>> \in Hits(gs, n, u)
        BY <1>1, <3>1, <3>2, <3>3, IsHit DEF Fits
      <3>5. a < j \/ (a = j /\ b <= y)
        BY <3>4 DEF Before, a, b
      <3>6. CASE a = j
        <4>1. e[1] = k
          BY <3>1, <3>6
        <4> QED
          BY <1>5, <4>1
      <3>7. CASE a < j
        <4>1. a <= j /\ j # a
          BY <1>2, <1>6, <3>7
        <4> QED
          BY <1>8, <3>1, <4>1
      <3> QED
        BY <3>5, <3>6, <3>7
    <2>3. l.since \cap Range(bucket[k]) # {}
      OBVIOUS
    <2> QED
      BY <1>13, <2>1, <2>2, <2>3 DEF Sound, Served
  <1>14. ASSUME ~l.stopped PROVE PassedOn(m, rest, b + 1)
    <2> SUFFICES ASSUME NEW k \in Groups \ (l.cut \cup l.shifted), NEW y \in DOMAIN bucket[k],
                        bucket[k][y] \in l.since
                 PROVE  \/ <<k, bucket[k][y]>> \in Range(m.ran)
                        \/ \E j \in DOMAIN rest : rest[j] = k /\ (j = 1 => y >= b + 1)
      BY <1>5 DEF PassedOn
    <2>1. CASE <<k, bucket[k][y]>> \in Range(l.ran)
      BY <1>5, <2>1
    <2>2. CASE \E j \in DOMAIN gs : gs[j] = k /\ (j = 1 => y >= n)
      <3>1. PICK j \in DOMAIN gs : gs[j] = k /\ (j = 1 => y >= n)
        BY <2>2
      <3>2. <<j, y>> \in Hits(gs, n, u)
        BY <1>1, <3>1, IsHit DEF Fits
      <3>3. a < j \/ (a = j /\ b <= y)
        BY <3>2 DEF Before, a, b
      <3>4. y \in Nat
        BY LenProperties DEF Lists
      <3>5. CASE a = j /\ b = y
        <4>1. e = <<k, bucket[k][y]>>
          BY <3>1, <3>5 DEF h
        <4> QED
          BY <1>5, <4>1
      <3>6. CASE a < j \/ (a = j /\ b < y)
        <4>1. a <= j /\ (j = a => y >= b + 1)
          BY <1>2, <1>6, <3>4, <3>6
        <4> QED
          BY <1>8, <3>1, <4>1
      <3> QED
        BY <1>2, <3>3, <3>4, <3>5, <3>6
    <2> QED
      BY <1>14, <2>1, <2>2 DEF Sound, PassedOn
  <1>15. Fits(m, u)
    BY <1>5 DEF Fits
  <1> QED
    BY <1>5, <1>10, <1>11, <1>12, <1>13, <1>14, <1>15 DEF Sound, m, rest, a, b, h, e

(* A worker's task and its log of the dispatch fit each other.              *)
Fine(t, m) ==
  /\ t \in TaskType /\ m \in LogType /\ Sound(m, t.groups, t.next)
  /\ IF t.runs # {}
     THEN ~m.stopped /\ t.groups # <<>> /\ t.next > 1 /\ \A v \in t.update : Fits(m, v)
     ELSE t.groups = <<>> /\ t.update = {}

(* What is sound stays so while the lists do.                               *)
LEMMA SoundNow ==
  ASSUME NEW v, NEW t, NEW m, task'[v] = t, log'[v] = m, Sound(m, t.groups, t.next)'
  PROVE  Sound(log[v], task[v].groups, task[v].next)'
  BY DEF Sound, Sorted, Known, RanInOrder, Follows, Earlier, Ahead, Served, PassedOn

LEMMA StaysSound ==
  ASSUME UNCHANGED <<bucket, added>>, NEW v, NEW t, NEW m, task'[v] = t, log'[v] = m,
         Sound(m, t.groups, t.next)
  PROVE  Sound(log[v], task[v].groups, task[v].next)'
  <1>1. \A m2, g2, n2 : Sound(m2, g2, n2) => Sound(m2, g2, n2)'
    BY DEF Sound, Sorted, Known, RanInOrder, Follows, Earlier, Ahead, Served, PassedOn
  <1>2. Sound(m, t.groups, t.next)'
    BY <1>1
  <1> QED
    BY <1>2, SoundNow

LEMMA TakeOn ==
  ASSUME Dispatches, NEW w \in Workers, NEW t, NEW m, Fine(t, m), UNCHANGED <<bucket, added>>,
         task' = [task EXCEPT ![w] = t], log' = [log EXCEPT ![w] = m]
  PROVE  Dispatches'
  <1>1. /\ task' \in [Workers -> TaskType] /\ log' \in [Workers -> LogType]
        /\ task'[w] = t /\ log'[w] = m
        /\ \A v \in Workers \ {w} : task'[v] = task[v] /\ log'[v] = log[v]
    BY DEF Dispatches, Fine
  <1>2. ASSUME NEW v \in Workers
        PROVE  /\ Sound(log[v], task[v].groups, task[v].next)'
               /\ Waiting(v)' => /\ ~log'[v].stopped /\ task'[v].groups # <<>> /\ task'[v].next > 1
                                 /\ \A x \in task'[v].update : \A h \in log'[v].since : x \in Wants[h]
               /\ ~Waiting(v)' => task'[v].groups = <<>> /\ task'[v].update = {}
    <2>1. CASE v = w
      <3>1. Sound(log[v], task[v].groups, task[v].next)'
        BY <1>1, <2>1, StaysSound DEF Fine
      <3> QED
        BY <1>1, <2>1, <3>1 DEF Waiting, Fits, Fine
    <2>2. CASE v # w
      <3>1. Sound(log[v], task[v].groups, task[v].next)
        BY DEF Dispatches
      <3>2. Sound(log[v], task[v].groups, task[v].next)'
        BY <1>1, <2>2, <3>1, StaysSound
      <3> QED
        BY <1>1, <2>2, <3>2 DEF Dispatches, Waiting
    <2> QED
      BY <2>1, <2>2
  <1> QED
    BY <1>1, <1>2 DEF Dispatches

LEMMA WentOn ==
  ASSUME Lists, Dispatches, NEW w \in Workers, NEW l \in LogType, NEW gs, NEW n \in Nat, NEW u \in Updates,
         Sound(l, gs, n), Fits(l, u), ~l.stopped, GoOn(w, gs, n, u, l), UNCHANGED <<bucket, added>>
  PROVE  Dispatches'
  <1> DEFINE H == Hits(gs, n, u)
  <1>1. CASE H = {}
    <2>1. Sound(l, <<>>, 1)
      BY <1>1, NoMore
    <2>2. /\ Idle \in TaskType /\ Idle.groups = <<>> /\ Idle.next = 1 /\ Idle.runs = {} /\ Idle.update = {}
      BY EmptySeq DEF Idle, TaskType
    <2>3. Fine(Idle, l)
      BY <2>1, <2>2 DEF Fine
    <2>4. task' = [task EXCEPT ![w] = Idle] /\ log' = [log EXCEPT ![w] = l]
      BY <1>1 DEF GoOn
    <2> QED
      BY <2>3, <2>4, TakeOn
  <1>2. CASE H # {}
    <2> DEFINE p == CHOOSE q \in H : \A r \in H : Before(q, r)
               h == bucket[gs[p[1]]][p[2]]
               t == [update |-> {u}, groups |-> SubSeq(gs, p[1], Len(gs)), next |-> p[2] + 1, runs |-> {h}]
               m == [l EXCEPT !.ran = Append(@, <<gs[p[1]], h>>)]
    <2>1. p \in H /\ \A r \in H : Before(p, r)
      <3>1. Len(gs) \in Nat /\ Len(added) \in Nat
        BY LenProperties DEF Sound, Sorted, Lists
      <3> QED
        BY <1>2, <3>1, FirstHit
    <2>2. task' = [task EXCEPT ![w] = t] /\ log' = [log EXCEPT ![w] = m]
      BY <1>2 DEF GoOn
    <2> HIDE DEF p
    <2>3. m \in LogType /\ Sound(m, t.groups, t.next) /\ Fits(m, u) /\ m.stopped = l.stopped
      BY <2>1, OneMore
    <2>4. /\ p[1] \in DOMAIN gs /\ p[2] \in Nat \ {0} /\ h \in Handlers
      BY <2>1, HitIs DEF Sound
    <2>5. /\ t.groups \in Seq(Groups) /\ t.groups # <<>>
      <3>1. /\ DOMAIN gs = 1 .. Len(gs) /\ Len(gs) \in Nat /\ p[1] \in Nat
            /\ t.groups \in Seq(Groups) /\ DOMAIN t.groups = 1 .. Len(gs) - p[1] + 1
        BY <2>4, RestFrom DEF Sound, Sorted
      <3>2. 1 \in DOMAIN t.groups
        BY <2>4, <3>1
      <3>3. DOMAIN <<>> = {}
        OBVIOUS
      <3> HIDE DEF t
      <3> QED
        BY <3>1, <3>2, <3>3
    <2>6. t \in TaskType /\ t.runs # {} /\ t.update = {u} /\ t.next > 1
      BY <2>4, <2>5 DEF TaskType
    <2> HIDE DEF m, t
    <2>7. Fine(t, m)
      BY <2>3, <2>5, <2>6 DEF Fine
    <2> QED
      BY <2>2, <2>7, TakeOn
  <1> QED
    BY <1>1, <1>2

----------------------------------------------------------------------------
(* The order of registration over a given history: what a primed formula    *)
(* becomes.                                                                 *)
EarlierIn(a, h, k) == \E n \in DOMAIN a : \E m \in 1 .. n - 1 : a[m] = h /\ a[n] = k
FollowsIn(a, p, q) == p[1] < q[1] \/ (p[1] = q[1] /\ EarlierIn(a, p[2], q[2]))

(* A registration: one more handler, after all the others.                  *)
LEMMA OrderGrows ==
  ASSUME Lists, NEW h \in Handlers, NEW g \in Groups, AddHandler(h, g)
  PROVE  /\ \A x, y : EarlierIn(added, x, y) => EarlierIn(added', x, y)
         /\ \A x \in Range(added) : EarlierIn(added', x, h)
         /\ \A p, q : FollowsIn(added, p, q) => FollowsIn(added', p, q)
         /\ Range(added') = Range(added) \cup {h} /\ h \notin Range(added)
         /\ added' \in Seq(Handlers) /\ Len(added') = Len(added) + 1
         /\ \A i, j \in DOMAIN added' : added'[i] = added'[j] => i = j
  <1>1. h \notin Range(added) /\ added' = Append(added, h) /\ added \in Seq(Handlers)
    BY DEF AddHandler, Lists
  <1>2. /\ added' \in Seq(Handlers) /\ Len(added') = Len(added) + 1
        /\ DOMAIN added = 1 .. Len(added) /\ DOMAIN added' = 1 .. Len(added) + 1
        /\ added'[Len(added) + 1] = h /\ \A i \in DOMAIN added : added'[i] = added[i]
        /\ Range(added') = Range(added) \cup {h} /\ Len(added) \in Nat
    BY <1>1, Appended, LenProperties
  <1>3. ASSUME NEW x, NEW y, EarlierIn(added, x, y) PROVE EarlierIn(added', x, y)
    <2>1. PICK n \in DOMAIN added : \E m \in 1 .. n - 1 : added[m] = x /\ added[n] = y
      BY <1>3 DEF EarlierIn
    <2>2. PICK m \in 1 .. n - 1 : added[m] = x /\ added[n] = y
      BY <2>1
    <2>3. n \in DOMAIN added' /\ m \in DOMAIN added /\ added'[m] = x /\ added'[n] = y
      BY <1>2, <2>2
    <2> QED
      BY <2>3 DEF EarlierIn
  <1>4. ASSUME NEW x \in Range(added) PROVE EarlierIn(added', x, h)
    <2>1. PICK m \in DOMAIN added : added[m] = x
      BY DEF Range
    <2>2. Len(added) + 1 \in DOMAIN added' /\ m \in 1 .. (Len(added) + 1) - 1 /\ added'[m] = x
      BY <1>2, <2>1
    <2> QED
      BY <1>2, <2>2 DEF EarlierIn
  <1>5. ASSUME NEW p, NEW q, FollowsIn(added, p, q) PROVE FollowsIn(added', p, q)
    BY <1>3, <1>5 DEF FollowsIn
  <1>6. \A i, j \in DOMAIN added' : added'[i] = added'[j] => i = j
    <2>1. \A i \in DOMAIN added' : i \in DOMAIN added \/ i = Len(added) + 1
      BY <1>2
    <2>2. \A i \in DOMAIN added : added'[i] # h
      BY <1>1, <1>2 DEF Range
    <2>3. \A i, j \in DOMAIN added : added'[i] = added'[j] => i = j
      BY <1>2 DEF Lists
    <2> QED
      BY <1>2, <2>1, <2>2, <2>3
  <1> QED
    BY <1>1, <1>2, <1>3, <1>4, <1>5, <1>6

LEMMA BucketGrows ==
  ASSUME Lists, NEW h \in Handlers, NEW g \in Groups, AddHandler(h, g)
  PROVE  /\ bucket' \in [Groups -> Seq(Handlers)] /\ \A k \in Groups \ {g} : bucket'[k] = bucket[k]
         /\ Len(bucket'[g]) = Len(bucket[g]) + 1 /\ Range(bucket'[g]) = Range(bucket[g]) \cup {h}
         /\ bucket'[g][Len(bucket[g]) + 1] = h /\ Len(bucket[g]) + 1 \in DOMAIN bucket'[g]
         /\ \A k \in Groups : \A m \in DOMAIN bucket[k] : m \in DOMAIN bucket'[k] /\ bucket'[k][m] = bucket[k][m]
         /\ \A k \in Groups : \A m \in DOMAIN bucket'[k] :
              \/ m \in DOMAIN bucket[k]
              \/ k = g /\ bucket'[k][m] = h /\ m = Len(bucket[g]) + 1
         /\ \A k \in Groups : DOMAIN bucket[k] = 1 .. Len(bucket[k]) /\ Len(bucket[k]) \in Nat
  <1>1. bucket \in [Groups -> Seq(Handlers)] /\ bucket' = [bucket EXCEPT ![g] = Append(@, h)]
    BY DEF Lists, AddHandler
  <1>2. /\ bucket'[g] = Append(bucket[g], h) /\ bucket[g] \in Seq(Handlers)
        /\ \A k \in Groups \ {g} : bucket'[k] = bucket[k]
    BY <1>1
  <1>3. /\ bucket'[g] \in Seq(Handlers) /\ Len(bucket'[g]) = Len(bucket[g]) + 1
        /\ DOMAIN bucket[g] = 1 .. Len(bucket[g]) /\ DOMAIN bucket'[g] = 1 .. Len(bucket[g]) + 1
        /\ bucket'[g][Len(bucket[g]) + 1] = h /\ \A i \in DOMAIN bucket[g] : bucket'[g][i] = bucket[g][i]
        /\ Range(bucket'[g]) = Range(bucket[g]) \cup {h} /\ Len(bucket[g]) \in Nat
    BY <1>2, Appended, LenProperties
  <1>4. bucket' \in [Groups -> Seq(Handlers)]
    BY <1>1, <1>2, <1>3
  <1>5. /\ \A m \in DOMAIN bucket[g] : m \in DOMAIN bucket'[g]
        /\ \A m \in DOMAIN bucket'[g] : m \in DOMAIN bucket[g] \/ m = Len(bucket[g]) + 1
        /\ Len(bucket[g]) + 1 \in DOMAIN bucket'[g]
    BY <1>3
  <1>6. \A k \in Groups : DOMAIN bucket[k] = 1 .. Len(bucket[k]) /\ Len(bucket[k]) \in Nat
    BY <1>1, LenProperties
  <1> QED
    BY <1>2, <1>3, <1>4, <1>5, <1>6

LEMMA AddLists ==
  ASSUME Lists, NEW h \in Handlers, NEW g \in Groups, AddHandler(h, g)
  PROVE  Lists'
  <1>1. /\ \A x, y : EarlierIn(added, x, y) => EarlierIn(added', x, y)
        /\ \A x \in Range(added) : EarlierIn(added', x, h)
        /\ Range(added') = Range(added) \cup {h} /\ h \notin Range(added)
        /\ added' \in Seq(Handlers) /\ Len(added') = Len(added) + 1 /\ Len(added) \in Nat
        /\ \A i, j \in DOMAIN added' : added'[i] = added'[j] => i = j
    BY OrderGrows, LenProperties DEF Lists
  <1>2. keys' \in Seq(Groups) /\ Range(keys') = Range(keys) \cup {g}
    <2>1. keys \in Seq(Groups) /\ keys' = IF g \in Range(keys) THEN keys ELSE Append(keys, g)
      BY DEF AddHandler, Lists
    <2> QED
      BY <2>1, Appended
  <1>3. cache' = {}
    BY DEF AddHandler
  <1>4. ASSUME NEW k \in Groups
        PROVE  /\ Len(bucket'[k]) <= Len(added') /\ (bucket'[k] # <<>> => k \in Range(keys'))
               /\ Range(bucket'[k]) \subseteq Range(added')
    <2>1. /\ Len(bucket[k]) <= Len(added) /\ (bucket[k] # <<>> => k \in Range(keys))
          /\ Range(bucket[k]) \subseteq Range(added)
      BY DEF Lists
    <2>2. Len(bucket[k]) \in Nat
      BY BucketGrows
    <2>3. CASE k = g
      <3>1. Len(bucket'[g]) = Len(bucket[g]) + 1 /\ Range(bucket'[g]) = Range(bucket[g]) \cup {h}
        BY BucketGrows
      <3> QED
        BY <1>1, <1>2, <2>1, <2>2, <2>3, <3>1
    <2>4. CASE k # g
      <3>1. bucket'[k] = bucket[k]
        BY <2>4, BucketGrows
      <3> QED
        BY <1>1, <1>2, <2>1, <2>2, <3>1
    <2> QED
      BY <2>3, <2>4
  <1>5. ASSUME NEW k \in Groups, NEW j \in DOMAIN bucket'[k], NEW i \in 1 .. j - 1
        PROVE  EarlierIn(added', bucket'[k][i], bucket'[k][j])
    <2>0. \/ j \in DOMAIN bucket[k]
          \/ k = g /\ bucket'[k][j] = h /\ j = Len(bucket[g]) + 1
      BY BucketGrows
    <2>1. i \in DOMAIN bucket[k]
      <3>1. DOMAIN bucket[k] = 1 .. Len(bucket[k]) /\ Len(bucket[k]) \in Nat
        BY BucketGrows
      <3> QED
        BY <2>0, <3>1
    <2>2. bucket'[k][i] = bucket[k][i]
      BY <2>1, BucketGrows
    <2>3. bucket[k][i] \in Range(added)
      <3>1. bucket[k][i] \in Range(bucket[k])
        BY <2>1 DEF Range
      <3>2. Range(bucket[k]) \subseteq Range(added)
        BY DEF Lists
      <3> QED
        BY <3>1, <3>2
    <2>4. CASE j \in DOMAIN bucket[k]
      <3>1. EarlierIn(added, bucket[k][i], bucket[k][j])
        <4>1. Earlier(bucket[k][i], bucket[k][j])
          BY <2>4 DEF Lists
        <4> QED
          BY <4>1 DEF Earlier, EarlierIn
      <3>2. bucket'[k][j] = bucket[k][j]
        BY <2>4, BucketGrows
      <3> QED
        BY <1>1, <2>2, <3>1, <3>2
    <2>5. CASE bucket'[k][j] = h
      BY <1>1, <2>2, <2>3, <2>5
    <2> QED
      BY <2>0, <2>4, <2>5
  <1>6. ASSUME NEW k \in Groups, NEW c \in Groups, k # c
        PROVE  Range(bucket'[k]) \cap Range(bucket'[c]) = {}
    <2>1. \A d \in Groups : Range(bucket[d]) \subseteq Range(added)
      BY DEF Lists
    <2>2. Range(bucket[k]) \cap Range(bucket[c]) = {}
      BY <1>6 DEF Lists
    <2>3. \A d \in Groups \ {g} : bucket'[d] = bucket[d]
      BY BucketGrows
    <2>4. Range(bucket'[g]) = Range(bucket[g]) \cup {h}
      BY BucketGrows
    <2>5. CASE k = g
      <3>1. Range(bucket'[c]) = Range(bucket[c]) /\ h \notin Range(bucket[c])
        BY <1>1, <1>6, <2>1, <2>3, <2>5
      <3> QED
        BY <2>2, <2>4, <2>5, <3>1
    <2>6. CASE c = g
      <3>1. Range(bucket'[k]) = Range(bucket[k]) /\ h \notin Range(bucket[k])
        BY <1>1, <1>6, <2>1, <2>3, <2>6
      <3> QED
        BY <2>2, <2>4, <2>6, <3>1
    <2>7. CASE k # g /\ c # g
      BY <2>2, <2>3, <2>7
    <2> QED
      BY <2>5, <2>6, <2>7
  <1>7. bucket' \in [Groups -> Seq(Handlers)]
    BY BucketGrows
  <1> QED
    BY <1>1, <1>2, <1>3, <1>4, <1>5, <1>6, <1>7 DEF Lists, Earlier, EarlierIn

LEMMA AddSound ==
  ASSUME Lists, NEW h \in Handlers, NEW g \in Groups, AddHandler(h, g),
         NEW l \in LogType, NEW gs, NEW n, Sound(l, gs, n)
  PROVE  Sound(l, gs, n)'
  <1>1. Sorted(gs) /\ Known(l) /\ RanInOrder(l) /\ Ahead(l, gs, n)
    BY DEF Sound
  <1>2. Sorted(gs)' /\ \A k \in DOMAIN gs : gs[k] \in Groups /\ gs[k] \in Int
    BY <1>1, LenProperties, ElementOfSeq, DispatchAssumption DEF Sorted
  <1>3. Known(l)'
    BY <1>1, OrderGrows DEF Known
  <1>4. RanInOrder(l)'
    <2>1. \A j \in DOMAIN l.ran : \A i \in 1 .. j - 1 : FollowsIn(added, l.ran[i], l.ran[j])
      BY <1>1 DEF RanInOrder, Follows, Earlier, FollowsIn, EarlierIn
    <2>2. \A j \in DOMAIN l.ran : \A i \in 1 .. j - 1 : FollowsIn(added', l.ran[i], l.ran[j])
      BY <2>1, OrderGrows
    <2> QED
      BY <2>2 DEF RanInOrder, Follows, Earlier, FollowsIn, EarlierIn
  <1>5. h \notin l.since /\ \A k \in Groups : l.since \cap Range(bucket'[k]) = l.since \cap Range(bucket[k])
    <2>1. h \notin l.since
      BY <1>1, OrderGrows DEF Known
    <2>2. \A k \in Groups \ {g} : bucket'[k] = bucket[k]
      BY BucketGrows
    <2>3. Range(bucket'[g]) = Range(bucket[g]) \cup {h}
      BY BucketGrows
    <2> QED
      BY <2>1, <2>2, <2>3
  <1>6. ASSUME NEW i \in DOMAIN l.ran, NEW k \in DOMAIN gs
        PROVE  /\ l.ran[i][1] <= gs[k]
               /\ \A m \in DOMAIN bucket'[gs[k]] : (k = 1 => m >= n) =>
                    FollowsIn(added', l.ran[i], <<gs[k], bucket'[gs[k]][m]>>)
    <2>1. l.ran[i][1] <= gs[k]
      BY <1>1 DEF Ahead
    <2>2. ASSUME NEW m \in DOMAIN bucket'[gs[k]], k = 1 => m >= n
          PROVE  FollowsIn(added', l.ran[i], <<gs[k], bucket'[gs[k]][m]>>)
      <3>1. CASE m \in DOMAIN bucket[gs[k]]
        <4>1. FollowsIn(added, l.ran[i], <<gs[k], bucket[gs[k]][m]>>)
          BY <1>1, <2>2, <3>1 DEF Ahead, Follows, Earlier, FollowsIn, EarlierIn
        <4>2. bucket'[gs[k]][m] = bucket[gs[k]][m]
          BY <1>2, <3>1, BucketGrows
        <4> QED
          BY <4>1, <4>2, OrderGrows
      <3>2. CASE bucket'[gs[k]][m] = h
        <4>1. l.ran[i][2] \in Range(added) /\ l.ran[i][1] \in Int
          <5>1. l.ran[i] \in Groups \X Handlers
            BY LenProperties, ElementOfSeq DEF LogType
          <5> QED
            BY <1>1, <5>1, DispatchAssumption DEF Known
        <4>2. EarlierIn(added', l.ran[i][2], h)
          BY <4>1, OrderGrows
        <4>3. l.ran[i][1] < gs[k] \/ l.ran[i][1] = gs[k]
          BY <1>2, <2>1, <4>1
        <4> QED
          BY <3>2, <4>2, <4>3 DEF FollowsIn
      <3> QED
        BY <1>2, <3>1, <3>2, BucketGrows
    <2> QED
      BY <2>1, <2>2
  <1>7. ~l.stopped => Served(l, gs, n)'
    BY <1>5 DEF Sound, Served
  <1>8. ASSUME ~l.stopped PROVE PassedOn(l, gs, n)'
    <2> SUFFICES ASSUME NEW k \in Groups \ (l.cut \cup l.shifted), NEW m \in DOMAIN bucket'[k],
                        bucket'[k][m] \in l.since
                 PROVE  \/ <<k, bucket'[k][m]>> \in Range(l.ran)
                        \/ \E j \in DOMAIN gs : gs[j] = k /\ (j = 1 => m >= n)
      BY DEF PassedOn
    <2>1. m \in DOMAIN bucket[k] /\ bucket'[k][m] = bucket[k][m]
      BY <1>5, BucketGrows
    <2> QED
      BY <1>8, <2>1 DEF Sound, PassedOn
  <1>9. Ahead(l, gs, n)'
    BY <1>6 DEF Ahead, Follows, Earlier, FollowsIn, EarlierIn
  <1> QED
    BY <1>2, <1>3, <1>4, <1>7, <1>8, <1>9 DEF Sound

LEMMA AddStep ==
  ASSUME DispatchInv, NEW h \in Handlers, NEW g \in Groups, AddHandler(h, g)
  PROVE  DispatchInv'
  <1>1. Lists /\ Dispatches /\ Lists'
    BY AddLists DEF DispatchInv
  <1>2. task' = task /\ log' = log
    BY DEF AddHandler
  <1>3. ASSUME NEW w \in Workers, NEW l, NEW t, l = log[w], t = task[w]
        PROVE  Sound(log[w], task[w].groups, task[w].next)'
    <2>1. l \in LogType /\ Sound(l, t.groups, t.next)
      BY <1>1, <1>3 DEF Dispatches
    <2>2. Sound(l, t.groups, t.next)'
      BY <1>1, <2>1, AddSound
    <2> QED
      BY <1>2, <1>3, <2>2, SoundNow
  <1>4. \A w \in Workers : Sound(log[w], task[w].groups, task[w].next)'
    BY <1>3
  <1>5. \A w \in Workers : Waiting(w)' <=> Waiting(w)
    BY <1>2 DEF Waiting
  <1>6. Dispatches'
    BY <1>1, <1>2, <1>4, <1>5 DEF Dispatches
  <1> QED
    BY <1>1, <1>6 DEF DispatchInv

----------------------------------------------------------------------------
(* A removal: what is left keeps its order, what was behind the removed one *)
(* moves up by one.                                                         *)
RemovedAt(g, i) ==
  i \in DOMAIN bucket[g] /\ bucket' = [bucket EXCEPT ![g] = RemoveAt(@, i)] /\ UNCHANGED <<keys, cache, added>>
Was(k, m, g, i) == IF k = g /\ m >= i THEN m + 1 ELSE m

LEMMA BucketShrinks ==
  ASSUME Lists, NEW g \in Groups, NEW i, RemovedAt(g, i)
  PROVE  /\ bucket' \in [Groups -> Seq(Handlers)]
         /\ \A k \in Groups : /\ Len(bucket'[k]) <= Len(bucket[k]) /\ (bucket'[k] # <<>> => bucket[k] # <<>>)
                              /\ DOMAIN bucket[k] \subseteq Nat /\ DOMAIN bucket'[k] = 1 .. Len(bucket'[k])
                              /\ Range(bucket'[k]) \subseteq Range(bucket[k])
         /\ \A k \in Groups : \A m \in DOMAIN bucket'[k] :
              Was(k, m, g, i) \in DOMAIN bucket[k] /\ bucket'[k][m] = bucket[k][Was(k, m, g, i)]
         /\ i \in Nat
  <1>1. bucket \in [Groups -> Seq(Handlers)] /\ bucket' = [bucket EXCEPT ![g] = RemoveAt(@, i)]
        /\ i \in DOMAIN bucket[g]
    BY DEF Lists, RemovedAt
  <1>2. /\ bucket'[g] = RemoveAt(bucket[g], i) /\ bucket[g] \in Seq(Handlers)
        /\ \A k \in Groups \ {g} : bucket'[k] = bucket[k]
    BY <1>1
  <1>3. /\ bucket'[g] \in Seq(Handlers) /\ Len(bucket'[g]) = Len(bucket[g]) - 1
        /\ DOMAIN bucket[g] = 1 .. Len(bucket[g]) /\ DOMAIN bucket'[g] = 1 .. Len(bucket[g]) - 1
        /\ \A j \in 1 .. Len(bucket[g]) - 1 : bucket'[g][j] = IF j < i THEN bucket[g][j] ELSE bucket[g][j + 1]
    BY <1>1, <1>2, Removed
  <1>4. \A k \in Groups : DOMAIN bucket[k] = 1 .. Len(bucket[k]) /\ Len(bucket[k]) \in Nat
    BY <1>1, LenProperties
  <1>5. bucket' \in [Groups -> Seq(Handlers)]
    BY <1>1, <1>2, <1>3
  <1>6. ASSUME NEW k \in Groups, NEW m \in DOMAIN bucket'[k]
        PROVE  Was(k, m, g, i) \in DOMAIN bucket[k] /\ bucket'[k][m] = bucket[k][Was(k, m, g, i)]
    <2>1. CASE k # g
      BY <1>2, <2>1 DEF Was
    <2>2. CASE k = g /\ m < i
      <3>1. m \in 1 .. Len(bucket[g]) - 1 /\ m \in DOMAIN bucket[g] /\ i \in Nat
        BY <1>1, <1>3, <1>4, <1>6, <2>2
      <3> QED
        BY <1>3, <2>2, <3>1 DEF Was
    <2>3. CASE k = g /\ m >= i
      <3>1. m \in 1 .. Len(bucket[g]) - 1 /\ m + 1 \in DOMAIN bucket[g] /\ i \in Nat
        BY <1>1, <1>3, <1>4, <1>6, <2>3
      <3> QED
        BY <1>3, <2>3, <3>1 DEF Was
    <2>4. m \in Nat /\ i \in Nat
      BY <1>1, <1>4, <1>5, LenProperties
    <2> QED
      BY <2>1, <2>2, <2>3, <2>4
  <1>7. \A k \in Groups : Range(bucket'[k]) \subseteq Range(bucket[k])
    BY <1>6 DEF Range
  <1>8. ASSUME NEW k \in Groups
        PROVE  /\ Len(bucket'[k]) <= Len(bucket[k]) /\ (bucket'[k] # <<>> => bucket[k] # <<>>)
               /\ DOMAIN bucket[k] \subseteq Nat /\ DOMAIN bucket'[k] = 1 .. Len(bucket'[k])
    <2>1. DOMAIN bucket[k] \subseteq Nat /\ DOMAIN bucket'[k] = 1 .. Len(bucket'[k])
      BY <1>4, <1>5, LenProperties
    <2>2. CASE k # g
      BY <1>2, <1>4, <2>1, <2>2
    <2>3. CASE k = g
      <3>1. bucket[g] # <<>>
        <4>1. Len(bucket[g]) # 0
          BY <1>1, <1>3
        <4> QED
          BY <1>2, <4>1, EmptySeq
      <3> QED
        BY <1>3, <1>4, <2>1, <2>3, <3>1
    <2> QED
      BY <2>2, <2>3
  <1> QED
    BY <1>1, <1>4, <1>5, <1>6, <1>7, <1>8

LEMMA RemoveLists ==
  ASSUME Lists, NEW g \in Groups, NEW i, RemovedAt(g, i)
  PROVE  Lists'
  <1>1. keys' = keys /\ cache' = cache /\ added' = added
    BY DEF RemovedAt
  <1>2. SortedGroups' = SortedGroups
    BY <1>1 DEF SortedGroups, Below
  <1>3. ASSUME NEW k \in Groups
        PROVE  /\ Len(bucket'[k]) <= Len(added') /\ (bucket'[k] # <<>> => k \in Range(keys'))
               /\ Range(bucket'[k]) \subseteq Range(added')
    <2>1. /\ Len(bucket'[k]) <= Len(bucket[k]) /\ (bucket'[k] # <<>> => bucket[k] # <<>>)
          /\ Range(bucket'[k]) \subseteq Range(bucket[k])
      BY BucketShrinks
    <2>2. /\ Len(bucket[k]) <= Len(added) /\ (bucket[k] # <<>> => k \in Range(keys))
          /\ Range(bucket[k]) \subseteq Range(added)
      BY DEF Lists
    <2>3. Len(bucket[k]) \in Nat /\ Len(added) \in Nat /\ Len(bucket'[k]) \in Nat
      BY BucketShrinks, LenProperties DEF Lists
    <2> QED
      BY <1>1, <2>1, <2>2, <2>3
  <1>4. ASSUME NEW k \in Groups, NEW j \in DOMAIN bucket'[k], NEW m \in 1 .. j - 1
        PROVE  EarlierIn(added', bucket'[k][m], bucket'[k][j])
    <2>1. m \in DOMAIN bucket'[k] /\ m \in Nat /\ j \in Nat /\ i \in Nat
      BY BucketShrinks
    <2>2. /\ Was(k, m, g, i) \in DOMAIN bucket[k] /\ bucket'[k][m] = bucket[k][Was(k, m, g, i)]
          /\ Was(k, j, g, i) \in DOMAIN bucket[k] /\ bucket'[k][j] = bucket[k][Was(k, j, g, i)]
      BY <2>1, BucketShrinks
    <2>3. Was(k, m, g, i) \in 1 .. Was(k, j, g, i) - 1
      BY <2>1, <2>2 DEF Was
    <2>4. Earlier(bucket[k][Was(k, m, g, i)], bucket[k][Was(k, j, g, i)])
      BY <2>2, <2>3 DEF Lists
    <2> QED
      BY <1>1, <2>2, <2>4 DEF Earlier, EarlierIn
  <1>5. ASSUME NEW k \in Groups, NEW c \in Groups, k # c
        PROVE  Range(bucket'[k]) \cap Range(bucket'[c]) = {}
    <2>1. Range(bucket[k]) \cap Range(bucket[c]) = {}
      BY <1>5 DEF Lists
    <2> QED
      BY <2>1, BucketShrinks
  <1>6. bucket' \in [Groups -> Seq(Handlers)]
    BY BucketShrinks
  <1>7. cache' \subseteq {SortedGroups'}
    BY <1>1, <1>2 DEF Lists
  <1>8. keys' \in Seq(Groups) /\ added' \in Seq(Handlers)
        /\ \A m, j \in DOMAIN added' : added'[m] = added'[j] => m = j
    BY <1>1 DEF Lists
  <1> HIDE DEF SortedGroups
  <1> QED
    BY <1>3, <1>4, <1>5, <1>6, <1>7, <1>8 DEF Lists, Earlier, EarlierIn

LEMMA RemoveSound ==
  ASSUME Lists, NEW g \in Groups, NEW i, RemovedAt(g, i),
         NEW l \in LogType, NEW gs, NEW n \in Nat, Sound(l, gs, n), NEW m \in LogType,
         m.ran = l.ran, m.since \subseteq l.since, m.cut = l.cut, m.stopped = l.stopped,
         l.shifted \subseteq m.shifted, gs # <<>> /\ Head(gs) = g /\ i < n => g \in m.shifted
  PROVE  Sound(m, gs, n)'
  <1>1. Sorted(gs) /\ Known(l) /\ RanInOrder(l) /\ Ahead(l, gs, n) /\ added' = added
    BY DEF Sound, RemovedAt
  <1>2. Sorted(gs)' /\ \A k \in DOMAIN gs : gs[k] \in Groups
    BY <1>1, LenProperties, ElementOfSeq DEF Sorted
  <1>3. Known(m)'
    BY <1>1 DEF Known
  <1>4. RanInOrder(m)'
    BY <1>1 DEF RanInOrder, Follows, Earlier
  <1>5. Ahead(m, gs, n)'
    <2>1. ASSUME NEW j \in DOMAIN l.ran, NEW k \in DOMAIN gs, NEW y \in DOMAIN bucket'[gs[k]], k = 1 => y >= n
          PROVE  FollowsIn(added', l.ran[j], <<gs[k], bucket'[gs[k]][y]>>)
      <3> DEFINE z == Was(gs[k], y, g, i)
      <3>1. z \in DOMAIN bucket[gs[k]] /\ bucket'[gs[k]][y] = bucket[gs[k]][z] /\ y \in Nat /\ i \in Nat
        BY <1>2, BucketShrinks
      <3>2. k = 1 => z >= n
        BY <2>1, <3>1 DEF Was
      <3> HIDE DEF z
      <3>3. Follows(l.ran[j], <<gs[k], bucket[gs[k]][z]>>)
        BY <1>1, <3>1, <3>2 DEF Ahead
      <3> QED
        BY <1>1, <3>1, <3>3 DEF Follows, Earlier, FollowsIn, EarlierIn
    <2>2. \A j \in DOMAIN l.ran : \A k \in DOMAIN gs : l.ran[j][1] <= gs[k]
      BY <1>1 DEF Ahead
    <2> QED
      BY <2>1, <2>2 DEF Ahead, Follows, Earlier, FollowsIn, EarlierIn
  <1>6. ~m.stopped => Served(m, gs, n)'
    <2>1. \A k \in Groups : Range(bucket'[k]) \subseteq Range(bucket[k])
      BY BucketShrinks
    <2> QED
      BY <2>1 DEF Sound, Served
  <1>7. ASSUME ~m.stopped PROVE PassedOn(m, gs, n)'
    <2> SUFFICES ASSUME NEW k \in Groups \ (m.cut \cup m.shifted), NEW y \in DOMAIN bucket'[k],
                        bucket'[k][y] \in m.since
                 PROVE  \/ <<k, bucket'[k][y]>> \in Range(m.ran)
                        \/ \E j \in DOMAIN gs : gs[j] = k /\ (j = 1 => y >= n)
      BY DEF PassedOn
    <2> DEFINE z == Was(k, y, g, i)
    <2>1. z \in DOMAIN bucket[k] /\ bucket'[k][y] = bucket[k][z] /\ y \in Nat /\ i \in Nat
      BY BucketShrinks
    <2>2. (k # g => z = y) /\ (z = y \/ (z = y + 1 /\ i <= y))
      BY <2>1 DEF Was
    <2> HIDE DEF z
    <2>3. \/ <<k, bucket[k][z]>> \in Range(l.ran)
          \/ \E j \in DOMAIN gs : gs[j] = k /\ (j = 1 => z >= n)
      <3>1. PassedOn(l, gs, n)
        BY <1>7 DEF Sound
      <3>2. k \in Groups \ (l.cut \cup l.shifted) /\ bucket[k][z] \in l.since
        BY <2>1
      <3> QED
        BY <2>1, <3>1, <3>2 DEF PassedOn
    <2>4. CASE <<k, bucket[k][z]>> \in Range(l.ran)
      BY <2>1, <2>4
    <2>5. CASE \E j \in DOMAIN gs : gs[j] = k /\ (j = 1 => z >= n)
      <3>1. PICK j \in DOMAIN gs : gs[j] = k /\ (j = 1 => z >= n)
        BY <2>5
      <3>2. ASSUME j = 1 PROVE y >= n
        <4>1. gs # <<>> /\ Head(gs) = k
          BY <1>1, <3>1, <3>2, EmptySeq, TailOf DEF Sorted
        <4>2. k = g => i >= n
          BY <2>1, <4>1
        <4> QED
          BY <2>1, <2>2, <3>1, <3>2, <4>2
      <3> QED
        BY <3>1, <3>2
    <2> QED
      BY <2>3, <2>4, <2>5
  <1> QED
    BY <1>2, <1>3, <1>4, <1>5, <1>6, <1>7 DEF Sound

LEMMA RemoveStep ==
  ASSUME DispatchInv, NEW f, NEW g \in Groups, RemoveHandler(f, g)
  PROVE  DispatchInv'
  <1>1. PICK i \in DOMAIN bucket[g] :
          /\ bucket' = [bucket EXCEPT ![g] = RemoveAt(@, i)]
          /\ log' = [w \in Workers |->
               [log[w] EXCEPT !.since = @ \ {bucket[g][i]},
                 !.shifted = IF Waiting(w) /\ Head(task[w].groups) = g /\ i < task[w].next
                               THEN @ \cup {g} ELSE @]]
          /\ UNCHANGED <<keys, cache, task, added, count>>
    BY DEF RemoveHandler
  <1>2. RemovedAt(g, i) /\ Lists /\ Dispatches /\ task' = task
    BY <1>1 DEF RemovedAt, DispatchInv
  <1>3. Lists'
    BY <1>2, RemoveLists
  <1>4. ASSUME NEW w \in Workers, NEW l, NEW m, NEW t, l = log[w], m = log'[w], t = task[w]
        PROVE  /\ m \in LogType /\ m.since \subseteq l.since /\ m.stopped = l.stopped
               /\ Sound(log[w], task[w].groups, task[w].next)'
    <2>1. l \in LogType /\ Sound(l, t.groups, t.next) /\ t.next \in Nat /\ t.groups \in Seq(Groups)
      BY <1>2, <1>4 DEF Dispatches, TaskType
    <2>2. m = [l EXCEPT !.since = @ \ {bucket[g][i]},
                 !.shifted = IF Waiting(w) /\ Head(t.groups) = g /\ i < t.next THEN @ \cup {g} ELSE @]
      BY <1>1, <1>4
    <2>3. /\ m \in LogType /\ m.ran = l.ran /\ m.since \subseteq l.since /\ m.cut = l.cut
          /\ m.stopped = l.stopped /\ l.shifted \subseteq m.shifted
          /\ (Waiting(w) /\ Head(t.groups) = g /\ i < t.next => g \in m.shifted)
      BY <2>1, <2>2 DEF LogType
    <2>4. t.groups # <<>> => Waiting(w)
      BY <1>2, <1>4 DEF Dispatches
    <2>5. Sound(m, t.groups, t.next)'
      BY <1>2, <2>1, <2>3, <2>4, RemoveSound
    <2>6. Sound(log[w], task[w].groups, task[w].next)'
      BY <1>2, <1>4, <2>5, SoundNow
    <2> QED
      BY <2>3, <2>6
  <1>5. \A w \in Workers : Sound(log[w], task[w].groups, task[w].next)'
    BY <1>4
  <1>6. \A w \in Workers : log'[w] \in LogType /\ log'[w].since \subseteq log[w].since
                           /\ log'[w].stopped = log[w].stopped
    BY <1>4
  <1>7. log' \in [Workers -> LogType]
    <2>1. log' = [w \in Workers |-> log'[w]]
      BY <1>1
    <2> QED
      BY <1>6, <2>1
  <1>8. \A w \in Workers : Waiting(w)' <=> Waiting(w)
    BY <1>2 DEF Waiting
  <1>9. Dispatches'
    BY <1>2, <1>5, <1>6, <1>7, <1>8 DEF Dispatches
  <1> QED
    BY <1>3, <1>9 DEF DispatchInv

----------------------------------------------------------------------------
(* A worker.                                                                *)
LEMMA SameLists ==
  ASSUME Lists, UNCHANGED <<keys, bucket, cache, added>>
  PROVE  Lists'
  <1>1. SortedGroups' = SortedGroups
    BY DEF SortedGroups, Below
  <1> QED
    BY <1>1 DEF Lists, Earlier

LEMMA BeginStep ==
  ASSUME DispatchInv, NEW w \in Workers, NEW u \in Updates, Begin(w, u)
  PROVE  DispatchInv'
  <1>1. Lists /\ Dispatches
    BY DEF DispatchInv
  <1>2. /\ keys' = keys /\ bucket' = bucket /\ added' = added
        /\ cache' = IF cache # {} THEN cache ELSE {SortedGroups}
    BY DEF Begin
  <1>3. SortedGroups' = SortedGroups
    BY <1>2 DEF SortedGroups, Below
  <1>4. cache' \subseteq {SortedGroups}
    BY <1>1, <1>2 DEF Lists
  <1>5. Lists'
    BY <1>1, <1>2, <1>3, <1>4 DEF Lists, Earlier
  <1> DEFINE l == [ran |-> <<>>, since |-> {h \in Registered : u \in Wants[h]},
                   cut |-> {}, shifted |-> {}, stopped |-> FALSE]
  <1>6. GoOn(w, SortedGroups, 1, u, l)
    BY <1>4 DEF Begin
  <1>7. Sorted(SortedGroups) /\ Range(SortedGroups) = Range(keys)
    BY <1>1, GroupsSorted DEF Lists
  <1>8. Registered \subseteq Range(added) /\ Range(added) \subseteq Handlers
    <2>1. Registered \subseteq Range(added)
      BY <1>1 DEF Registered, Lists
    <2>2. Range(added) \subseteq Handlers
      BY <1>1, LenProperties, ElementOfSeq DEF Lists, Range
    <2> QED
      BY <2>1, <2>2
  <1>9. l \in LogType /\ Fits(l, u) /\ ~l.stopped
    BY <1>8, EmptySeq DEF LogType, Fits
  <1>10. Known(l) /\ RanInOrder(l) /\ Ahead(l, SortedGroups, 1)
    BY <1>8 DEF Known, RanInOrder, Ahead
  <1>11. ASSUME NEW g \in Groups, bucket[g] # <<>> PROVE \E k \in DOMAIN SortedGroups : SortedGroups[k] = g
    <2>1. g \in Range(SortedGroups)
      BY <1>1, <1>7, <1>11 DEF Lists
    <2> HIDE DEF SortedGroups
    <2> QED
      BY <2>1 DEF Range
  <1>12. Served(l, SortedGroups, 1)
    <2> SUFFICES ASSUME NEW g \in Groups, Range(bucket[g]) # {}
                 PROVE  \E k \in DOMAIN SortedGroups : SortedGroups[k] = g
      BY DEF Served
    <2>1. bucket[g] # <<>>
      BY DEF Range
    <2> QED
      BY <1>11, <2>1
  <1>13. PassedOn(l, SortedGroups, 1)
    <2> SUFFICES ASSUME NEW g \in Groups, NEW m \in DOMAIN bucket[g]
                 PROVE  \E k \in DOMAIN SortedGroups : SortedGroups[k] = g /\ (k = 1 => m >= 1)
      BY DEF PassedOn
    <2>1. bucket[g] # <<>> /\ m >= 1
      BY <1>1, LenProperties DEF Lists
    <2> QED
      BY <1>11, <2>1
  <1>14. Sound(l, SortedGroups, 1)
    BY <1>7, <1>10, <1>12, <1>13 DEF Sound
  <1> HIDE DEF l
  <1>15. Dispatches'
    BY <1>1, <1>2, <1>6, <1>9, <1>14, WentOn
  <1> QED
    BY <1>5, <1>15 DEF DispatchInv

(* The handler returned: the group is done, whatever is left of it.         *)
LEMMA ReturnSound ==
  ASSUME Lists, NEW l \in LogType, NEW gs \in Seq(Groups), gs # <<>>, NEW n \in Nat, n > 1, Sound(l, gs, n)
  PROVE  LET m == [l EXCEPT !.cut = @ \cup {Head(gs)}]
         IN  m \in LogType /\ Sound(m, Tail(gs), 1) /\ m.since = l.since /\ m.stopped = l.stopped
  <1> DEFINE m == [l EXCEPT !.cut = @ \cup {Head(gs)}]
             t == Tail(gs)
  <1>1. /\ t \in Seq(Groups) /\ Head(gs) = gs[1] /\ 1 \in DOMAIN gs
        /\ DOMAIN gs = 1 .. Len(gs) /\ Len(gs) \in Nat /\ DOMAIN t = 1 .. Len(gs) - 1
        /\ \A i \in 1 .. Len(gs) - 1 : t[i] = gs[i + 1]
    BY TailOf
  <1>2. /\ m \in LogType /\ m.since = l.since /\ m.stopped = l.stopped /\ m.ran = l.ran
        /\ m.shifted = l.shifted /\ m.cut = l.cut \cup {gs[1]}
    BY <1>1, ElementOfSeq DEF LogType
  <1>3. \A k \in DOMAIN t : k + 1 \in DOMAIN gs /\ t[k] = gs[k + 1] /\ k \in Nat /\ k + 1 # 1
    BY <1>1
  <1>4. \A k \in DOMAIN gs : k # 1 => k - 1 \in DOMAIN t /\ t[k - 1] = gs[k]
    BY <1>1
  <1>5. \A k \in DOMAIN gs : gs[k] \in Groups
    BY <1>1, ElementOfSeq
  <1>6. Sorted(gs) /\ Known(l) /\ RanInOrder(l) /\ Ahead(l, gs, n)
    BY DEF Sound
  <1> HIDE DEF m, t
  <1>7. Sorted(t)
    <2> SUFFICES ASSUME NEW j \in DOMAIN t, NEW i \in 1 .. j - 1 PROVE t[i] < t[j]
      BY <1>1 DEF Sorted
    <2>1. i \in DOMAIN t /\ i + 1 \in 1 .. (j + 1) - 1
      BY <1>1
    <2> QED
      BY <1>3, <1>6, <2>1 DEF Sorted
  <1>8. Known(m) /\ RanInOrder(m)
    BY <1>2, <1>6 DEF Known, RanInOrder
  <1>9. Ahead(m, t, 1)
    <2> SUFFICES ASSUME NEW i \in DOMAIN l.ran, NEW k \in DOMAIN t
                 PROVE  /\ l.ran[i][1] <= t[k]
                        /\ \A y \in DOMAIN bucket[t[k]] : Follows(l.ran[i], <<t[k], bucket[t[k]][y]>>)
      BY <1>2 DEF Ahead
    <2> QED
      BY <1>3, <1>6 DEF Ahead
  <1>10. ASSUME ~l.stopped PROVE Served(m, t, 1)
    <2> SUFFICES ASSUME NEW g \in Groups, l.since \cap Range(bucket[g]) # {}
                 PROVE  \/ \E i \in DOMAIN l.ran : l.ran[i][1] = g
                        \/ \E k \in DOMAIN t : t[k] = g
      BY <1>2 DEF Served
    <2>1. \/ \E i \in DOMAIN l.ran : l.ran[i][1] = g
          \/ \E k \in DOMAIN gs : gs[k] = g /\ (k = 1 => n = 1)
      BY <1>10 DEF Sound, Served
    <2> QED
      BY <1>4, <2>1
  <1>11. ASSUME ~l.stopped PROVE PassedOn(m, t, 1)
    <2> SUFFICES ASSUME NEW g \in Groups \ (m.cut \cup m.shifted), NEW y \in DOMAIN bucket[g],
                        bucket[g][y] \in l.since
                 PROVE  \/ <<g, bucket[g][y]>> \in Range(l.ran)
                        \/ \E k \in DOMAIN t : t[k] = g /\ (k = 1 => y >= 1)
      BY <1>2 DEF PassedOn
    <2>1. \/ <<g, bucket[g][y]>> \in Range(l.ran)
          \/ \E k \in DOMAIN gs : gs[k] = g /\ (k = 1 => y >= n)
      BY <1>2, <1>11 DEF Sound, PassedOn
    <2>2. g # gs[1] /\ y >= 1
      BY <1>2, LenProperties DEF Lists
    <2>3. ASSUME NEW k \in DOMAIN gs, gs[k] = g PROVE \E j \in DOMAIN t : t[j] = g /\ (j = 1 => y >= 1)
      BY <1>4, <2>2, <2>3
    <2> QED
      BY <2>1, <2>3
  <1> QED
    BY <1>2, <1>7, <1>8, <1>9, <1>10, <1>11 DEF Sound, m, t

LEMMA AnswerStep ==
  ASSUME DispatchInv, NEW w \in Workers, Answer(w)
  PROVE  DispatchInv'
  <1>1. Lists /\ Dispatches /\ UNCHANGED <<keys, bucket, cache, added>>
    BY DEF DispatchInv, Answer
  <1>2. Lists'
    BY <1>1, SameLists
  <1>3. PICK u \in task[w].update : Returns(w, u) \/ Continues(w, u) \/ Stops(w)
    BY DEF Answer
  <1> DEFINE l == log[w]
             gs == task[w].groups
             n == task[w].next
  <1>4. /\ u \in Updates /\ l \in LogType /\ gs \in Seq(Groups) /\ n \in Nat \ {0} /\ Sound(l, gs, n)
        /\ Waiting(w) => ~l.stopped /\ gs # <<>> /\ n > 1 /\ Fits(l, u)
    BY <1>1 DEF Dispatches, TaskType, Fits
  <1>5. Waiting(w) => Dispatches'
    <2> SUFFICES ASSUME Waiting(w) PROVE Dispatches'
      OBVIOUS
    <2>1. ~l.stopped /\ gs # <<>> /\ n > 1 /\ Fits(l, u)
      BY <1>4
    <2>2. CASE Returns(w, u)
      <3> DEFINE m == [l EXCEPT !.cut = @ \cup {Head(gs)}]
      <3>1. GoOn(w, Tail(gs), 1, u, m)
        BY <2>2 DEF Returns
      <3>2. m \in LogType /\ Sound(m, Tail(gs), 1) /\ m.since = l.since /\ m.stopped = l.stopped
        BY <1>1, <1>4, <2>1, ReturnSound
      <3> HIDE DEF m, l, gs, n
      <3>3. Fits(m, u)
        BY <2>1, <3>2 DEF Fits
      <3> QED
        BY <1>1, <1>4, <2>1, <3>1, <3>2, <3>3, WentOn
    <2>3. CASE Continues(w, u)
      <3>1. GoOn(w, gs, n, u, l)
        BY <2>3 DEF Continues
      <3> HIDE DEF l, gs, n
      <3> QED
        BY <1>1, <1>4, <2>1, <3>1, WentOn
    <2>4. CASE Stops(w)
      <3> DEFINE m == [l EXCEPT !.stopped = TRUE]
      <3>1. task' = [task EXCEPT ![w] = Idle] /\ log' = [log EXCEPT ![w] = m]
        BY <2>4 DEF Stops
      <3>2. m \in LogType /\ m.stopped /\ m.since = l.since /\ m.ran = l.ran
        BY <1>4 DEF LogType
      <3>3. Idle \in TaskType /\ Idle.groups = <<>> /\ Idle.next = 1 /\ Idle.runs = {} /\ Idle.update = {}
        BY EmptySeq DEF Idle, TaskType
      <3>4. Sound(m, <<>>, 1)
        <4>1. Sorted(<<>>) /\ Ahead(m, <<>>, 1)
          BY EmptySeq DEF Sorted, Ahead
        <4> QED
          BY <1>4, <3>2, <4>1 DEF Sound, Known, RanInOrder
      <3>5. Fine(Idle, m)
        BY <3>2, <3>3, <3>4 DEF Fine
      <3> HIDE DEF m, l, gs, n
      <3> QED
        BY <1>1, <3>1, <3>5, TakeOn
    <2> QED
      BY <1>3, <2>2, <2>3, <2>4
  <1>6. Waiting(w)
    BY <1>1, <1>3 DEF Dispatches
  <1> QED
    BY <1>2, <1>5, <1>6 DEF DispatchInv

LEMMA DispatchStart == Init => DispatchInv
  <1> SUFFICES ASSUME Init PROVE DispatchInv
    OBVIOUS
  <1>1. <<>> \in Seq(Groups) /\ <<>> \in Seq(Handlers) /\ <<>> \in Seq(Groups \X Handlers)
        /\ Len(<<>>) = 0 /\ DOMAIN <<>> = {} /\ Range(<<>>) = {}
    BY EmptySeq DEF Range
  <1>2. Lists
    BY <1>1 DEF Init, Lists
  <1> DEFINE l == [ran |-> <<>>, since |-> {}, cut |-> {}, shifted |-> {}, stopped |-> FALSE]
  <1>3. /\ task = [w \in Workers |-> Idle] /\ log = [w \in Workers |-> l]
        /\ bucket = [g \in Groups |-> <<>>]
    BY DEF Init
  <1>4. Idle \in TaskType /\ Idle.groups = <<>> /\ Idle.next = 1 /\ Idle.runs = {} /\ Idle.update = {}
    BY <1>1 DEF Idle, TaskType
  <1>5. l \in LogType /\ l.ran = <<>> /\ l.since = {}
    BY <1>1 DEF LogType
  <1> HIDE DEF l
  <1>6. Sound(l, <<>>, 1)
    BY <1>1, <1>5 DEF Sound, Sorted, Known, RanInOrder, Ahead, Served, PassedOn
  <1>7. \A w \in Workers : task[w] = Idle /\ log[w] = l /\ ~Waiting(w)
    BY <1>3, <1>4 DEF Waiting
  <1>8. Dispatches
    BY <1>3, <1>4, <1>5, <1>6, <1>7 DEF Dispatches
  <1> QED
    BY <1>2, <1>8 DEF DispatchInv

(* The invariant holds in every state the program reaches.                  *)
THEOREM DispatchInvariant == Spec => []DispatchInv
  <1>1. DispatchInv /\ [Next]_vars => DispatchInv'
    <2> SUFFICES ASSUME DispatchInv, [Next]_vars PROVE DispatchInv'
      OBVIOUS
    <2>1. CASE \E h \in Handlers, g \in Groups : AddHandler(h, g)
      BY <2>1, AddStep
    <2>2. CASE \E f \in Range(Func), g \in Groups : RemoveHandler(f, g)
      BY <2>2, RemoveStep
    <2>3. CASE \E w \in Workers : Answer(w)
      BY <2>3, AnswerStep
    <2>4. CASE \E w \in Workers, u \in Updates : Begin(w, u)
      BY <2>4, BeginStep
    <2>5. CASE UNCHANGED vars
      <3>1. UNCHANGED <<keys, bucket, cache, added, task, log>>
        BY <2>5 DEF vars
      <3>2. Lists'
        BY <3>1, SameLists DEF DispatchInv
      <3>3. Dispatches'
        <4>1. Dispatches
          BY DEF DispatchInv
        <4>2. \A w \in Workers : Sound(log[w], task[w].groups, task[w].next)'
          BY <3>1, <4>1, StaysSound DEF Dispatches
        <4>3. \A w \in Workers : Waiting(w)' <=> Waiting(w)
          BY <3>1 DEF Waiting
        <4> QED
          BY <3>1, <4>1, <4>2, <4>3 DEF Dispatches
      <3> QED
        BY <3>2, <3>3 DEF DispatchInv
    <2> QED
      BY <2>1, <2>2, <2>3, <2>4, <2>5 DEF Next
  <1> QED
    BY <1>1, DispatchStart, PTL DEF Spec

----------------------------------------------------------------------------
(* What ran of one update ran in the order of groups and, within one, of    *)
(* registration: nothing twice, however the lists changed meanwhile.        *)
THEOREM DispatchInOrder == Spec => []InOrder
  <1>1. DispatchInv => InOrder
    BY DEF DispatchInv, Dispatches, Sound, RanInOrder, InOrder
  <1> QED
    BY <1>1, DispatchInvariant, PTL

(* A dispatch that no handler stopped served every group that had a fitting *)
(* handler all the while.                                                   *)
THEOREM DispatchServes == Spec => []GroupServed
  <1>1. DispatchInv => GroupServed
    <2> SUFFICES ASSUME DispatchInv, NEW w \in Workers, NEW g \in Groups, Over(w), Present(w, g) # {}
                 PROVE  RanIn(w, g) # {}
      BY DEF GroupServed
    <2>1. /\ log[w] \in LogType /\ task[w].groups = <<>> /\ ~log[w].stopped
          /\ Sound(log[w], task[w].groups, task[w].next)
      BY DEF DispatchInv, Dispatches, Over
    <2>2. PICK i \in DOMAIN log[w].ran : log[w].ran[i][1] = g
      BY <2>1 DEF Sound, Served, Present
    <2>3. log[w].ran[i] \in Groups \X Handlers
      BY <2>1, LenProperties, ElementOfSeq DEF LogType
    <2>4. log[w].ran[i] = <<g, log[w].ran[i][2]>> /\ log[w].ran[i][2] \in Handlers
      BY <2>2, <2>3
    <2>5. log[w].ran[i][2] \in RanIn(w, g)
      BY <2>4 DEF RanIn, Range
    <2> QED
      BY <2>5
  <1> QED
    BY <1>1, DispatchInvariant, PTL

(* A group that its handlers passed on, and where no removal moved the      *)
(* list under the running one, has run all that fitted and stayed.          *)
THEOREM DispatchPassesOn == Spec => []PassedOnToAll
  <1>1. DispatchInv => PassedOnToAll
    <2> SUFFICES ASSUME DispatchInv, NEW w \in Workers, NEW g \in Groups \ (log[w].cut \cup log[w].shifted),
                        Over(w), NEW h \in Present(w, g)
                 PROVE  h \in RanIn(w, g)
      BY DEF PassedOnToAll
    <2>1. /\ log[w] \in LogType /\ task[w].groups = <<>> /\ ~log[w].stopped
          /\ Sound(log[w], task[w].groups, task[w].next)
      BY DEF DispatchInv, Dispatches, Over
    <2>2. PICK m \in DOMAIN bucket[g] : bucket[g][m] = h
      BY DEF Present, Range
    <2>3. h \in log[w].since /\ h \in Handlers
      BY <2>1 DEF Present, LogType
    <2>4. <<g, h>> \in Range(log[w].ran)
      <3>1. PassedOn(log[w], <<>>, task[w].next)
        BY <2>1 DEF Sound
      <3> QED
        BY <2>2, <2>3, <3>1 DEF PassedOn
    <2> QED
      BY <2>3, <2>4 DEF RanIn
  <1> QED
    BY <1>1, DispatchInvariant, PTL
=============================================================================
