--------------------------- MODULE RetentionProofs ---------------------------
(***************************************************************************)
(* What stays of the backups that were made, and that backups go on being  *)
(* made, and not too many at once: for every calendar, every settings and  *)
(* schedule, any cooldown and any number of backups and restarts.          *)
(*                                                                         *)
(* The bisections find what a search would; so a partition selects among   *)
(* the backups of its days; a day, week, month or year counted back from   *)
(* the last backup is one partition; hence each slot keeps a backup that   *)
(* it has.  There are no more keepers than slots: a purge takes none of    *)
(* them when there is room for all, and never the newest.                  *)
(***************************************************************************)
EXTENDS Retention, FiniteSetTheorems, FunctionTheorems, SequenceTheorems, TLAPS

-----------------------------------------------------------------------------
(* Least elements                                                          *)

\* There is a least number: what induction over the width of a search or over the
\* months rests on.
LEMMA LeastNumber ==
  ASSUME NEW T, T \subseteq Nat, T # {}
  PROVE  \E m \in T : \A x \in T : m <= x
<1>1. \E m \in T : \A x \in T : ~ (<<x, m>> \in OpToRel(<, Nat))
  BY NatLessThanWellFounded, WFMin
<1>2. \A x, m \in Nat : x < m => <<x, m>> \in OpToRel(<, Nat)
  BY DEF OpToRel
<1>3. PICK m \in T : \A x \in T : ~ (<<x, m>> \in OpToRel(<, Nat))
  BY <1>1
<1>4. \A x \in T : x \in Nat /\ m \in Nat /\ ~(x < m)
  BY <1>2, <1>3
<1> QED BY <1>4

\* No other set of F is a part of A.
Smallest(A, F) == \A B \in F : B \subseteq A => B = A

\* A family of finite sets has one with no other below it.
LEMMA SmallestExists ==
  ASSUME NEW T, IsFiniteSet(T), NEW F, F \subseteq SUBSET T, F # {}
  PROVE  \E A \in F : Smallest(A, F)
<1>1. IsWellFoundedOn(StrictSubsetOrdering(T), SUBSET T)
  BY FS_StrictSubsetOrderingWellFounded, FS_FiniteSubsetsOfFinite
<1>2. \E A \in F : \A B \in F : ~ (<<B, A>> \in StrictSubsetOrdering(T))
  BY <1>1, WFMin
<1> QED BY <1>2 DEF StrictSubsetOrdering, Smallest

\* Some moments, up to the present, have a first and a last.
LEMMA FirstAndLast ==
  ASSUME NEW n \in Nat, NEW T, T \subseteq 0..n, T # {}
  PROVE  /\ Min(T) \in T /\ \A x \in T : Min(T) <= x
         /\ Max(T) \in T /\ \A x \in T : x <= Max(T)
<1>0. \A x \in T : x \in Nat /\ x <= n
  OBVIOUS
<1>1. \E m \in T : \A x \in T : m <= x
  <2>1. T \subseteq Nat
    BY <1>0
  <2> QED BY <2>1, LeastNumber
<1>2. Min(T) \in T /\ \A x \in T : Min(T) <= x
  BY <1>1 DEF Min
<1> DEFINE back == {n - x : x \in T}
<1>3. \E m \in back : \A x \in back : m <= x
  <2>0. \A x \in T : n - x \in Nat
    BY <1>0
  <2>1. back \subseteq Nat /\ back # {}
    BY <2>0
  <2> HIDE DEF back
  <2> QED BY <2>1, LeastNumber
<1>4. PICK m \in T : \A x \in T : n - m <= n - x
  BY <1>3
<1>5. \A x \in T : m >= x
  BY <1>0, <1>4
<1>6. Max(T) \in T /\ \A x \in T : Max(T) >= x
  BY <1>5 DEF Max
<1> QED BY <1>2, <1>6

-----------------------------------------------------------------------------
(* The order of the backups                                                *)

Ascending(s) == /\ Len(s) \in Nat
                /\ \A i \in 1..Len(s) : s[i] \in Int
                /\ \A i, j \in 1..Len(s) : i < j => s[i] < s[j]

\* Sorting a set by rank gives each of its elements, in their order.
LEMMA SortedIsAscending ==
  ASSUME NEW S, IsFiniteSet(S), S \subseteq Int
  PROVE  /\ Ascending(Sorted(S)) /\ Len(Sorted(S)) = Cardinality(S)
         /\ {Sorted(S)[i] : i \in 1..Len(Sorted(S))} = S
<1> DEFINE n == Cardinality(S)
           upTo(t) == {u \in S : u <= t}
           rank == [t \in S |-> Cardinality(upTo(t))]
<1>1. n \in Nat
  BY FS_CardinalityType
<1>2. \A t \in S : upTo(t) \in SUBSET S /\ t \in upTo(t)
  BY S \subseteq Int
<1>3. \A t \in S : IsFiniteSet(upTo(t)) /\ Cardinality(upTo(t)) \in 1..n
  <2> SUFFICES ASSUME NEW t \in S
               PROVE  IsFiniteSet(upTo(t)) /\ Cardinality(upTo(t)) \in 1..n
    OBVIOUS
  <2>1. upTo(t) \in SUBSET S /\ upTo(t) # {}
    BY <1>2
  <2> HIDE DEF upTo
  <2>2. IsFiniteSet(upTo(t)) /\ Cardinality(upTo(t)) <= n
    BY <2>1, FS_Subset
  <2>3. Cardinality(upTo(t)) \in Nat /\ Cardinality(upTo(t)) # 0
    BY <2>1, <2>2, FS_CardinalityType, FS_EmptySet
  <2> QED BY <1>1, <2>2, <2>3
<1>4. ASSUME NEW t \in S, NEW u \in S, t < u PROVE rank[t] < rank[u]
  <2>0. t \in Int /\ u \in Int /\ \A v \in S : v \in Int
    OBVIOUS
  <2>1. u \in upTo(u) /\ u \notin upTo(t) /\ \A v \in upTo(t) : v \in upTo(u)
    BY <1>4, <2>0
  <2>4. upTo(t) \in SUBSET upTo(u) /\ upTo(t) # upTo(u)
    BY <2>1
  <2>2. IsFiniteSet(upTo(u)) /\ Cardinality(upTo(u)) \in 1..n /\ Cardinality(upTo(t)) \in 1..n
    BY <1>3
  <2> HIDE DEF upTo
  <2>3. Cardinality(upTo(t)) <= Cardinality(upTo(u)) /\ Cardinality(upTo(t)) # Cardinality(upTo(u))
    BY <2>2, <2>4, FS_Subset
  <2> QED BY <1>1, <2>2, <2>3
<1>5. rank \in [S -> 1..n] /\ \A t \in S : rank[t] = Cardinality(upTo(t))
  BY <1>3
<1> HIDE DEF rank
<1>6. rank \in Surjection(S, 1..n)
  <2>1. \A t, u \in S : rank[t] = rank[u] => t = u
    <3> SUFFICES ASSUME NEW t \in S, NEW u \in S, t # u PROVE rank[t] # rank[u]
      OBVIOUS
    <3>1. t \in Int /\ u \in Int
      OBVIOUS
    <3>2. rank[t] \in Int /\ rank[u] \in Int
      BY <1>5
    <3>3. t < u \/ u < t
      BY <3>1
    <3> QED BY <1>4, <3>2, <3>3
  <2>2. rank \in Injection(S, 1..n)
    BY <1>5, <2>1, Fun_IsInj
  <2>3. IsFiniteSet(1..n) /\ Cardinality(1..n) = n
    BY <1>1, FS_Interval
  <2> QED BY <2>2, <2>3, FS_Injection
<1> DEFINE byRank == [i \in 1..n |-> CHOOSE t \in S : Cardinality({u \in S : u <= t}) = i]
<1>7. \A i \in 1..n : byRank[i] \in S /\ rank[byRank[i]] = i
  <2> SUFFICES ASSUME NEW i \in 1..n PROVE byRank[i] \in S /\ rank[byRank[i]] = i
    OBVIOUS
  <2>1. \E t \in S : rank[t] = i
    BY <1>6 DEF Surjection
  <2>2. \E t \in S : Cardinality({u \in S : u <= t}) = i
    BY <1>5, <2>1
  <2> DEFINE c == CHOOSE t \in S : Cardinality({u \in S : u <= t}) = i
  <2>3. c \in S /\ Cardinality({u \in S : u <= c}) = i
    BY <2>2
  <2>4. byRank[i] = c
    OBVIOUS
  <2> HIDE DEF c, byRank
  <2> QED BY <1>5, <2>3, <2>4
<1>8. Sorted(S) = SubSeq(byRank, 1, n)
  BY DEF Sorted
<1> HIDE DEF byRank, n, upTo
<1>9. Len(Sorted(S)) = n /\ \A i \in 1..n : Sorted(S)[i] = byRank[i]
  <2>1. /\ Len(SubSeq(byRank, 1, n)) = IF 1 <= n THEN n - 1 + 1 ELSE 0
        /\ \A i \in 1..(n - 1 + 1) : SubSeq(byRank, 1, n)[i] = byRank[1 + i - 1]
    BY <1>1, <1>7, SubSeqProperties
  <2>2. n - 1 + 1 = n /\ \A i \in 1..n : 1 + i - 1 = i
    BY <1>1
  <2> QED BY <1>1, <1>8, <2>1, <2>2
<1>10. \A i, j \in 1..n : i < j => byRank[i] < byRank[j]
  <2> SUFFICES ASSUME NEW i \in 1..n, NEW j \in 1..n, i < j PROVE byRank[i] < byRank[j]
    OBVIOUS
  <2>1. byRank[i] \in S /\ byRank[j] \in S /\ rank[byRank[i]] = i /\ rank[byRank[j]] = j
    BY <1>7
  <2>2. ASSUME byRank[j] < byRank[i] PROVE FALSE
    <3>1. rank[byRank[j]] < rank[byRank[i]]
      BY <1>4, <2>1, <2>2
    <3> QED BY <1>1, <2>1, <3>1
  <2>3. ASSUME byRank[j] = byRank[i] PROVE FALSE
    BY <1>1, <2>1, <2>3
  <2> DEFINE a == byRank[i]
             b == byRank[j]
  <2>4. a \in Int /\ b \in Int
    BY <2>1
  <2>5. ~(b < a) /\ ~(b = a)
    BY <2>2, <2>3
  <2> HIDE DEF a, b
  <2>6. a < b
    BY <2>4, <2>5
  <2> QED BY <2>6 DEF a, b
<1>11. \A t \in S : rank[t] \in 1..n /\ byRank[rank[t]] = t
  <2> SUFFICES ASSUME NEW t \in S PROVE rank[t] \in 1..n /\ byRank[rank[t]] = t
    OBVIOUS
  <2>1. rank[t] \in 1..n
    BY <1>5
  <2> DEFINE u == byRank[rank[t]]
  <2>2. u \in S /\ rank[u] = rank[t]
    BY <1>7, <2>1
  <2> HIDE DEF u
  <2>3. t \in Int /\ u \in Int /\ rank[t] \in Int
    BY <2>1, <2>2
  <2>4. ~(t < u) /\ ~(u < t)
    BY <1>4, <2>2, <2>3
  <2>5. u = t
    BY <2>3, <2>4
  <2> QED BY <2>1, <2>5 DEF u
<1>12. Ascending(Sorted(S))
  BY <1>1, <1>7, <1>9, <1>10 DEF Ascending
<1>13. {Sorted(S)[i] : i \in 1..n} = S
  <2>1. {Sorted(S)[i] : i \in 1..n} = {byRank[i] : i \in 1..n}
    BY <1>9
  <2>2. {byRank[i] : i \in 1..n} \subseteq S
    BY <1>7
  <2>3. S \subseteq {byRank[i] : i \in 1..n}
    BY <1>11
  <2> QED BY <2>1, <2>2, <2>3
<1> QED BY <1>9, <1>12, <1>13 DEF n

-----------------------------------------------------------------------------
(* The bisections                                                          *)

Mid(r) == (r[1] + r[2]) \div 2

\* What is left of a range after either half is a range, and shorter.
LEMMA HalvesAreRanges ==
  ASSUME NEW s, Len(s) \in Nat, NEW r \in Ranges(s), r[1] # r[2]
  PROVE  /\ Mid(r) \in r[1]..(r[2] - 1) /\ r[1] \in 1..Len(s) /\ r[2] \in 1..Len(s)
         /\ <<r[1], Mid(r)>> \in Ranges(s) /\ <<Mid(r) + 1, r[2]>> \in Ranges(s)
         /\ <<Mid(r), r[2]>> \in Ranges(s)
         /\ r[1] < Mid(r) => <<r[1], Mid(r) - 1>> \in Ranges(s)
<1>1. r[1] \in 1..Len(s) /\ r[2] \in 1..Len(s) /\ r[1] < r[2]
  BY DEF Ranges
<1>2. Mid(r) \in r[1]..(r[2] - 1)
  BY <1>1 DEF Mid
<1> HIDE DEF Mid
<1> QED BY <1>1, <1>2 DEF Ranges

Width(r) == r[2] - r[1]

LEMMA WidthType ==
  ASSUME NEW s, Len(s) \in Nat, NEW r \in Ranges(s)
  PROVE  /\ Width(r) \in 0..Len(s) /\ r[1] \in 1..Len(s) /\ r[2] \in 1..Len(s) /\ r[1] <= r[2]
         /\ Width(r) = 0 <=> r[1] = r[2]
BY DEF Ranges, Width

\* One step of each search, with f for the search of a half.
FirstStep(f, s, val, r) ==
  IF r[1] = r[2] THEN r[1]
  ELSE IF s[Mid(r)] < val THEN f[<<Mid(r) + 1, r[2]>>] ELSE f[<<r[1], Mid(r)>>]

LastStep(f, s, val, r) ==
  IF r[1] = r[2] THEN r[1]
  ELSE IF s[Mid(r)] > val THEN f[<<r[1], Mid(r) - 1>>]
  ELSE IF r[1] # Mid(r) THEN f[<<Mid(r), r[2]>>]
  ELSE IF s[r[2]] <= val THEN r[2] ELSE r[1]

\* The recursion ends on every range: the function it describes is there.
LEMMA FirstSearchExists ==
  ASSUME NEW s, Len(s) \in Nat, NEW val
  PROVE  \E f : f = [r \in Ranges(s) |-> FirstStep(f, s, val, r)]
<1> DEFINE upTo(n) == {r \in Ranges(s) : Width(r) <= n}
           Defined(n) == \E f : f = [r \in upTo(n) |-> FirstStep(f, s, val, r)]
<1>1. Defined(0)
  <2>1. \A r \in upTo(0) : r[1] = r[2]
    BY WidthType
  <2> DEFINE f == [r \in upTo(0) |-> r[1]]
  <2>2. f = [r \in upTo(0) |-> FirstStep(f, s, val, r)]
    BY <2>1 DEF FirstStep
  <2> QED BY <2>2
<1>2. ASSUME NEW n \in Nat, Defined(n) PROVE Defined(n + 1)
  <2>1. PICK f : f = [r \in upTo(n) |-> FirstStep(f, s, val, r)]
    BY <1>2
  <2> DEFINE g == [r \in upTo(n + 1) |-> IF r \in upTo(n) THEN f[r] ELSE FirstStep(f, s, val, r)]
  <2>2. upTo(n) \subseteq upTo(n + 1)
    BY WidthType
  <2>3. \A r \in upTo(n) : g[r] = f[r]
    BY <2>2
  <2>4. ASSUME NEW r \in upTo(n + 1) PROVE FirstStep(g, s, val, r) = FirstStep(f, s, val, r)
    <3>1. CASE r[1] = r[2]
      BY <3>1 DEF FirstStep
    <3>2. CASE r[1] # r[2]
      <4>1. r \in Ranges(s) /\ r[2] - r[1] <= n + 1
        BY DEF Width
      <4>2. /\ Mid(r) \in r[1]..(r[2] - 1) /\ r[1] \in 1..Len(s) /\ r[2] \in 1..Len(s)
            /\ <<r[1], Mid(r)>> \in Ranges(s) /\ <<Mid(r) + 1, r[2]>> \in Ranges(s)
        BY <3>2, <4>1, HalvesAreRanges
      <4>3. Width(<<r[1], Mid(r)>>) <= n /\ Width(<<Mid(r) + 1, r[2]>>) <= n
        BY <4>1, <4>2 DEF Width
      <4>4. <<r[1], Mid(r)>> \in upTo(n) /\ <<Mid(r) + 1, r[2]>> \in upTo(n)
        BY <4>2, <4>3
      <4> HIDE DEF g, upTo
      <4>5. g[<<r[1], Mid(r)>>] = f[<<r[1], Mid(r)>>]
            /\ g[<<Mid(r) + 1, r[2]>>] = f[<<Mid(r) + 1, r[2]>>]
        BY <2>3, <4>4
      <4> QED BY <3>2, <4>5 DEF FirstStep
    <3> QED BY <3>1, <3>2
  <2>5. \A r \in upTo(n + 1) : g[r] = FirstStep(f, s, val, r)
    <3>1. \A r \in upTo(n) : f[r] = FirstStep(f, s, val, r)
      BY <2>1
    <3> QED BY <3>1
  <2>6. DOMAIN g = upTo(n + 1) /\ g = [r \in upTo(n + 1) |-> g[r]]
    OBVIOUS
  <2> HIDE DEF g, upTo
  <2>7. g = [r \in upTo(n + 1) |-> FirstStep(g, s, val, r)]
    BY <2>4, <2>5, <2>6
  <2> QED BY <2>7
<1> HIDE DEF Defined
<1>3. \A n \in Nat : Defined(n)
  <2> SUFFICES ASSUME {n \in Nat : ~ Defined(n)} # {} PROVE FALSE
    OBVIOUS
  <2>1. PICK m \in {n \in Nat : ~ Defined(n)} : \A x \in {n \in Nat : ~ Defined(n)} : m <= x
    BY LeastNumber
  <2>2. m - 1 \in Nat /\ Defined(m - 1) /\ m - 1 + 1 = m
    BY <1>1, <2>1
  <2>3. Defined(m - 1 + 1)
    BY <1>2, <2>2
  <2> QED BY <2>1, <2>2, <2>3
<1>4. upTo(Len(s)) = Ranges(s)
  BY WidthType
<1> QED BY <1>3, <1>4 DEF Defined

\* Each search is one step on every range, with itself for the halves.
LEMMA FirstSearchSteps ==
  ASSUME NEW s, Len(s) \in Nat, NEW val, NEW r \in Ranges(s)
  PROVE  FirstSearch(s, val)[r] = FirstStep(FirstSearch(s, val), s, val, r)
<1>1. PICK f : f = [q \in Ranges(s) |-> FirstStep(f, s, val, q)]
  BY FirstSearchExists
<1>2. FirstSearch(s, val) = [q \in Ranges(s) |-> FirstStep(FirstSearch(s, val), s, val, q)]
  BY <1>1 DEF FirstSearch, FirstStep, Mid
<1> QED BY <1>2

\* The same for the last: a search of two that are left ends too.
LEMMA LastSearchExists ==
  ASSUME NEW s, Ascending(s), NEW val \in Int
  PROVE  \E f : f = [r \in RangesFrom(s, val) |-> LastStep(f, s, val, r)]
<1> DEFINE upTo(n) == {r \in RangesFrom(s, val) : Width(r) <= n}
           Defined(n) == \E f : f = [r \in upTo(n) |-> LastStep(f, s, val, r)]
<1>0. Len(s) \in Nat /\ \A r \in RangesFrom(s, val) : r \in Ranges(s)
  BY DEF Ascending, RangesFrom
<1>1. Defined(0)
  <2>1. \A r \in upTo(0) : r[1] = r[2]
    BY <1>0, WidthType
  <2> DEFINE f == [r \in upTo(0) |-> r[1]]
  <2>2. f = [r \in upTo(0) |-> LastStep(f, s, val, r)]
    BY <2>1 DEF LastStep
  <2> QED BY <2>2
<1>2. ASSUME NEW n \in Nat, Defined(n) PROVE Defined(n + 1)
  <2>1. PICK f : f = [r \in upTo(n) |-> LastStep(f, s, val, r)]
    BY <1>2
  <2> DEFINE g == [r \in upTo(n + 1) |-> IF r \in upTo(n) THEN f[r] ELSE LastStep(f, s, val, r)]
  <2>2. upTo(n) \subseteq upTo(n + 1)
    BY <1>0, WidthType
  <2>3. \A r \in upTo(n) : g[r] = f[r]
    BY <2>2
  <2>4. ASSUME NEW r \in upTo(n + 1) PROVE LastStep(g, s, val, r) = LastStep(f, s, val, r)
    <3>1. CASE r[1] = r[2]
      BY <3>1 DEF LastStep
    <3>2. CASE r[1] # r[2]
      <4>1. r \in Ranges(s) /\ r[2] - r[1] <= n + 1 /\ s[r[1]] <= val
        BY <1>0 DEF Width, RangesFrom
      <4>2. /\ Mid(r) \in r[1]..(r[2] - 1) /\ r[1] \in 1..Len(s) /\ r[2] \in 1..Len(s)
            /\ <<Mid(r), r[2]>> \in Ranges(s)
            /\ r[1] < Mid(r) => <<r[1], Mid(r) - 1>> \in Ranges(s)
        BY <1>0, <3>2, <4>1, HalvesAreRanges
      <4>3. s[Mid(r)] \in Int
        BY <1>0, <4>2 DEF Ascending
      <4>4. ASSUME s[Mid(r)] > val PROVE <<r[1], Mid(r) - 1>> \in upTo(n)
        <5>1. Mid(r) # r[1]
          BY <4>1, <4>3, <4>4
        <5>2. <<r[1], Mid(r) - 1>> \in Ranges(s)
          BY <1>0, <4>2, <5>1
        <5>3. Width(<<r[1], Mid(r) - 1>>) <= n
          BY <1>0, <4>1, <4>2 DEF Width
        <5> QED BY <4>1, <5>2, <5>3 DEF RangesFrom
      <4>5. ASSUME ~(s[Mid(r)] > val), r[1] # Mid(r) PROVE <<Mid(r), r[2]>> \in upTo(n)
        <5>1. s[Mid(r)] <= val
          BY <4>3, <4>5
        <5>2. Width(<<Mid(r), r[2]>>) <= n
          BY <1>0, <4>1, <4>2, <4>5 DEF Width
        <5> QED BY <4>2, <5>1, <5>2 DEF RangesFrom
      <4> HIDE DEF g, upTo
      <4> QED BY <2>3, <3>2, <4>4, <4>5 DEF LastStep
    <3> QED BY <3>1, <3>2
  <2>5. \A r \in upTo(n + 1) : g[r] = LastStep(f, s, val, r)
    <3>1. \A r \in upTo(n) : f[r] = LastStep(f, s, val, r)
      BY <2>1
    <3> QED BY <3>1
  <2>6. DOMAIN g = upTo(n + 1) /\ g = [r \in upTo(n + 1) |-> g[r]]
    OBVIOUS
  <2> HIDE DEF g, upTo
  <2>7. g = [r \in upTo(n + 1) |-> LastStep(g, s, val, r)]
    BY <2>4, <2>5, <2>6
  <2> QED BY <2>7
<1> HIDE DEF Defined
<1>3. \A n \in Nat : Defined(n)
  <2> SUFFICES ASSUME {n \in Nat : ~ Defined(n)} # {} PROVE FALSE
    OBVIOUS
  <2>1. PICK m \in {n \in Nat : ~ Defined(n)} : \A x \in {n \in Nat : ~ Defined(n)} : m <= x
    BY LeastNumber
  <2>2. m - 1 \in Nat /\ Defined(m - 1) /\ m - 1 + 1 = m
    BY <1>1, <2>1
  <2>3. Defined(m - 1 + 1)
    BY <1>2, <2>2
  <2> QED BY <2>1, <2>2, <2>3
<1>4. upTo(Len(s)) = RangesFrom(s, val)
  BY <1>0, WidthType
<1> QED BY <1>0, <1>3, <1>4 DEF Defined

LEMMA LastSearchSteps ==
  ASSUME NEW s, Ascending(s), NEW val \in Int, NEW r \in RangesFrom(s, val)
  PROVE  LastSearch(s, val)[r] = LastStep(LastSearch(s, val), s, val, r)
<1>1. PICK f : f = [q \in RangesFrom(s, val) |-> LastStep(f, s, val, q)]
  BY LastSearchExists
<1>2. LastSearch(s, val) = [q \in RangesFrom(s, val) |-> LastStep(LastSearch(s, val), s, val, q)]
  BY <1>1 DEF LastSearch, LastStep, Mid
<1> QED BY <1>2

\* The search for the first that is not before val splits a range there.
SplitsAt(s, val, r, i) ==
  /\ i \in r[1]..r[2] /\ val <= s[i]
  /\ \A j \in r[1]..r[2] : j < i => s[j] < val

LEMMA FirstSearchFinds ==
  ASSUME NEW s, Ascending(s), NEW val \in Int, NEW q \in Ranges(s), val <= s[q[2]]
  PROVE  SplitsAt(s, val, q, FirstSearch(s, val)[q])
<1> DEFINE f == FirstSearch(s, val)
           Wrong == {r \in Ranges(s) : val <= s[r[2]] /\ ~ SplitsAt(s, val, r, f[r])}
           widths == {Width(r) : r \in Wrong}
<1> SUFFICES ASSUME q \in Wrong PROVE FALSE
  OBVIOUS
<1>0. Len(s) \in Nat /\ \A i \in 1..Len(s) : s[i] \in Int
  BY DEF Ascending
<1>1. PICK r \in Wrong : \A x \in Wrong : Width(r) <= Width(x)
  <2>1. widths \subseteq Nat /\ widths # {}
    BY <1>0, WidthType
  <2> HIDE DEF widths
  <2>2. \E m \in widths : \A x \in widths : m <= x
    BY <2>1, LeastNumber
  <2> QED BY <2>2 DEF widths
<1>2. r \in Ranges(s) /\ val <= s[r[2]] /\ ~ SplitsAt(s, val, r, f[r])
  OBVIOUS
<1>3. \A x \in Ranges(s) : val <= s[x[2]] /\ ~(Width(r) <= Width(x)) => SplitsAt(s, val, x, f[x])
  BY <1>1
<1> HIDE DEF Wrong, widths
<1>4. f[r] = FirstStep(f, s, val, r)
  BY <1>0, <1>2, FirstSearchSteps
<1>5. r[1] \in 1..Len(s) /\ r[2] \in 1..Len(s) /\ r[1] <= r[2]
  BY <1>0, <1>2, WidthType
<1>6. CASE r[1] = r[2]
  BY <1>0, <1>2, <1>4, <1>5, <1>6 DEF FirstStep, SplitsAt
<1>7. CASE r[1] # r[2]
  <2> DEFINE m == Mid(r)
             lower == <<r[1], m>>
             upper == <<m + 1, r[2]>>
  <2>1. m \in r[1]..(r[2] - 1) /\ lower \in Ranges(s) /\ upper \in Ranges(s)
    BY <1>0, <1>2, <1>7, HalvesAreRanges
  <2>2. ~(Width(r) <= Width(lower)) /\ ~(Width(r) <= Width(upper))
    BY <1>5, <2>1 DEF Width
  <2>3. f[r] = IF s[m] < val THEN f[upper] ELSE f[lower]
    BY <1>4, <1>7 DEF FirstStep
  <2>4. lower[1] = r[1] /\ lower[2] = m /\ upper[1] = m + 1 /\ upper[2] = r[2]
    OBVIOUS
  <2>5. m \in 1..Len(s) /\ s[m] \in Int
    BY <1>0, <1>5, <2>1
  <2> HIDE DEF m, lower, upper, f
  <2>6. CASE s[m] < val
    <3>1. SplitsAt(s, val, upper, f[upper])
      BY <1>2, <1>3, <2>1, <2>2, <2>4
    <3>2. f[upper] \in (m + 1)..r[2] /\ val <= s[f[upper]]
          /\ \A j \in (m + 1)..r[2] : j < f[upper] => s[j] < val
      BY <2>4, <3>1 DEF SplitsAt
    <3>3. \A j \in r[1]..m : s[j] < val
      <4> SUFFICES ASSUME NEW j \in r[1]..m PROVE s[j] < val
        OBVIOUS
      <4>1. j \in 1..Len(s) /\ s[j] \in Int /\ (j = m \/ j < m)
        BY <1>0, <1>5, <2>1
      <4>2. s[j] <= s[m]
        BY <1>0, <2>5, <4>1 DEF Ascending
      <4> QED BY <2>5, <2>6, <4>1, <4>2
    <3>4. \A j \in r[1]..r[2] : j \in r[1]..m \/ j \in (m + 1)..r[2]
      BY <1>5, <2>1
    <3>5. f[upper] \in r[1]..r[2]
      BY <1>5, <2>1, <3>2
    <3>6. SplitsAt(s, val, r, f[upper])
      BY <3>2, <3>3, <3>4, <3>5 DEF SplitsAt
    <3> QED BY <1>2, <2>3, <2>6, <3>6 DEF f
  <2>7. CASE ~(s[m] < val)
    <3>1. SplitsAt(s, val, lower, f[lower])
      BY <1>2, <1>3, <2>1, <2>2, <2>4, <2>5, <2>7
    <3>2. f[lower] \in r[1]..m /\ val <= s[f[lower]]
          /\ \A j \in r[1]..m : j < f[lower] => s[j] < val
      BY <2>4, <3>1 DEF SplitsAt
    <3>3. f[lower] \in r[1]..r[2] /\ \A j \in r[1]..r[2] : j < f[lower] => j \in r[1]..m
      BY <1>5, <2>1, <3>2
    <3>4. SplitsAt(s, val, r, f[lower])
      BY <3>2, <3>3 DEF SplitsAt
    <3> QED BY <1>2, <2>3, <2>7, <3>4 DEF f
  <2> QED BY <2>6, <2>7
<1> QED BY <1>6, <1>7

\* The search for the last that is not after val.
EndsAt(s, val, r, i) ==
  /\ i \in r[1]..r[2] /\ s[i] <= val
  /\ \A j \in r[1]..r[2] : i < j => val < s[j]

\* What a half leaves out is after val, and so is what it finds nothing in.
LEMMA LastSearchFinds ==
  ASSUME NEW s, Ascending(s), NEW val \in Int, NEW q \in RangesFrom(s, val)
  PROVE  EndsAt(s, val, q, LastSearch(s, val)[q])
<1> DEFINE f == LastSearch(s, val)
           Wrong == {r \in RangesFrom(s, val) : ~ EndsAt(s, val, r, f[r])}
           widths == {Width(r) : r \in Wrong}
<1> SUFFICES ASSUME q \in Wrong PROVE FALSE
  OBVIOUS
<1>0. /\ Len(s) \in Nat /\ \A i \in 1..Len(s) : s[i] \in Int
      /\ \A r : r \in RangesFrom(s, val) <=> r \in Ranges(s) /\ s[r[1]] <= val
  BY DEF Ascending, RangesFrom
<1>1. PICK r \in Wrong : \A x \in Wrong : Width(r) <= Width(x)
  <2>1. widths \subseteq Nat /\ widths # {}
    BY <1>0, WidthType
  <2> HIDE DEF widths
  <2>2. \E m \in widths : \A x \in widths : m <= x
    BY <2>1, LeastNumber
  <2> QED BY <2>2 DEF widths
<1>2. r \in Ranges(s) /\ s[r[1]] <= val /\ ~ EndsAt(s, val, r, f[r])
  BY <1>0
<1>3. \A x \in RangesFrom(s, val) : ~(Width(r) <= Width(x)) => EndsAt(s, val, x, f[x])
  BY <1>1
<1> HIDE DEF Wrong, widths
<1>4. f[r] = LastStep(f, s, val, r)
  BY <1>0, <1>2, LastSearchSteps
<1>5. r[1] \in 1..Len(s) /\ r[2] \in 1..Len(s) /\ r[1] <= r[2]
  BY <1>0, <1>2, WidthType
<1>6. CASE r[1] = r[2]
  BY <1>0, <1>2, <1>4, <1>5, <1>6 DEF LastStep, EndsAt
<1>7. CASE r[1] # r[2]
  <2> DEFINE m == Mid(r)
             lower == <<r[1], m - 1>>
             upper == <<m, r[2]>>
  <2>1. m \in r[1]..(r[2] - 1) /\ upper \in Ranges(s) /\ (r[1] < m => lower \in Ranges(s))
    BY <1>0, <1>2, <1>7, HalvesAreRanges
  <2>2. ~(Width(r) <= Width(lower)) /\ (r[1] # m => ~(Width(r) <= Width(upper)))
    BY <1>5, <2>1 DEF Width
  <2>3. f[r] = IF s[m] > val THEN f[lower]
               ELSE IF r[1] # m THEN f[upper]
               ELSE IF s[r[2]] <= val THEN r[2] ELSE r[1]
    BY <1>4, <1>7 DEF LastStep
  <2>4. lower[1] = r[1] /\ lower[2] = m - 1 /\ upper[1] = m /\ upper[2] = r[2]
    OBVIOUS
  <2>5. m \in 1..Len(s) /\ s[m] \in Int
    BY <1>0, <1>5, <2>1
  <2>6. r[2] = m + 1 \/ r[1] < m
    BY <1>5, <1>7 DEF Mid
  <2> HIDE DEF m, lower, upper, f
  <2>7. CASE s[m] > val
    <3>1. r[1] < m
      BY <1>2, <1>5, <2>1, <2>5, <2>7
    <3>2. EndsAt(s, val, lower, f[lower])
      BY <1>0, <1>2, <1>3, <2>1, <2>2, <2>4, <3>1
    <3>3. f[lower] \in r[1]..(m - 1) /\ s[f[lower]] <= val
          /\ \A j \in r[1]..(m - 1) : f[lower] < j => val < s[j]
      BY <2>4, <3>2 DEF EndsAt
    <3>4. \A j \in m..r[2] : val < s[j]
      <4> SUFFICES ASSUME NEW j \in m..r[2] PROVE val < s[j]
        OBVIOUS
      <4>1. j \in 1..Len(s) /\ s[j] \in Int /\ (j = m \/ m < j)
        BY <1>0, <1>5, <2>1
      <4>2. s[m] <= s[j]
        BY <2>5, <4>1 DEF Ascending
      <4> QED BY <2>5, <2>7, <4>1, <4>2
    <3>5. \A j \in r[1]..r[2] : j \in r[1]..(m - 1) \/ j \in m..r[2]
      BY <1>5, <2>1
    <3>6. f[lower] \in r[1]..r[2]
      BY <1>5, <2>1, <3>3
    <3>7. EndsAt(s, val, r, f[lower])
      BY <3>3, <3>4, <3>5, <3>6 DEF EndsAt
    <3> QED BY <1>2, <2>3, <2>7, <3>7 DEF f
  <2>8. CASE ~(s[m] > val) /\ r[1] # m
    <3>1. EndsAt(s, val, upper, f[upper])
      BY <1>0, <1>3, <2>1, <2>2, <2>4, <2>5, <2>8
    <3>2. f[upper] \in m..r[2] /\ s[f[upper]] <= val
          /\ \A j \in m..r[2] : f[upper] < j => val < s[j]
      BY <2>4, <3>1 DEF EndsAt
    <3>3. f[upper] \in r[1]..r[2] /\ \A j \in r[1]..r[2] : f[upper] < j => j \in m..r[2]
      BY <1>5, <2>1, <3>2
    <3>4. EndsAt(s, val, r, f[upper])
      BY <3>2, <3>3 DEF EndsAt
    <3> QED BY <1>2, <2>3, <2>8, <3>4 DEF f
  <2>9. CASE ~(s[m] > val) /\ r[1] = m
    <3>1. r[2] = r[1] + 1 /\ s[r[2]] \in Int
      BY <1>0, <1>5, <2>6, <2>9
    <3>2. f[r] = IF s[r[2]] <= val THEN r[2] ELSE r[1]
      BY <2>3, <2>9 DEF f
    <3>3. \A j \in r[1]..r[2] : j = r[1] \/ j = r[2]
      BY <1>5, <3>1
    <3>4. EndsAt(s, val, r, f[r])
      BY <1>2, <1>5, <3>1, <3>2, <3>3 DEF EndsAt
    <3> QED BY <1>2, <3>4 DEF f
  <2> QED BY <2>7, <2>8, <2>9
<1> QED BY <1>6, <1>7

Between(T, from, to) == {t \in T : from <= t /\ t <= to}

\* What the two bisections find is what is between.
LEMMA MatchesAreBetween ==
  ASSUME NEW s, Ascending(s), Len(s) > 0, NEW from \in Int, NEW to \in Int
  PROVE  Matches(s, from, to) = Between({s[i] : i \in 1..Len(s)}, from, to)
<1> DEFINE n == Len(s)
           a == FirstGreaterOrEqual(s, from)
           b == LastLessOrEqual(s, to)
           all == <<1, n>>
<1>0. n \in Nat /\ n >= 1 /\ \A i \in 1..n : s[i] \in Int
  BY DEF Ascending
<1>1. all \in Ranges(s) /\ all[1] = 1 /\ all[2] = n
  BY <1>0 DEF Ranges
<1>2. \A i, j \in 1..n : i <= j => s[i] <= s[j]
  BY <1>0 DEF Ascending
<1>3. a \in 1..(n + 1) /\ \A j \in 1..n : from <= s[j] <=> a <= j
  <2>1. CASE s[n] < from
    <3>1. a = n + 1
      BY <2>1 DEF FirstGreaterOrEqual, Last
    <3> HIDE DEF a
    <3>2. \A j \in 1..n : s[j] \in Int /\ s[n] \in Int /\ s[j] <= s[n]
      BY <1>0, <1>2
    <3> QED BY <1>0, <2>1, <3>1, <3>2
  <2>2. CASE ~(s[n] < from)
    <3>1. from <= s[n]
      BY <1>0, <2>2
    <3>2. a = FirstSearch(s, from)[all]
      BY <2>2 DEF FirstGreaterOrEqual, Last
    <3> HIDE DEF a, all
    <3>3. SplitsAt(s, from, all, a)
      BY <1>1, <3>1, <3>2, FirstSearchFinds
    <3>4. a \in 1..n /\ from <= s[a] /\ \A j \in 1..n : j < a => s[j] < from
      BY <1>1, <3>3 DEF SplitsAt
    <3>5. \A j \in 1..n : a <= j => from <= s[j]
      BY <1>0, <1>2, <3>4
    <3> QED BY <1>0, <3>4, <3>5
  <2> QED BY <2>1, <2>2
<1>4. b \in 0..n /\ \A j \in 1..n : s[j] <= to <=> j <= b
  <2>1. CASE s[1] > to
    <3>1. b = 0
      BY <2>1 DEF LastLessOrEqual
    <3> HIDE DEF b
    <3>2. \A j \in 1..n : s[j] \in Int /\ s[1] \in Int /\ s[1] <= s[j]
      BY <1>0, <1>2
    <3> QED BY <1>0, <2>1, <3>1, <3>2
  <2>2. CASE ~(s[1] > to)
    <3>1. s[1] <= to
      BY <1>0, <2>2
    <3>2. b = LastSearch(s, to)[all]
      BY <2>2 DEF LastLessOrEqual
    <3>3. all \in RangesFrom(s, to)
      BY <1>1, <3>1 DEF RangesFrom
    <3> HIDE DEF b, all
    <3>4. EndsAt(s, to, all, b)
      BY <3>2, <3>3, LastSearchFinds
    <3>5. b \in 1..n /\ s[b] <= to /\ \A j \in 1..n : b < j => to < s[j]
      BY <1>1, <3>4 DEF EndsAt
    <3>6. \A j \in 1..n : j <= b => s[j] <= to
      BY <1>0, <1>2, <3>5
    <3> QED BY <1>0, <3>5, <3>6
  <2> QED BY <2>1, <2>2
<1>5. Matches(s, from, to) = {s[i] : i \in a..b}
  BY DEF Matches
<1> HIDE DEF a, b, n
<1>6. \A i : i \in a..b <=> i \in 1..n /\ from <= s[i] /\ s[i] <= to
  BY <1>0, <1>3, <1>4
<1> QED BY <1>5, <1>6 DEF n, Between

\* The lookup over a set of backups.
LEMMA LookupIsSearch ==
  ASSUME NEW S, IsFiniteSet(S), S \subseteq Int, S # {}, NEW from \in Int, NEW to \in Int
  PROVE  Matches(Sorted(S), from, to) = Between(S, from, to)
<1>1. /\ Ascending(Sorted(S)) /\ Len(Sorted(S)) = Cardinality(S)
      /\ {Sorted(S)[i] : i \in 1..Len(Sorted(S))} = S
  BY SortedIsAscending
<1>2. Len(Sorted(S)) > 0
  BY <1>1, FS_EmptySet, FS_CardinalityType
<1> QED BY <1>1, <1>2, MatchesAreBetween

\* The last in the order is the newest.
LEMMA LastIsNewest ==
  ASSUME NEW n \in Nat, NEW S, S \subseteq 0..n, S # {}
  PROVE  Last(Sorted(S)) = Max(S)
<1> DEFINE s == Sorted(S)
<1>1. IsFiniteSet(S) /\ S \subseteq Int /\ \A t \in S : t \in Int
  <2>1. IsFiniteSet(0..n)
    BY FS_Interval
  <2>2. IsFiniteSet(S)
    BY <2>1, FS_Subset
  <2> QED BY <2>2
<1>2. Ascending(s) /\ Len(s) = Cardinality(S) /\ {s[i] : i \in 1..Len(s)} = S
  BY <1>1, SortedIsAscending
<1>3. Len(s) \in Nat /\ Len(s) > 0
  BY <1>1, <1>2, FS_EmptySet, FS_CardinalityType
<1> HIDE DEF s
<1> DEFINE last == s[Len(s)]
<1>4. last \in S
  BY <1>2, <1>3
<1>5. \A t \in S : t <= last
  <2> SUFFICES ASSUME NEW i \in 1..Len(s) PROVE s[i] <= last
    BY <1>2
  <2>1. i < Len(s) => s[i] < s[Len(s)]
    BY <1>2, <1>3 DEF Ascending
  <2>2. s[i] \in Int /\ last \in Int
    BY <1>2, <1>3 DEF Ascending
  <2> QED BY <1>3, <2>1, <2>2
<1>6. Max(S) \in S /\ \A t \in S : t <= Max(S)
  BY FirstAndLast
<1> HIDE DEF last
<1>7. last = Max(S)
  <2> DEFINE newest == Max(S)
  <2>1. newest \in Int /\ last \in Int /\ newest <= last /\ last <= newest
    BY <1>1, <1>4, <1>5, <1>6
  <2> HIDE DEF newest
  <2>2. last = newest
    BY <2>1
  <2> QED BY <2>2 DEF newest
<1> QED BY <1>7 DEF last, s, Last

\* The day of a moment is the one that it lies in.
LEMMA DayStarts ==
  ASSUME NEW p \in Nat, p > 0, NEW t \in Nat
  PROVE  /\ t \div p \in Nat
         /\ (t \div p) * p <= t /\ t < ((t \div p) + 1) * p
OBVIOUS

\* Products keep the order, and so do quotients (below).
LEMMA TimesMonotone ==
  ASSUME NEW p \in Nat, NEW a \in Int, NEW b \in Int, a <= b
  PROVE  a * p <= b * p /\ a * p \in Int /\ b * p \in Int
<1>1. (b - a) * p \in Nat
  <2>1. b - a \in Nat
    OBVIOUS
  <2> DEFINE c == b - a
  <2> HIDE DEF c
  <2>2. c \in Nat => c * p \in Nat
    OBVIOUS
  <2> QED BY <2>1, <2>2 DEF c
<1>2. b * p = a * p + (b - a) * p
  OBVIOUS
<1>3. a * p \in Int /\ b * p \in Int
  OBVIOUS
<1> QED BY <1>1, <1>2, <1>3

\* A span that begins at a multiple of its length holds what divides to it.
LEMMA SpanBegins ==
  ASSUME NEW p \in Nat, p > 0, NEW t \in Nat, NEW a \in Int
  PROVE  /\ t \div p \in Nat
         /\ a * p \in Int
         /\ a * p <= t <=> a <= t \div p
<1> DEFINE q == t \div p
<1>1. q \in Nat /\ q * p <= t /\ t < (q + 1) * p
  BY DayStarts
<1> HIDE DEF q
<1>2. ASSUME a <= q PROVE a * p <= t
  <2>1. a * p <= q * p /\ a * p \in Int /\ q * p \in Int
    BY <1>1, <1>2, TimesMonotone
  <2> QED BY <1>1, <2>1
<1>3. ASSUME ~(a <= q) PROVE ~(a * p <= t)
  <2>1. q + 1 <= a
    BY <1>1, <1>3
  <2>2. (q + 1) * p <= a * p /\ a * p \in Int /\ (q + 1) * p \in Int
    BY <1>1, <2>1, TimesMonotone
  <2> QED BY <1>1, <2>2
<1> QED BY <1>1, <1>2, <1>3 DEF q

LEMMA SpanMonotone ==
  ASSUME NEW p \in Nat, p > 0, NEW t \in Nat, NEW u \in Nat, t <= u
  PROVE  t \div p <= u \div p /\ t \div p \in Nat /\ u \div p \in Nat
<1>1. t \div p \in Nat /\ (t \div p) * p <= t
  BY DayStarts
<1> DEFINE q == t \div p
<1> HIDE DEF q
<1>2. q \in Nat /\ q * p \in Int /\ q * p <= u
  BY <1>1 DEF q
<1>3. q <= u \div p /\ u \div p \in Nat
  BY <1>2, SpanBegins
<1> QED BY <1>2, <1>3 DEF q

-----------------------------------------------------------------------------
(* The calendar                                                            *)

Months == Len(MonthLengths)

\* The calendar is of days, weeks and months that are not empty.
LEMMA CalendarType ==
  /\ PerDay \in Nat /\ PerDay > 0 /\ WeekLength \in Nat /\ WeekLength > 0
  /\ Months \in Nat /\ Months > 0
  /\ \A m \in 1..Months : MonthLengths[m] \in Nat /\ MonthLengths[m] > 0
<1>1. MonthLengths \in Seq(Nat \ {0}) /\ MonthLengths # <<>>
  BY CalendarAssumption
<1>2. Months \in Nat /\ Months > 0
  BY <1>1, EmptySeq DEF Months
<1>3. \A m \in 1..Months : MonthLengths[m] \in Nat \ {0}
  BY <1>1, ElementOfSeq DEF Months
<1> QED BY <1>2, <1>3, CalendarAssumption

\* The days before each month are the sums of the lengths up to it.
LEMMA DaysBeforeSteps ==
  /\ DaysBefore[0] = 0
  /\ \A m \in 1..Months : DaysBefore[m] = DaysBefore[m - 1] + MonthLengths[m]
<1> DEFINE step(f, m) == IF m = 0 THEN 0 ELSE f[m - 1] + MonthLengths[m]
           Defined(n) == \E f : f = [m \in 0..n |-> step(f, m)]
<1>1. Defined(0)
  <2> DEFINE f == [m \in 0..0 |-> 0]
  <2>1. f = [m \in 0..0 |-> step(f, m)]
    OBVIOUS
  <2> QED BY <2>1
<1>2. ASSUME NEW n \in Nat, Defined(n) PROVE Defined(n + 1)
  <2>1. PICK f : f = [m \in 0..n |-> step(f, m)]
    BY <1>2
  <2> DEFINE g == [m \in 0..(n + 1) |-> IF m <= n THEN f[m] ELSE f[n] + MonthLengths[n + 1]]
  <2>2. \A m \in 0..n : g[m] = f[m] /\ f[m] = step(f, m)
    BY <2>1
  <2>3. \A m \in 0..(n + 1) : g[m] = step(g, m)
    <3> SUFFICES ASSUME NEW m \in 0..(n + 1) PROVE g[m] = step(g, m)
      OBVIOUS
    <3>1. CASE m = 0
      <4>1. m \in 0..n
        BY <3>1
      <4> HIDE DEF g
      <4> QED BY <2>2, <3>1, <4>1
    <3>2. CASE m \in 1..n
      <4>1. m - 1 \in 0..n /\ m \in 0..n /\ m # 0
        BY <3>2
      <4> HIDE DEF g
      <4> QED BY <2>2, <4>1
    <3>3. CASE m = n + 1
      <4>1. m - 1 = n /\ n \in 0..n /\ m # 0 /\ ~(m <= n)
        BY <3>3
      <4>2. g[m] = f[n] + MonthLengths[m]
        BY <3>3, <4>1
      <4>3. g[m - 1] = f[n]
        BY <2>2, <4>1
      <4> HIDE DEF g
      <4> QED BY <4>1, <4>2, <4>3
    <3> QED BY <3>1, <3>2, <3>3
  <2>4. g = [m \in 0..(n + 1) |-> g[m]]
    OBVIOUS
  <2> HIDE DEF g
  <2>5. g = [m \in 0..(n + 1) |-> step(g, m)]
    BY <2>3, <2>4
  <2> QED BY <2>5
<1> HIDE DEF Defined
<1>3. \A n \in Nat : Defined(n)
  <2> SUFFICES ASSUME {n \in Nat : ~ Defined(n)} # {} PROVE FALSE
    OBVIOUS
  <2>1. PICK m \in {n \in Nat : ~ Defined(n)} : \A x \in {n \in Nat : ~ Defined(n)} : m <= x
    BY LeastNumber
  <2>2. m - 1 \in Nat /\ Defined(m - 1) /\ m - 1 + 1 = m
    BY <1>1, <2>1
  <2>3. Defined(m - 1 + 1)
    BY <1>2, <2>2
  <2> QED BY <2>1, <2>2, <2>3
<1>4. PICK f : f = [m \in 0..Months |-> step(f, m)]
  BY <1>3, CalendarType DEF Defined
<1>5. DaysBefore = [m \in 0..Months |-> step(DaysBefore, m)]
  BY <1>4 DEF DaysBefore, Months
<1> QED BY <1>5, CalendarType

\* They are numbers, and grow from each month to the next.
LEMMA DaysBeforeType == \A m \in 0..Months : DaysBefore[m] \in Nat
<1> DEFINE Wrong == {m \in 0..Months : ~ (DaysBefore[m] \in Nat)}
<1> SUFFICES ASSUME Wrong # {} PROVE FALSE
  OBVIOUS
<1>1. Wrong \subseteq Nat
  BY CalendarType
<1>2. PICK m \in Wrong : \A x \in Wrong : m <= x
  <2> HIDE DEF Wrong
  <2> QED BY <1>1, LeastNumber
<1>3. m # 0 /\ m - 1 \in 0..Months /\ m \in 1..Months
  BY DaysBeforeSteps, CalendarType
<1>4. DaysBefore[m - 1] \in Nat
  BY <1>2, <1>3, CalendarType
<1> QED BY <1>3, <1>4, DaysBeforeSteps, CalendarType

LEMMA DaysBeforeGrows ==
  ASSUME NEW i \in 0..Months, NEW j \in 0..Months, i < j
  PROVE  DaysBefore[i] < DaysBefore[j]
<1> DEFINE Wrong == {m \in 0..Months : i < m /\ ~ (DaysBefore[i] < DaysBefore[m])}
<1> SUFFICES ASSUME Wrong # {} PROVE FALSE
  OBVIOUS
<1>1. Wrong \subseteq Nat
  BY CalendarType
<1>2. PICK m \in Wrong : \A x \in Wrong : m <= x
  <2> HIDE DEF Wrong
  <2> QED BY <1>1, LeastNumber
<1>3. m - 1 \in 0..Months /\ m \in 1..Months /\ (m - 1 = i \/ i < m - 1)
  BY CalendarType
<1>4. DaysBefore[i] \in Nat /\ DaysBefore[m - 1] \in Nat /\ DaysBefore[i] <= DaysBefore[m - 1]
  BY <1>2, <1>3, CalendarType, DaysBeforeType
<1> QED BY <1>3, <1>4, DaysBeforeSteps, CalendarType

\* A year is not empty.
LEMMA YearLengthType == YearLength \in Nat /\ YearLength > 0
<1>1. 0 \in 0..Months /\ Months \in 0..Months /\ 0 < Months
  BY CalendarType
<1>2. DaysBefore[0] < DaysBefore[Months] /\ DaysBefore[Months] \in Nat /\ DaysBefore[0] = 0
  BY <1>1, DaysBeforeGrows, DaysBeforeType, DaysBeforeSteps
<1> QED BY <1>2 DEF YearLength, Months

\* A month begins within its year, and its days are of that year.
LEMMA FirstDayType ==
  ASSUME NEW y \in Int, NEW m \in 1..Months
  PROVE  /\ FirstDay(y, m) = y * YearLength + DaysBefore[m - 1] /\ FirstDay(y, m) \in Int
         /\ FirstDay(y, m) + MonthLengths[m] = y * YearLength + DaysBefore[m]
         /\ y * YearLength \in Int
         /\ DaysBefore[m - 1] \in Nat /\ DaysBefore[m] \in Nat /\ DaysBefore[m] <= YearLength
<1>1. m - 1 \in 0..Months /\ m \in 0..Months /\ Months \in 0..Months /\ (m = Months \/ m < Months)
  BY CalendarType
<1>2. /\ DaysBefore[m - 1] \in Nat /\ DaysBefore[m] \in Nat
      /\ DaysBefore[m] = DaysBefore[m - 1] + MonthLengths[m]
  BY <1>1, DaysBeforeType, DaysBeforeSteps
<1>3. YearLength = DaysBefore[Months] /\ YearLength \in Nat
  BY YearLengthType DEF YearLength, Months
<1>4. DaysBefore[m] <= YearLength
  BY <1>1, <1>2, <1>3, DaysBeforeGrows
<1>5. y * YearLength \in Int
  BY <1>3
<1>6. MonthLengths[m] \in Nat
  BY CalendarType
<1> DEFINE a == y * YearLength
<1> HIDE DEF a
<1>7. FirstDay(y, m) = a + DaysBefore[m - 1]
  BY DEF FirstDay, a
<1> QED BY <1>2, <1>4, <1>5, <1>6, <1>7 DEF a

\* A day lies in one month of its year only.
LEMMA MonthHolds ==
  ASSUME NEW d \in Nat
  PROVE  /\ YearOf(d) \in Nat /\ MonthOf(d) \in 1..Months
         /\ FirstDay(YearOf(d), MonthOf(d)) <= d
         /\ d < FirstDay(YearOf(d), MonthOf(d)) + MonthLengths[MonthOf(d)]
<1> DEFINE y == YearOf(d)
           begin == y * YearLength
<1>1. y \in Nat /\ begin <= d /\ d < (y + 1) * YearLength /\ begin \in Nat
  BY YearLengthType, DayStarts DEF YearOf
<1>2. (y + 1) * YearLength = begin + YearLength
  BY <1>1, YearLengthType
<1> HIDE DEF y, begin
<1> DEFINE ends == {m \in 1..Months : d - begin < DaysBefore[m]}
<1>3. PICK m \in ends : \A x \in ends : m <= x
  <2>1. Months \in ends
    BY <1>1, <1>2, YearLengthType, CalendarType DEF YearLength, Months
  <2>2. ends \subseteq Nat /\ ends # {}
    BY <2>1
  <2> HIDE DEF ends
  <2> QED BY <2>2, LeastNumber
<1>4. m \in 1..Months /\ d - begin < DaysBefore[m]
  OBVIOUS
<1>5. DaysBefore[m - 1] <= d - begin
  <2>1. m - 1 \in 0..Months /\ DaysBefore[m - 1] \in Nat
    BY <1>4, CalendarType, DaysBeforeType
  <2>2. CASE m = 1
    BY <1>1, <2>2, DaysBeforeSteps
  <2>3. CASE m # 1
    <3>1. m - 1 \in 1..Months /\ ~(m <= m - 1)
      BY <1>4, <2>3, CalendarType
    <3> QED BY <1>1, <1>3, <2>1, <3>1
  <2> QED BY <2>2, <2>3
<1>6. /\ FirstDay(y, m) = begin + DaysBefore[m - 1] /\ FirstDay(y, m) \in Int
      /\ FirstDay(y, m) + MonthLengths[m] = begin + DaysBefore[m]
      /\ DaysBefore[m - 1] \in Nat /\ DaysBefore[m] \in Nat /\ MonthLengths[m] \in Nat
  BY <1>1, <1>4, FirstDayType, CalendarType DEF begin
<1>7. FirstDay(y, m) <= d /\ d < FirstDay(y, m) + MonthLengths[m]
  BY <1>1, <1>4, <1>5, <1>6
<1>8. d - FirstDay(y, m) \in 0..(MonthLengths[m] - 1)
  BY <1>6, <1>7
<1> DEFINE c == MonthOf(d)
<1>9. c \in 1..Months /\ d - FirstDay(y, c) \in 0..(MonthLengths[c] - 1)
  BY <1>4, <1>8 DEF MonthOf, Months, y
<1> HIDE DEF c
<1>10. FirstDay(y, c) \in Int /\ MonthLengths[c] \in Nat
  <2>1. y \in Int /\ c \in 1..Months
    BY <1>1, <1>9
  <2>2. FirstDay(y, c) \in Int
    BY <2>1, FirstDayType
  <2> QED BY <2>1, <2>2, CalendarType
<1>11. FirstDay(y, c) <= d /\ d < FirstDay(y, c) + MonthLengths[c]
  BY <1>9, <1>10
<1> QED BY <1>1, <1>9, <1>11 DEF c, y

\* Whatever month a day lies in is the one that MonthOf finds.
LEMMA MonthIsUnique ==
  ASSUME NEW d \in Nat, NEW y \in Int, NEW m \in 1..Months
  PROVE  FirstDay(y, m) <= d /\ d < FirstDay(y, m) + MonthLengths[m]
           <=> y = YearOf(d) /\ m = MonthOf(d)
<1> SUFFICES ASSUME FirstDay(y, m) <= d, d < FirstDay(y, m) + MonthLengths[m]
             PROVE  y = YearOf(d) /\ m = MonthOf(d)
  BY MonthHolds
<1> DEFINE z == YearOf(d)
           c == MonthOf(d)
<1>1. /\ z \in Nat /\ c \in 1..Months
      /\ FirstDay(z, c) <= d /\ d < FirstDay(z, c) + MonthLengths[c]
  BY MonthHolds
<1>2. z = d \div YearLength
  BY DEF YearOf
<1> HIDE DEF z, c
<1>3. /\ y * YearLength + DaysBefore[m - 1] <= d /\ d < y * YearLength + DaysBefore[m]
      /\ DaysBefore[m - 1] \in Nat /\ DaysBefore[m] \in Nat /\ DaysBefore[m] <= YearLength
      /\ y * YearLength \in Int
  BY FirstDayType
<1>4. /\ z * YearLength + DaysBefore[c - 1] <= d /\ d < z * YearLength + DaysBefore[c]
      /\ DaysBefore[c - 1] \in Nat /\ DaysBefore[c] \in Nat
  <2>1. z \in Int /\ c \in 1..Months
    BY <1>1
  <2>2. /\ FirstDay(z, c) = z * YearLength + DaysBefore[c - 1]
        /\ FirstDay(z, c) + MonthLengths[c] = z * YearLength + DaysBefore[c]
        /\ DaysBefore[c - 1] \in Nat /\ DaysBefore[c] \in Nat
    BY <2>1, FirstDayType
  <2> QED BY <1>1, <2>2
<1>5. y = z
  <2> DEFINE a == y * YearLength
             b == (y + 1) * YearLength
  <2>1. b = a + YearLength /\ a \in Int /\ YearLength \in Nat /\ YearLength > 0
    BY YearLengthType
  <2>2. a <= d <=> y <= z
    BY <1>2, YearLengthType, SpanBegins
  <2>3. b <= d <=> y + 1 <= z
    BY <1>2, YearLengthType, SpanBegins
  <2> HIDE DEF a, b
  <2>4. a + DaysBefore[m - 1] <= d /\ d < a + DaysBefore[m]
    BY <1>3 DEF a
  <2>5. a <= d /\ ~(b <= d)
    BY <1>3, <2>1, <2>4
  <2> QED BY <1>1, <2>2, <2>3, <2>5
<1>6. m = c
  <2> DEFINE a == z * YearLength
  <2>1. a \in Int
    BY <1>1, YearLengthType
  <2>2. /\ a + DaysBefore[m - 1] <= d /\ d < a + DaysBefore[m]
        /\ a + DaysBefore[c - 1] <= d /\ d < a + DaysBefore[c]
    BY <1>3, <1>4, <1>5
  <2> HIDE DEF a
  <2>3. DaysBefore[m - 1] < DaysBefore[c] /\ DaysBefore[c - 1] < DaysBefore[m]
    BY <1>3, <1>4, <2>1, <2>2
  <2>4. ASSUME m < c PROVE FALSE
    <3>1. m \in 0..Months /\ c - 1 \in 0..Months /\ (m = c - 1 \/ m < c - 1)
      BY <1>1, <2>4, CalendarType
    <3>2. DaysBefore[m] <= DaysBefore[c - 1]
      BY <1>3, <1>4, <3>1, DaysBeforeGrows
    <3> QED BY <1>3, <1>4, <2>3, <3>2
  <2>5. ASSUME c < m PROVE FALSE
    <3>1. c \in 0..Months /\ m - 1 \in 0..Months /\ (c = m - 1 \/ c < m - 1)
      BY <1>1, <2>5, CalendarType
    <3>2. DaysBefore[c] <= DaysBefore[m - 1]
      BY <1>3, <1>4, <3>1, DaysBeforeGrows
    <3> QED BY <1>3, <1>4, <2>3, <3>2
  <2> QED BY <1>1, <2>4, <2>5
<1> QED BY <1>5, <1>6 DEF z, c

-----------------------------------------------------------------------------
(* The partitions                                                          *)

\* No more is asked of the settings than their schemas do.
LEMMA ConfigType ==
  ASSUME config \in Configs
  PROVE  /\ config.days \in Nat /\ config.weeks \in Nat /\ config.months \in Nat
         /\ config.years \in Nat /\ config.count \in Nat /\ config.dayOfWeek \in Nat
         /\ Days \in Nat /\ Days >= 1
<1>1. /\ {config.days, config.weeks, config.months, config.years, config.count} \subseteq Nat
      /\ config.dayOfWeek \in 0..(WeekLength - 1)
  BY ConfigsAssumption
<1>2. config.days \in Nat /\ config.dayOfWeek \in Nat
  BY <1>1, CalendarType
<1>3. Days \in Nat /\ Days >= 1
  BY <1>2 DEF Days
<1> QED BY <1>1, <1>2, <1>3

\* What is of the partition p among the moments S.
Within(S, p) == {t \in S : p.start <= DayOf(t) /\ DayOf(t) < p.end}

\* A week that ends with that of the last backup, or before it.
LEMMA WeekIs ==
  ASSUME config \in Configs, NEW last \in Nat, NEW x \in Int, NEW d \in Nat
  PROVE  /\ WeekPartition(last, x).start \in Int /\ WeekPartition(last, x).end \in Int
         /\ (WeekPartition(last, x).deleteOnly <=> x >= config.weeks)
         /\ WeekPartition(last, x).start <= d /\ d < WeekPartition(last, x).end
              <=> /\ d \div WeekLength = last \div WeekLength - x
                  /\ Weekday(d) >= config.dayOfWeek
<1> DEFINE w == last \div WeekLength - x
           monday == last - Weekday(last) - WeekLength * x
           dow == config.dayOfWeek
           p == WeekPartition(last, x)
           u == d \div WeekLength
<1>1. dow \in Nat /\ WeekLength \in Nat /\ WeekLength > 0
  BY ConfigType, CalendarType
<1>2. /\ last \div WeekLength \in Nat /\ Weekday(last) \in Nat
      /\ last = (last \div WeekLength) * WeekLength + Weekday(last)
  BY <1>1 DEF Weekday
<1>3. u \in Nat /\ Weekday(d) \in Nat /\ Weekday(d) < WeekLength
      /\ d = u * WeekLength + Weekday(d)
  BY <1>1 DEF Weekday
<1>4. w \in Int
  BY <1>2
<1>5. monday = w * WeekLength
  <2> DEFINE q == last \div WeekLength
             r == Weekday(last)
  <2>1. last = q * WeekLength + r /\ q \in Nat /\ r \in Nat
    BY <1>2
  <2> HIDE DEF q, r
  <2>2. last - r = q * WeekLength
    BY <1>1, <2>1
  <2>3. q * WeekLength - WeekLength * x = (q - x) * WeekLength
    BY <1>1, <2>1
  <2> QED BY <2>2, <2>3 DEF q, r
<1>6. p.start = monday + dow /\ p.end = monday + WeekLength
      /\ (p.deleteOnly <=> x >= config.weeks)
  BY DEF WeekPartition, Partition
<1> HIDE DEF w, monday, dow, p, u
<1>7. monday \in Int
  BY <1>1, <1>4, <1>5
<1>8. monday <= d <=> w <= u
  BY <1>1, <1>4, <1>5, SpanBegins DEF u
<1>9. monday + WeekLength <= d <=> w + 1 <= u
  <2>1. (w + 1) * WeekLength = monday + WeekLength
    BY <1>1, <1>4, <1>5
  <2>2. (w + 1) * WeekLength <= d <=> w + 1 <= u
    BY <1>1, <1>4, SpanBegins DEF u
  <2> QED BY <2>1, <2>2
<1>10. u = w => d = monday + Weekday(d)
  BY <1>3, <1>5
<1>11. p.start <= d /\ d < p.end <=> u = w /\ Weekday(d) >= dow
  BY <1>1, <1>3, <1>4, <1>6, <1>7, <1>8, <1>9, <1>10
<1>12. p.start \in Int /\ p.end \in Int
  BY <1>1, <1>6, <1>7
<1> QED BY <1>6, <1>11, <1>12 DEF p, u, w, dow

\* The number of a month.
MonthIndex(d) == YearOf(d) * Months + MonthOf(d)

\* Two months of one number are the same.
LEMMA IndexIsUnique ==
  ASSUME NEW y \in Int, NEW m \in 1..Months, NEW z \in Int, NEW c \in 1..Months,
         y * Months + m = z * Months + c
  PROVE  y = z /\ m = c
<1>1. Months \in Nat /\ Months > 0
  BY CalendarType
<1>2. ASSUME NEW i \in Int, NEW j \in Int, NEW a \in 1..Months, NEW b \in 1..Months, i < j
      PROVE  i * Months + a # j * Months + b
  <2>1. (i + 1) * Months <= j * Months /\ (i + 1) * Months \in Int /\ j * Months \in Int
    BY <1>1, <1>2, TimesMonotone
  <2>2. (i + 1) * Months = i * Months + Months /\ i * Months \in Int
    BY <1>1
  <2> QED BY <1>1, <2>1, <2>2
<1>3. y = z
  BY <1>2
<1>4. y * Months \in Int
  BY <1>1
<1> QED BY <1>1, <1>3, <1>4

\* Months are counted back over the turn of the year.
LEMMA MonthIs ==
  ASSUME NEW last \in Nat, NEW x \in Nat, NEW d \in Nat
  PROVE  /\ MonthPartition(last, x).start \in Int /\ MonthPartition(last, x).end \in Int
         /\ (MonthPartition(last, x).deleteOnly <=> x >= config.months)
         /\ MonthPartition(last, x).start <= d /\ d < MonthPartition(last, x).end
              <=> MonthIndex(d) = MonthIndex(last) - x
<1> DEFINE n == Months
           back == x % n
           wraps == IF MonthOf(last) - back < 1 THEN 1 ELSE 0
           month == MonthOf(last) - back + wraps * n
           year == YearOf(last) - x \div n - wraps
           start == FirstDay(year, month)
           p == MonthPartition(last, x)
<1>1. n \in Nat /\ n > 0
  BY CalendarType
<1>2. YearOf(last) \in Nat /\ MonthOf(last) \in 1..n
  BY MonthHolds
<1>3. back \in 0..(n - 1) /\ x \div n \in Nat /\ x = (x \div n) * n + back
  BY <1>1
<1>4. wraps \in {0, 1} /\ month \in 1..n
  BY <1>1, <1>2, <1>3
<1>5. year \in Int
  BY <1>2, <1>3, <1>4
<1>6. year * n + month = YearOf(last) * n + MonthOf(last) - x
  <2> DEFINE y == YearOf(last)
             m == MonthOf(last)
             q == x \div n
  <2>1. y \in Nat /\ m \in Nat /\ q \in Nat /\ back \in Nat /\ wraps \in {0, 1}
        /\ x = q * n + back /\ month = m - back + wraps * n /\ year = y - q - wraps
    BY <1>1, <1>2, <1>3, <1>4
  <2> HIDE DEF y, m, q, back, wraps, month, year, n
  <2>2. year * n = y * n - q * n - wraps * n
    BY <1>1, <2>1
  <2>3. y * n \in Int /\ q * n \in Int /\ wraps * n \in Int
    BY <1>1, <2>1
  <2>4. year * n + month = y * n + m - x
    <3> DEFINE yn == y * n
               qn == q * n
               wn == wraps * n
    <3>1. year * n = yn - qn - wn /\ x = qn + back /\ month = m - back + wn
          /\ yn \in Int /\ qn \in Int /\ wn \in Int
      BY <2>1, <2>2, <2>3
    <3> HIDE DEF yn, qn, wn
    <3>2. year * n + month = yn + m - x
      BY <2>1, <3>1
    <3> QED BY <3>2 DEF yn
  <2> QED BY <2>4 DEF y, m
<1>7. p.start = start /\ p.end = start + MonthLengths[month]
      /\ (p.deleteOnly <=> x >= config.months)
  BY DEF MonthPartition, Partition, Months
<1> HIDE DEF p, start, year, month, wraps, back
<1>8. start \in Int /\ start + MonthLengths[month] \in Int
  <2>1. start \in Int
    BY <1>4, <1>5, FirstDayType DEF start
  <2>2. MonthLengths[month] \in Nat
    BY <1>4, CalendarType
  <2> QED BY <2>1, <2>2
<1>9. start <= d /\ d < start + MonthLengths[month]
        <=> year = YearOf(d) /\ month = MonthOf(d)
  BY <1>4, <1>5, MonthIsUnique DEF start
<1>10. YearOf(d) \in Nat /\ MonthOf(d) \in 1..n
  BY MonthHolds
<1>11. year = YearOf(d) /\ month = MonthOf(d)
         <=> YearOf(d) * n + MonthOf(d) = year * n + month
  BY <1>4, <1>5, <1>10, IndexIsUnique
<1>12. MonthIndex(d) = MonthIndex(last) - x <=> YearOf(d) * n + MonthOf(d) = year * n + month
  <2>1. MonthIndex(d) = YearOf(d) * n + MonthOf(d)
    BY DEF MonthIndex
  <2>2. MonthIndex(last) = YearOf(last) * n + MonthOf(last)
    BY DEF MonthIndex
  <2> DEFINE i == year * n + month
  <2>3. i = MonthIndex(last) - x
    BY <1>1, <1>2, <1>4, <1>5, <1>6, <2>2
  <2> HIDE DEF i
  <2>4. MonthIndex(d) = MonthIndex(last) - x <=> YearOf(d) * n + MonthOf(d) = i
    BY <1>1, <1>10, <2>1, <2>3
  <2> QED BY <2>4 DEF i
<1>13. start <= d /\ d < start + MonthLengths[month] <=> MonthIndex(d) = MonthIndex(last) - x
  BY <1>9, <1>11, <1>12
<1>14. /\ p.start \in Int /\ p.end \in Int /\ (p.deleteOnly <=> x >= config.months)
       /\ p.start <= d /\ d < p.end <=> MonthIndex(d) = MonthIndex(last) - x
  BY <1>7, <1>8, <1>13
<1> QED BY <1>14 DEF p

\* A year that is counted back holds the days of that year.
LEMMA YearIs ==
  ASSUME NEW last \in Nat, NEW x \in Nat, NEW d \in Nat
  PROVE  /\ YearPartition(last, x).start \in Int /\ YearPartition(last, x).end \in Int
         /\ (YearPartition(last, x).deleteOnly <=> x >= config.years)
         /\ YearPartition(last, x).start <= d /\ d < YearPartition(last, x).end
              <=> YearOf(d) = YearOf(last) - x
<1> DEFINE y == YearOf(last) - x
           p == YearPartition(last, x)
           start == y * YearLength
           u == YearOf(d)
<1>1. YearOf(last) \in Nat /\ u \in Nat
  BY MonthHolds
<1>2. y \in Int /\ 1 \in 1..Months
  BY <1>1, CalendarType
<1>3. FirstDay(y, 1) = start /\ start \in Int /\ YearLength \in Nat
  <2>1. FirstDay(y, 1) = y * YearLength + DaysBefore[1 - 1] /\ start \in Int
    BY <1>2, FirstDayType
  <2> HIDE DEF y
  <2> QED BY <2>1, DaysBeforeSteps, YearLengthType
<1>4. p.start = FirstDay(y, 1) /\ p.end = FirstDay(y, 1) + YearLength
      /\ (p.deleteOnly <=> x >= config.years)
  BY DEF YearPartition, Partition
<1>5. start <= d <=> y <= u
  BY <1>2, YearLengthType, SpanBegins DEF YearOf
<1>6. start + YearLength <= d <=> y + 1 <= u
  <2>1. (y + 1) * YearLength = start + YearLength
    BY <1>2, YearLengthType
  <2>2. (y + 1) * YearLength <= d <=> y + 1 <= u
    BY <1>2, YearLengthType, SpanBegins DEF YearOf
  <2> QED BY <2>1, <2>2
<1> HIDE DEF y, p, start, u
<1>7. p.start \in Int /\ p.end \in Int /\ (p.start <= d /\ d < p.end <=> u = y)
  BY <1>1, <1>2, <1>3, <1>4, <1>5, <1>6
<1> QED BY <1>4, <1>7 DEF p, y, u

\* And so a day.
LEMMA DayIs ==
  ASSUME NEW last \in Nat, NEW x \in Nat, NEW d \in Nat
  PROVE  /\ DayPartition(last, x).start \in Int /\ DayPartition(last, x).end \in Int
         /\ (DayPartition(last, x).deleteOnly <=> x >= Days)
         /\ DayPartition(last, x).prefer = last - x
         /\ DayPartition(last, x).start <= d /\ d < DayPartition(last, x).end <=> d = last - x
<1>1. /\ DayPartition(last, x).start = last - x /\ DayPartition(last, x).end = last - x + 1
      /\ (DayPartition(last, x).deleteOnly <=> x >= Days) /\ DayPartition(last, x).prefer = last - x
  BY DEF DayPartition, Partition
<1> QED BY <1>1

-----------------------------------------------------------------------------
(* What is kept                                                            *)

\* A partition looks at the backups of its days.
LEMMA OptionsAreWithin ==
  ASSUME NEW n \in Nat, NEW S, S \subseteq 0..n, S # {},
         NEW p, p.start \in Int, p.end \in Int
  PROVE  Matches(Sorted(S), p.start * PerDay, p.end * PerDay - 1) = Within(S, p)
<1> DEFINE a == p.start
           b == p.end
           from == a * PerDay
           to == b * PerDay - 1
<1>1. IsFiniteSet(S) /\ S \subseteq Int
  <2>1. IsFiniteSet(0..n)
    BY FS_Interval
  <2>2. IsFiniteSet(S)
    BY <2>1, FS_Subset
  <2> QED BY <2>2
<1>2. from \in Int /\ to \in Int /\ b * PerDay \in Int
  BY CalendarType
<1>3. Matches(Sorted(S), from, to) = Between(S, from, to)
  <2> HIDE DEF from, to
  <2> QED BY <1>1, <1>2, LookupIsSearch
<1>4. \A t \in S : from <= t /\ t <= to <=> a <= DayOf(t) /\ DayOf(t) < b
  <2> SUFFICES ASSUME NEW t \in S
               PROVE  from <= t /\ t <= to <=> a <= DayOf(t) /\ DayOf(t) < b
    OBVIOUS
  <2>1. t \in Nat /\ PerDay \in Nat /\ PerDay > 0 /\ a \in Int /\ b \in Int
    BY CalendarType
  <2> HIDE DEF a, b
  <2>2. DayOf(t) \in Nat /\ (from <= t <=> a <= DayOf(t)) /\ (b * PerDay <= t <=> b <= DayOf(t))
    BY <2>1, SpanBegins DEF DayOf
  <2> DEFINE c == b * PerDay
  <2>3. c \in Int /\ to = c - 1
    BY <1>2
  <2> HIDE DEF c, from, to
  <2>4. t <= to <=> ~(c <= t)
    BY <2>1, <2>3
  <2>5. c <= t <=> b <= DayOf(t)
    BY <2>2 DEF c
  <2> QED BY <2>1, <2>2, <2>4, <2>5
<1> HIDE DEF from, to
<1>5. Between(S, from, to) = Within(S, p)
  BY <1>4 DEF Within, Between
<1> QED BY <1>3, <1>5 DEF from, to

\* It selects one of them if there are any, and the newest of all when that is of
\* the day it prefers.
LEMMA Selected ==
  ASSUME NEW n \in Nat, NEW S, S \subseteq 0..n, S # {},
         NEW p, p.start \in Int, p.end \in Int
  PROVE  /\ Select(Sorted(S), p) \subseteq Within(S, p)
         /\ Within(S, p) # {} => Select(Sorted(S), p) # {}
         /\ \A t, u \in Select(Sorted(S), p) : t = u
         /\ Max(S) \in Within(S, p) /\ DayOf(Max(S)) = p.prefer => Max(S) \in Select(Sorted(S), p)
<1> DEFINE options == Within(S, p)
           preferred == {t \in options : DayOf(t) = p.prefer}
           chosen == Select(Sorted(S), p)
<1>1. chosen = IF preferred # {} THEN {Max(preferred)}
               ELSE IF options # {} THEN {Min(options)} ELSE {}
  <2>1. Matches(Sorted(S), p.start * PerDay, p.end * PerDay - 1) = Within(S, p)
    BY OptionsAreWithin
  <2> QED BY <2>1 DEF Select
<1>2. options \subseteq S /\ preferred \subseteq options
  BY DEF Within
<1> HIDE DEF options, chosen
<1>3. CASE preferred # {}
  <2>1. preferred \subseteq 0..n
    BY <1>2
  <2>2. Max(preferred) \in preferred /\ \A x \in preferred : x <= Max(preferred)
    <3> HIDE DEF preferred
    <3> QED BY <1>3, <2>1, FirstAndLast
  <2>3. ASSUME Max(S) \in options, DayOf(Max(S)) = p.prefer PROVE Max(S) \in chosen
    <3>1. Max(S) \in preferred
      BY <2>3
    <3>2. Max(S) \in S /\ \A x \in S : x <= Max(S)
      BY FirstAndLast
    <3> DEFINE a == Max(S)
               b == Max(preferred)
    <3>3. a <= b /\ b \in S
      BY <1>2, <2>2, <3>1
    <3>5. b <= a /\ a \in S
      BY <3>2, <3>3
    <3> HIDE DEF a, b, preferred
    <3>6. a \in Int /\ b \in Int
      BY <3>3, <3>5
    <3>4. a = b
      BY <3>3, <3>5, <3>6
    <3> QED BY <1>1, <1>3, <3>4 DEF a, b
  <2>4. chosen = {Max(preferred)} /\ Max(preferred) \in options
    BY <1>1, <1>2, <1>3, <2>2
  <2> QED BY <2>3, <2>4 DEF chosen, options
<1>4. CASE preferred = {} /\ options # {}
  <2>1. options \subseteq 0..n
    BY <1>2
  <2>2. Min(options) \in options
    BY <1>4, <2>1, FirstAndLast
  <2>3. chosen = {Min(options)}
    BY <1>1, <1>4
  <2>4. Max(S) \in options => DayOf(Max(S)) # p.prefer
    BY <1>4
  <2> QED BY <2>2, <2>3, <2>4 DEF chosen, options
<1>5. CASE options = {}
  BY <1>1, <1>2, <1>5 DEF chosen, options
<1> QED BY <1>3, <1>4, <1>5

\* Every partition has a first day and an end.
LEMMA PartitionType ==
  ASSUME config \in Configs, NEW last \in Nat, NEW p \in Partitions(last)
  PROVE  p.start \in Int /\ p.end \in Int
<1>1. config.weeks \in Nat /\ config.months \in Nat /\ config.years \in Nat /\ Days \in Nat
  BY ConfigType
<1>2. ASSUME NEW n \in Nat, NEW x \in OneMoreThan(n) PROVE x \in Nat /\ x <= n
  BY DEF OneMoreThan
<1>3. CASE \E x \in OneMoreThan(Days) : p = DayPartition(last, x)
  BY <1>1, <1>2, <1>3, DayIs
<1>4. CASE \E x \in OneMoreThan(config.weeks) : p = WeekPartition(last, x)
  <2>1. PICK x \in OneMoreThan(config.weeks) : p = WeekPartition(last, x)
    BY <1>4
  <2>2. x \in Int
    BY <1>1, <1>2
  <2> QED BY <2>1, <2>2, WeekIs
<1>5. CASE \E x \in OneMoreThan(config.months) : p = MonthPartition(last, x)
  BY <1>1, <1>2, <1>5, MonthIs
<1>6. CASE \E x \in OneMoreThan(config.years) : p = YearPartition(last, x)
  BY <1>1, <1>2, <1>6, YearIs
<1> QED BY <1>3, <1>4, <1>5, <1>6 DEF Partitions

\* What is kept is of the backups, and selected by a partition that keeps.
LEMMA KeepersAre ==
  ASSUME config \in Configs, NEW n \in Nat, NEW S, S \subseteq 0..n, S # {}
  PROVE  /\ DayOf(Max(S)) \in Nat
         /\ Keepers(S) = UNION {Select(Sorted(S), p) :
                                  p \in {q \in Partitions(DayOf(Max(S))) : ~q.deleteOnly}}
         /\ Keepers(S) \subseteq S
<1>1. Max(S) \in Nat
  <2>1. Max(S) \in S
    BY FirstAndLast
  <2>2. \A t \in S : t \in Nat
    OBVIOUS
  <2> QED BY <2>1, <2>2
<1>2. DayOf(Max(S)) \in Nat
  BY <1>1, CalendarType, DayStarts DEF DayOf
<1>3. Keepers(S) = UNION {Select(Sorted(S), p) :
                            p \in {q \in Partitions(DayOf(Max(S))) : ~q.deleteOnly}}
  BY LastIsNewest DEF Keepers
<1>4. ASSUME NEW p \in Partitions(DayOf(Max(S))) PROVE Select(Sorted(S), p) \subseteq S
  <2>1. p.start \in Int /\ p.end \in Int
    BY <1>2, PartitionType
  <2>2. Select(Sorted(S), p) \subseteq Within(S, p)
    BY <2>1, Selected
  <2> QED BY <2>2 DEF Within
<1> QED BY <1>2, <1>3, <1>4

\* Where a partition that keeps has a backup, one of its backups is kept.
LEMMA SlotKeeps ==
  ASSUME config \in Configs, NEW n \in Nat, NEW S, S \subseteq 0..n, S # {},
         NEW p \in Partitions(DayOf(Max(S))), ~p.deleteOnly, NEW b \in Within(S, p)
  PROVE  \E k \in Keepers(S) : k \in Within(S, p)
<1>1. p.start \in Int /\ p.end \in Int
  BY KeepersAre, PartitionType
<1>2. Select(Sorted(S), p) \subseteq Within(S, p) /\ Select(Sorted(S), p) # {}
  BY <1>1, Selected
<1>3. PICK k \in Select(Sorted(S), p) : k \in Within(S, p)
  BY <1>2
<1>4. k \in Keepers(S)
  <2>1. Keepers(S) = UNION {Select(Sorted(S), q) :
                              q \in {r \in Partitions(DayOf(Max(S))) : ~r.deleteOnly}}
    BY KeepersAre
  <2> QED BY <1>3, <2>1
<1> QED BY <1>3, <1>4

\* The newest is kept: it is of the last day, and that day is always kept.
LEMMA NewestIsKept ==
  ASSUME config \in Configs, NEW n \in Nat, NEW S, S \subseteq 0..n, S # {}
  PROVE  Max(S) \in Keepers(S)
<1> DEFINE last == DayOf(Max(S))
           p == DayPartition(last, 0)
<1>1. last \in Nat
  BY KeepersAre
<1>2. Days \in Nat /\ Days >= 1
  BY ConfigType
<1> HIDE DEF last
<1>3. /\ p.start \in Int /\ p.end \in Int /\ (p.deleteOnly <=> 0 >= Days) /\ p.prefer = last - 0
      /\ p.start <= last /\ last < p.end
  BY <1>1, DayIs
<1>4. ~p.deleteOnly
  BY <1>2, <1>3
<1>5. p.prefer = last
  <2> HIDE DEF p
  <2> QED BY <1>1, <1>3
<1>6. p \in Partitions(last)
  <2>1. 0 \in OneMoreThan(Days)
    BY <1>2 DEF OneMoreThan
  <2> QED BY <2>1 DEF Partitions
<1>7. Max(S) \in Within(S, p)
  BY <1>3, FirstAndLast DEF Within, last
<1> HIDE DEF p
<1>8. Max(S) \in Select(Sorted(S), p)
  BY <1>3, <1>5, <1>7, Selected DEF last
<1>9. Keepers(S) = UNION {Select(Sorted(S), q) : q \in {r \in Partitions(last) : ~r.deleteOnly}}
  BY KeepersAre DEF last
<1> QED BY <1>4, <1>6, <1>8, <1>9

-----------------------------------------------------------------------------
(* No more is kept than there are slots                                    *)

\* What is chosen from n choices of one at most is n at most.
LEMMA OneOfEach ==
  ASSUME NEW n \in Nat, NEW f, NEW K,
         \A x \in 0..(n - 1) : \A t, u \in f[x] : t = u,
         \A k \in K : \E x \in 0..(n - 1) : k \in f[x]
  PROVE  IsFiniteSet(K) /\ Cardinality(K) \in Nat /\ Cardinality(K) <= n
<1> DEFINE g == [k \in K |-> CHOOSE x \in 0..(n - 1) : k \in f[x]]
<1>1. \A k \in K : g[k] \in 0..(n - 1) /\ k \in f[g[k]]
  OBVIOUS
<1>2. g \in [K -> 0..(n - 1)]
  BY <1>1
<1> HIDE DEF g
<1>3. \A k, l \in K : g[k] = g[l] => k = l
  BY <1>1
<1>4. g \in Injection(K, 0..(n - 1))
  BY <1>2, <1>3, Fun_IsInj
<1>5. IsFiniteSet(0..(n - 1)) /\ Cardinality(0..(n - 1)) = n
  <2>1. 0 \in Int /\ n - 1 \in Int
    OBVIOUS
  <2>2. IsFiniteSet(0..(n - 1)) /\ Cardinality(0..(n - 1)) = IF 0 > n - 1 THEN 0 ELSE n - 1 - 0 + 1
    BY <2>1, FS_Interval
  <2> QED BY <2>2
<1>6. IsFiniteSet(K) /\ Cardinality(K) <= n
  BY <1>4, <1>5, FS_Injection
<1> QED BY <1>6, FS_CardinalityType

\* The sizes of four sets bound that of their union.
LEMMA FourParts ==
  ASSUME NEW A, NEW B, NEW C, NEW D, NEW a \in Nat, NEW b \in Nat, NEW c \in Nat, NEW d \in Nat,
         IsFiniteSet(A), Cardinality(A) \in Nat, Cardinality(A) <= a,
         IsFiniteSet(B), Cardinality(B) \in Nat, Cardinality(B) <= b,
         IsFiniteSet(C), Cardinality(C) \in Nat, Cardinality(C) <= c,
         IsFiniteSet(D), Cardinality(D) \in Nat, Cardinality(D) <= d
  PROVE  Cardinality(A \union B \union C \union D) <= a + b + c + d
<1>0. ASSUME NEW S, IsFiniteSet(S), NEW T, IsFiniteSet(T)
      PROVE  /\ IsFiniteSet(S \union T) /\ Cardinality(S \union T) \in Nat
             /\ Cardinality(S \union T) <= Cardinality(S) + Cardinality(T)
  <2>1. IsFiniteSet(S \union T)
        /\ Cardinality(S \union T) = Cardinality(S) + Cardinality(T) - Cardinality(S \cap T)
    BY <1>0, FS_Union
  <2>2. IsFiniteSet(S \cap T)
    BY <1>0, FS_Intersection
  <2>3. Cardinality(S \cap T) \in Nat /\ Cardinality(S) \in Nat /\ Cardinality(T) \in Nat
        /\ Cardinality(S \union T) \in Nat
    BY <1>0, <2>1, <2>2, FS_CardinalityType
  <2> QED BY <2>1, <2>3
<1> DEFINE AB == A \union B
           ABC == AB \union C
<1>1. IsFiniteSet(AB) /\ Cardinality(AB) \in Nat /\ Cardinality(AB) <= Cardinality(A) + Cardinality(B)
  BY <1>0
<1> HIDE DEF AB
<1>2. IsFiniteSet(ABC) /\ Cardinality(ABC) \in Nat
      /\ Cardinality(ABC) <= Cardinality(AB) + Cardinality(C)
  BY <1>0, <1>1
<1> HIDE DEF ABC
<1>3. Cardinality(ABC \union D) \in Nat
      /\ Cardinality(ABC \union D) <= Cardinality(ABC) + Cardinality(D)
  BY <1>0, <1>2
<1>4. Cardinality(ABC \union D) <= a + b + c + d
  BY <1>1, <1>2, <1>3
<1> QED BY <1>4 DEF AB, ABC

\* There is a keeper for each slot at most.
LEMMA KeepersFit ==
  ASSUME config \in Configs, NEW n \in Nat, NEW S, S \subseteq 0..n, S # {}
  PROVE  /\ IsFiniteSet(Keepers(S)) /\ Cardinality(Keepers(S)) \in Nat
         /\ Cardinality(Keepers(S)) <= Slots
<1> DEFINE last == DayOf(Max(S))
           s == Sorted(S)
           dayOf == [x \in 0..(Days - 1) |-> Select(s, DayPartition(last, x))]
           weekOf == [x \in 0..(config.weeks - 1) |-> Select(s, WeekPartition(last, x))]
           monthOf == [x \in 0..(config.months - 1) |-> Select(s, MonthPartition(last, x))]
           yearOf == [x \in 0..(config.years - 1) |-> Select(s, YearPartition(last, x))]
           A == UNION {dayOf[x] : x \in 0..(Days - 1)}
           B == UNION {weekOf[x] : x \in 0..(config.weeks - 1)}
           C == UNION {monthOf[x] : x \in 0..(config.months - 1)}
           D == UNION {yearOf[x] : x \in 0..(config.years - 1)}
<1>1. last \in Nat /\ Keepers(S) = UNION {Select(s, p) : p \in {q \in Partitions(last) : ~q.deleteOnly}}
  BY KeepersAre
<1>2. config.weeks \in Nat /\ config.months \in Nat /\ config.years \in Nat /\ Days \in Nat
  BY ConfigType
<1>3. ASSUME NEW p, p.start \in Int, p.end \in Int
      PROVE  \A t, u \in Select(s, p) : t = u
  BY <1>3, Selected
<1> HIDE DEF last, s
<1>4. \A x \in 0..(Days - 1) : \A t, u \in dayOf[x] : t = u
  <2> SUFFICES ASSUME NEW x \in 0..(Days - 1) PROVE \A t, u \in Select(s, DayPartition(last, x)) : t = u
    OBVIOUS
  <2>1. x \in Nat
    BY <1>2
  <2>2. DayPartition(last, x).start \in Int /\ DayPartition(last, x).end \in Int
    BY <1>1, <2>1, DayIs
  <2> QED BY <1>3, <2>2
<1>5. \A x \in 0..(config.weeks - 1) : \A t, u \in weekOf[x] : t = u
  <2> SUFFICES ASSUME NEW x \in 0..(config.weeks - 1)
               PROVE  \A t, u \in Select(s, WeekPartition(last, x)) : t = u
    OBVIOUS
  <2>1. x \in Int
    BY <1>2
  <2>2. WeekPartition(last, x).start \in Int /\ WeekPartition(last, x).end \in Int
    BY <1>1, <2>1, WeekIs
  <2> QED BY <1>3, <2>2
<1>6. \A x \in 0..(config.months - 1) : \A t, u \in monthOf[x] : t = u
  <2> SUFFICES ASSUME NEW x \in 0..(config.months - 1)
               PROVE  \A t, u \in Select(s, MonthPartition(last, x)) : t = u
    OBVIOUS
  <2>1. x \in Nat
    BY <1>2
  <2>2. MonthPartition(last, x).start \in Int /\ MonthPartition(last, x).end \in Int
    BY <1>1, <2>1, MonthIs
  <2> QED BY <1>3, <2>2
<1>7. \A x \in 0..(config.years - 1) : \A t, u \in yearOf[x] : t = u
  <2> SUFFICES ASSUME NEW x \in 0..(config.years - 1)
               PROVE  \A t, u \in Select(s, YearPartition(last, x)) : t = u
    OBVIOUS
  <2>1. x \in Nat
    BY <1>2
  <2>2. YearPartition(last, x).start \in Int /\ YearPartition(last, x).end \in Int
    BY <1>1, <2>1, YearIs
  <2> QED BY <1>3, <2>2
<1>8. Keepers(S) \subseteq A \union B \union C \union D
  <2> SUFFICES ASSUME NEW p \in Partitions(last), ~p.deleteOnly, NEW t \in Select(s, p)
               PROVE  t \in A \/ t \in B \/ t \in C \/ t \in D
    BY <1>1
  <2>0. ASSUME NEW m \in Nat, NEW x \in OneMoreThan(m) PROVE x \in Nat
    BY DEF OneMoreThan
  <2>1. CASE \E x \in OneMoreThan(Days) : p = DayPartition(last, x)
    <3>1. PICK x \in OneMoreThan(Days) : p = DayPartition(last, x)
      BY <2>1
    <3>2. x \in Nat /\ ~(x >= Days)
      BY <1>1, <1>2, <2>0, <3>1, DayIs
    <3>3. x \in 0..(Days - 1)
      BY <1>2, <3>2
    <3> QED BY <3>1, <3>3
  <2>2. CASE \E x \in OneMoreThan(config.weeks) : p = WeekPartition(last, x)
    <3>1. PICK x \in OneMoreThan(config.weeks) : p = WeekPartition(last, x)
      BY <2>2
    <3>2. x \in Nat
      BY <1>2, <2>0
    <3>3. ~(x >= config.weeks)
      BY <1>1, <3>1, <3>2, WeekIs
    <3>4. x \in 0..(config.weeks - 1)
      BY <1>2, <3>2, <3>3
    <3> QED BY <3>1, <3>4
  <2>3. CASE \E x \in OneMoreThan(config.months) : p = MonthPartition(last, x)
    <3>1. PICK x \in OneMoreThan(config.months) : p = MonthPartition(last, x)
      BY <2>3
    <3>2. x \in Nat /\ ~(x >= config.months)
      BY <1>1, <1>2, <2>0, <3>1, MonthIs
    <3>3. x \in 0..(config.months - 1)
      BY <1>2, <3>2
    <3> QED BY <3>1, <3>3
  <2>4. CASE \E x \in OneMoreThan(config.years) : p = YearPartition(last, x)
    <3>1. PICK x \in OneMoreThan(config.years) : p = YearPartition(last, x)
      BY <2>4
    <3>2. x \in Nat /\ ~(x >= config.years)
      BY <1>1, <1>2, <2>0, <3>1, YearIs
    <3>3. x \in 0..(config.years - 1)
      BY <1>2, <3>2
    <3> QED BY <3>1, <3>3
  <2> QED BY <2>1, <2>2, <2>3, <2>4 DEF Partitions
<1> HIDE DEF dayOf, weekOf, monthOf, yearOf
<1>9. IsFiniteSet(A) /\ Cardinality(A) \in Nat /\ Cardinality(A) <= Days
  <2>1. \A k \in A : \E x \in 0..(Days - 1) : k \in dayOf[x]
    OBVIOUS
  <2> HIDE DEF A
  <2> QED BY <1>2, <1>4, <2>1, OneOfEach
<1>10. IsFiniteSet(B) /\ Cardinality(B) \in Nat /\ Cardinality(B) <= config.weeks
  <2>1. \A k \in B : \E x \in 0..(config.weeks - 1) : k \in weekOf[x]
    OBVIOUS
  <2> HIDE DEF B
  <2> QED BY <1>2, <1>5, <2>1, OneOfEach
<1>11. IsFiniteSet(C) /\ Cardinality(C) \in Nat /\ Cardinality(C) <= config.months
  <2>1. \A k \in C : \E x \in 0..(config.months - 1) : k \in monthOf[x]
    OBVIOUS
  <2> HIDE DEF C
  <2> QED BY <1>2, <1>6, <2>1, OneOfEach
<1>12. IsFiniteSet(D) /\ Cardinality(D) \in Nat /\ Cardinality(D) <= config.years
  <2>1. \A k \in D : \E x \in 0..(config.years - 1) : k \in yearOf[x]
    OBVIOUS
  <2> HIDE DEF D
  <2> QED BY <1>2, <1>7, <2>1, OneOfEach
<1> HIDE DEF A, B, C, D
<1> DEFINE all == A \union B \union C \union D
<1>13. Cardinality(all) <= Days + config.weeks + config.months + config.years
  BY <1>2, <1>9, <1>10, <1>11, <1>12, FourParts
<1>14. IsFiniteSet(all)
  BY <1>9, <1>10, <1>11, <1>12, FS_Union
<1> HIDE DEF all
<1>15. IsFiniteSet(Keepers(S)) /\ Cardinality(Keepers(S)) <= Cardinality(all)
  <2>1. Keepers(S) \in SUBSET all
    BY <1>8 DEF all
  <2> QED BY <1>14, <2>1, FS_Subset
<1>16. Cardinality(Keepers(S)) \in Nat /\ Cardinality(all) \in Nat
  BY <1>14, <1>15, FS_CardinalityType
<1>17. Slots = Days + config.weeks + config.months + config.years
  BY DEF Slots
<1> QED BY <1>2, <1>13, <1>15, <1>16, <1>17

-----------------------------------------------------------------------------
(* What a purge takes                                                      *)

\* Never the newest, if any are to be kept; and, with room for all slots, nothing
\* that a slot keeps.
LEMMA PurgeTakes ==
  ASSUME config \in Configs, NEW n \in Nat, NEW S, S \subseteq 0..n, S # {}
  PROVE  /\ config.count > 0 => Max(S) \notin Oldest(S)
         /\ config.count >= Slots => Oldest(S) \cap Keepers(S) = {}
<1> DEFINE keepers == Keepers(S)
           extras == S \ keepers
           newest == Max(S)
           size == Cardinality(S)
           over == size > config.count
<1>1. IsFiniteSet(S) /\ size \in Nat
  <2>1. IsFiniteSet(0..n)
    BY FS_Interval
  <2>2. IsFiniteSet(S)
    BY <2>1, FS_Subset
  <2> QED BY <2>2, FS_CardinalityType
<1>2. newest \in keepers /\ keepers \subseteq S /\ Cardinality(keepers) \in Nat
      /\ Cardinality(keepers) <= Slots
  BY NewestIsKept, KeepersAre, KeepersFit
<1>3. config.count \in Nat /\ Slots \in Nat
  <2>1. /\ config.weeks \in Nat /\ config.months \in Nat /\ config.years \in Nat
        /\ Days \in Nat /\ config.count \in Nat
    BY ConfigType
  <2> QED BY <2>1 DEF Slots
<1>4. Oldest(S) = IF S = {} THEN {}
                  ELSE IF extras # {} /\ (config.aggressive \/ over) THEN {Min(extras)}
                  ELSE IF extras = {} /\ over THEN {Min(keepers)}
                  ELSE {}
  BY DEF Oldest
<1>5. \A t \in S : newest >= t
  <2>1. newest \in S /\ \A t \in S : t <= newest
    BY FirstAndLast
  <2>2. \A t \in S : t \in Int
    OBVIOUS
  <2> HIDE DEF newest
  <2> QED BY <2>1, <2>2
<1> HIDE DEF keepers, newest, size
<1>6. CASE extras # {} /\ (config.aggressive \/ over)
  <2>1. extras \subseteq 0..n
    OBVIOUS
  <2> HIDE DEF extras
  <2>2. Min(extras) \in extras
    BY <1>6, <2>1, FirstAndLast
  <2>3. Oldest(S) = {Min(extras)}
    BY <1>4, <1>6
  <2> QED BY <1>2, <2>2, <2>3 DEF extras, keepers, newest
<1>7. CASE extras = {} /\ over
  <2>1. keepers = S
    BY <1>2, <1>7
  <2>2. ~(config.count >= Slots)
    BY <1>1, <1>2, <1>3, <1>7, <2>1 DEF size
  <2>3. Oldest(S) = {Min(S)}
    BY <1>4, <1>7, <2>1
  <2>4. Min(S) \in S /\ \A t \in S : Min(S) <= t
    BY FirstAndLast
  <2>5. ASSUME config.count > 0, Min(S) = newest PROVE FALSE
    <3>1. \A t \in S : t = newest
      <4> SUFFICES ASSUME NEW t \in S PROVE t = newest
        OBVIOUS
      <4>1. t \in Int /\ newest \in S
        BY <1>2
      <4>2. newest \in Int /\ newest <= t /\ newest >= t
        BY <1>5, <2>4, <2>5, <4>1
      <4> QED BY <4>1, <4>2
    <3>2. S = {newest}
      BY <1>2, <3>1
    <3>3. size = 1
      BY <3>2, FS_Singleton DEF size
    <3> QED BY <1>3, <1>7, <2>5, <3>3
  <2> QED BY <2>2, <2>3, <2>5 DEF newest
<1>8. CASE ~(extras # {} /\ (config.aggressive \/ over)) /\ ~(extras = {} /\ over)
  BY <1>4, <1>8
<1> QED BY <1>6, <1>7, <1>8

-----------------------------------------------------------------------------
(* Slots                                                                   *)

\* Of what was made within n spans of the newest there is one still, where sp
\* numbers the spans and E is what of them counts.
KeptIn(M, B, sp, n, E) ==
  \A m \in M : m \in E /\ sp[Max(M)] - sp[m] < n => \E b \in B : b \in E /\ sp[b] = sp[m]

\* A backup that is made now is the newest: its spans are the last, and it has itself.
LEMMA MakeKeepsSlot ==
  ASSUME NEW t \in Nat, NEW M, M \subseteq 0..t, NEW B, NEW sp, NEW n, NEW E,
         n \in Int, \A i \in 0..t : sp[i] \in Int, \A i, j \in 0..t : i <= j => sp[i] <= sp[j],
         KeptIn(M, B, sp, n, E)
  PROVE  KeptIn(M \union {t}, B \union {t}, sp, n, E)
<1> DEFINE N == M \union {t}
<1>1. Max(N) = t
  <2>1. N \subseteq 0..t /\ N # {} /\ t \in N
    OBVIOUS
  <2> HIDE DEF N
  <2>2. Max(N) \in N /\ t <= Max(N)
    BY <2>1, FirstAndLast
  <2> DEFINE x == Max(N)
  <2>3. x \in 0..t /\ t <= x
    BY <2>1, <2>2
  <2> HIDE DEF x
  <2>4. x = t
    BY <2>3
  <2> QED BY <2>4 DEF x
<1> SUFFICES ASSUME NEW m \in N, m \in E, sp[t] - sp[m] < n
             PROVE  \E b \in B \union {t} : b \in E /\ sp[b] = sp[m]
  BY <1>1 DEF KeptIn
<1>2. CASE m = t
  BY <1>2
<1>3. CASE m \in M
  <2> DEFINE newest == Max(M)
  <2>1. newest \in M
    BY <1>3, FirstAndLast
  <2> HIDE DEF newest
  <2>2. newest \in 0..t /\ t \in 0..t /\ m \in 0..t /\ newest <= t
    BY <1>3, <2>1
  <2>3. sp[newest] <= sp[t] /\ sp[newest] \in Int /\ sp[t] \in Int /\ sp[m] \in Int
    BY <2>2
  <2>4. sp[newest] - sp[m] < n
    BY <2>3
  <2>5. \E b \in B : b \in E /\ sp[b] = sp[m]
    BY <1>3, <2>4 DEF KeptIn, newest
  <2> QED BY <2>5
<1> QED BY <1>2, <1>3

\* Nothing is lost to a purge that leaves one of each span that has any.
LEMMA PurgeKeepsSlot ==
  ASSUME NEW M, NEW B, B \subseteq M, NEW G, NEW K, K \subseteq B, K \cap G = {},
         NEW sp, NEW n, NEW E, KeptIn(M, B, sp, n, E),
         \A b \in B : b \in E /\ sp[Max(M)] - sp[b] < n => \E k \in K : k \in E /\ sp[k] = sp[b]
  PROVE  KeptIn(M, B \ G, sp, n, E)
<1> SUFFICES ASSUME NEW m \in M, m \in E, sp[Max(M)] - sp[m] < n
             PROVE  \E b \in B \ G : b \in E /\ sp[b] = sp[m]
  BY DEF KeptIn
<1>1. PICK b \in B : b \in E /\ sp[b] = sp[m]
  BY DEF KeptIn
<1>2. PICK k \in K : k \in E /\ sp[k] = sp[b]
  BY <1>1
<1> QED BY <1>1, <1>2

\* The spans of each kind, of the moments of the instance.
DaySpan == [t \in 0..End |-> DayOf(t)]
WeekSpan == [t \in 0..End |-> DayOf(t) \div WeekLength]
MonthSpan == [t \in 0..End |-> MonthIndex(DayOf(t))]
YearSpan == [t \in 0..End |-> YearOf(DayOf(t))]

Moments == Start..End
WeekMoments == {t \in Moments : Weekday(DayOf(t)) >= config.dayOfWeek}

\* Later moments are in later spans.
LEMMA SpansGrow ==
  ASSUME NEW i \in Nat, NEW j \in Nat, i <= j, j <= End
  PROVE  /\ DayOf(i) \in Nat /\ DayOf(j) \in Nat /\ DayOf(i) <= DayOf(j)
         /\ DaySpan[i] \in Int /\ DaySpan[j] \in Int /\ DaySpan[i] <= DaySpan[j]
         /\ WeekSpan[i] \in Int /\ WeekSpan[j] \in Int /\ WeekSpan[i] <= WeekSpan[j]
         /\ MonthSpan[i] \in Int /\ MonthSpan[j] \in Int /\ MonthSpan[i] <= MonthSpan[j]
         /\ YearSpan[i] \in Int /\ YearSpan[j] \in Int /\ YearSpan[i] <= YearSpan[j]
<1> DEFINE a == DayOf(i)
           b == DayOf(j)
<1>1. a \in Nat /\ b \in Nat /\ a <= b
  BY CalendarType, SpanMonotone DEF DayOf
<1>2. i \in 0..End /\ j \in 0..End
  BY BoundsAssumption
<1> HIDE DEF a, b
<1>3. a \div WeekLength \in Nat /\ b \div WeekLength \in Nat /\ a \div WeekLength <= b \div WeekLength
  BY <1>1, CalendarType, SpanMonotone
<1>4. YearOf(a) \in Nat /\ YearOf(b) \in Nat /\ YearOf(a) <= YearOf(b)
  BY <1>1, YearLengthType, SpanMonotone DEF YearOf
<1>5. MonthIndex(a) \in Int /\ MonthIndex(b) \in Int /\ MonthIndex(a) <= MonthIndex(b)
  <2> DEFINE y == YearOf(a)
             z == YearOf(b)
             m == MonthOf(a)
             c == MonthOf(b)
  <2>1. /\ m \in 1..Months /\ FirstDay(y, m) <= a /\ a < FirstDay(y, m) + MonthLengths[m]
        /\ c \in 1..Months /\ FirstDay(z, c) <= b /\ b < FirstDay(z, c) + MonthLengths[c]
    BY <1>1, MonthHolds
  <2>2. MonthIndex(a) = y * Months + m /\ MonthIndex(b) = z * Months + c
    BY DEF MonthIndex
  <2>3. y \in Nat /\ z \in Nat /\ y <= z
    BY <1>4
  <2> HIDE DEF y, z, m, c
  <2>4. Months \in Nat /\ y * Months \in Int /\ z * Months \in Int
    BY <2>3, CalendarType
  <2>5. CASE y < z
    <3>1. (y + 1) * Months <= z * Months /\ (y + 1) * Months = y * Months + Months
      <4>1. y + 1 <= z /\ y + 1 \in Int
        BY <2>3, <2>5
      <4>2. (y + 1) * Months <= z * Months
        BY <2>3, <2>4, <4>1, TimesMonotone
      <4> QED BY <2>3, <2>4, <4>2
    <3> QED BY <2>1, <2>2, <2>4, <3>1
  <2>6. CASE y = z
    <3>1. ASSUME c < m PROVE FALSE
      <4>1. c \in 0..Months /\ m - 1 \in 0..Months /\ (c = m - 1 \/ c < m - 1)
        BY <2>1, <2>4, <3>1
      <4>2. DaysBefore[c] <= DaysBefore[m - 1] /\ DaysBefore[c] \in Nat /\ DaysBefore[m - 1] \in Nat
        BY <4>1, DaysBeforeGrows, DaysBeforeType
      <4>3. /\ FirstDay(y, m) = y * YearLength + DaysBefore[m - 1]
            /\ FirstDay(y, c) + MonthLengths[c] = y * YearLength + DaysBefore[c]
            /\ y * YearLength \in Int
        BY <2>1, <2>3, FirstDayType
      <4> DEFINE e == y * YearLength
      <4>4. e + DaysBefore[m - 1] <= a /\ b < e + DaysBefore[c] /\ e \in Int
        BY <2>1, <2>6, <4>3
      <4> HIDE DEF e
      <4> QED BY <1>1, <4>2, <4>4
    <3> QED BY <2>1, <2>2, <2>4, <2>6, <3>1
  <2> QED BY <2>3, <2>5, <2>6
<1>6. /\ DaySpan[i] = a /\ WeekSpan[i] = a \div WeekLength
      /\ MonthSpan[i] = MonthIndex(a) /\ YearSpan[i] = YearOf(a)
      /\ DaySpan[j] = b /\ WeekSpan[j] = b \div WeekLength
      /\ MonthSpan[j] = MonthIndex(b) /\ YearSpan[j] = YearOf(b)
  BY <1>2 DEF DaySpan, WeekSpan, MonthSpan, YearSpan, a, b
<1> QED BY <1>1, <1>3, <1>4, <1>5, <1>6 DEF a, b

\* A span that is to be kept is that of a partition, and what the partition keeps is
\* of the span.
LEMMA SlotsAreCovered ==
  ASSUME config \in Configs, NEW B, B \subseteq Moments, B # {}, NEW b \in B
  PROVE  /\ DaySpan[Max(B)] - DaySpan[b] < Days
              => \E k \in Keepers(B) : k \in Moments /\ DaySpan[k] = DaySpan[b]
         /\ b \in WeekMoments /\ WeekSpan[Max(B)] - WeekSpan[b] < config.weeks
              => \E k \in Keepers(B) : k \in WeekMoments /\ WeekSpan[k] = WeekSpan[b]
         /\ MonthSpan[Max(B)] - MonthSpan[b] < config.months
              => \E k \in Keepers(B) : k \in Moments /\ MonthSpan[k] = MonthSpan[b]
         /\ YearSpan[Max(B)] - YearSpan[b] < config.years
              => \E k \in Keepers(B) : k \in Moments /\ YearSpan[k] = YearSpan[b]
<1> DEFINE newest == Max(B)
           last == DayOf(newest)
           d == DayOf(b)
<1>1. B \subseteq 0..End /\ End \in Nat /\ \A t \in B : t \in Nat /\ t <= End /\ t \in 0..End
  BY BoundsAssumption DEF Moments
<1>2. newest \in B /\ \A t \in B : t <= newest
  BY <1>1, FirstAndLast
<1>3. \A t \in B : DayOf(t) \in Nat
  BY <1>1, CalendarType, DayStarts DEF DayOf
<1>4. last \in Nat /\ d \in Nat
  BY <1>2, <1>3
<1>5. /\ config.weeks \in Nat /\ config.months \in Nat /\ config.years \in Nat /\ Days \in Nat
  BY ConfigType
<1>6. \A t \in B : /\ DaySpan[t] = DayOf(t) /\ WeekSpan[t] = DayOf(t) \div WeekLength
                   /\ MonthSpan[t] = MonthIndex(DayOf(t)) /\ YearSpan[t] = YearOf(DayOf(t))
  BY <1>1 DEF DaySpan, WeekSpan, MonthSpan, YearSpan
<1>7. /\ DaySpan[b] \in Int /\ DaySpan[newest] \in Int /\ DaySpan[b] <= DaySpan[newest]
      /\ WeekSpan[b] \in Int /\ WeekSpan[newest] \in Int /\ WeekSpan[b] <= WeekSpan[newest]
      /\ MonthSpan[b] \in Int /\ MonthSpan[newest] \in Int /\ MonthSpan[b] <= MonthSpan[newest]
      /\ YearSpan[b] \in Int /\ YearSpan[newest] \in Int /\ YearSpan[b] <= YearSpan[newest]
  <2>1. b \in Nat /\ newest \in Nat /\ b <= newest /\ newest <= End
    BY <1>1, <1>2
  <2> HIDE DEF newest
  <2> QED BY <2>1, SpansGrow
<1>8. Keepers(B) \subseteq B
  BY <1>1, KeepersAre
<1>9. ASSUME NEW p \in Partitions(last), ~p.deleteOnly, p.start <= d, d < p.end
      PROVE  \E k \in Keepers(B) : k \in B /\ p.start <= DayOf(k) /\ DayOf(k) < p.end
  <2>1. b \in Within(B, p)
    BY <1>9 DEF Within
  <2>2. \E k \in Keepers(B) : k \in Within(B, p)
    BY <1>1, <1>9, <2>1, SlotKeeps
  <2> QED BY <2>2 DEF Within
<1>10. \A n \in Nat : \A x \in Nat : x < n => x \in OneMoreThan(n)
  BY DEF OneMoreThan
<1>11. last = DayOf(newest) /\ d = DayOf(b)
  OBVIOUS
<1> HIDE DEF newest, last, d
<1>12. ASSUME DaySpan[newest] - DaySpan[b] < Days
       PROVE  \E k \in Keepers(B) : k \in Moments /\ DaySpan[k] = DaySpan[b]
  <2> DEFINE x == DaySpan[newest] - DaySpan[b]
             p == DayPartition(last, x)
  <2>1. x \in Nat /\ x < Days
    BY <1>7, <1>12
  <2>2. DaySpan[b] = d /\ DaySpan[newest] = last /\ d = last - x
    BY <1>2, <1>4, <1>6, <1>11
  <2> HIDE DEF x
  <2>3. ~p.deleteOnly /\ p.start <= d /\ d < p.end
    BY <1>4, <1>5, <2>1, <2>2, DayIs
  <2>4. p \in Partitions(last)
    BY <1>5, <1>10, <2>1 DEF Partitions
  <2> HIDE DEF p
  <2>5. PICK k \in Keepers(B) : k \in B /\ p.start <= DayOf(k) /\ DayOf(k) < p.end
    BY <1>9, <2>3, <2>4
  <2>6. DayOf(k) = last - x
    BY <1>3, <1>4, <2>1, <2>5, DayIs DEF p
  <2> QED BY <1>6, <2>2, <2>5, <2>6
<1>13. ASSUME b \in WeekMoments, WeekSpan[newest] - WeekSpan[b] < config.weeks
       PROVE  \E k \in Keepers(B) : k \in WeekMoments /\ WeekSpan[k] = WeekSpan[b]
  <2> DEFINE x == WeekSpan[newest] - WeekSpan[b]
             p == WeekPartition(last, x)
  <2>1. x \in Nat /\ x < config.weeks
    BY <1>7, <1>13
  <2>2. WeekSpan[b] = d \div WeekLength /\ WeekSpan[newest] = last \div WeekLength
        /\ Weekday(d) >= config.dayOfWeek
    BY <1>2, <1>6, <1>11, <1>13 DEF WeekMoments
  <2>3. WeekSpan[b] = last \div WeekLength - x
    BY <1>7, <2>2
  <2> HIDE DEF x
  <2>4. ~p.deleteOnly /\ p.start <= d /\ d < p.end
    <3>1. x \in Int /\ ~(x >= config.weeks)
      BY <1>5, <2>1
    <3> QED BY <1>4, <2>2, <2>3, <3>1, WeekIs
  <2>5. p \in Partitions(last)
    BY <1>5, <1>10, <2>1 DEF Partitions
  <2> HIDE DEF p
  <2>6. PICK k \in Keepers(B) : k \in B /\ p.start <= DayOf(k) /\ DayOf(k) < p.end
    BY <1>9, <2>4, <2>5
  <2>7. DayOf(k) \div WeekLength = last \div WeekLength - x /\ Weekday(DayOf(k)) >= config.dayOfWeek
    <3>1. x \in Int /\ DayOf(k) \in Nat
      BY <1>3, <2>1, <2>6
    <3> QED BY <1>4, <2>6, <3>1, WeekIs DEF p
  <2> QED BY <1>6, <2>3, <2>6, <2>7 DEF WeekMoments
<1>14. ASSUME MonthSpan[newest] - MonthSpan[b] < config.months
       PROVE  \E k \in Keepers(B) : k \in Moments /\ MonthSpan[k] = MonthSpan[b]
  <2> DEFINE x == MonthSpan[newest] - MonthSpan[b]
             p == MonthPartition(last, x)
  <2>1. x \in Nat /\ x < config.months
    BY <1>7, <1>14
  <2>2. MonthSpan[b] = MonthIndex(d) /\ MonthSpan[newest] = MonthIndex(last)
    BY <1>2, <1>6, <1>11
  <2>3. MonthSpan[b] = MonthIndex(last) - x
    BY <1>7, <2>2
  <2> HIDE DEF x
  <2>4. ~p.deleteOnly /\ p.start <= d /\ d < p.end
    <3>1. ~(x >= config.months)
      BY <1>5, <2>1
    <3> QED BY <1>4, <2>1, <2>2, <2>3, <3>1, MonthIs
  <2>5. p \in Partitions(last)
    BY <1>5, <1>10, <2>1 DEF Partitions
  <2> HIDE DEF p
  <2>6. PICK k \in Keepers(B) : k \in B /\ p.start <= DayOf(k) /\ DayOf(k) < p.end
    BY <1>9, <2>4, <2>5
  <2>7. MonthIndex(DayOf(k)) = MonthIndex(last) - x
    BY <1>3, <1>4, <2>1, <2>6, MonthIs DEF p
  <2> QED BY <1>6, <2>3, <2>6, <2>7
<1>15. ASSUME YearSpan[newest] - YearSpan[b] < config.years
       PROVE  \E k \in Keepers(B) : k \in Moments /\ YearSpan[k] = YearSpan[b]
  <2> DEFINE x == YearSpan[newest] - YearSpan[b]
             p == YearPartition(last, x)
  <2>1. x \in Nat /\ x < config.years
    BY <1>7, <1>15
  <2>2. YearSpan[b] = YearOf(d) /\ YearSpan[newest] = YearOf(last)
    BY <1>2, <1>6, <1>11
  <2>3. YearSpan[b] = YearOf(last) - x
    BY <1>7, <2>2
  <2> HIDE DEF x
  <2>4. ~p.deleteOnly /\ p.start <= d /\ d < p.end
    <3>1. ~(x >= config.years)
      BY <1>5, <2>1
    <3> QED BY <1>4, <2>1, <2>2, <2>3, <3>1, YearIs
  <2>5. p \in Partitions(last)
    BY <1>5, <1>10, <2>1 DEF Partitions
  <2> HIDE DEF p
  <2>6. PICK k \in Keepers(B) : k \in B /\ p.start <= DayOf(k) /\ DayOf(k) < p.end
    BY <1>9, <2>4, <2>5
  <2>7. YearOf(DayOf(k)) = YearOf(last) - x
    BY <1>3, <1>4, <2>1, <2>6, YearIs DEF p
  <2> QED BY <1>6, <2>3, <2>6, <2>7
<1> QED BY <1>12, <1>13, <1>14, <1>15 DEF newest

-----------------------------------------------------------------------------
(* The store over time                                                     *)

\* What is there was made, since the start and not after now.
StoreOK ==
  /\ config \in Configs
  /\ now \in Start..End
  /\ backups \subseteq made /\ made \subseteq Start..now

\* SlotsKept, with the spans as functions.
SlotsIn ==
  config.count >= Slots =>
    /\ KeptIn(made, backups, DaySpan, Days, Moments)
    /\ KeptIn(made, backups, WeekSpan, config.weeks, WeekMoments)
    /\ KeptIn(made, backups, MonthSpan, config.months, Moments)
    /\ KeptIn(made, backups, YearSpan, config.years, Moments)

KInv == StoreOK /\ NewestStays /\ SlotsIn

LEMMA SlotsAreIn == ASSUME StoreOK, SlotsIn PROVE SlotsKept
<1> SUFFICES ASSUME config.count >= Slots, made # {} PROVE SlotsKept
  BY DEF SlotsKept
<1>1. \A t \in Moments : t \in 0..End /\ t \in Nat /\ DayOf(t) \in DayOf(Start)..DayOf(End)
  <2> SUFFICES ASSUME NEW t \in Moments
               PROVE  t \in 0..End /\ t \in Nat /\ DayOf(t) \in DayOf(Start)..DayOf(End)
    OBVIOUS
  <2>1. /\ t \in 0..End /\ t \in Nat /\ Start <= t /\ t <= End
        /\ Start \in Nat /\ End \in Nat /\ Start <= End
    BY BoundsAssumption DEF Moments
  <2>2. DayOf(Start) <= DayOf(t) /\ DayOf(t) <= DayOf(End)
        /\ DayOf(Start) \in Nat /\ DayOf(t) \in Nat /\ DayOf(End) \in Nat
    BY <2>1, CalendarType, SpanMonotone DEF DayOf
  <2> QED BY <2>1, <2>2
<1>2. made \subseteq Moments /\ backups \subseteq Moments
  <2>1. \A t \in Start..now : t \in Moments
    BY BoundsAssumption DEF StoreOK, Moments
  <2> QED BY <2>1 DEF StoreOK
<1>3. Max(made) \in made
  <2>1. made \subseteq 0..End
    BY <1>1, <1>2
  <2> QED BY <2>1, BoundsAssumption, FirstAndLast
<1>4. \A t \in Moments :
        /\ DaySpan[t] = DayOf(t) /\ WeekSpan[t] = DayOf(t) \div WeekLength
        /\ MonthSpan[t] = YearOf(DayOf(t)) * Len(MonthLengths) + MonthOf(DayOf(t))
        /\ YearSpan[t] = YearOf(DayOf(t))
  BY <1>1 DEF DaySpan, WeekSpan, MonthSpan, YearSpan, MonthIndex, Months
<1>5. /\ KeptIn(made, backups, DaySpan, Days, Moments)
      /\ KeptIn(made, backups, WeekSpan, config.weeks, WeekMoments)
      /\ KeptIn(made, backups, MonthSpan, config.months, Moments)
      /\ KeptIn(made, backups, YearSpan, config.years, Moments)
  BY DEF SlotsIn
<1> DEFINE newest == Max(made)
           days == DayOf(Start)..DayOf(End)
<1>6. newest \in Moments /\ \A t \in Moments : DayOf(t) \in days
  BY <1>1, <1>2, <1>3
<1>7. newest = Max(made)
  OBVIOUS
<1> HIDE DEF newest, days
<1>8. \A m \in made : DayOf(newest) - DayOf(m) < Days =>
        \E b \in backups : DayOf(b) \in days /\ DayOf(b) = DayOf(m)
  BY <1>2, <1>4, <1>5, <1>6, <1>7 DEF KeptIn
<1>9. \A m \in made :
        Weekday(DayOf(m)) >= config.dayOfWeek
        /\ DayOf(newest) \div WeekLength - DayOf(m) \div WeekLength < config.weeks =>
          \E b \in backups : /\ DayOf(b) \in days /\ Weekday(DayOf(b)) >= config.dayOfWeek
                             /\ DayOf(b) \div WeekLength = DayOf(m) \div WeekLength
  BY <1>2, <1>4, <1>5, <1>6, <1>7 DEF KeptIn, WeekMoments
<1>10. \A m \in made :
         (YearOf(DayOf(newest)) * Len(MonthLengths) + MonthOf(DayOf(newest)))
             - (YearOf(DayOf(m)) * Len(MonthLengths) + MonthOf(DayOf(m))) < config.months =>
           \E b \in backups :
             /\ DayOf(b) \in days
             /\ YearOf(DayOf(b)) * Len(MonthLengths) + MonthOf(DayOf(b))
                  = YearOf(DayOf(m)) * Len(MonthLengths) + MonthOf(DayOf(m))
  BY <1>2, <1>4, <1>5, <1>6, <1>7 DEF KeptIn
<1>11. \A m \in made : YearOf(DayOf(newest)) - YearOf(DayOf(m)) < config.years =>
         \E b \in backups : DayOf(b) \in days /\ YearOf(DayOf(b)) = YearOf(DayOf(m))
  BY <1>2, <1>4, <1>5, <1>6, <1>7 DEF KeptIn
<1> QED BY <1>8, <1>9, <1>10, <1>11 DEF SlotsKept, Kept, newest, days

\* Times are moments of the instance.
LEMMA StoreType ==
  ASSUME StoreOK
  PROVE  /\ now \in Nat /\ End \in Nat /\ now <= End /\ made \subseteq 0..now
         /\ made \subseteq 0..End /\ backups \subseteq 0..End
         /\ made \subseteq Moments /\ backups \subseteq Moments /\ now \in Moments
<1>1. now \in Nat /\ Start \in Nat /\ End \in Nat /\ Start <= now /\ now <= End
  BY BoundsAssumption DEF StoreOK
<1>2. \A t \in made : t \in Start..now
  BY DEF StoreOK
<1>3. backups \subseteq made
  BY DEF StoreOK
<1> QED BY <1>1, <1>2, <1>3 DEF Moments

\* What was made lately is the newest, and all that was within a span of it before
\* is so from the one that was the newest.
LEMMA MakeKeepsStore == ASSUME KInv, Make \/ MakeByHand PROVE KInv'
<1>1. made' = made \union {now} /\ backups' = backups \union {now} /\ UNCHANGED <<config, now>>
  BY DEF Make, MakeByHand, MakeNow, settings
<1>2. StoreOK /\ now \in Nat /\ Start \in Nat /\ Start <= now /\ made \subseteq 0..now
  BY StoreType, BoundsAssumption DEF KInv, StoreOK
<1>3. StoreOK'
  BY <1>1, <1>2 DEF StoreOK
<1>4. NewestStays'
  <2>1. made' \subseteq 0..now /\ made' # {} /\ now \in made'
    BY <1>1, <1>2
  <2>2. Max(made') \in made' /\ now <= Max(made')
    BY <1>2, <2>1, FirstAndLast
  <2> DEFINE newest == Max(made')
  <2>3. newest \in 0..now /\ now <= newest
    BY <2>1, <2>2
  <2> HIDE DEF newest
  <2>4. newest = now
    BY <1>2, <2>3
  <2> QED BY <1>1, <2>4 DEF NewestStays, newest
<1>5. SlotsIn'
  <2> SUFFICES ASSUME config.count >= Slots
               PROVE  /\ KeptIn(made', backups', DaySpan, Days, Moments)
                      /\ KeptIn(made', backups', WeekSpan, config.weeks, WeekMoments)
                      /\ KeptIn(made', backups', MonthSpan, config.months, Moments)
                      /\ KeptIn(made', backups', YearSpan, config.years, Moments)
    BY <1>1 DEF SlotsIn, Slots, Days, WeekMoments, KeptIn
  <2>1. /\ KeptIn(made, backups, DaySpan, Days, Moments)
        /\ KeptIn(made, backups, WeekSpan, config.weeks, WeekMoments)
        /\ KeptIn(made, backups, MonthSpan, config.months, Moments)
        /\ KeptIn(made, backups, YearSpan, config.years, Moments)
    BY DEF KInv, SlotsIn
  <2>2. /\ Days \in Int /\ config.weeks \in Int /\ config.months \in Int /\ config.years \in Int
    BY <1>2, ConfigType DEF StoreOK
  <2>3. /\ \A i \in 0..now : /\ DaySpan[i] \in Int /\ WeekSpan[i] \in Int
                             /\ MonthSpan[i] \in Int /\ YearSpan[i] \in Int
        /\ \A i, j \in 0..now : i <= j => /\ DaySpan[i] <= DaySpan[j] /\ WeekSpan[i] <= WeekSpan[j]
                                          /\ MonthSpan[i] <= MonthSpan[j] /\ YearSpan[i] <= YearSpan[j]
    <3>1. now <= End /\ End \in Nat
      BY <1>2, StoreType
    <3>2. \A i \in 0..now : i \in Nat /\ i <= End /\ i <= i
      BY <1>2, <3>1
    <3> QED BY <3>2, SpansGrow
  <2>4. KeptIn(made \union {now}, backups \union {now}, DaySpan, Days, Moments)
    BY <1>2, <2>1, <2>2, <2>3, MakeKeepsSlot
  <2>5. KeptIn(made \union {now}, backups \union {now}, WeekSpan, config.weeks, WeekMoments)
    BY <1>2, <2>1, <2>2, <2>3, MakeKeepsSlot
  <2>6. KeptIn(made \union {now}, backups \union {now}, MonthSpan, config.months, Moments)
    BY <1>2, <2>1, <2>2, <2>3, MakeKeepsSlot
  <2>7. KeptIn(made \union {now}, backups \union {now}, YearSpan, config.years, Moments)
    BY <1>2, <2>1, <2>2, <2>3, MakeKeepsSlot
  <2> QED BY <1>1, <2>4, <2>5, <2>6, <2>7
<1> QED BY <1>3, <1>4, <1>5 DEF KInv

\* A purge looks at the slots of the newest backup, and this is the newest that was made.
LEMMA PurgeKeepsStore == ASSUME KInv, Purge(Oldest(backups)) PROVE KInv'
<1> DEFINE gone == Oldest(backups)
           newest == Max(made)
<1>1. /\ gone # {} /\ backups' = backups \ gone
      /\ UNCHANGED <<config, now, made>>
  BY DEF Purge, settings
<1>2. StoreOK /\ End \in Nat /\ made \subseteq 0..End /\ backups \subseteq 0..End
      /\ backups \subseteq Moments /\ config \in Configs /\ backups \subseteq made
  BY StoreType DEF KInv, StoreOK
<1>3. backups # {}
  BY <1>1 DEF Oldest
<1>4. made # {}
  BY <1>2, <1>3
<1>5. /\ config.count > 0 => Max(backups) \notin gone
      /\ config.count >= Slots => gone \cap Keepers(backups) = {}
  BY <1>2, <1>3, PurgeTakes
<1>6. Keepers(backups) \subseteq backups
  BY <1>2, <1>3, KeepersAre
<1> HIDE DEF gone
<1>7. StoreOK'
  BY <1>1, <1>2 DEF StoreOK
<1>8. config.count > 0 => newest \in backups /\ Max(backups) = newest
  <2> SUFFICES ASSUME config.count > 0 PROVE newest \in backups /\ Max(backups) = newest
    OBVIOUS
  <2> DEFINE top == Max(backups)
  <2>1. newest \in backups
    BY <1>4 DEF KInv, NewestStays
  <2>2. newest \in made /\ \A t \in made : t <= newest
    BY <1>2, <1>4, FirstAndLast
  <2>3. top \in backups /\ \A t \in backups : t <= top
    BY <1>2, <1>3, FirstAndLast
  <2> HIDE DEF top, newest
  <2>4. top <= newest /\ newest <= top /\ top \in 0..End /\ newest \in 0..End
    BY <1>2, <2>1, <2>2, <2>3
  <2>5. top = newest
    BY <1>2, <2>4
  <2> QED BY <2>1, <2>5 DEF top
<1>9. NewestStays'
  BY <1>1, <1>5, <1>8 DEF NewestStays
<1>10. SlotsIn'
  <2> SUFFICES ASSUME config.count >= Slots
               PROVE  /\ KeptIn(made, backups \ gone, DaySpan, Days, Moments)
                      /\ KeptIn(made, backups \ gone, WeekSpan, config.weeks, WeekMoments)
                      /\ KeptIn(made, backups \ gone, MonthSpan, config.months, Moments)
                      /\ KeptIn(made, backups \ gone, YearSpan, config.years, Moments)
    BY <1>1 DEF SlotsIn, Slots, Days, WeekMoments, KeptIn
  <2>1. /\ KeptIn(made, backups, DaySpan, Days, Moments)
        /\ KeptIn(made, backups, WeekSpan, config.weeks, WeekMoments)
        /\ KeptIn(made, backups, MonthSpan, config.months, Moments)
        /\ KeptIn(made, backups, YearSpan, config.years, Moments)
    BY DEF KInv, SlotsIn
  <2>2. config.count > 0
    <3>1. /\ config.weeks \in Nat /\ config.months \in Nat /\ config.years \in Nat
          /\ config.count \in Nat /\ Days \in Nat /\ Days >= 1
      BY <1>2, ConfigType
    <3> QED BY <3>1 DEF Slots
  <2>3. Max(made) = Max(backups)
    BY <1>8, <2>2
  <2> DEFINE K == Keepers(backups)
  <2>4. \A b \in backups :
          /\ b \in Moments
          /\ DaySpan[Max(made)] - DaySpan[b] < Days
               => \E k \in K : k \in Moments /\ DaySpan[k] = DaySpan[b]
          /\ b \in WeekMoments /\ WeekSpan[Max(made)] - WeekSpan[b] < config.weeks
               => \E k \in K : k \in WeekMoments /\ WeekSpan[k] = WeekSpan[b]
          /\ MonthSpan[Max(made)] - MonthSpan[b] < config.months
               => \E k \in K : k \in Moments /\ MonthSpan[k] = MonthSpan[b]
          /\ YearSpan[Max(made)] - YearSpan[b] < config.years
               => \E k \in K : k \in Moments /\ YearSpan[k] = YearSpan[b]
    BY <1>2, <1>3, <2>3, SlotsAreCovered
  <2>5. K \subseteq backups /\ K \cap gone = {}
    BY <1>5, <1>6
  <2> HIDE DEF K
  <2>6. KeptIn(made, backups \ gone, DaySpan, Days, Moments)
    <3>1. \A b \in backups : b \in Moments /\ DaySpan[Max(made)] - DaySpan[b] < Days =>
            \E k \in K : k \in Moments /\ DaySpan[k] = DaySpan[b]
      BY <2>4
    <3>2. KeptIn(made, backups, DaySpan, Days, Moments)
      BY <2>1
    <3> QED BY <1>2, <2>5, <3>1, <3>2, PurgeKeepsSlot
  <2>7. KeptIn(made, backups \ gone, WeekSpan, config.weeks, WeekMoments)
    BY <1>2, <2>1, <2>4, <2>5, PurgeKeepsSlot
  <2>8. KeptIn(made, backups \ gone, MonthSpan, config.months, Moments)
    BY <1>2, <2>1, <2>4, <2>5, PurgeKeepsSlot
  <2>9. KeptIn(made, backups \ gone, YearSpan, config.years, Moments)
    BY <1>2, <2>1, <2>4, <2>5, PurgeKeepsSlot
  <2> QED BY <2>6, <2>7, <2>8, <2>9
<1> QED BY <1>7, <1>9, <1>10 DEF KInv

\* The rest leaves the backups alone.
LEMMA OthersKeepStore ==
  ASSUME KInv, Restart \/ SignOut \/ SignIn \/ Hurry \/ Tick \/ UNCHANGED vars
  PROVE  KInv'
<1>1. UNCHANGED <<config, backups, made>> /\ (now' = now \/ (now < End /\ now' = now + 1))
  BY DEF Restart, SignOut, SignIn, Hurry, Tick, vars, settings
<1>2. StoreOK'
  <2>1. now \in Nat /\ Start \in Nat /\ End \in Nat /\ StoreOK
    BY BoundsAssumption DEF KInv, StoreOK
  <2>2. now' \in Start..End /\ now <= now' /\ now' \in Nat
    BY <1>1, <2>1 DEF StoreOK
  <2> QED BY <1>1, <2>1, <2>2 DEF StoreOK
<1>3. NewestStays' /\ SlotsIn'
  BY <1>1 DEF KInv, NewestStays, SlotsIn, Slots, Days, WeekMoments, KeptIn
<1> QED BY <1>2, <1>3 DEF KInv

\* What is there was made, the newest of it stays and so does one of each slot, in
\* every state that can be reached.
THEOREM StoreInvariance == Spec => []KInv
<1>1. Init => KInv
  <2> SUFFICES ASSUME Init PROVE KInv
    OBVIOUS
  <2>1. config \in Configs /\ now = Start /\ backups = {} /\ made = {}
    BY DEF Init
  <2>2. StoreOK
    BY <2>1, BoundsAssumption DEF StoreOK
  <2>3. NewestStays
    BY <2>1 DEF NewestStays
  <2>4. SlotsIn
    BY <2>1 DEF SlotsIn, KeptIn
  <2> QED BY <2>2, <2>3, <2>4 DEF KInv
<1>2. KInv /\ [Next]_vars => KInv'
  BY MakeKeepsStore, PurgeKeepsStore, OthersKeepStore DEF Next, Purge
<1> QED BY <1>1, <1>2, PTL DEF Spec

\* Whatever the settings, the newest backup stays, once any are to be kept: the
\* last day is one of the days (config lines 244-246, backupscheme lines 182-213).
THEOREM NewestIsNotPurged == Spec => []NewestStays
<1>1. KInv => NewestStays
  BY DEF KInv
<1> QED BY <1>1, StoreInvariance, PTL

\* With room for all slots, a day, week, month or year that is to be kept and had a
\* backup has one still, for every calendar and settings, although each purge
\* looks at the slots of its own day only (backupscheme lines 111-226).
THEOREM NoSlotIsLost == Spec => []SlotsKept
<1>1. KInv => SlotsKept
  BY SlotsAreIn DEF KInv
<1> QED BY <1>1, StoreInvariance, PTL

\* The bisections find what a search would, for any number of backups (rangelookup
\* lines 24-56).
THEOREM BisectionIsSearch == Spec => []LookupFinds
<1>1. KInv => LookupFinds
  <2> SUFFICES ASSUME KInv, backups # {},
                      NEW from \in (Min(backups) - 1)..(Max(backups) + 1),
                      NEW to \in (Min(backups) - 1)..(Max(backups) + 1)
               PROVE  Matches(Sorted(backups), from, to) = {t \in backups : from <= t /\ t <= to}
    BY DEF LookupFinds
  <2>1. End \in Nat /\ backups \subseteq 0..End
    BY StoreType DEF KInv
  <2>2. IsFiniteSet(backups) /\ backups \subseteq Int
    <3>1. IsFiniteSet(0..End)
      BY <2>1, FS_Interval
    <3>2. IsFiniteSet(backups)
      BY <2>1, <3>1, FS_Subset
    <3> QED BY <2>1, <3>2
  <2>3. Min(backups) \in Int /\ Max(backups) \in Int
    BY <2>1, <2>2, FirstAndLast
  <2>4. from \in Int /\ to \in Int
    BY <2>3
  <2>5. Matches(Sorted(backups), from, to) = Between(backups, from, to)
    BY <2>2, <2>4, LookupIsSearch
  <2> QED BY <2>5 DEF Between
<1> QED BY <1>1, StoreInvariance, PTL

-----------------------------------------------------------------------------
(* When the next backup is made                                            *)

\* The clock does not go back, and there is a newest among those made.
TimesOK ==
  /\ now \in Nat /\ started \in Nat /\ rested \in Nat /\ schedule \in Schedules
  /\ made \subseteq 0..now
  /\ made # {} => \E m \in made : \A x \in made : x <= m

IInv == TimesOK /\ BackupsKeepComing

LEMMA ScheduleType ==
  ASSUME TimesOK
  PROVE  /\ PerDay \in Nat /\ PerDay > 0 /\ Cooldown \in Nat
         /\ schedule.wait \in Nat /\ schedule.wait >= 1
         /\ schedule.timeOfDay = NoTime \/ schedule.timeOfDay \in 0..(PerDay - 1)
BY CalendarAssumption, SchedulesAssumption DEF TimesOK

LEMMA NewestIsMade ==
  ASSUME TimesOK, made # {}
  PROVE  Max(made) \in made /\ Max(made) \in Nat /\ Max(made) <= now /\ \A x \in made : x <= Max(made)
<1>1. PICK m \in made : \A x \in made : x <= m
  BY DEF TimesOK
<1>2. \A x \in made : x \in Nat /\ x <= now
  BY DEF TimesOK
<1>3. m \in made /\ \A x \in made : m >= x
  BY <1>1, <1>2
<1>4. Max(made) \in made /\ \A x \in made : Max(made) >= x
  BY <1>3 DEF Max
<1> QED BY <1>2, <1>4

\* The longest that a backup may be from the one before.
Longest == IF schedule.timeOfDay # NoTime /\ schedule.wait < PerDay THEN PerDay
           ELSE schedule.wait

LEMMA LongestType == ASSUME TimesOK PROVE Longest \in Nat /\ Longest >= 1
BY ScheduleType DEF Longest

\* The next backup is planned within that time from the last: a time of day does
\* not make the wait longer, since what is made before it on its day is followed
\* by one on the same day.
LEMMA PlannedInTime ==
  ASSUME TimesOK, made # {}
  PROVE  FromLast \in Nat /\ FromLast <= Max(made) + Longest
<1> DEFINE last == Max(made)
           wait == schedule.wait
           tod  == schedule.timeOfDay
           start == DayOf(last) * PerDay
           whole == (wait \div PerDay) * PerDay
<1>1. last \in Nat
  BY NewestIsMade
<1>2. PerDay \in Nat /\ PerDay > 0 /\ wait \in Nat /\ wait >= 1
      /\ (tod = NoTime \/ tod \in 0..(PerDay - 1))
  BY ScheduleType
<1>3. DayOf(last) \in Nat /\ start \in Nat /\ start <= last /\ last < start + PerDay
  <2> HIDE DEF last
  <2>1. last \div PerDay \in Nat /\ (last \div PerDay) * PerDay <= last
        /\ last < ((last \div PerDay) + 1) * PerDay
    BY <1>1, <1>2, DayStarts
  <2> QED BY <1>2, <2>1 DEF DayOf
<1>4. wait \div PerDay \in Nat /\ whole \in Nat /\ whole <= wait
  <2> HIDE DEF wait
  <2> QED BY <1>2, DayStarts
<1>5. (DayOf(last) + wait \div PerDay) * PerDay = start + whole
  <2> HIDE DEF last, wait
  <2> QED BY <1>2, <1>3, <1>4
<1>6. FromLast = IF tod = NoTime THEN last + wait
                ELSE IF last < start + tod THEN start + tod
                ELSE start + whole + tod
  BY <1>5 DEF FromLast
<1>7. Longest = IF tod # NoTime /\ wait < PerDay THEN PerDay ELSE wait
  BY DEF Longest
<1> HIDE DEF last, wait, tod, start, whole
<1>8. CASE tod = NoTime
  BY <1>1, <1>2, <1>6, <1>7, <1>8 DEF last
<1>9. CASE tod # NoTime
  <2>1. tod \in 0..(PerDay - 1)
    BY <1>2, <1>9
  <2>2. FromLast = IF last < start + tod THEN start + tod ELSE start + whole + tod
    BY <1>6, <1>9
  <2>3. Longest \in Nat /\ Longest >= PerDay /\ Longest >= wait
    BY <1>2, <1>7, <1>9
  <2>4. FromLast \in Nat /\ FromLast <= last + Longest
    BY <1>1, <1>2, <1>3, <1>4, <2>1, <2>2, <2>3
  <2> QED BY <2>4 DEF last
<1> QED BY <1>8, <1>9

\* Time goes on only until the next backup is due.
LEMMA TickKeeps == ASSUME IInv, Tick PROVE IInv'
<1>1. /\ now' = now + 1 /\ (~Due \/ now \in made)
      /\ UNCHANGED <<schedule, started, rested, signedIn, made>>
  BY DEF Tick, settings
<1>2. TimesOK'
  BY <1>1 DEF IInv, TimesOK
<1>3. BackupsKeepComing'
  <2> SUFFICES ASSUME made # {}, signedIn
               PROVE  now' - Max(made) <= Longest \/ now' <= rested + Cooldown
    BY <1>1 DEF BackupsKeepComing, Longest
  <2> DEFINE last == Max(made)
             cool == rested + Cooldown
  <2>1. /\ last \in Nat /\ now \in Nat /\ rested \in Nat /\ Cooldown \in Nat
        /\ Longest \in Nat /\ Longest >= 1
    BY NewestIsMade, ScheduleType, LongestType DEF IInv, TimesOK
  <2>2. Planned \in Nat /\ Planned <= last + Longest
    BY PlannedInTime DEF IInv, Planned
  <2>3. NextBackup \in Nat /\ (NextBackup = cool \/ NextBackup = Planned)
    BY <2>1, <2>2 DEF NextBackup
  <2>4. NextBackup > now \/ last >= now
    <3>1. NextBackup # NoTime
      BY <2>3 DEF NoTime
    <3>2. CASE ~Due
      BY <2>1, <2>3, <3>1, <3>2 DEF Due
    <3> QED BY <1>1, <3>2, NewestIsMade DEF IInv
  <2> HIDE DEF last
  <2>5. now' - last <= Longest \/ now' <= cool
    BY <1>1, <2>1, <2>2, <2>3, <2>4
  <2> QED BY <2>5 DEF last
<1> QED BY <1>2, <1>3 DEF IInv

\* What is made is the newest.
LEMMA MakeKeeps == ASSUME IInv, Make \/ MakeByHand PROVE IInv'
<1>1. made' = made \union {now} /\ UNCHANGED <<schedule, now, started, rested>>
  BY DEF Make, MakeByHand, MakeNow, settings, session
<1>2. now \in made' /\ \A x \in made' : x <= now
  BY <1>1 DEF IInv, TimesOK
<1>3. TimesOK'
  BY <1>1, <1>2 DEF IInv, TimesOK
<1>4. Max(made') = now
  <2>1. made' \subseteq Nat /\ now \in Nat
    BY <1>1 DEF IInv, TimesOK
  <2>2. \A x \in made' : now >= x
    BY <1>2, <2>1
  <2> DEFINE top == Max(made')
  <2>3. top \in made' /\ top >= now
    BY <1>2, <2>2 DEF Max
  <2> HIDE DEF top
  <2>4. top \in Nat /\ top <= now
    BY <1>2, <2>1, <2>3
  <2>5. top = now
    BY <2>1, <2>3, <2>4
  <2> QED BY <2>5 DEF top
<1>5. Longest' = Longest /\ Longest \in Nat /\ now \in Nat
  BY <1>1, LongestType DEF IInv, TimesOK, Longest
<1>6. BackupsKeepComing'
  BY <1>1, <1>4, <1>5 DEF BackupsKeepComing, Longest
<1> QED BY <1>3, <1>6 DEF IInv

\* A restart begins a cooldown, and in a moment in which a session is found again
\* its backup is still to be made; nothing else touches the clock or what was made.
LEMMA OthersKeep ==
  ASSUME IInv,
         Restart \/ SignOut \/ SignIn \/ Hurry \/ UNCHANGED <<settings, now, session, made>>
  PROVE  IInv'
<1>1. CASE Hurry \/ UNCHANGED <<settings, now, session, made>>
  <2>1. /\ schedule' = schedule /\ now' = now /\ made' = made
        /\ started' = started /\ rested' = rested
        /\ signedIn' = signedIn /\ regained' = regained
    BY <1>1 DEF Hurry, settings, session
  <2>2. TimesOK'
    BY <2>1 DEF IInv, TimesOK
  <2>3. BackupsKeepComing'
    BY <2>1 DEF IInv, BackupsKeepComing
  <2> QED BY <2>2, <2>3 DEF IInv
<1>2. CASE Restart
  <2>1. started' = now /\ rested' = now /\ UNCHANGED <<schedule, now, made>>
    BY <1>2 DEF Restart, settings
  <2>2. now \in Nat /\ Cooldown \in Nat
    BY ScheduleType DEF IInv, TimesOK
  <2>3. TimesOK'
    BY <2>1, <2>2 DEF IInv, TimesOK
  <2>4. now' <= rested' + Cooldown
    BY <2>1, <2>2
  <2>5. BackupsKeepComing'
    BY <2>4 DEF BackupsKeepComing
  <2> QED BY <2>3, <2>5 DEF IInv
<1>3. CASE SignOut \/ SignIn
  <2>1. /\ UNCHANGED <<schedule, now, started, made>> /\ rested' \in {rested, now}
        /\ ~signedIn' \/ regained'
    BY <1>3 DEF SignOut, SignIn, settings
  <2>2. TimesOK'
    BY <2>1 DEF IInv, TimesOK
  <2>3. BackupsKeepComing'
    BY <2>1 DEF BackupsKeepComing
  <2> QED BY <2>2, <2>3 DEF IInv
<1> QED BY <1>1, <1>2, <1>3

\* The clock and the newest backup stay in step.
THEOREM Invariance == Spec => []IInv
<1>1. Init => IInv
  BY BoundsAssumption DEF Init, IInv, TimesOK, BackupsKeepComing
<1>2. IInv /\ [Next]_vars => IInv'
  BY TickKeeps, MakeKeeps, OthersKeep DEF Next, Purge, vars
<1> QED BY <1>1, <1>2, PTL DEF Spec

\* With a session, the newest backup is never older than the days between backups,
\* or a day where a time of day is set for fewer, but in the cooldown after a start
\* or a sign-in and in the moment a session is found again: for all calendars and
\* schedules and any number of restarts, of lost sessions and of backups made by
\* hand, before and in that time (Model._nextBackup, markAuthChanged).
THEOREM BackupsAreMade == Spec => []BackupsKeepComing
<1>1. IInv => BackupsKeepComing
  BY DEF IInv
<1> QED BY <1>1, Invariance, PTL

\* After a backup with a time of day the next is planned for that time of a later
\* day, or for later on its own.
LEMMA PlannedLater ==
  ASSUME TimesOK, made # {}, schedule.timeOfDay = NoTime \/ schedule.wait >= PerDay
  PROVE  FromLast \in Nat /\ FromLast > Max(made)
<1> DEFINE last == Max(made)
           wait == schedule.wait
           tod  == schedule.timeOfDay
           day  == DayOf(last)
           more == wait \div PerDay
<1>1. last \in Nat
  BY NewestIsMade
<1>2. PerDay \in Nat /\ PerDay > 0 /\ wait \in Nat /\ wait >= 1
      /\ (tod = NoTime \/ tod \in 0..(PerDay - 1))
  BY ScheduleType
<1>3. day \in Nat /\ day * PerDay \in Nat /\ last < day * PerDay + PerDay
  <2> HIDE DEF last
  <2>1. last \div PerDay \in Nat /\ last < ((last \div PerDay) + 1) * PerDay
    BY <1>1, <1>2, DayStarts
  <2> QED BY <1>2, <2>1 DEF DayOf
<1>4. FromLast = IF tod = NoTime THEN last + wait
                ELSE IF last < day * PerDay + tod THEN day * PerDay + tod
                ELSE (day + more) * PerDay + tod
  BY DEF FromLast
<1>5. more \in Nat /\ (wait >= PerDay => more >= 1)
  <2> HIDE DEF wait
  <2>1. more \in Nat /\ wait < (more + 1) * PerDay
    BY <1>2, DayStarts
  <2>2. more = 0 => wait < PerDay
    BY <1>2, <2>1
  <2> HIDE DEF more
  <2> QED BY <1>2, <2>1, <2>2
<1> HIDE DEF last, wait, tod, day, more
<1>6. CASE tod = NoTime
  BY <1>1, <1>2, <1>4, <1>6 DEF last
<1>7. CASE tod # NoTime
  <2>1. more >= 1 /\ tod \in 0..(PerDay - 1)
    BY <1>2, <1>5, <1>7 DEF tod, wait
  <2>2. (day + more) * PerDay \in Nat /\ (day + more) * PerDay >= day * PerDay + PerDay
    BY <1>2, <1>3, <1>5, <2>1
  <2> DEFINE start == day * PerDay
             later == (day + more) * PerDay
  <2>3. start \in Nat /\ last < start + PerDay /\ later \in Nat /\ later >= start + PerDay
    BY <1>3, <2>2
  <2>4. FromLast = IF last < start + tod THEN start + tod ELSE later + tod
    BY <1>4, <1>7
  <2> HIDE DEF start, later
  <2>5. FromLast \in Nat /\ FromLast > last
    BY <1>1, <1>2, <2>1, <2>3, <2>4
  <2> QED BY <2>5 DEF last
<1> QED BY <1>6, <1>7

\* A backup that was just made is enough, unless a time of day is set for less
\* than a day between backups (Model._nextBackup lines 161-193).
THEOREM NoneDueAtOnce == Spec => []OneIsEnough
<1>1. ASSUME IInv PROVE OneIsEnough
  <2> SUFFICES ASSUME schedule.timeOfDay = NoTime \/ schedule.wait >= PerDay, now \in made, Due
               PROVE  FALSE
    BY DEF OneIsEnough
  <2>0. NextBackup # NoTime /\ NextBackup <= now
    BY DEF Due
  <2> DEFINE last == Max(made)
             cool == rested + Cooldown
  <2>1. /\ last \in Nat /\ last >= now /\ now \in Nat
        /\ rested \in Nat /\ Cooldown \in Nat
    BY <1>1, NewestIsMade, ScheduleType DEF IInv, TimesOK
  <2>2. Planned # NoTime
    BY <2>0 DEF NextBackup
  <2>3. Planned \in Nat /\ Planned > last
    BY <1>1, <2>2, PlannedLater DEF IInv, Planned
  <2>4. NextBackup = Planned \/ (NextBackup = cool /\ (now < cool \/ cool > Planned))
    BY DEF NextBackup
  <2> HIDE DEF last
  <2> QED BY <2>0, <2>1, <2>3, <2>4
<1> QED BY <1>1, Invariance, PTL
=============================================================================
