-------------------------- MODULE RoutineFormProofs --------------------------
(***************************************************************************)
(* Proofs about RoutineForm, for any numbers of forms, routines, actions,  *)
(* names, edits, saves and failures: where two routines of one name come   *)
(* from, that an action that was added once is there once, and that a save *)
(* which says "Saved" means it.                                            *)
(***************************************************************************)
EXTENDS RoutineForm, FiniteSetTheorems, SequenceTheorems, TLAPS

-----------------------------------------------------------------------------
(* Lists.                                                                   *)

\* Induction on a number, with a set in the place of the predicate.
LEMMA Induction ==
    ASSUME NEW S, 0 \in S, \A n \in Nat : n \in S => n + 1 \in S
    PROVE  Nat \subseteq S
<1> SUFFICES ASSUME NEW t \in Nat, t \notin S
             PROVE  FALSE
  OBVIOUS
<1> DEFINE L == {n \in 0..t : n \in S}
           M == L \ {0}
           next == [n \in L |-> n + 1]
<1>1. IsFiniteSet(L) /\ 0 \in L
  <2>1. IsFiniteSet(0..t)
    BY FS_Interval
  <2> QED BY <2>1, FS_Subset
<1>2. IsFiniteSet(M) /\ Cardinality(M) = Cardinality(L) - 1 /\ Cardinality(L) \in Nat
  BY <1>1, FS_RemoveElement, FS_CardinalityType
<1>3. next \in [L -> M]
  OBVIOUS
<1>4. \A m, n \in L : m # n => next[m] # next[n]
  OBVIOUS
<1> HIDE DEF L, M, next
<1>5. Cardinality(M) < Cardinality(L)
  BY <1>2
<1> QED BY <1>1, <1>2, <1>3, <1>4, <1>5, FS_PigeonHole

\* KeptUpTo(l, S) is the function its definition describes.
LEMMA KeptUpToExist ==
    ASSUME NEW l, NEW S, Len(l) \in Nat
    PROVE  KeptUpTo(l, S) =
              [n \in 0..Len(l) |->
                  IF n = 0 THEN <<>>
                  ELSE IF l[n] \in S THEN Append(KeptUpTo(l, S)[n-1], l[n])
                  ELSE KeptUpTo(l, S)[n-1]]
<1> DEFINE Defined(k, m) ==
              k = [n \in 0..m |-> IF n = 0 THEN <<>>
                                  ELSE IF l[n] \in S THEN Append(k[n-1], l[n]) ELSE k[n-1]]
           Good == {m \in Nat : \E k : Defined(k, m)}
<1>1. 0 \in Good
  <2>1. Defined([n \in 0..0 |-> <<>>], 0)
    OBVIOUS
  <2> QED BY <2>1
<1>2. ASSUME NEW m \in Nat, m \in Good
      PROVE  m + 1 \in Good
  <2>0. PICK k : Defined(k, m)
    BY <1>2
  <2>1. \A n \in 0..m : k[n] = IF n = 0 THEN <<>>
                               ELSE IF l[n] \in S THEN Append(k[n-1], l[n]) ELSE k[n-1]
    <3> DEFINE h == [n \in 0..m |-> IF n = 0 THEN <<>>
                                    ELSE IF l[n] \in S THEN Append(k[n-1], l[n]) ELSE k[n-1]]
    <3>1. k = h
      BY <2>0
    <3>2. \A n \in 0..m : h[n] = IF n = 0 THEN <<>>
                               ELSE IF l[n] \in S THEN Append(k[n-1], l[n]) ELSE k[n-1]
      OBVIOUS
    <3> HIDE DEF h, Defined
    <3> QED BY <3>1, <3>2
  <2> HIDE DEF Defined
  <2> DEFINE j == [n \in 0..m+1 |->
                      IF n <= m THEN k[n]
                      ELSE IF l[n] \in S THEN Append(k[n-1], l[n]) ELSE k[n-1]]
  <2>2. \A n \in 0..m+1 : j[n] = IF n = 0 THEN <<>>
                                 ELSE IF l[n] \in S THEN Append(j[n-1], l[n]) ELSE j[n-1]
    <3> SUFFICES ASSUME NEW n \in 0..m+1
                 PROVE  j[n] = IF n = 0 THEN <<>>
                               ELSE IF l[n] \in S THEN Append(j[n-1], l[n]) ELSE j[n-1]
      OBVIOUS
    <3>1. CASE n <= m
      <4>1. k[n] = IF n = 0 THEN <<>> ELSE IF l[n] \in S THEN Append(k[n-1], l[n]) ELSE k[n-1]
        BY <2>1, <3>1
      <4>2. n # 0 => n-1 \in 0..m+1 /\ n-1 <= m
        BY <3>1
      <4>3. j[n] = k[n] /\ (n # 0 => j[n-1] = k[n-1])
        BY <3>1, <4>2
      <4> HIDE DEF j
      <4> QED BY <4>1, <4>3
    <3>2. CASE n = m + 1
      <4>1. j[m] = k[m]
        OBVIOUS
      <4> QED BY <3>2, <4>1
    <3> QED BY <3>1, <3>2
  <2>3. Defined(j, m + 1)
    <3> DEFINE g == [n \in 0..m+1 |->
                        IF n = 0 THEN <<>>
                        ELSE IF l[n] \in S THEN Append(j[n-1], l[n]) ELSE j[n-1]]
    <3>1. j = [n \in 0..m+1 |-> j[n]]
      OBVIOUS
    <3> HIDE DEF j
    <3>2. g = [n \in 0..m+1 |-> g[n]] /\ \A n \in 0..m+1 : g[n] = j[n]
      BY <2>2
    <3> HIDE DEF g
    <3>3. j = g
      BY <3>1, <3>2
    <3> QED BY <3>3 DEF g, Defined
  <2> HIDE DEF j
  <2> QED BY <2>3
<1>3. Len(l) \in Good
  <2> HIDE DEF Good
  <2> QED BY <1>1, <1>2, Induction
<1>4. PICK k : Defined(k, Len(l))
  BY <1>3
<1> QED BY <1>4 DEF KeptUpTo

LEMMA AppendFacts ==
    ASSUME NEW X, NEW s \in Seq(X), NEW x \in X
    PROVE  /\ Append(s, x) \in Seq(X) /\ Len(s) \in Nat /\ Len(Append(s, x)) = Len(s) + 1
           /\ \A i \in 1..Len(s) : Append(s, x)[i] = s[i]
           /\ Append(s, x)[Len(s) + 1] = x
           /\ ToSet(Append(s, x)) = ToSet(s) \union {x}
           /\ IsInjective(s) /\ x \notin ToSet(s) => IsInjective(Append(s, x))
<1> DEFINE t == Append(s, x)
<1>1. t \in Seq(X) /\ Len(t) = Len(s) + 1 /\ Len(s) \in Nat
  BY AppendProperties, LenProperties
<1>2. (\A i \in 1..Len(s) : t[i] = s[i]) /\ t[Len(s) + 1] = x
  BY AppendProperties, LenProperties
<1>3. DOMAIN s = 1..Len(s) /\ DOMAIN t = 1..Len(s) + 1
  BY <1>1, LenProperties
<1> HIDE DEF t
<1>4. ToSet(t) = ToSet(s) \union {x}
  BY <1>1, <1>2, <1>3 DEF ToSet
<1>5. IsInjective(s) /\ x \notin ToSet(s) => IsInjective(t)
  BY <1>1, <1>2, <1>3 DEF ToSet, IsInjective
<1> QED BY <1>1, <1>2, <1>4, <1>5 DEF t

\* Sequence k has the first n entries of l that are in S.
Keeps(k, l, S, n) ==
    /\ ToSet(k) = {l[i] : i \in 1..n} \intersect S
    /\ IsInjective(l) => IsInjective(k)
    /\ (\A i \in 1..n : l[i] \in S) => Len(k) = n /\ \A i \in 1..n : k[i] = l[i]

LEMMA KeepsNext ==
    ASSUME NEW X, NEW l \in Seq(X), NEW S, NEW m \in Nat, m + 1 <= Len(l),
           NEW k \in Seq(X), Keeps(k, l, S, m)
    PROVE  LET j == IF l[m+1] \in S THEN Append(k, l[m+1]) ELSE k
           IN  j \in Seq(X) /\ Keeps(j, l, S, m + 1)
<1>1. m + 1 \in 1..Len(l) /\ l[m+1] \in X /\ Len(l) \in Nat /\ DOMAIN l = 1..Len(l)
  BY LenProperties, ElementOfSeq
<1>2. {l[i] : i \in 1..m+1} = {l[i] : i \in 1..m} \union {l[m+1]}
  OBVIOUS
<1>3. CASE l[m+1] \notin S
  <2>1. \E i \in 1..m+1 : l[i] \notin S
    BY <1>3
  <2> QED BY <1>2, <1>3, <2>1 DEF Keeps
<1>4. CASE l[m+1] \in S
  <2> DEFINE j == Append(k, l[m+1])
  <2>1. /\ j \in Seq(X) /\ Len(k) \in Nat /\ Len(j) = Len(k) + 1
        /\ \A i \in 1..Len(k) : j[i] = k[i]
        /\ j[Len(k) + 1] = l[m+1]
        /\ ToSet(j) = ToSet(k) \union {l[m+1]}
        /\ IsInjective(k) /\ l[m+1] \notin ToSet(k) => IsInjective(j)
    BY <1>1, AppendFacts
  <2> HIDE DEF j
  <2>2. ToSet(j) = {l[i] : i \in 1..m+1} \intersect S
    BY <1>2, <1>4, <2>1 DEF Keeps
  <2>3. IsInjective(l) => l[m+1] \notin ToSet(k)
    BY <1>1 DEF Keeps, IsInjective
  <2>4. IsInjective(l) => IsInjective(j)
    BY <2>1, <2>3 DEF Keeps
  <2>5. ASSUME \A i \in 1..m+1 : l[i] \in S
        PROVE  Len(j) = m+1 /\ \A i \in 1..m+1 : j[i] = l[i]
    BY <2>1, <2>5 DEF Keeps
  <2> QED BY <1>4, <2>1, <2>2, <2>4, <2>5 DEF Keeps, j
<1> QED BY <1>3, <1>4

\* What the first n entries of l keep, by induction on n.
LEMMA PrefixFacts ==
    ASSUME NEW X, NEW l \in Seq(X), NEW S
    PROVE  \A n \in 0..Len(l) : KeptUpTo(l, S)[n] \in Seq(X) /\ Keeps(KeptUpTo(l, S)[n], l, S, n)
<1> DEFINE k == KeptUpTo(l, S)
           Good == {m \in Nat : m <= Len(l) => k[m] \in Seq(X) /\ Keeps(k[m], l, S, m)}
<1>1. Len(l) \in Nat
  BY LenProperties
<1>2. /\ k[0] = <<>>
      /\ \A m \in 1..Len(l) : k[m] = IF l[m] \in S THEN Append(k[m-1], l[m]) ELSE k[m-1]
  <2> DEFINE rec(p) == [m \in 0..Len(l) |-> IF m = 0 THEN <<>>
                            ELSE IF l[m] \in S THEN Append(p[m-1], l[m]) ELSE p[m-1]]
  <2>1. k = rec(k)
    BY <1>1, KeptUpToExist
  <2>2. \A p : \A m \in 0..Len(l) : rec(p)[m] = IF m = 0 THEN <<>>
                            ELSE IF l[m] \in S THEN Append(p[m-1], l[m]) ELSE p[m-1]
    OBVIOUS
  <2> HIDE DEF rec, k
  <2>3. \A m \in 0..Len(l) : k[m] =
            IF m = 0 THEN <<>> ELSE IF l[m] \in S THEN Append(k[m-1], l[m]) ELSE k[m-1]
    BY <2>1, <2>2
  <2> QED BY <1>1, <2>3
<1> HIDE DEF k
<1>3. 0 \in Good
  <2>1. Keeps(<<>>, l, S, 0) /\ <<>> \in Seq(X)
    BY EmptySeq DEF ToSet, IsInjective, Keeps
  <2> QED BY <1>2, <2>1
<1>4. \A m \in Nat : m \in Good => m + 1 \in Good
  <2> SUFFICES ASSUME NEW m \in Nat, m \in Good, m + 1 <= Len(l)
               PROVE  k[m+1] \in Seq(X) /\ Keeps(k[m+1], l, S, m + 1)
    OBVIOUS
  <2>1. k[m+1] = IF l[m+1] \in S THEN Append(k[m], l[m+1]) ELSE k[m]
    BY <1>1, <1>2
  <2>2. k[m] \in Seq(X) /\ Keeps(k[m], l, S, m)
    BY <1>1
  <2> QED BY <2>1, <2>2, KeepsNext
<1>5. Nat \subseteq Good
  <2> HIDE DEF Good
  <2> QED BY <1>3, <1>4, Induction
<1> QED BY <1>1, <1>5 DEF k

LEMMA OnlyFacts ==
    ASSUME NEW X, NEW l \in Seq(X), NEW S
    PROVE  /\ Only(l, S) \in Seq(X)
           /\ ToSet(Only(l, S)) = ToSet(l) \intersect S
           /\ IsInjective(l) => IsInjective(Only(l, S))
           /\ ToSet(l) \subseteq S => Only(l, S) = l
<1>1. Len(l) \in Nat /\ DOMAIN l = 1..Len(l)
  BY LenProperties
<1>2. Only(l, S) \in Seq(X) /\ Keeps(Only(l, S), l, S, Len(l))
  BY <1>1, PrefixFacts DEF Only
<1>3. ToSet(l) = {l[i] : i \in 1..Len(l)}
  BY <1>1 DEF ToSet
<1>4. ToSet(l) \subseteq S => Only(l, S) = l
  <2>1. ASSUME ToSet(l) \subseteq S
        PROVE  Len(Only(l, S)) = Len(l) /\ \A i \in 1..Len(l) : Only(l, S)[i] = l[i]
    BY <1>2, <1>3, <2>1 DEF Keeps
  <2> QED BY <1>2, <2>1, SeqEqual
<1> QED BY <1>2, <1>3, <1>4 DEF Keeps

\* What a list holds, and when it holds nothing twice.
LEMMA Members ==
    ASSUME NEW S, NEW s \in Seq(S)
    PROVE  /\ \A x : x \in ToSet(s) <=> \E k \in 1..Len(s) : s[k] = x
           /\ IsInjective(s) <=> \A j, k \in 1..Len(s) : s[j] = s[k] => j = k
           /\ ToSet(s) \subseteq S /\ Len(s) \in Nat
<1>1. DOMAIN s = 1..Len(s) /\ Len(s) \in Nat /\ \A k \in 1..Len(s) : s[k] \in S
  BY LenProperties, ElementOfSeq
<1> QED BY <1>1 DEF ToSet, IsInjective

\* Removing an entry lets nothing in and keeps a list free of repetitions.
LEMMA RemoveAtFacts ==
    ASSUME NEW S, NEW s \in Seq(S), NEW i \in 1..Len(s)
    PROVE  /\ RemoveAt(s, i) \in Seq(S)
           /\ ToSet(RemoveAt(s, i)) \subseteq ToSet(s)
           /\ IsInjective(s) => IsInjective(RemoveAt(s, i)) /\ s[i] \notin ToSet(RemoveAt(s, i))
<1> DEFINE u == SubSeq(s, 1, i-1)
           v == SubSeq(s, i+1, Len(s))
           t == RemoveAt(s, i)
<1>1. Len(s) \in Nat /\ \A k \in 1..Len(s) : s[k] \in S
  BY LenProperties, ElementOfSeq
<1>2. u \in Seq(S) /\ Len(u) = i-1 /\ \A k \in 1..i-1 : u[k] = s[k]
  <2>1. Len(u) = (IF 1 <= i-1 THEN i-1-1+1 ELSE 0) /\ u \in Seq(S)
        /\ \A k \in 1..(i-1)-1+1 : u[k] = s[1+k-1]
    BY <1>1, SubSeqProperties
  <2> QED BY <2>1, <1>1
<1>3. v \in Seq(S) /\ Len(v) = Len(s)-i /\ \A k \in 1..Len(s)-i : v[k] = s[k+i]
  <2>1. Len(v) = (IF i+1 <= Len(s) THEN Len(s)-(i+1)+1 ELSE 0) /\ v \in Seq(S)
        /\ \A k \in 1..Len(s)-(i+1)+1 : v[k] = s[(i+1)+k-1]
    BY <1>1, SubSeqProperties
  <2> QED BY <2>1, <1>1
<1>4. t = u \o v
  BY DEF RemoveAt
<1> HIDE DEF u, v, t
<1>5. /\ t \in Seq(S) /\ Len(t) = Len(u) + Len(v)
      /\ \A k \in 1..Len(u) + Len(v) : t[k] = IF k <= Len(u) THEN u[k] ELSE v[k-Len(u)]
  BY <1>2, <1>3, <1>4, ConcatProperties, Zenon
<1>6. /\ Len(t) = Len(s)-1 /\ \A k \in 1..i-1 : t[k] = u[k]
      /\ \A k \in i..Len(s)-1 : t[k] = v[k-(i-1)]
  <2>1. Len(t) = (i-1) + (Len(s)-i)
        /\ \A k \in 1..(i-1) + (Len(s)-i) : t[k] = IF k <= i-1 THEN u[k] ELSE v[k-(i-1)]
    BY <1>2, <1>3, <1>5
  <2>2. \A k \in 1..Len(s)-1 : t[k] = IF k <= i-1 THEN u[k] ELSE v[k-(i-1)]
    BY <1>1, <2>1
  <2> QED BY <1>1, <2>1, <2>2
<1> DEFINE old(k) == IF k < i THEN k ELSE k+1
<1>7. \A k \in 1..Len(s)-1 : t[k] = s[old(k)]
  <2> SUFFICES ASSUME NEW k \in 1..Len(s)-1
               PROVE  t[k] = s[old(k)]
    OBVIOUS
  <2>1. CASE k < i
    <3>1. k \in 1..i-1
      BY <1>1, <2>1
    <3> QED BY <1>2, <1>6, <2>1, <3>1
  <2>2. CASE k >= i
    <3>1. k \in i..Len(s)-1 /\ k-(i-1) \in 1..Len(s)-i /\ k-(i-1)+i = k+1
      BY <1>1, <2>2
    <3>2. t[k] = s[k+1]
      BY <1>3, <1>6, <3>1
    <3> QED BY <1>1, <2>2, <3>2
  <2> QED BY <1>1, <2>1, <2>2
<1>8. /\ \A k \in 1..Len(s)-1 : old(k) \in 1..Len(s) /\ old(k) # i
      /\ \A k, m \in 1..Len(s)-1 : old(k) = old(m) => k = m
  BY <1>1
<1> HIDE DEF old
<1>9. /\ \A y : y \in ToSet(s) <=> \E k \in 1..Len(s) : s[k] = y
      /\ IsInjective(s) <=> \A j, k \in 1..Len(s) : s[j] = s[k] => j = k
  BY Members
<1>10. /\ \A y : y \in ToSet(t) <=> \E k \in 1..Len(s)-1 : t[k] = y
       /\ IsInjective(t) <=> \A j, k \in 1..Len(s)-1 : t[j] = t[k] => j = k
  <2>1. /\ \A y : y \in ToSet(t) <=> \E k \in 1..Len(t) : t[k] = y
        /\ IsInjective(t) <=> \A j, k \in 1..Len(t) : t[j] = t[k] => j = k
    BY <1>5, Members
  <2> QED BY <1>6, <2>1
<1>11. ToSet(t) \subseteq ToSet(s)
  BY <1>7, <1>8, <1>9, <1>10
<1>12. ASSUME IsInjective(s)
       PROVE  IsInjective(t) /\ s[i] \notin ToSet(t)
  <2>1. ASSUME NEW j \in 1..Len(s)-1, NEW k \in 1..Len(s)-1, t[j] = t[k]
        PROVE  j = k
    <3>1. s[old(j)] = s[old(k)] /\ old(j) \in 1..Len(s) /\ old(k) \in 1..Len(s)
      BY <1>7, <1>8, <2>1
    <3>2. old(j) = old(k)
      BY <1>9, <1>12, <3>1
    <3> QED BY <1>8, <3>2
  <2>2. ASSUME NEW k \in 1..Len(s)-1, t[k] = s[i]
        PROVE  FALSE
    <3>1. s[old(k)] = s[i] /\ old(k) \in 1..Len(s) /\ old(k) # i
      BY <1>7, <1>8, <2>2
    <3> QED BY <1>9, <1>12, <3>1
  <2> QED BY <1>10, <2>1, <2>2
<1> QED BY <1>5, <1>11, <1>12 DEF t

\* A new first entry.
LEMMA InsertFirstFacts ==
    ASSUME NEW S, NEW s \in Seq(S), NEW x \in S
    PROVE  /\ InsertAt(s, 1, x) \in Seq(S)
           /\ ToSet(InsertAt(s, 1, x)) = ToSet(s) \union {x}
           /\ IsInjective(s) /\ x \notin ToSet(s) => IsInjective(InsertAt(s, 1, x))
<1> DEFINE u == SubSeq(s, 1, 0)
           v == SubSeq(s, 1, Len(s))
           t == InsertAt(s, 1, x)
<1>1. Len(s) \in Nat /\ \A k \in 1..Len(s) : s[k] \in S
  BY LenProperties, ElementOfSeq
<1>2. u \in Seq(S) /\ Len(u) = 0
  <2>1. Len(u) = (IF 1 <= 0 THEN 0-1+1 ELSE 0) /\ u \in Seq(S)
    BY <1>1, SubSeqProperties
  <2> QED BY <2>1
<1>3. v \in Seq(S) /\ Len(v) = Len(s) /\ \A k \in 1..Len(s) : v[k] = s[k]
  <2>1. Len(v) = (IF 1 <= Len(s) THEN Len(s)-1+1 ELSE 0) /\ v \in Seq(S)
        /\ \A k \in 1..Len(s)-1+1 : v[k] = s[1+k-1]
    BY <1>1, SubSeqProperties
  <2> QED BY <2>1, <1>1
<1>4. t = u \o <<x>> \o v
  BY DEF InsertAt
<1>5. <<x>> \in Seq(S) /\ Len(<<x>>) = 1 /\ <<x>>[1] = x
  OBVIOUS
<1> HIDE DEF u, v, t
<1> DEFINE h == u \o <<x>>
<1>6. h \in Seq(S) /\ Len(h) = 1 /\ h[1] = x
  BY <1>2, <1>5, ConcatProperties
<1>7. t = h \o v
  BY <1>4
<1> HIDE DEF h
<1>8. /\ t \in Seq(S) /\ Len(t) = Len(h) + Len(v)
      /\ \A k \in 1..Len(h) + Len(v) : t[k] = IF k <= Len(h) THEN h[k] ELSE v[k-Len(h)]
  <2>1. h \in Seq(S) /\ v \in Seq(S)
    BY <1>3, <1>6
  <2> QED BY <1>7, <2>1, ConcatProperties, Zenon
<1>9. Len(t) = Len(s)+1 /\ t[1] = x /\ \A k \in 2..Len(s)+1 : k-1 \in 1..Len(s) /\ t[k] = s[k-1]
  BY <1>1, <1>3, <1>6, <1>8
<1>10. \A k \in 1..Len(s) : k+1 \in 2..Len(s)+1 /\ t[k+1] = s[k]
  BY <1>1, <1>9
<1>11. /\ \A y : y \in ToSet(s) <=> \E k \in 1..Len(s) : s[k] = y
       /\ IsInjective(s) <=> \A j, k \in 1..Len(s) : s[j] = s[k] => j = k
  BY Members
<1>12. /\ \A y : y \in ToSet(t) <=> \E k \in 1..Len(s)+1 : t[k] = y
       /\ IsInjective(t) <=> \A j, k \in 1..Len(s)+1 : t[j] = t[k] => j = k
  <2>1. /\ \A y : y \in ToSet(t) <=> \E k \in 1..Len(t) : t[k] = y
        /\ IsInjective(t) <=> \A j, k \in 1..Len(t) : t[j] = t[k] => j = k
    BY <1>8, Members
  <2> QED BY <1>9, <2>1
<1>13. ToSet(t) = ToSet(s) \union {x}
  <2>1. \A y \in ToSet(t) : y \in ToSet(s) \union {x}
    BY <1>1, <1>9, <1>11, <1>12
  <2>2. \A y \in ToSet(s) \union {x} : y \in ToSet(t)
    BY <1>1, <1>9, <1>10, <1>11, <1>12
  <2> QED BY <2>1, <2>2
<1>14. IsInjective(s) /\ x \notin ToSet(s) => IsInjective(t)
  BY <1>1, <1>9, <1>11, <1>12
<1> QED BY <1>8, <1>13, <1>14 DEF t

\* The first entry of a list, and the rest.
LEMMA TailFacts ==
    ASSUME NEW S, NEW s \in Seq(S), s # <<>>
    PROVE  /\ Head(s) \in S /\ Head(s) \in ToSet(s) /\ Head(s) = s[1]
           /\ Tail(s) \in Seq(S) /\ Len(s) \in Nat \ {0} /\ Len(Tail(s)) = Len(s) - 1
           /\ \A i \in 1..Len(s) - 1 : Tail(s)[i] = s[i+1]
           /\ ToSet(s) = ToSet(Tail(s)) \union {Head(s)}
           /\ IsInjective(s) => IsInjective(Tail(s)) /\ Head(s) \notin ToSet(Tail(s))
<1> DEFINE t == Tail(s)
<1>1. Len(s) \in Nat \ {0} /\ \A k \in 1..Len(s) : s[k] \in S
  BY LenProperties, ElementOfSeq, EmptySeq
<1>2. /\ Head(s) = s[1] /\ t \in Seq(S) /\ Len(t) = Len(s) - 1
      /\ \A i \in 1..Len(t) : t[i] = s[i+1]
  BY <1>1, HeadTailProperties
<1> HIDE DEF t
<1>3. \A i \in 1..Len(s)-1 : i+1 \in 1..Len(s) /\ t[i] = s[i+1]
  BY <1>1, <1>2
<1>4. \A k \in 1..Len(s) : k = 1 \/ (k-1 \in 1..Len(s)-1 /\ s[k] = t[k-1])
  BY <1>1, <1>3
<1>5. /\ \A y : y \in ToSet(s) <=> \E k \in 1..Len(s) : s[k] = y
      /\ IsInjective(s) <=> \A j, k \in 1..Len(s) : s[j] = s[k] => j = k
  BY Members
<1>6. /\ \A y : y \in ToSet(t) <=> \E k \in 1..Len(s)-1 : t[k] = y
      /\ IsInjective(t) <=> \A j, k \in 1..Len(s)-1 : t[j] = t[k] => j = k
  <2>1. /\ \A y : y \in ToSet(t) <=> \E k \in 1..Len(t) : t[k] = y
        /\ IsInjective(t) <=> \A j, k \in 1..Len(t) : t[j] = t[k] => j = k
    BY <1>2, Members
  <2> QED BY <1>2, <2>1
<1>7. ToSet(s) = ToSet(t) \union {s[1]}
  <2>1. \A y \in ToSet(t) \union {s[1]} : y \in ToSet(s)
    BY <1>1, <1>3, <1>5, <1>6
  <2>2. \A y \in ToSet(s) : y \in ToSet(t) \union {s[1]}
    BY <1>1, <1>4, <1>5, <1>6
  <2> QED BY <2>1, <2>2
<1>8. IsInjective(s) => IsInjective(t) /\ s[1] \notin ToSet(t)
  BY <1>1, <1>3, <1>5, <1>6
<1> QED BY <1>1, <1>2, <1>3, <1>7, <1>8, <1>5 DEF t

-----------------------------------------------------------------------------
(* Names.                                                                   *)

Pcs == Saving \union {"open", "closed"}

\* The part of TypeOK the names depend on.
Typed ==
    /\ name \in [Routines -> Names \union {None}]
    /\ pc \in [Forms -> Pcs]
    /\ target \in [Forms -> Routines \union {None}]
    /\ title \in [Forms -> Names \union {None}]
    /\ \A f \in Forms : pc[f] = "update" => target[f] # None

\* The name of a creation past its check is still free, unless it was raced for.
CheckHolds ==
    \A f \in Forms, r \in Routines :
        pc[f] = "insert" /\ Exists(r) /\ Lower[name[r]] = Lower[title[f]] =>
            Lower[title[f]] \in raced

\* and no other creation of that name is past its check.
OneInsert ==
    \A f, g \in Forms :
        pc[f] = "insert" /\ pc[g] = "insert" /\ Lower[title[f]] = Lower[title[g]] /\ f # g =>
            Lower[title[f]] \in raced

Clashes == CheckHolds /\ OneInsert /\ NamesClashForCause

IInv == Typed /\ Clashes

LEMMA InitInv == Init => IInv
<1> SUFFICES ASSUME Init
             PROVE  IInv
  OBVIOUS
<1>1. /\ name = [r \in Routines |-> IF r = OldRoutine THEN OldName ELSE None]
      /\ pc = [f \in Forms |-> "closed"] /\ target = [f \in Forms |-> None]
      /\ title = [f \in Forms |-> None]
  BY DEF Init
<1>2. Typed
  BY <1>1, DataAssumption DEF Typed, Pcs
<1>3. Clashes
  BY <1>1 DEF Clashes, CheckHolds, OneInsert, NamesClashForCause, Exists
<1> QED BY <1>2, <1>3 DEF IInv

\* A step that names no routine and lets no form past the check.
LEMMA Harmless ==
    ASSUME Clashes, UNCHANGED <<name, raced>>,
           \A f \in Forms : pc'[f] = "insert" => pc[f] = "insert" /\ title'[f] = title[f]
    PROVE  Clashes'
<1>1. CheckHolds'
  BY DEF Clashes, CheckHolds, Exists
<1>2. OneInsert'
  BY DEF Clashes, OneInsert
<1>3. NamesClashForCause'
  BY DEF Clashes, NamesClashForCause, Exists
<1> QED BY <1>1, <1>2, <1>3 DEF Clashes

\* A save or a form that is over.
LEMMA OverTyped ==
    ASSUME Typed, NEW f \in Forms, NEW p \in Pcs \ {"update", "insert"}, Goto(f, p),
           UNCHANGED <<target, title>>, name' \in [Routines -> Names \union {None}]
    PROVE  /\ Typed'
           /\ \A g \in Forms : pc'[g] = "insert" => pc[g] = "insert" /\ title'[g] = title[g]
BY DEF Typed, Goto

\* A save that fails goes back to its form, unless that was left.
LEMMA Failing ==
    ASSUME NEW f \in Forms, NEW S, NEW D, FailHaving(f, S, D)
    PROVE  /\ \E p \in {"open", "closed"} : Finish(f, p, S) /\ Goto(f, p) /\ (p = "open" <=> f \notin left)
           /\ touched' = touched
BY DEF FailHaving, Finish

LEMMA StepInv == IInv /\ [Next]_vars => IInv'
<1> SUFFICES ASSUME IInv, [Next]_vars
             PROVE  IInv'
  OBVIOUS
<1>0. Typed /\ Clashes /\ name \in [Routines -> Names \union {None}]
  BY DEF IInv, Typed
<1>1. ASSUME NEW f \in Forms, NEW p \in Pcs \ {"update", "insert"}, Goto(f, p),
             UNCHANGED <<target, title, name, raced>>
      PROVE  IInv'
  BY <1>0, <1>1, OverTyped, Harmless DEF IInv
<1>2. ASSUME UNCHANGED <<pc, target, title, name, raced>>
      PROVE  IInv'
  <2>1. Typed'
    BY <1>0, <1>2 DEF Typed
  <2> QED BY <1>0, <1>2, <2>1, Harmless DEF IInv
<1>3. ASSUME NEW f \in Forms, NEW r \in Routines \union {None}, Open(f, r)
      PROVE  IInv'
  <2>1. Typed'
    <3>1. \E n \in Names \union {None} : title' = [title EXCEPT ![f] = n]
      BY <1>0, <1>3 DEF Open
    <3> QED BY <1>0, <1>3, <3>1 DEF Open, Typed, Pcs, database
  <2>2. \A g \in Forms : pc'[g] = "insert" => pc[g] = "insert" /\ title'[g] = title[g]
    BY <1>0, <1>3 DEF Open, Typed
  <2>3. UNCHANGED <<name, raced>>
    BY <1>3 DEF Open, database, history
  <2> QED BY <1>0, <2>1, <2>2, <2>3, Harmless DEF IInv
<1>4. ASSUME NEW f \in Forms, AddAction(f) \/ \E i \in 1..Len(local[f]) : RemoveAction(f, i) \/ MoveAction(f, i)
      PROVE  IInv'
  <2>1. UNCHANGED <<pc, target, title, name, raced>>
    BY <1>4 DEF AddAction, RemoveAction, MoveAction, Edit, database
  <2> QED BY <1>2, <2>1
<1>5. ASSUME NEW f \in Forms, NEW n \in Names, ChangeName(f, n)
      PROVE  IInv'
  <2>1. /\ UNCHANGED <<pc, target, name, raced>>
        /\ pc[f] = "open" /\ title' = [title EXCEPT ![f] = n]
    BY <1>5 DEF ChangeName, Edit, database
  <2>2. Typed'
    BY <1>0, <2>1 DEF Typed
  <2>3. \A g \in Forms : pc'[g] = "insert" => pc[g] = "insert" /\ title'[g] = title[g]
    BY <1>0, <2>1 DEF Typed
  <2> QED BY <1>0, <2>1, <2>2, <2>3, Harmless DEF IInv
<1>6. ASSUME NEW f \in Forms, StartSave(f)
      PROVE  IInv'
  <2>1. /\ UNCHANGED <<target, title, name, raced>>
        /\ pc' = [pc EXCEPT ![f] = IF Creates(f) THEN "check" ELSE "update"]
    BY <1>6 DEF StartSave, database, form
  <2>2. Typed' /\ \A g \in Forms : pc'[g] = "insert" => pc[g] = "insert" /\ title'[g] = title[g]
    BY <1>0, <2>1 DEF Typed, Pcs, Saving, Creates
  <2> QED BY <1>0, <2>1, <2>2, Harmless DEF IInv
<1>7. ASSUME NEW f \in Forms, Leave(f)
      PROVE  IInv'
  <2>1. UNCHANGED <<target, title, name, raced>> /\ (UNCHANGED pc \/ Goto(f, "closed"))
    BY <1>7 DEF Leave, Finish, database
  <2> QED BY <1>1, <1>2, <2>1 DEF Pcs
<1>8. ASSUME NEW f \in Forms, StartCreating(f)
      PROVE  IInv'
  BY <1>1, <1>8 DEF StartCreating, database, form, history, Pcs, Saving
<1>9. ASSUME NEW f \in Forms, NEW o \in {"ok", "error"}, CheckName(f, o)
      PROVE  IInv'
  <2>1. UNCHANGED <<name, target, title>>
    BY <1>9 DEF CheckName, database, form
  <2>2. CASE Fail(f, {}) /\ UNCHANGED raced
    <3>1. \E p \in {"open", "closed"} : Goto(f, p)
      BY <2>2, Failing DEF Fail
    <3> QED BY <1>1, <2>1, <2>2, <3>1 DEF Pcs
  <2>3. CASE /\ \A r \in Routines : Exists(r) => Lower[name[r]] # Lower[title[f]]
             /\ Goto(f, "insert")
             /\ raced' = IF {g \in Forms : pc[g] = "insert" /\ Lower[title[g]] = Lower[title[f]]} # {}
                         THEN raced \union {Lower[title[f]]} ELSE raced
    <3>1. /\ pc'[f] = "insert"
          /\ \A g \in Forms \ {f} : pc'[g] = pc[g]
      BY <1>0, <2>3 DEF Goto, Typed
    <3>2. Typed'
      BY <1>0, <2>1, <2>3 DEF Goto, Typed, Pcs, Saving
    <3>3. raced \subseteq raced'
      BY <2>3
    <3>4. CheckHolds'
      BY <1>0, <2>1, <2>3, <3>1, <3>3 DEF Clashes, CheckHolds, Exists
    <3>5. \A g \in Forms : pc[g] = "insert" /\ Lower[title[g]] = Lower[title[f]] =>
                               Lower[title[f]] \in raced'
      BY <2>3
    <3>6. OneInsert'
      BY <1>0, <2>1, <3>1, <3>3, <3>5 DEF Clashes, OneInsert
    <3>7. NamesClashForCause'
      BY <1>0, <2>1, <3>3 DEF Clashes, NamesClashForCause, Exists
    <3> QED BY <3>2, <3>4, <3>6, <3>7 DEF IInv, Clashes
  <2> QED BY <1>9, <2>2, <2>3 DEF CheckName
<1>10. ASSUME NEW f \in Forms, NEW o \in Outcomes, Insert(f, o)
       PROVE  IInv'
  <2> DEFINE r == NextOf(FreshRoutines)
  <2>1. r \in Routines /\ ~ Exists(r)
    BY <1>10 DEF Insert, NextOf, FreshRoutines
  <2>2. /\ name' = IF o = "error" THEN name ELSE [name EXCEPT ![r] = title[f]]
        /\ UNCHANGED <<target, title, raced>> /\ pc[f] = "insert"
        /\ \E p \in {"open", "closed", "create"} : Goto(f, p)
    <3>1. ASSUME Fail(f, {})
          PROVE  \E p \in {"open", "closed", "create"} : Goto(f, p)
      <4>1. \E p \in {"open", "closed"} : Goto(f, p)
        BY <3>1, Failing DEF Fail
      <4> QED BY <4>1
    <3>2. ASSUME Finish(f, "closed", {})
          PROVE  \E p \in {"open", "closed", "create"} : Goto(f, p)
      BY <3>2 DEF Finish
    <3> QED BY <1>10, <3>1, <3>2 DEF Insert, form
  <2>3. name' \in [Routines -> Names \union {None}]
    BY <1>0, <2>1, <2>2 DEF Typed
  <2>4. Typed' /\ \A g \in Forms : pc'[g] = "insert" => pc[g] = "insert" /\ title'[g] = title[g]
    BY <1>0, <2>2, <2>3, OverTyped DEF Pcs, Saving
  <2>5. CASE o = "error"
    BY <1>0, <2>2, <2>4, <2>5, Harmless DEF IInv
  <2>6. CASE o # "error"
    <3>1. /\ name'[r] = title[f] /\ \A s \in Routines \ {r} : name'[s] = name[s]
          /\ \A g \in Forms : pc'[g] = "insert" => g # f
      BY <1>0, <2>1, <2>2, <2>6 DEF Typed, Goto
    <3>2. \A s \in Routines : Exists(s) /\ Lower[name[s]] = Lower[title[f]] => Lower[title[f]] \in raced
      BY <1>0, <2>2 DEF Clashes, CheckHolds
    <3>3. \A g \in Forms : pc'[g] = "insert" /\ Lower[title[g]] = Lower[title[f]] => Lower[title[f]] \in raced
      BY <1>0, <2>2, <2>4, <3>1 DEF Clashes, OneInsert
    <3>4. CheckHolds'
      BY <1>0, <2>2, <2>4, <3>1, <3>3 DEF Clashes, CheckHolds, Exists
    <3>5. OneInsert'
      BY <1>0, <2>2, <2>4 DEF Clashes, OneInsert
    <3>6. NamesClashForCause'
      BY <1>0, <2>2, <3>1, <3>2 DEF Clashes, NamesClashForCause, Exists
    <3> QED BY <2>4, <3>4, <3>5, <3>6 DEF IInv, Clashes
  <2> QED BY <2>5, <2>6
<1>11. ASSUME NEW f \in Forms, NEW o \in Outcomes, Update(f, o)
       PROVE  IInv'
  <2> DEFINE r == target[f]
  <2>1. /\ r \in Routines /\ UNCHANGED <<target, title>>
        /\ name' = IF o = "error" THEN name ELSE [name EXCEPT ![r] = title[f]]
        /\ raced' = IF name'[r] # name[r] THEN raced \union {Lower[title[f]]} ELSE raced
        /\ \E p \in {"open", "closed", "delete"} : Goto(f, p)
    <3>1. ASSUME Fail(f, {})
          PROVE  \E p \in {"open", "closed", "delete"} : Goto(f, p)
      <4>1. \E p \in {"open", "closed"} : Goto(f, p)
        BY <3>1, Failing DEF Fail
      <4> QED BY <4>1
    <3> QED BY <1>0, <1>11, <3>1 DEF Update, form, Typed
  <2>2. name' \in [Routines -> Names \union {None}]
    BY <1>0, <2>1 DEF Typed
  <2>3. Typed' /\ \A g \in Forms : pc'[g] = "insert" => pc[g] = "insert" /\ title'[g] = title[g]
    BY <1>0, <2>1, <2>2, OverTyped DEF Pcs, Saving
  <2>4. CASE name' = name
    BY <1>0, <2>1, <2>3, <2>4, Harmless DEF IInv
  <2>5. CASE name' # name
    <3>1. /\ name'[r] = title[f] /\ \A s \in Routines \ {r} : name'[s] = name[s]
          /\ raced' = raced \union {Lower[title[f]]}
      BY <1>0, <2>1, <2>5 DEF Typed
    <3>2. CheckHolds'
      BY <1>0, <2>1, <2>3, <3>1 DEF Clashes, CheckHolds, Exists
    <3>3. OneInsert'
      BY <1>0, <2>3, <3>1 DEF Clashes, OneInsert
    <3>4. NamesClashForCause'
      BY <1>0, <3>1 DEF Clashes, NamesClashForCause, Exists
    <3> QED BY <2>3, <3>2, <3>3, <3>4 DEF IInv, Clashes
  <2> QED BY <2>4, <2>5
<1>12. ASSUME NEW f \in Forms, NEW o \in Outcomes, NEW a \in Actions, DeleteAction(f, a, o)
       PROVE  IInv'
  <2>1. UNCHANGED <<target, title, name, raced>>
    BY <1>12 DEF DeleteAction, form
  <2>2. UNCHANGED pc \/ Goto(f, "open") \/ Goto(f, "closed")
    <3>1. ASSUME Fail(f, awaited[f] \ {a})
          PROVE  Goto(f, "open") \/ Goto(f, "closed")
      <4>1. \E p \in {"open", "closed"} : Goto(f, p)
        BY <3>1, Failing DEF Fail
      <4> QED BY <4>1
    <3> QED BY <1>12, <3>1 DEF DeleteAction
  <2> QED BY <1>1, <1>2, <2>1, <2>2 DEF Pcs
<1>13. ASSUME NEW f \in Forms, NEW o \in Outcomes,
              CreateAction(f, o) \/ ReadOrder(f, o) \/ WriteOrder(f, o) \/ RefuseOrder(f) \/ SkipOrder(f)
       PROVE  IInv'
  <2>1. UNCHANGED <<target, title, name, raced>>
    BY <1>13 DEF CreateAction, ReadOrder, WriteOrder, RefuseOrder, SkipOrder, database, form, history
  <2>2. ASSUME NEW D, FailHaving(f, {}, D)
        PROVE  Goto(f, "open") \/ Goto(f, "closed")
    <3>1. \E p \in {"open", "closed"} : Goto(f, p)
      BY <2>2, Failing
    <3> QED BY <3>1
  <2>3. UNCHANGED pc \/ Goto(f, "open") \/ Goto(f, "closed") \/ Goto(f, "order")
    <3>1. CASE CreateAction(f, o)
      BY <2>2, <3>1 DEF CreateAction
    <3>2. CASE ReadOrder(f, o)
      BY <2>2, <3>2 DEF ReadOrder, Fail
    <3>3. CASE WriteOrder(f, o)
      BY <2>2, <3>3 DEF WriteOrder, Fail, Finish
    <3>4. CASE RefuseOrder(f) \/ SkipOrder(f)
      BY <2>2, <3>4 DEF RefuseOrder, SkipOrder, Fail, Finish
    <3> QED BY <1>13, <3>1, <3>2, <3>3, <3>4
  <2> QED BY <1>1, <1>2, <2>1, <2>3 DEF Pcs, Saving
<1>14. ASSUME NEW a \in Actions, NEW o \in {"ok", "error"}, StrayDelete(a, o)
       PROVE  IInv'
  BY <1>2, <1>14 DEF StrayDelete, form, history
<1>15. CASE UNCHANGED vars
  BY <1>2, <1>15 DEF vars, database, form, history
<1>16. ASSUME NEW f \in Forms, User(f)
       PROVE  IInv'
  BY <1>3, <1>4, <1>5, <1>6, <1>7, <1>16 DEF User
<1>17. ASSUME NEW f \in Forms, Send(f)
       PROVE  IInv'
  BY <1>8, <1>9, <1>10, <1>11, <1>12, <1>13, <1>17 DEF Send, Outcomes
<1> QED BY <1>14, <1>15, <1>16, <1>17 DEF Next

\* Two routines have one name only if their creations overlapped or an update
\* wrote it, for any numbers of forms and routines and any failures:
\* create_routine_handler (routine_routes.py:142) checks before it inserts.
THEOREM NamesClashOnlyForCause == Spec => []NamesClashForCause
<1>1. IInv => NamesClashForCause
  BY DEF IInv, Clashes
<1> QED BY <1>1, InitInv, StepInv, PTL DEF Spec

-----------------------------------------------------------------------------
(* Every action that was added is in the routine once, and a save that says *)
(* "Saved" means it.                                                        *)

\* A routine's list is free of repetitions, and what is in it was there at the
\* start or was created from a draft.
Lists ==
    \A r \in Routines :
        /\ IsInjective(list[r])
        /\ \A a \in ToSet(list[r]) : origin[a] # None \/ a \in ToSet(OldActions)

\* Only a save that failed after it had created an action is followed by another
\* that creates it again.
Origins ==
    \A a, b \in Actions : a # b /\ origin[a] = origin[b] /\ origin[a] # None => origin[a] \in remade

\* The drafts a form has, or has still to send.
DraftsIn(f) == (ToSet(local[f]) \union ToSet(todo[f])) \intersect Drafts

\* No draft is in two forms.
Apart == \A f, g \in Forms : f # g => DraftsIn(f) \intersect DraftsIn(g) = {}

\* Where a form's save can be.
Course(f) ==
    /\ pc[f] \in {"update", "delete"} => ~ Creates(f)
    /\ pc[f] \in {"check", "insert"} => Creates(f)
    /\ pc[f] \in {"create", "order"} => RoutineOf(f) # None
    /\ Creates(f) => ToSet(local[f]) \subseteq Drafts
    /\ pc[f] # "create" => todo[f] = <<>>
    /\ pc[f] \notin {"create", "order"} => made[f] = <<>>
    /\ f \in left => pc[f] # "open" /\ f \in touched

\* What a save has made, and has still to make.
Sends(f) ==
    /\ IsInjective(local[f]) /\ IsInjective(todo[f])
    /\ \A m \in ToSet(made[f]) : origin[m[2]] = m[1]
    /\ ToSet(todo[f]) \intersect MadeDrafts(f) = {}

\* A draft of an open form that some action was created from was created by the
\* save that runs, or by one that failed.
Known(f) ==
    pc[f] # "closed" =>
        \A d \in DraftsIn(f) : d \in Range(origin) => d \in remade \union MadeDrafts(f)

\* Unless the form was edited meanwhile, every draft of it was made or will be;
\* if it creates a routine, in the order of the form.
Complete(f) ==
    pc[f] = "create" /\ f \notin touched =>
        /\ ToSet(local[f]) \intersect Drafts \subseteq ToSet(todo[f]) \union MadeDrafts(f)
        /\ Creates(f) =>
            /\ Len(local[f]) = Len(made[f]) + Len(todo[f])
            /\ \A i \in 1..Len(made[f]) : made[f][i][1] = local[f][i]
            /\ \A i \in 1..Len(todo[f]) : todo[f][i] = local[f][Len(made[f]) + i]

\* Action a is the entry x of a form, or was created from it.
Shows(a, x) == IF x \in Drafts THEN origin[a] = x ELSE a = x

\* The order being written is one of the actions that were read and, unless the form
\* was edited meanwhile, shows what the form does.
Ordered(f) ==
    pc[f] = "order" =>
        /\ IsInjective(ids[f]) /\ ToSet(ids[f]) = ToSet(seen[f])
        /\ f \notin touched =>
            /\ Len(ids[f]) = Len(local[f])
            /\ \A i \in 1..Len(local[f]) : Shows(ids[f][i], local[f][i])

FormInv(f) == Course(f) /\ Sends(f) /\ Known(f) /\ Complete(f) /\ Ordered(f)

SaveInv == TypeOK /\ Lists /\ Origins /\ Apart /\ \A f \in Forms : FormInv(f)

\* A step that leaves every form but f alone.
Elsewhere(f) ==
    \A g \in Forms \ {f} :
        /\ pc'[g] = pc[g] /\ target'[g] = target[g] /\ local'[g] = local[g]
        /\ todo'[g] = todo[g] /\ made'[g] = made[g] /\ (g \in touched => g \in touched')
        /\ ids'[g] = ids[g] /\ seen'[g] = seen[g] /\ created'[g] = created[g]
        /\ (g \in left' <=> g \in left)

\* What no step takes back.
Grows ==
    /\ remade \subseteq remade'
    /\ \A a \in Actions : origin[a] # None => origin'[a] = origin[a]

\* What the type invariant says of one form.
LEMMA FormTypes ==
    ASSUME TypeOK, NEW f \in Forms
    PROVE  /\ local[f] \in Seq(Actions \union Drafts) /\ ToSet(local[f]) \subseteq Actions \union Drafts
           /\ todo[f] \in Seq(Drafts) /\ ToSet(todo[f]) \subseteq Drafts
           /\ made[f] \in Seq(Drafts \X Actions)
           /\ \A m \in ToSet(made[f]) : m[1] \in Drafts /\ m[1] # None /\ m[2] \in Actions
<1>1. /\ local[f] \in Seq(Actions \union Drafts) /\ todo[f] \in Seq(Drafts)
      /\ made[f] \in Seq(Drafts \X Actions)
  BY DEF TypeOK
<1>2. ToSet(local[f]) \subseteq Actions \union Drafts /\ ToSet(todo[f]) \subseteq Drafts
  BY <1>1, Members
<1>3. ToSet(made[f]) \subseteq Drafts \X Actions
  BY <1>1, Members
<1> QED BY <1>1, <1>2, <1>3, DataAssumption

LEMMA OtherForms ==
    ASSUME SaveInv, NEW f \in Forms, Elsewhere(f), Grows, NEW g \in Forms \ {f},
           \A d \in DraftsIn(g) : d \in Range(origin') => d \in Range(origin)
    PROVE  FormInv(g)' /\ DraftsIn(g)' = DraftsIn(g)
<1>1. /\ pc'[g] = pc[g] /\ target'[g] = target[g] /\ local'[g] = local[g]
      /\ todo'[g] = todo[g] /\ made'[g] = made[g] /\ (g \in touched => g \in touched')
      /\ remade \subseteq remade' /\ ids'[g] = ids[g] /\ seen'[g] = seen[g]
      /\ created'[g] = created[g] /\ (g \in left' <=> g \in left)
  BY DEF Elsewhere, Grows
<1>2. FormInv(g) /\ TypeOK
  BY DEF SaveInv
<1>3. DraftsIn(g)' = DraftsIn(g) /\ MadeDrafts(g)' = MadeDrafts(g) /\ (Creates(g)' <=> Creates(g))
  BY <1>1 DEF DraftsIn, MadeDrafts, Creates
<1>4. Course(g)'
  <2>1. RoutineOf(g)' = RoutineOf(g)
    BY <1>1, <1>3 DEF RoutineOf
  <2> QED BY <1>1, <1>2, <1>3, <2>1 DEF FormInv, Course
<1>5. Sends(g)'
  <2>1. \A m \in ToSet(made[g]) : origin'[m[2]] = m[1]
    BY <1>2, FormTypes DEF Grows, FormInv, Sends
  <2> QED BY <1>1, <1>2, <1>3, <2>1 DEF FormInv, Sends
<1>6. Known(g)'
  BY <1>1, <1>2, <1>3 DEF FormInv, Known
<1>7. Complete(g)'
  BY <1>1, <1>2, <1>3 DEF FormInv, Complete
<1>8. Ordered(g)'
  <2>1. ASSUME pc[g] = "order", NEW i \in 1..Len(local[g]), Len(ids[g]) = Len(local[g]),
               Shows(ids[g][i], local[g][i])
        PROVE  Shows(ids[g][i], local[g][i])'
    <3>1. ids[g][i] \in Actions
      BY <1>2, <2>1, ElementOfSeq DEF TypeOK
    <3>2. \A x \in Drafts : x # None
      BY DataAssumption
    <3> QED BY <1>1, <2>1, <3>1, <3>2 DEF Shows, Grows
  <2> QED BY <1>1, <1>2, <2>1 DEF FormInv, Ordered
<1> QED BY <1>3, <1>4, <1>5, <1>6, <1>7, <1>8 DEF FormInv

\* A step of form f keeps the invariant if it does so for that form.
LEMMA OneForm ==
    ASSUME SaveInv, NEW f \in Forms, Elsewhere(f), Grows, TypeOK', Lists', Origins', FormInv(f)',
           \A g \in Forms \ {f} : \A d \in DraftsIn(g) :
              (d \in Range(origin') => d \in Range(origin)) /\ d \notin DraftsIn(f)'
    PROVE  SaveInv'
<1>1. \A g \in Forms \ {f} : FormInv(g)' /\ DraftsIn(g)' = DraftsIn(g)
  BY OtherForms
<1>2. ASSUME NEW g \in Forms, NEW h \in Forms, g # h
      PROVE  (DraftsIn(g) \intersect DraftsIn(h))' = {}
  <2>1. CASE g # f /\ h # f
    BY <1>1, <1>2, <2>1 DEF SaveInv, Apart
  <2>2. CASE g = f \/ h = f
    BY <1>1, <1>2, <2>2
  <2> QED BY <2>1, <2>2
<1> QED BY <1>1, <1>2 DEF SaveInv, Apart

\* A routine's list of actions, and what their drafts were, do not change.
LEMMA DataKept ==
    ASSUME SaveInv, UNCHANGED <<list, origin>>, remade \subseteq remade'
    PROVE  Lists' /\ Origins' /\ Grows
BY DEF SaveInv, Lists, Origins, Grows

LEMMA InitSave == Init => SaveInv
<1> SUFFICES ASSUME Init
             PROVE  SaveInv
  OBVIOUS
<1>1. ToSet(<<>>) = {} /\ IsInjective(<<>>) /\ Len(<<>>) = 0
  BY EmptySeq DEF ToSet, IsInjective
<1>2. \A S : <<>> \in Seq(S)
  BY EmptySeq
<1>3. TypeOK
  BY <1>2, DataAssumption, BoundAssumption DEF Init, TypeOK
<1>4. Lists /\ Origins
  BY <1>1, DataAssumption DEF Init, Lists, Origins
<1>5. \A f \in Forms : FormInv(f) /\ DraftsIn(f) = {}
  BY <1>1 DEF Init, FormInv, Course, Sends, Known, Complete, Ordered, DraftsIn, MadeDrafts, Saving
<1> QED BY <1>3, <1>4, <1>5 DEF SaveInv, Apart

LEMMA StepOpen ==
    ASSUME SaveInv, NEW f \in Forms, NEW r \in Routines \union {None}, Open(f, r)
    PROVE  SaveInv'
<1> DEFINE l == IF r = None THEN <<>> ELSE list[r]
<1>0. TypeOK /\ Lists /\ FormInv(f)
  BY DEF SaveInv
<1>1. /\ pc[f] = "closed" /\ UNCHANGED <<list, origin, remade, touched, todo, made, removed>>
      /\ pc' = [pc EXCEPT ![f] = "open"] /\ target' = [target EXCEPT ![f] = r]
      /\ local' = [local EXCEPT ![f] = l]
      /\ \E n \in Names \union {None} : title' = [title EXCEPT ![f] = n]
      /\ UNCHANGED <<left, ids, seen, created>> /\ f \notin left
  BY <1>0 DEF Open, database, save, order, history, TypeOK
<1>2. ToSet(<<>>) = {} /\ IsInjective(<<>>)
  BY EmptySeq DEF ToSet, IsInjective
<1>3. l \in Seq(Actions \union Drafts) /\ IsInjective(l) /\ ToSet(l) \subseteq Actions
  <2>1. CASE r = None
    BY <1>2, <2>1, EmptySeq
  <2>2. CASE r # None
    <3>1. list[r] \in Seq(Actions) /\ IsInjective(list[r])
      BY <1>0, <2>2 DEF TypeOK, Lists
    <3>2. list[r] \in Seq(Actions \union Drafts) /\ ToSet(list[r]) \subseteq Actions
      BY <3>1, Members
    <3> QED BY <2>2, <3>1, <3>2
  <2> QED BY <2>1, <2>2
<1>4. r = None => l = <<>>
  OBVIOUS
<1> HIDE DEF l
<1>5. TypeOK'
  <2>1. title' \in [Forms -> Names \union {None}]
    BY <1>0, <1>1 DEF TypeOK
  <2>2. pc' \in [Forms -> Saving \union {"open", "closed"}] /\ target' \in [Forms -> Routines \union {None}]
    BY <1>0, <1>1 DEF TypeOK
  <2>3. local' \in [Forms -> Seq(Actions \union Drafts)]
    BY <1>0, <1>1, <1>3 DEF TypeOK
  <2>4. UNCHANGED <<name, list, origin, removed, left, awaited, todo, made, created, stray, ids, seen,
                    touched, remade, faults>>
    BY DEF Open, database, save, order, history, bounds
  <2> QED BY <1>0, <2>1, <2>2, <2>3, <2>4 DEF TypeOK
<1>6. Elsewhere(f) /\ Lists' /\ Origins' /\ Grows
  BY <1>0, <1>1, DataKept DEF Elsewhere, TypeOK
<1>7. pc'[f] = "open" /\ target'[f] = r /\ local'[f] = l /\ todo'[f] = <<>> /\ made'[f] = <<>>
  BY <1>0, <1>1 DEF TypeOK, FormInv, Course
<1>8. DraftsIn(f)' = {}
  BY <1>2, <1>3, <1>7, DataAssumption DEF DraftsIn
<1>9. FormInv(f)'
  <2>1. Course(f)' /\ Sends(f)' /\ Complete(f)' /\ Ordered(f)'
    BY <1>1, <1>2, <1>3, <1>4, <1>7 DEF Course, Sends, Complete, Ordered, Creates
  <2>2. Known(f)'
    BY <1>8 DEF Known
  <2> QED BY <2>1, <2>2 DEF FormInv
<1> QED BY <1>1, <1>5, <1>6, <1>8, <1>9, OneForm

\* The list of form f becomes l, with at most new drafts in it that no other has.
LEMMA StepEdit ==
    ASSUME SaveInv, NEW f \in Forms, Edit(f), NEW l \in Seq(Actions \union Drafts), IsInjective(l),
           local' = [local EXCEPT ![f] = l], ToSet(l) \subseteq ToSet(local[f]) \union FreshDrafts,
           removed' \in [Forms -> SUBSET Actions], title' \in [Forms -> Names \union {None}]
    PROVE  SaveInv'
<1>0. TypeOK /\ FormInv(f)
  BY DEF SaveInv
<1>1. /\ pc[f] \in Saving \union {"open"}
      /\ UNCHANGED <<list, origin, remade, pc, target, todo, made, created, left, ids, seen>>
      /\ f \notin left /\ touched \subseteq touched' /\ (pc[f] # "open" => f \in touched')
  BY DEF Edit, database, save, order
<1>2. TypeOK'
  <2>1. touched' \subseteq Forms
    BY <1>0 DEF Edit, TypeOK
  <2> QED BY <1>0, <2>1 DEF Edit, TypeOK, database, save, order
<1>3. Elsewhere(f) /\ Lists' /\ Origins' /\ Grows
  BY <1>0, <1>1, DataKept DEF Elsewhere, TypeOK
<1>4. local'[f] = l /\ MadeDrafts(f)' = MadeDrafts(f)
  BY <1>0, <1>1 DEF TypeOK, MadeDrafts
<1>5. FreshDrafts \subseteq Drafts /\ FreshDrafts \intersect Range(origin) = {}
      /\ \A g \in Forms : FreshDrafts \intersect DraftsIn(g) = {}
  BY DEF FreshDrafts, DraftsIn
<1>6. DraftsIn(f)' \subseteq DraftsIn(f) \union FreshDrafts
  BY <1>1, <1>4, <1>5 DEF DraftsIn
<1>7. FormInv(f)'
  <2>1. Course(f)'
    BY <1>0, <1>1, <1>4, <1>5 DEF FormInv, Course, Creates, RoutineOf
  <2>2. Sends(f)'
    BY <1>0, <1>1, <1>4 DEF FormInv, Sends
  <2>3. Known(f)'
    BY <1>0, <1>1, <1>4, <1>5, <1>6 DEF FormInv, Known, Saving
  <2>4. Complete(f)'
    BY <1>1 DEF Complete
  <2>5. Ordered(f)'
    <3>1. pc'[f] = "order" => f \in touched'
      BY <1>1
    <3> QED BY <1>0, <1>1, <3>1 DEF FormInv, Ordered
  <2> QED BY <2>1, <2>2, <2>3, <2>4, <2>5 DEF FormInv
<1>8. \A g \in Forms \ {f} : \A d \in DraftsIn(g) : d \notin DraftsIn(f)'
  BY <1>5, <1>6 DEF SaveInv, Apart
<1> QED BY <1>1, <1>2, <1>3, <1>7, <1>8, OneForm

LEMMA StepEditing ==
    ASSUME SaveInv, NEW f \in Forms,
           \/ AddAction(f)
           \/ \E i \in 1..Len(local[f]) : RemoveAction(f, i) \/ MoveAction(f, i)
           \/ \E n \in Names : ChangeName(f, n)
    PROVE  SaveInv'
<1>0. TypeOK /\ local[f] \in Seq(Actions \union Drafts) /\ IsInjective(local[f])
  BY DEF SaveInv, TypeOK, FormInv, Sends
<1>1. CASE AddAction(f)
  <2> DEFINE d == NextOf(FreshDrafts)
  <2>1. d \in FreshDrafts /\ d \in Drafts /\ d \notin ToSet(local[f])
    <3>1. d \in FreshDrafts
      BY <1>1 DEF AddAction, NextOf
    <3> HIDE DEF d
    <3>2. ToSet(local[f]) \intersect FreshDrafts = {} /\ FreshDrafts \subseteq Drafts
      BY DEF FreshDrafts
    <3> QED BY <3>1, <3>2
  <2>2. local' = [local EXCEPT ![f] = Append(local[f], d)] /\ Edit(f) /\ UNCHANGED <<title, removed>>
    BY <1>0, <1>1 DEF AddAction, TypeOK
  <2> HIDE DEF d
  <2>3. /\ Append(local[f], d) \in Seq(Actions \union Drafts) /\ IsInjective(Append(local[f], d))
        /\ ToSet(Append(local[f], d)) = ToSet(local[f]) \union {d}
    BY <1>0, <2>1, AppendFacts
  <2>4. removed' \in [Forms -> SUBSET Actions] /\ title' \in [Forms -> Names \union {None}]
    BY <1>0, <2>2 DEF TypeOK
  <2> QED BY <2>1, <2>2, <2>3, <2>4, StepEdit
<1>2. ASSUME NEW i \in 1..Len(local[f]), RemoveAction(f, i)
      PROVE  SaveInv'
  <2> DEFINE l == RemoveAt(local[f], i)
  <2>1. l \in Seq(Actions \union Drafts) /\ IsInjective(l) /\ ToSet(l) \subseteq ToSet(local[f])
    BY <1>0, RemoveAtFacts
  <2>2. local' = [local EXCEPT ![f] = l] /\ Edit(f) /\ title' = title
    BY <1>0, <1>2 DEF RemoveAction, TypeOK
  <2>3. removed' \in [Forms -> SUBSET Actions] /\ title' \in [Forms -> Names \union {None}]
    <3>1. local[f][i] \in Actions \union Drafts
      BY <1>0, ElementOfSeq
    <3> QED BY <1>0, <1>2, <2>2, <3>1 DEF RemoveAction, IsDraft, TypeOK
  <2> HIDE DEF l
  <2> QED BY <2>1, <2>2, <2>3, StepEdit
<1>3. ASSUME NEW i \in 1..Len(local[f]), MoveAction(f, i)
      PROVE  SaveInv'
  <2> DEFINE k == RemoveAt(local[f], i)
             x == local[f][i]
             l == InsertAt(k, 1, x)
  <2>1. k \in Seq(Actions \union Drafts) /\ IsInjective(k) /\ ToSet(k) \subseteq ToSet(local[f]) /\ x \notin ToSet(k)
    BY <1>0, RemoveAtFacts
  <2>2. x \in Actions \union Drafts /\ x \in ToSet(local[f])
    BY <1>0, ElementOfSeq, Members
  <2>3. local' = [local EXCEPT ![f] = l] /\ Edit(f) /\ UNCHANGED <<title, removed>>
    BY <1>0, <1>3 DEF MoveAction, TypeOK
  <2>4. removed' \in [Forms -> SUBSET Actions] /\ title' \in [Forms -> Names \union {None}]
    BY <1>0, <2>3 DEF TypeOK
  <2> HIDE DEF k, x
  <2>5. l \in Seq(Actions \union Drafts) /\ IsInjective(l) /\ ToSet(l) = ToSet(k) \union {x}
    BY <2>1, <2>2, InsertFirstFacts
  <2> HIDE DEF l
  <2> QED BY <2>1, <2>2, <2>3, <2>4, <2>5, StepEdit
<1>4. ASSUME NEW n \in Names, ChangeName(f, n)
      PROVE  SaveInv'
  <2>1. local' = [local EXCEPT ![f] = local[f]] /\ Edit(f) /\ removed' = removed
    BY <1>0, <1>4 DEF ChangeName, TypeOK
  <2>2. removed' \in [Forms -> SUBSET Actions] /\ title' \in [Forms -> Names \union {None}]
    BY <1>0, <1>4, <2>1 DEF ChangeName, TypeOK
  <2> QED BY <1>0, <2>1, <2>2, StepEdit
<1> QED BY <1>1, <1>2, <1>3, <1>4

LEMMA StepStartSave ==
    ASSUME SaveInv, NEW f \in Forms, StartSave(f)
    PROVE  SaveInv'
<1>0. TypeOK /\ FormInv(f)
  BY DEF SaveInv
<1>1. /\ pc[f] = "open" /\ UNCHANGED <<list, origin, remade, target, local, todo, made, created, left, ids, seen>>
      /\ pc' = [pc EXCEPT ![f] = IF Creates(f) THEN "check" ELSE "update"]
      /\ touched' = touched \ {f}
  BY DEF StartSave, database, form, save, order
<1>2. TypeOK'
  BY <1>0 DEF StartSave, database, form, save, order, TypeOK, Saving
<1>3. Elsewhere(f) /\ Lists' /\ Origins' /\ Grows
  BY <1>0, <1>1, DataKept DEF Elsewhere, TypeOK
<1>4. DraftsIn(f)' = DraftsIn(f) /\ MadeDrafts(f)' = MadeDrafts(f) /\ (Creates(f)' <=> Creates(f))
  BY <1>1 DEF DraftsIn, MadeDrafts, Creates
<1>5. pc'[f] = IF Creates(f) THEN "check" ELSE "update"
  BY <1>0, <1>1 DEF TypeOK
<1>6. FormInv(f)'
  <2>1. Course(f)'
    <3>1. todo[f] = <<>> /\ made[f] = <<>> /\ f \notin left /\ (Creates(f) => ToSet(local[f]) \subseteq Drafts)
      BY <1>0, <1>1 DEF FormInv, Course
    <3> QED BY <1>1, <1>4, <1>5, <3>1 DEF Course
  <2>2. Complete(f)' /\ Ordered(f)'
    BY <1>5 DEF Complete, Ordered
  <2>3. Sends(f)'
    BY <1>0, <1>1, <1>4 DEF FormInv, Sends
  <2>4. Known(f)'
    BY <1>0, <1>1, <1>4 DEF FormInv, Known
  <2> QED BY <2>1, <2>3, <2>4, <2>2 DEF FormInv
<1>7. \A g \in Forms \ {f} : \A d \in DraftsIn(g) :
         (d \in Range(origin') => d \in Range(origin)) /\ d \notin DraftsIn(f)'
  BY <1>1, <1>4 DEF SaveInv, Apart
<1> QED BY <1>2, <1>3, <1>6, <1>7, OneForm

LEMMA FaultsBounded ==
    ASSUME TypeOK, NEW f, NEW o, Outcome(f, o)
    PROVE  faults' \in 0..MaxFaults
BY BoundAssumption DEF Outcome, TypeOK

\* A save that ends, as form f goes to p.
LEMMA StepOver ==
    ASSUME SaveInv, NEW f \in Forms, NEW p \in {"open", "closed"}, NEW S \in SUBSET Actions,
           faults' \in 0..MaxFaults, Finish(f, p, S), UNCHANGED <<target, title, local, removed>>,
           left' \in {left, left \union {f}}, f \in left' => p = "closed" /\ f \in touched',
           name' \in [Routines -> Names \union {None}], list' \in [Routines -> Seq(Actions)],
           origin' \in [Actions -> Drafts \union {None}],
           touched \subseteq touched', touched' \subseteq Forms, remade' \subseteq Drafts,
           Lists', Origins', Grows,
           p = "open" => \A d \in DraftsIn(f) : d \in Range(origin') => d \in remade',
           \A g \in Forms \ {f} : \A d \in DraftsIn(g) : d \in Range(origin') => d \in Range(origin)
    PROVE  SaveInv'
<1>0. TypeOK /\ FormInv(f)
  BY DEF SaveInv
<1>1. /\ pc' = [pc EXCEPT ![f] = p] /\ created' = [created EXCEPT ![f] = None]
      /\ todo' = [todo EXCEPT ![f] = <<>>] /\ made' = [made EXCEPT ![f] = <<>>]
      /\ ids' = [ids EXCEPT ![f] = <<>>] /\ seen' = [seen EXCEPT ![f] = <<>>]
  BY DEF Finish, Goto
<1>2. TypeOK'
  <2>1. /\ awaited' \in [Forms -> SUBSET Actions] /\ created' \in [Forms -> Routines \union {None}]
        /\ stray' \subseteq Actions /\ left' \subseteq Forms
    BY <1>0 DEF Finish, TypeOK
  <2>2. pc' \in [Forms -> Saving \union {"open", "closed"}]
    BY <1>0, <1>1 DEF TypeOK
  <2>3. todo' \in [Forms -> Seq(Drafts)] /\ made' \in [Forms -> Seq(Drafts \X Actions)]
    BY <1>0, <1>1, EmptySeq DEF TypeOK
  <2>4. ids' \in [Forms -> Seq(Actions)] /\ seen' \in [Forms -> Seq(Actions)]
    BY <1>0, <1>1, EmptySeq DEF TypeOK
  <2> QED BY <1>0, <2>1, <2>2, <2>3, <2>4 DEF TypeOK
<1>3. Elsewhere(f)
  BY <1>0, <1>1 DEF Elsewhere, TypeOK
<1>4. pc'[f] = p /\ todo'[f] = <<>> /\ made'[f] = <<>>
  BY <1>0, <1>1 DEF TypeOK
<1>5. ToSet(<<>>) = {} /\ IsInjective(<<>>)
  BY EmptySeq DEF ToSet, IsInjective
<1>6. DraftsIn(f)' \subseteq DraftsIn(f)
  BY <1>4, <1>5 DEF DraftsIn
<1>7. FormInv(f)'
  <2>1. Course(f)'
    BY <1>0, <1>4 DEF FormInv, Course, Creates
  <2>2. Sends(f)'
    BY <1>0, <1>4, <1>5 DEF FormInv, Sends
  <2>3. Known(f)'
    BY <1>4, <1>6 DEF Known
  <2>4. Complete(f)' /\ Ordered(f)'
    BY <1>4 DEF Complete, Ordered
  <2> QED BY <2>1, <2>2, <2>3, <2>4 DEF FormInv
<1>8. \A g \in Forms \ {f} : \A d \in DraftsIn(g) : d \notin DraftsIn(f)'
  BY <1>6 DEF SaveInv, Apart
<1> QED BY <1>2, <1>3, <1>7, <1>8, OneForm

\* A save that fails, once or more of its drafts may have been created.
LEMMA StepFail ==
    ASSUME SaveInv, NEW f \in Forms, NEW S \in SUBSET Actions, NEW D \in SUBSET Drafts,
           faults' \in 0..MaxFaults, FailHaving(f, S, D), UNCHANGED form,
           name' \in [Routines -> Names \union {None}], list' \in [Routines -> Seq(Actions)],
           origin' \in [Actions -> Drafts \union {None}], Lists', Origins', Grows,
           \A d \in DraftsIn(f) : d \in Range(origin') => d \in remade \union D,
           \A g \in Forms \ {f} : \A d \in DraftsIn(g) : d \in Range(origin') => d \in Range(origin)
    PROVE  SaveInv'
<1>0. TypeOK /\ Course(f)
  BY DEF SaveInv, FormInv
<1>1. PICK p \in {"open", "closed"} : Finish(f, p, S) /\ (p = "open" <=> f \notin left)
  BY Failing
<1>2. touched' = touched /\ remade' = (IF f \in left THEN remade ELSE remade \union D)
  BY DEF FailHaving
<1>3. remade' \subseteq Drafts /\ touched' \subseteq Forms /\ touched \subseteq touched'
  BY <1>0, <1>2 DEF TypeOK
<1>4. UNCHANGED <<target, title, local, removed>> /\ left' = left
  BY DEF form
<1>5. f \in left' => p = "closed" /\ f \in touched'
  BY <1>0, <1>1, <1>2, <1>4 DEF Course
<1>6. p = "open" => \A d \in DraftsIn(f) : d \in Range(origin') => d \in remade'
  BY <1>1, <1>2
<1>7. left' \in {left, left \union {f}}
  BY <1>4
<1> QED BY <1>1, <1>3, <1>4, <1>5, <1>6, <1>7, StepOver

\* A save that fails, by a request that creates no action.
LEMMA StepFailed ==
    ASSUME SaveInv, NEW f \in Forms, NEW S \in SUBSET Actions, faults' \in 0..MaxFaults, Fail(f, S),
           pc[f] # "closed", UNCHANGED <<form, origin>>, Lists',
           name' \in [Routines -> Names \union {None}], list' \in [Routines -> Seq(Actions)]
    PROVE  SaveInv'
<1>0. TypeOK /\ FormInv(f)
  BY DEF SaveInv
<1>1. FailHaving(f, S, MadeDrafts(f))
  BY DEF Fail
<1>2. MadeDrafts(f) \subseteq Drafts
  BY <1>0, FormTypes DEF MadeDrafts
<1>3. Origins' /\ Grows
  <2>1. remade \subseteq remade'
    BY <1>1 DEF FailHaving
  <2> QED BY <2>1 DEF SaveInv, Origins, Grows
<1>4. \A d \in DraftsIn(f) : d \in Range(origin') => d \in remade \union MadeDrafts(f)
  BY <1>0 DEF FormInv, Known
<1>5. origin' \in [Actions -> Drafts \union {None}]
  BY <1>0 DEF TypeOK
<1> QED BY <1>1, <1>2, <1>3, <1>4, <1>5, StepFail

LEMMA StepDone ==
    ASSUME SaveInv, NEW f \in Forms, NEW S \in SUBSET Actions, faults' \in 0..MaxFaults,
           Finish(f, "closed", S), UNCHANGED <<target, title, local, removed, origin, remade>>, Lists',
           left' \in {left, left \union {f}}, f \in left' => f \in touched',
           touched \subseteq touched', touched' \subseteq Forms,
           name' \in [Routines -> Names \union {None}], list' \in [Routines -> Seq(Actions)]
    PROVE  SaveInv'
<1>0. TypeOK
  BY DEF SaveInv
<1>1. Origins' /\ Grows
  BY DEF SaveInv, Origins, Grows
<1>2. origin' \in [Actions -> Drafts \union {None}] /\ remade' \subseteq Drafts
  BY <1>0 DEF TypeOK
<1> QED BY <1>1, <1>2, StepOver

\* The last request of a save has answered.
LEMMA StepEnded ==
    ASSUME SaveInv, NEW f \in Forms, faults' \in 0..MaxFaults, Finish(f, "closed", {}),
           UNCHANGED <<form, origin, remade, touched>>, Lists',
           name' \in [Routines -> Names \union {None}], list' \in [Routines -> Seq(Actions)]
    PROVE  SaveInv'
<1>0. TypeOK /\ Course(f)
  BY DEF SaveInv, FormInv
<1>1. UNCHANGED <<target, title, local, removed, origin, remade>> /\ left' = left
  BY DEF form
<1>2. left' \in {left, left \union {f}} /\ (f \in left' => f \in touched')
  BY <1>0, <1>1 DEF Course
<1>3. touched \subseteq touched' /\ touched' \subseteq Forms
  BY <1>0 DEF TypeOK
<1> QED BY <1>1, <1>2, <1>3, StepDone

\* A save that goes on, and has not come to its drafts.
LEMMA StepOn ==
    ASSUME SaveInv, NEW f \in Forms, NEW p \in {"delete", "insert"}, pc' = [pc EXCEPT ![f] = p],
           pc[f] \in {"update", "delete", "check"}, p = "insert" <=> Creates(f),
           UNCHANGED <<form, todo, made, created, order, origin, remade, touched>>, TypeOK', Lists'
    PROVE  SaveInv'
<1>0. TypeOK /\ FormInv(f)
  BY DEF SaveInv
<1>1. /\ pc'[f] = p /\ UNCHANGED <<target, local, todo, made, origin, remade, touched, left>>
      /\ Elsewhere(f)
  BY <1>0 DEF form, order, Elsewhere, TypeOK
<1>2. Origins' /\ Grows
  BY DEF SaveInv, Origins, Grows
<1>3. DraftsIn(f)' = DraftsIn(f) /\ MadeDrafts(f)' = MadeDrafts(f) /\ (Creates(f)' <=> Creates(f))
  BY <1>1 DEF DraftsIn, MadeDrafts, Creates
<1>4. FormInv(f)'
  <2>1. Course(f)'
    <3>1. todo[f] = <<>> /\ made[f] = <<>> /\ (Creates(f) => ToSet(local[f]) \subseteq Drafts)
          /\ (f \in left => f \in touched)
      BY <1>0 DEF FormInv, Course
    <3> QED BY <1>1, <1>3, <3>1 DEF Course
  <2>2. Sends(f)'
    BY <1>0, <1>1, <1>3 DEF FormInv, Sends
  <2>3. Known(f)'
    BY <1>0, <1>1, <1>3 DEF FormInv, Known
  <2>4. Complete(f)' /\ Ordered(f)'
    BY <1>1 DEF Complete, Ordered
  <2> QED BY <2>1, <2>2, <2>3, <2>4 DEF FormInv
<1>5. \A g \in Forms \ {f} : \A d \in DraftsIn(g) :
         (d \in Range(origin') => d \in Range(origin)) /\ d \notin DraftsIn(f)'
  BY <1>1, <1>3 DEF SaveInv, Apart
<1> QED BY <1>1, <1>2, <1>4, <1>5, OneForm

\* The lists without an action.
LEMMA WithoutFacts ==
    ASSUME SaveInv, NEW a
    PROVE  /\ Without(a) \in [Routines -> Seq(Actions)]
           /\ \A r \in Routines : IsInjective(Without(a)[r]) /\ ToSet(Without(a)[r]) \subseteq ToSet(list[r])
<1> SUFFICES ASSUME NEW r \in Routines
             PROVE  /\ Without(a)[r] \in Seq(Actions) /\ IsInjective(Without(a)[r])
                    /\ ToSet(Without(a)[r]) \subseteq ToSet(list[r])
  BY DEF Without
<1>1. Without(a)[r] = Only(list[r], Actions \ {a})
  BY DEF Without
<1>2. list[r] \in Seq(Actions) /\ IsInjective(list[r])
  BY DEF SaveInv, TypeOK, Lists
<1> QED BY <1>1, <1>2, OnlyFacts

LEMMA FewerListed ==
    ASSUME SaveInv, NEW a, list' \in {list, Without(a)}, origin' = origin
    PROVE  Lists' /\ list' \in [Routines -> Seq(Actions)]
<1>1. CASE list' = list
  BY <1>1 DEF SaveInv, TypeOK, Lists
<1>2. CASE list' = Without(a)
  BY <1>2, WithoutFacts DEF SaveInv, Lists
<1> QED BY <1>1, <1>2

LEMMA StepUpdate ==
    ASSUME SaveInv, NEW f \in Forms, NEW o, Update(f, o)
    PROVE  SaveInv'
<1>0. TypeOK /\ FormInv(f)
  BY DEF SaveInv
<1>1. /\ pc[f] = "update" /\ Outcome(f, o) /\ UNCHANGED <<list, origin, form>> /\ ~ Creates(f)
      /\ name' = IF o = "error" THEN name ELSE [name EXCEPT ![target[f]] = title[f]]
  BY <1>0 DEF Update, Answer, FormInv, Course
<1>2. name' \in [Routines -> Names \union {None}] /\ list' \in [Routines -> Seq(Actions)]
  <2>1. target[f] \in Routines /\ title[f] \in Names \union {None}
    BY <1>0, <1>1 DEF Creates, TypeOK
  <2> QED BY <1>0, <1>1, <2>1 DEF TypeOK
<1>3. Lists' /\ faults' \in 0..MaxFaults
  BY <1>0, <1>1, FaultsBounded DEF SaveInv, Lists
<1>4. CASE Fail(f, {})
  BY <1>1, <1>2, <1>3, <1>4, StepFailed
<1>5. CASE /\ Goto(f, "delete") /\ awaited' = [awaited EXCEPT ![f] = removed[f]]
           /\ UNCHANGED <<todo, made, created, stray, order, touched, remade>>
  <2>1. TypeOK'
    BY <1>0, <1>1, <1>2, <1>3, <1>5 DEF TypeOK, Goto, Saving, form, order
  <2> QED BY <1>1, <1>3, <1>5, <2>1, StepOn DEF Goto
<1> QED BY <1>4, <1>5 DEF Update

LEMMA StepDelete ==
    ASSUME SaveInv, NEW f \in Forms, NEW a \in Actions, NEW o, DeleteAction(f, a, o)
    PROVE  SaveInv'
<1>0. TypeOK /\ Course(f)
  BY DEF SaveInv, FormInv
<1>1. /\ pc[f] = "delete" /\ Outcome(f, o) /\ UNCHANGED <<name, origin, form>> /\ ~ Creates(f)
      /\ list' \in {list, Without(a)}
  BY <1>0 DEF DeleteAction, Answer, Course
<1>2. Lists' /\ list' \in [Routines -> Seq(Actions)] /\ faults' \in 0..MaxFaults
  BY <1>0, <1>1, FewerListed, FaultsBounded
<1>3. CASE Fail(f, awaited[f] \ {a})
  <2>1. awaited[f] \ {a} \in SUBSET Actions /\ name' \in [Routines -> Names \union {None}]
    BY <1>0, <1>1 DEF TypeOK
  <2> QED BY <1>1, <1>2, <1>3, <2>1, StepFailed
<1>4. CASE /\ awaited' = [awaited EXCEPT ![f] = @ \ {a}]
           /\ UNCHANGED <<pc, todo, made, created, stray, order, touched, remade>>
  <2>1. TypeOK'
    BY <1>0, <1>1, <1>2, <1>4 DEF TypeOK, form, order
  <2>2. pc' = [pc EXCEPT ![f] = "delete"]
    BY <1>0, <1>1, <1>4 DEF TypeOK
  <2> QED BY <1>1, <1>2, <1>4, <2>1, <2>2, StepOn
<1> QED BY <1>3, <1>4 DEF DeleteAction

LEMMA StepCheck ==
    ASSUME SaveInv, NEW f \in Forms, NEW o, CheckName(f, o)
    PROVE  SaveInv'
<1>0. TypeOK /\ FormInv(f)
  BY DEF SaveInv
<1>1. pc[f] = "check" /\ Outcome(f, o) /\ UNCHANGED <<name, list, origin, form>> /\ Creates(f)
  BY <1>0 DEF CheckName, database, FormInv, Course
<1>2. /\ Lists' /\ name' \in [Routines -> Names \union {None}] /\ list' \in [Routines -> Seq(Actions)]
      /\ faults' \in 0..MaxFaults
  BY <1>0, <1>1, FaultsBounded DEF SaveInv, Lists, TypeOK
<1>3. CASE Fail(f, {})
  BY <1>1, <1>2, <1>3, StepFailed
<1>4. CASE Goto(f, "insert") /\ UNCHANGED <<save, touched, remade>>
  <2>1. TypeOK'
    BY <1>0, <1>1, <1>2, <1>4 DEF TypeOK, Goto, Saving, form, save, order
  <2> QED BY <1>1, <1>2, <1>4, <2>1, StepOn DEF Goto, save
<1> QED BY <1>3, <1>4 DEF CheckName

\* A deletion that is on its way, and a form that is left.
LEMMA StepStray ==
    ASSUME SaveInv, NEW a \in Actions, NEW o \in {"ok", "error"}, StrayDelete(a, o)
    PROVE  SaveInv'
<1>0. TypeOK
  BY DEF SaveInv
<1>1. /\ UNCHANGED <<name, origin, pc, form, todo, made, created, order, remade, touched>>
      /\ list' \in {list, Without(a)}
  BY DEF StrayDelete, history
<1>2. Lists' /\ list' \in [Routines -> Seq(Actions)]
  BY <1>1, FewerListed
<1>3. faults' \in 0..MaxFaults
  BY <1>0, BoundAssumption DEF StrayDelete, TypeOK
<1>4. TypeOK'
  BY <1>0, <1>1, <1>2, <1>3 DEF StrayDelete, TypeOK, form, order
<1>5. UNCHANGED <<target, local, todo, made, created, pc, origin, remade, touched, left, ids, seen>>
  BY <1>1 DEF form, order
<1>6. Origins' /\ Apart'
  BY <1>5 DEF SaveInv, Origins, Apart, DraftsIn
<1>7. \A f \in Forms : FormInv(f)'
  BY <1>5 DEF SaveInv, FormInv, Course, Sends, Known, Complete, Ordered, Shows, Creates, RoutineOf,
              DraftsIn, MadeDrafts
<1> QED BY <1>2, <1>4, <1>6, <1>7 DEF SaveInv

LEMMA StepLeave ==
    ASSUME SaveInv, NEW f \in Forms, Leave(f)
    PROVE  SaveInv'
<1>0. TypeOK /\ FormInv(f)
  BY DEF SaveInv
<1>1. /\ pc[f] \in Saving /\ left' = left \union {f} /\ touched' = touched \union {f}
      /\ UNCHANGED <<name, list, origin, target, title, local, removed, remade>>
  BY DEF Leave, database
<1>2. Lists' /\ faults' \in 0..MaxFaults
  BY <1>0, <1>1, BoundAssumption DEF Leave, SaveInv, Lists, TypeOK
<1>3. CASE Finish(f, "closed", awaited[f])
  <2>1. /\ touched \subseteq touched' /\ touched' \subseteq Forms /\ awaited[f] \in SUBSET Actions
        /\ name' \in [Routines -> Names \union {None}] /\ list' \in [Routines -> Seq(Actions)]
    BY <1>0, <1>1 DEF TypeOK
  <2>2. left' \in {left, left \union {f}} /\ f \in touched'
    BY <1>1
  <2> QED BY <1>1, <1>2, <1>3, <2>1, <2>2, StepDone
<1>4. CASE UNCHANGED <<pc, save>>
  <2>1. UNCHANGED <<pc, awaited, todo, made, created, stray, ids, seen>>
    BY <1>4 DEF save, order
  <2>2. TypeOK'
    <3>1. left' \subseteq Forms /\ touched' \subseteq Forms
      BY <1>0, <1>1 DEF TypeOK
    <3> QED BY <1>0, <1>1, <1>2, <2>1, <3>1 DEF TypeOK
  <2>3. Elsewhere(f) /\ Origins' /\ Grows
    BY <1>0, <1>1, <2>1, DataKept DEF Elsewhere
  <2>4. /\ DraftsIn(f)' = DraftsIn(f) /\ MadeDrafts(f)' = MadeDrafts(f)
        /\ (Creates(f)' <=> Creates(f)) /\ RoutineOf(f)' = RoutineOf(f)
    BY <1>1, <2>1 DEF DraftsIn, MadeDrafts, Creates, RoutineOf
  <2>5. FormInv(f)'
    <3>1. Course(f)'
      BY <1>0, <1>1, <2>1, <2>4 DEF FormInv, Course, Saving
    <3>2. Sends(f)' /\ Known(f)'
      BY <1>0, <1>1, <2>1, <2>4 DEF FormInv, Sends, Known
    <3>3. Complete(f)' /\ Ordered(f)'
      BY <1>0, <1>1, <2>1 DEF FormInv, Complete, Ordered
    <3> QED BY <3>1, <3>2, <3>3 DEF FormInv
  <2>6. \A g \in Forms \ {f} : \A d \in DraftsIn(g) :
           (d \in Range(origin') => d \in Range(origin)) /\ d \notin DraftsIn(f)'
    BY <1>1, <2>4 DEF SaveInv, Apart
  <2> QED BY <1>2, <2>2, <2>3, <2>5, <2>6, OneForm
<1> QED BY <1>3, <1>4 DEF Leave

LEMMA StepInsert ==
    ASSUME SaveInv, NEW f \in Forms, NEW o, Insert(f, o)
    PROVE  SaveInv'
<1> DEFINE r == NextOf(FreshRoutines)
<1>0. TypeOK /\ FormInv(f)
  BY DEF SaveInv
<1>1. /\ pc[f] = "insert" /\ Outcome(f, o) /\ UNCHANGED <<list, origin, form>> /\ Creates(f)
      /\ name' = IF o = "error" THEN name ELSE [name EXCEPT ![r] = title[f]]
      /\ todo[f] = <<>> /\ made[f] = <<>>
  BY <1>0 DEF Insert, Answer, FormInv, Course
<1>2. r \in Routines /\ r # None
  <2>1. r \in Routines
    BY DEF Insert, NextOf, FreshRoutines
  <2> QED BY <2>1, DataAssumption
<1>3. /\ Lists' /\ name' \in [Routines -> Names \union {None}] /\ list' \in [Routines -> Seq(Actions)]
      /\ faults' \in 0..MaxFaults
  BY <1>0, <1>1, <1>2, FaultsBounded DEF SaveInv, Lists, TypeOK
<1> HIDE DEF r
<1>4. CASE Fail(f, {})
  BY <1>1, <1>3, <1>4, StepFailed
<1>5. CASE UNCHANGED <<touched, remade>> /\ Finish(f, "closed", {})
  BY <1>1, <1>3, <1>5, StepEnded
<1>6. CASE /\ UNCHANGED <<touched, remade, awaited, made, stray, order>> /\ Goto(f, "create")
           /\ created' = [created EXCEPT ![f] = r] /\ todo' = [todo EXCEPT ![f] = local[f]]
  <2>1. local[f] \in Seq(Drafts) /\ IsInjective(local[f]) /\ ToSet(local[f]) \subseteq Drafts
    <3>1. ToSet(local[f]) \subseteq Drafts /\ local[f] \in Seq(Actions \union Drafts)
          /\ IsInjective(local[f])
      BY <1>0, <1>1 DEF FormInv, Course, Sends, TypeOK
    <3>2. \A i \in 1..Len(local[f]) : local[f][i] \in Drafts
      BY <3>1, Members
    <3> QED BY <3>1, <3>2, LenProperties
  <2>2. TypeOK'
    <3>1. pc' \in [Forms -> Saving \union {"open", "closed"}]
      BY <1>0, <1>6 DEF Goto, Saving, TypeOK
    <3>2. created' \in [Forms -> Routines \union {None}] /\ todo' \in [Forms -> Seq(Drafts)]
      BY <1>0, <1>2, <1>6, <2>1 DEF TypeOK
    <3> QED BY <1>0, <1>1, <1>3, <1>6, <3>1, <3>2 DEF TypeOK, form, order
  <2>3. /\ pc'[f] = "create" /\ UNCHANGED <<target, local, made, origin, remade, touched, left>>
        /\ todo'[f] = local[f] /\ created'[f] = r /\ Elsewhere(f)
    BY <1>0, <1>1, <1>6 DEF Goto, form, order, Elsewhere, TypeOK
  <2>4. Origins' /\ Grows
    BY <2>3 DEF SaveInv, Origins, Grows
  <2>5. /\ DraftsIn(f)' = DraftsIn(f) /\ MadeDrafts(f)' = MadeDrafts(f) /\ (Creates(f)' <=> Creates(f))
        /\ RoutineOf(f)' # None
    <3>1. ToSet(<<>>) = {}
      BY EmptySeq DEF ToSet
    <3> QED BY <1>1, <1>2, <2>3, <3>1 DEF DraftsIn, MadeDrafts, Creates, RoutineOf
  <2>6. ToSet(made[f]) = {} /\ MadeDrafts(f) = {} /\ Len(made[f]) = 0
    BY <1>1, EmptySeq DEF ToSet, MadeDrafts
  <2>7. FormInv(f)'
    <3>1. Course(f)'
      BY <1>0, <1>1, <2>1, <2>3, <2>5 DEF FormInv, Course
    <3>2. Sends(f)'
      BY <2>1, <2>3, <2>5, <2>6 DEF Sends
    <3>3. Known(f)'
      BY <1>0, <1>1, <2>3, <2>5 DEF FormInv, Known
    <3>4. Complete(f)' /\ Ordered(f)'
      <4>1. Len(local[f]) \in Nat /\ \A i \in 1..Len(local[f]) : 0 + i = i
        BY <2>1, LenProperties
      <4> QED BY <2>3, <2>5, <2>6, <4>1 DEF Complete, Ordered
    <3> QED BY <3>1, <3>2, <3>3, <3>4 DEF FormInv
  <2>8. \A g \in Forms \ {f} : \A d \in DraftsIn(g) :
           (d \in Range(origin') => d \in Range(origin)) /\ d \notin DraftsIn(f)'
    BY <2>3, <2>5 DEF SaveInv, Apart
  <2> QED BY <1>3, <2>2, <2>3, <2>4, <2>7, <2>8, OneForm
<1> QED BY <1>4, <1>5, <1>6 DEF Insert, r

LEMMA StepCreating ==
    ASSUME SaveInv, NEW f \in Forms, StartCreating(f)
    PROVE  SaveInv'
<1> DEFINE l == Only(local[f], Drafts)
<1>0. TypeOK /\ FormInv(f)
  BY DEF SaveInv
<1>1. /\ pc[f] = "delete" /\ pc' = [pc EXCEPT ![f] = "create"] /\ todo' = [todo EXCEPT ![f] = l]
      /\ UNCHANGED <<list, origin, remade, touched, target, local, made, created, left, ids, seen>>
      /\ todo[f] = <<>> /\ made[f] = <<>> /\ ~ Creates(f)
  BY <1>0 DEF StartCreating, Goto, DraftsOf, database, form, order, history, FormInv, Course
<1>2. /\ l \in Seq(Actions \union Drafts) /\ ToSet(l) = ToSet(local[f]) \intersect Drafts
      /\ IsInjective(l) /\ (ToSet(local[f]) \subseteq Drafts => l = local[f])
  <2>1. local[f] \in Seq(Actions \union Drafts) /\ IsInjective(local[f])
    BY <1>0 DEF TypeOK, FormInv, Sends
  <2> QED BY <2>1, OnlyFacts
<1> HIDE DEF l
<1>3. l \in Seq(Drafts)
  <2>1. \A i \in 1..Len(l) : l[i] \in Drafts
    BY <1>2, Members
  <2> QED BY <1>2, <2>1, LenProperties
<1>4. TypeOK'
  <2>1. todo' \in [Forms -> Seq(Drafts)] /\ pc' \in [Forms -> Saving \union {"open", "closed"}]
    BY <1>0, <1>1, <1>3 DEF TypeOK, Saving
  <2> QED BY <1>0, <2>1 DEF StartCreating, TypeOK, database, form, order, history, bounds
<1>5. Elsewhere(f) /\ Lists' /\ Origins' /\ Grows /\ pc'[f] = "create" /\ todo'[f] = l
  BY <1>0, <1>1, DataKept DEF Elsewhere, TypeOK
<1>6. ToSet(<<>>) = {} /\ Len(<<>>) = 0
  BY EmptySeq DEF ToSet
<1>7. DraftsIn(f)' = DraftsIn(f) /\ MadeDrafts(f)' = MadeDrafts(f) /\ (Creates(f)' <=> Creates(f))
  BY <1>1, <1>2, <1>5, <1>6 DEF DraftsIn, MadeDrafts, Creates
<1>8. ToSet(made[f]) = {} /\ MadeDrafts(f) = {} /\ Len(made[f]) = 0
  BY <1>1, <1>6 DEF MadeDrafts
<1>9. FormInv(f)'
  <2>1. Course(f)'
    BY <1>0, <1>1, <1>5, <1>7 DEF FormInv, Course, Creates, RoutineOf
  <2>2. Sends(f)'
    BY <1>0, <1>1, <1>2, <1>5, <1>7, <1>8 DEF FormInv, Sends
  <2>3. Known(f)'
    BY <1>0, <1>1, <1>5, <1>7 DEF FormInv, Known
  <2>4. Complete(f)'
    <3>1. Creates(f) => l = local[f]
      BY <1>0, <1>2 DEF FormInv, Course
    <3>2. Len(l) \in Nat /\ \A i \in 1..Len(l) : 0 + i = i
      BY <1>3, LenProperties
    <3> QED BY <1>1, <1>2, <1>5, <1>7, <1>8, <3>1, <3>2 DEF Complete
  <2>5. Ordered(f)'
    BY <1>5 DEF Ordered
  <2> QED BY <2>1, <2>2, <2>3, <2>4, <2>5 DEF FormInv
<1>10. \A g \in Forms \ {f} : \A d \in DraftsIn(g) :
          (d \in Range(origin') => d \in Range(origin)) /\ d \notin DraftsIn(f)'
  BY <1>1, <1>7 DEF SaveInv, Apart
<1> QED BY <1>4, <1>5, <1>9, <1>10, OneForm

\* The action a that is created next from the draft d.
LEMMA NewAction ==
    ASSUME SaveInv, NEW f \in Forms, NEW a \in FreshActions, NEW d \in ToSet(todo[f]), pc[f] = "create",
           NEW r, list' = [list EXCEPT ![r] = Append(@, a)], origin' = [origin EXCEPT ![a] = d],
           remade \subseteq remade'
    PROVE  /\ list' \in [Routines -> Seq(Actions)] /\ origin' \in [Actions -> Drafts \union {None}]
           /\ a \in Actions /\ d \in Drafts /\ origin'[a] = d /\ origin[a] = None
           /\ Lists' /\ Origins' /\ Grows
           /\ \A e \in Drafts : e \in Range(origin') => e = d \/ e \in Range(origin)
           /\ \A g \in Forms \ {f} : d \notin DraftsIn(g)
<1>0. TypeOK /\ FormInv(f)
  BY DEF SaveInv
<1>1. a \in Actions /\ origin[a] = None /\ a \notin ToSet(OldActions)
  BY DEF FreshActions
<1>2. d \in Drafts /\ d # None /\ d \in DraftsIn(f)
  BY <1>0, FormTypes, DataAssumption DEF DraftsIn
<1>3. origin' \in [Actions -> Drafts \union {None}] /\ origin'[a] = d
      /\ \A b \in Actions \ {a} : origin'[b] = origin[b]
  BY <1>0, <1>1, <1>2 DEF TypeOK
<1>4. \A s \in Routines : a \notin ToSet(list[s])
  BY <1>1 DEF SaveInv, Lists
<1>5. ASSUME NEW s \in Routines
      PROVE  /\ list'[s] \in Seq(Actions) /\ IsInjective(list'[s])
             /\ ToSet(list'[s]) \subseteq ToSet(list[s]) \union {a}
  <2>1. list[s] \in Seq(Actions) /\ IsInjective(list[s])
    BY <1>0 DEF TypeOK, SaveInv, Lists
  <2>2. /\ Append(list[s], a) \in Seq(Actions) /\ IsInjective(Append(list[s], a))
        /\ ToSet(Append(list[s], a)) = ToSet(list[s]) \union {a}
    BY <1>1, <1>4, <2>1, AppendFacts
  <2>3. list'[s] = IF s = r THEN Append(list[s], a) ELSE list[s]
    BY <1>0 DEF TypeOK
  <2> QED BY <2>1, <2>2, <2>3
<1>6. list' \in [Routines -> Seq(Actions)]
  BY <1>0, <1>5 DEF TypeOK
<1>7. Lists'
  <2>1. ASSUME NEW s \in Routines, NEW b \in ToSet(list'[s])
        PROVE  origin'[b] # None \/ b \in ToSet(OldActions)
    <3>1. CASE b = a
      BY <1>2, <1>3, <3>1
    <3>2. CASE b # a
      <4>1. b \in ToSet(list[s]) /\ list[s] \in Seq(Actions)
        BY <1>0, <1>5, <3>2 DEF TypeOK
      <4>2. b \in Actions
        BY <4>1, Members
      <4> QED BY <1>3, <3>2, <4>1, <4>2 DEF SaveInv, Lists
    <3> QED BY <3>1, <3>2
  <2> QED BY <1>5, <2>1 DEF Lists
<1>8. d \in Range(origin) => d \in remade
  BY <1>0, <1>2 DEF FormInv, Known, Sends
<1>9. Origins'
  <2> SUFFICES ASSUME NEW b \in Actions, NEW c \in Actions, b # c,
                      origin'[b] = origin'[c], origin'[b] # None
               PROVE  origin'[b] \in remade'
    BY DEF Origins
  <2>1. CASE b # a /\ c # a
    BY <1>3, <2>1 DEF SaveInv, Origins
  <2>2. CASE b = a \/ c = a
    <3>1. d \in Range(origin)
      BY <1>0, <1>3, <2>2 DEF TypeOK, Range
    <3> QED BY <1>3, <1>8, <2>2, <3>1
  <2> QED BY <2>1, <2>2
<1>10. Grows
  BY <1>1, <1>3 DEF Grows
<1>11. \A e \in Drafts : e \in Range(origin') => e = d \/ e \in Range(origin)
  BY <1>0, <1>3 DEF TypeOK, Range
<1>12. \A g \in Forms \ {f} : d \notin DraftsIn(g)
  BY <1>2 DEF SaveInv, Apart
<1> QED BY <1>1, <1>2, <1>3, <1>6, <1>7, <1>9, <1>10, <1>11, <1>12

LEMMA StepCreate ==
    ASSUME SaveInv, NEW f \in Forms, NEW o \in Outcomes, CreateAction(f, o)
    PROVE  SaveInv'
<1> DEFINE a == NextOf(FreshActions)
           d == Head(todo[f])
<1>0. TypeOK /\ FormInv(f)
  BY DEF SaveInv
<1>1. /\ pc[f] = "create" /\ Outcome(f, o) /\ UNCHANGED <<name, form>>
      /\ IF o = "error" THEN UNCHANGED <<list, origin>>
         ELSE /\ list' = [list EXCEPT ![RoutineOf(f)] = Append(@, a)]
              /\ origin' = [origin EXCEPT ![a] = d]
      /\ IF o = "ok"
         THEN /\ made' = [made EXCEPT ![f] = Append(@, <<d, a>>)]
              /\ todo' = [todo EXCEPT ![f] = Tail(@)]
              /\ UNCHANGED <<pc, awaited, created, stray, order, touched, remade>>
         ELSE FailHaving(f, {}, MadeDrafts(f) \union (IF o = "late" THEN {d} ELSE {}))
  BY DEF CreateAction, Answer
<1>2. a \in FreshActions
  BY DEF CreateAction, NextOf
<1>3. todo[f] # <<>> /\ todo[f] \in Seq(Drafts) /\ IsInjective(todo[f])
  BY <1>0 DEF CreateAction, TypeOK, FormInv, Sends
<1>4. /\ d \in Drafts /\ d \in ToSet(todo[f]) /\ d = todo[f][1] /\ Len(todo[f]) \in Nat \ {0}
      /\ Tail(todo[f]) \in Seq(Drafts) /\ Len(Tail(todo[f])) = Len(todo[f]) - 1
      /\ \A i \in 1..Len(todo[f]) - 1 : Tail(todo[f])[i] = todo[f][i+1]
      /\ ToSet(todo[f]) = ToSet(Tail(todo[f])) \union {d}
      /\ IsInjective(Tail(todo[f])) /\ d \notin ToSet(Tail(todo[f]))
  BY <1>3, TailFacts
<1> HIDE DEF a, d
<1>5. /\ name' \in [Routines -> Names \union {None}] /\ MadeDrafts(f) \subseteq Drafts
      /\ faults' \in 0..MaxFaults
  BY <1>0, <1>1, FormTypes, FaultsBounded DEF TypeOK, MadeDrafts
<1>6. remade \subseteq remade' /\ \A e \in DraftsIn(f) : e \in Range(origin) => e \in remade \union MadeDrafts(f)
  BY <1>0, <1>1 DEF FormInv, Known, FailHaving
<1>7. CASE o = "error"
  <2>1. Lists' /\ Origins' /\ Grows /\ UNCHANGED <<list, origin>>
    BY <1>1, <1>6, <1>7, DataKept
  <2>2. FailHaving(f, {}, MadeDrafts(f))
    BY <1>1, <1>7
  <2>3. list' \in [Routines -> Seq(Actions)] /\ origin' \in [Actions -> Drafts \union {None}]
    BY <1>0, <2>1 DEF TypeOK
  <2>4. \A e \in DraftsIn(f) : e \in Range(origin') => e \in remade \union MadeDrafts(f)
    BY <1>6, <2>1
  <2> QED BY <1>1, <1>5, <2>1, <2>2, <2>3, <2>4, StepFail
<1>8. ASSUME o # "error"
      PROVE  /\ list' \in [Routines -> Seq(Actions)] /\ origin' \in [Actions -> Drafts \union {None}]
             /\ a \in Actions /\ d \in Drafts /\ origin'[a] = d /\ origin[a] = None
             /\ Lists' /\ Origins' /\ Grows
             /\ \A e \in Drafts : e \in Range(origin') => e = d \/ e \in Range(origin)
             /\ \A g \in Forms \ {f} : d \notin DraftsIn(g)
  <2>1. /\ list' = [list EXCEPT ![RoutineOf(f)] = Append(@, a)] /\ origin' = [origin EXCEPT ![a] = d]
        /\ pc[f] = "create" /\ remade \subseteq remade' /\ d \in ToSet(todo[f])
    BY <1>1, <1>4, <1>6, <1>8
  <2> QED BY <1>2, <2>1, NewAction
<1>9. \A g \in Forms \ {f} : \A e \in DraftsIn(g) : o # "error" /\ e \in Range(origin') => e \in Range(origin)
  BY <1>8 DEF DraftsIn
<1>10. CASE o = "late"
  <2>1. FailHaving(f, {}, MadeDrafts(f) \union {d}) /\ MadeDrafts(f) \union {d} \subseteq Drafts
    BY <1>1, <1>4, <1>5, <1>10
  <2>2. \A e \in DraftsIn(f) : e \in Range(origin') => e \in remade \union (MadeDrafts(f) \union {d})
    BY <1>6, <1>8, <1>10 DEF DraftsIn
  <2>3. /\ list' \in [Routines -> Seq(Actions)] /\ origin' \in [Actions -> Drafts \union {None}]
        /\ Lists' /\ Origins' /\ Grows
        /\ \A g \in Forms \ {f} : \A e \in DraftsIn(g) : e \in Range(origin') => e \in Range(origin)
    BY <1>8, <1>9, <1>10
  <2> QED BY <1>1, <1>5, <2>1, <2>2, <2>3, StepFail
<1>11. CASE o = "ok"
  <2>1. /\ made' = [made EXCEPT ![f] = Append(made[f], <<d, a>>)]
        /\ todo' = [todo EXCEPT ![f] = Tail(todo[f])]
        /\ UNCHANGED <<pc, awaited, created, stray, ids, seen, touched, remade>>
        /\ UNCHANGED <<target, title, local, removed, left>>
    BY <1>1, <1>11 DEF form, order
  <2>2. /\ Append(made[f], <<d, a>>) \in Seq(Drafts \X Actions) /\ Len(made[f]) \in Nat
        /\ Len(Append(made[f], <<d, a>>)) = Len(made[f]) + 1
        /\ \A i \in 1..Len(made[f]) : Append(made[f], <<d, a>>)[i] = made[f][i]
        /\ Append(made[f], <<d, a>>)[Len(made[f]) + 1] = <<d, a>>
        /\ ToSet(Append(made[f], <<d, a>>)) = ToSet(made[f]) \union {<<d, a>>}
    <3>1. made[f] \in Seq(Drafts \X Actions) /\ <<d, a>> \in Drafts \X Actions
      BY <1>0, <1>4, <1>8, <1>11, FormTypes
    <3> QED BY <3>1, AppendFacts
  <2>3. TypeOK'
    <3>1. made' \in [Forms -> Seq(Drafts \X Actions)] /\ todo' \in [Forms -> Seq(Drafts)]
      BY <1>0, <1>4, <2>1, <2>2 DEF TypeOK
    <3> QED BY <1>0, <1>5, <1>8, <1>11, <2>1, <3>1 DEF TypeOK
  <2>4. /\ todo'[f] = Tail(todo[f]) /\ made'[f] = Append(made[f], <<d, a>>) /\ Elsewhere(f)
    BY <1>0, <2>1 DEF Elsewhere, TypeOK
  <2>5. /\ ToSet(made'[f]) = ToSet(made[f]) \union {<<d, a>>}
        /\ <<d, a>>[1] = d /\ <<d, a>>[2] = a
    BY <2>2, <2>4
  <2>6. MadeDrafts(f)' = MadeDrafts(f) \union {d} /\ (Creates(f)' <=> Creates(f))
        /\ DraftsIn(f)' \subseteq DraftsIn(f)
    <3>1. {m[1] : m \in ToSet(made[f]) \union {<<d, a>>}} = {m[1] : m \in ToSet(made[f])} \union {d}
      BY <2>5
    <3>2. MadeDrafts(f)' = MadeDrafts(f) \union {d}
      BY <2>5, <3>1 DEF MadeDrafts
    <3>3. ToSet(todo'[f]) \subseteq ToSet(todo[f])
      BY <1>4, <2>4
    <3> QED BY <2>1, <3>2, <3>3 DEF Creates, DraftsIn
  <2>7. FormInv(f)'
    <3>1. Course(f)' /\ Ordered(f)'
      BY <1>0, <1>1, <2>1, <2>6 DEF FormInv, Course, RoutineOf, Ordered
    <3>2. Sends(f)'
      <4>1. \A m \in ToSet(made[f]) : origin'[m[2]] = m[1]
        BY <1>0, <1>8, <1>11, FormTypes DEF Grows, FormInv, Sends
      <4>2. \A m \in ToSet(made'[f]) : origin'[m[2]] = m[1]
        BY <1>8, <1>11, <2>5, <4>1
      <4>3. ToSet(todo'[f]) \intersect MadeDrafts(f)' = {}
        BY <1>0, <1>4, <2>4, <2>6 DEF FormInv, Sends
      <4> QED BY <1>0, <1>4, <2>1, <2>4, <4>2, <4>3 DEF FormInv, Sends
    <3>3. Known(f)'
      BY <1>6, <1>8, <1>11, <2>1, <2>6 DEF Known, DraftsIn
    <3>4. Complete(f)'
      <4>1. CASE f \in touched
        BY <2>1, <4>1 DEF Complete
      <4>2. CASE f \notin touched
        <5>1. Complete(f)
          BY <1>0 DEF FormInv
        <5>2. ToSet(local'[f]) \intersect Drafts \subseteq ToSet(todo'[f]) \union MadeDrafts(f)'
          BY <1>1, <1>4, <2>1, <2>4, <2>6, <4>2, <5>1 DEF Complete
        <5>3. ASSUME Creates(f)
              PROVE  /\ Len(local'[f]) = Len(made'[f]) + Len(todo'[f])
                     /\ \A i \in 1..Len(made'[f]) : made'[f][i][1] = local'[f][i]
                     /\ \A i \in 1..Len(todo'[f]) : todo'[f][i] = local'[f][Len(made'[f]) + i]
          <6> DEFINE n == Len(made[f])
                     m == Len(todo[f])
          <6>1. /\ Len(local[f]) = n + m
                /\ \A i \in 1..n : made[f][i][1] = local[f][i]
                /\ \A i \in 1..m : todo[f][i] = local[f][n + i]
            BY <1>1, <4>2, <5>1, <5>3 DEF Complete
          <6>2. n \in Nat /\ m \in Nat \ {0} /\ Len(made'[f]) = n + 1 /\ Len(todo'[f]) = m - 1
                /\ local' = local
            BY <1>4, <2>1, <2>2, <2>4
          <6>3. \A i \in 1..m-1 : todo'[f][i] = todo[f][i+1]
            BY <1>4, <2>4
          <6>4. (\A i \in 1..n : made'[f][i] = made[f][i]) /\ made'[f][n+1] = <<d, a>>
            BY <2>2, <2>4
          <6>5. d = todo[f][1]
            BY <1>4
          <6> HIDE DEF n, m
          <6>6. Len(local'[f]) = Len(made'[f]) + Len(todo'[f])
            <7>1. Len(local'[f]) = n + m /\ n + m = (n + 1) + (m - 1)
              BY <6>1, <6>2
            <7> QED BY <6>2, <7>1
          <6>7. made'[f][n+1][1] = local[f][n+1]
            BY <6>1, <6>2, <6>4, <6>5
          <6>8. \A i \in 1..n+1 : made'[f][i][1] = local[f][i]
            <7>1. \A i \in 1..n+1 : i \in 1..n \/ i = n+1
              BY <6>2
            <7>2. \A i \in 1..n : made'[f][i][1] = local[f][i]
              BY <6>1, <6>4
            <7> QED BY <6>7, <7>1, <7>2
          <6>9. \A i \in 1..m-1 : i + 1 \in 1..m /\ n + (i + 1) = n + 1 + i
            BY <6>2
          <6>10. \A i \in 1..m-1 : todo'[f][i] = local[f][n + 1 + i]
            BY <6>1, <6>3, <6>9
          <6> QED BY <6>2, <6>6, <6>8, <6>10
        <5> QED BY <2>6, <5>2, <5>3 DEF Complete
      <4> QED BY <4>1, <4>2
    <3> QED BY <3>1, <3>2, <3>3, <3>4 DEF FormInv
  <2>8. \A g \in Forms \ {f} : \A e \in DraftsIn(g) : e \notin DraftsIn(f)'
    BY <2>6 DEF SaveInv, Apart
  <2> QED BY <1>8, <1>9, <1>11, <2>3, <2>4, <2>7, <2>8, OneForm
<1> QED BY <1>7, <1>10, <1>11 DEF Outcomes

\* The ids that are sent as the order, if every entry of the form has one.
LEMMA FinalIdsFacts ==
    ASSUME SaveInv, NEW f \in Forms
    PROVE  /\ FinalIds(f) \in Seq(Actions)
           /\ pc[f] = "create" /\ todo[f] = <<>> /\ f \notin touched =>
                /\ Len(FinalIds(f)) = Len(local[f])
                /\ \A i \in 1..Len(local[f]) : Shows(FinalIds(f)[i], local[f][i])
<1> DEFINE sent == FinalIds(f)
           l == local[f]
           Finished == pc[f] = "create" /\ todo[f] = <<>> /\ f \notin touched
<1>0. TypeOK /\ Course(f) /\ Sends(f) /\ Complete(f)
  BY DEF SaveInv, FormInv
<1>1. /\ l \in Seq(Actions \union Drafts) /\ Len(l) \in Nat /\ DOMAIN l = 1..Len(l)
      /\ \A i \in 1..Len(l) : l[i] \in Actions \union Drafts
  BY <1>0, FormTypes, LenProperties, ElementOfSeq
<1>2. \A x \in Drafts : x \notin Actions /\ x # None
  BY DataAssumption
<1>3. ToSet(<<>>) = {} /\ Len(<<>>) = 0
  BY EmptySeq DEF ToSet
<1>4. /\ made[f] \in Seq(Drafts \X Actions) /\ Len(made[f]) \in Nat /\ DOMAIN made[f] = 1..Len(made[f])
      /\ \A i \in 1..Len(made[f]) : /\ made[f][i] \in ToSet(made[f]) /\ made[f][i][1] \in Drafts
                                    /\ made[f][i][2] \in Actions
  <2>1. made[f] \in Seq(Drafts \X Actions)
    BY <1>0 DEF TypeOK
  <2>2. \A i \in 1..Len(made[f]) : made[f][i] \in ToSet(made[f])
    BY <2>1, Members
  <2> QED BY <1>0, <2>1, <2>2, FormTypes, LenProperties
<1>5. \A m \in ToSet(made[f]) : Shows(m[2], m[1]) /\ m[2] \in Actions
  BY <1>0, FormTypes DEF Sends, Shows
<1>6. CASE Creates(f)
  <2>1. sent = [i \in 1..Len(made[f]) |-> made[f][i][2]]
    BY <1>4, <1>6 DEF FinalIds
  <2>2. sent \in Seq(Actions) /\ Len(sent) = Len(made[f])
    BY <1>4, <2>1
  <2>3. ASSUME Finished
        PROVE  Len(sent) = Len(l) /\ \A i \in 1..Len(l) : Shows(sent[i], l[i])
    <3>1. Len(l) = Len(made[f]) /\ \A i \in 1..Len(l) : made[f][i][1] = l[i]
      BY <1>0, <1>3, <1>4, <1>6, <2>3 DEF Complete
    <3>2. ASSUME NEW i \in 1..Len(l)
          PROVE  Shows(sent[i], l[i])
      <4>1. sent[i] = made[f][i][2] /\ made[f][i][1] = l[i] /\ made[f][i] \in ToSet(made[f])
        BY <1>4, <2>1, <3>1
      <4> HIDE DEF sent, l
      <4> QED BY <1>5, <4>1
    <3> QED BY <2>2, <3>1, <3>2
  <2> QED BY <2>2, <2>3
<1>7. CASE ~ Creates(f)
  <2> DEFINE K == {x \in ToSet(l) : HasId(f, x)}
             known == Only(l, K)
  <2>1. /\ known \in Seq(Actions \union Drafts) /\ ToSet(known) = ToSet(l) \intersect K
        /\ ToSet(l) \subseteq K => known = l
    BY <1>1, OnlyFacts
  <2>2. \A x \in K : x \in ToSet(l) /\ HasId(f, x)
    OBVIOUS
  <2>3. sent = [i \in DOMAIN known |-> IdOf(f, known[i])]
    BY <1>7 DEF FinalIds
  <2>4. \A x \in K : IdOf(f, x) \in Actions /\ Shows(IdOf(f, x), x)
    <3> SUFFICES ASSUME NEW x \in K
                 PROVE  IdOf(f, x) \in Actions /\ Shows(IdOf(f, x), x)
      OBVIOUS
    <3>1. CASE x \in Drafts
      <4>1. \E a \in Actions : <<x, a>> \in ToSet(made[f])
        BY <2>2, <3>1 DEF HasId, IsDraft
      <4>2. IdOf(f, x) \in Actions /\ <<x, IdOf(f, x)>> \in ToSet(made[f])
        BY <3>1, <4>1 DEF IdOf, IsDraft
      <4>3. <<x, IdOf(f, x)>>[1] = x /\ <<x, IdOf(f, x)>>[2] = IdOf(f, x)
        OBVIOUS
      <4> QED BY <1>5, <4>2, <4>3
    <3>2. CASE x \notin Drafts
      <4>1. x \in Actions
        BY <1>0, <2>2, <3>2, FormTypes
      <4> QED BY <3>2, <4>1 DEF IdOf, IsDraft, Shows
    <3> QED BY <3>1, <3>2
  <2>5. ASSUME Finished
        PROVE  ToSet(l) \subseteq K
    <3> SUFFICES ASSUME NEW x \in ToSet(l), x \in Drafts
                 PROVE  \E a \in Actions : <<x, a>> \in ToSet(made[f])
      BY DEF HasId, IsDraft
    <3>1. x \in MadeDrafts(f)
      BY <1>0, <1>3, <2>5 DEF Complete
    <3>2. PICK m \in ToSet(made[f]) : m[1] = x
      BY <3>1 DEF MadeDrafts
    <3>3. m \in Drafts \X Actions
      BY <1>4, <3>2, Members
    <3>4. m = <<x, m[2]>> /\ m[2] \in Actions
      BY <3>2, <3>3
    <3> QED BY <3>2, <3>4
  <2> HIDE DEF K, known, sent
  <2>6. /\ Len(known) \in Nat /\ DOMAIN known = 1..Len(known)
        /\ \A i \in 1..Len(known) : known[i] \in K
    <3>1. \A i \in 1..Len(known) : known[i] \in ToSet(known)
      BY <2>1, Members
    <3> QED BY <2>1, <3>1, LenProperties
  <2>7. sent = [i \in 1..Len(known) |-> IdOf(f, known[i])]
    BY <2>3, <2>6
  <2>8. sent \in Seq(Actions) /\ Len(sent) = Len(known)
    BY <2>4, <2>6, <2>7
  <2>9. \A i \in 1..Len(known) : Shows(sent[i], known[i])
    BY <2>4, <2>6, <2>7
  <2> QED BY <2>1, <2>5, <2>8, <2>9 DEF sent
<1> QED BY <1>6, <1>7

\* A list that is mixed up has the rows it had, each once.
LEMMA RearrangedFacts ==
    ASSUME NEW S, NEW l \in Seq(S), IsInjective(l), NEW m \in Rearranged(l)
    PROVE  m \in Seq(S) /\ IsInjective(m) /\ ToSet(m) = ToSet(l)
<1>1. DOMAIN l = 1..Len(l) /\ Len(l) \in Nat /\ \A i \in 1..Len(l) : l[i] \in S
  BY LenProperties, ElementOfSeq
<1>2. m \in [1..Len(l) -> ToSet(l)] /\ ToSet(m) = ToSet(l)
  BY <1>1 DEF Rearranged
<1>3. \A x \in ToSet(l) : x \in S /\ \E i \in 1..Len(l) : m[i] = x
  BY <1>1, <1>2 DEF ToSet
<1>4. m \in Seq(S)
  BY <1>1, <1>2, <1>3
<1>5. IsFiniteSet(1..Len(l))
  BY <1>1, FS_Interval
<1>6. l \in Surjection(1..Len(l), ToSet(l)) /\ l \in Injection(1..Len(l), ToSet(l))
  <2>1. l \in [1..Len(l) -> ToSet(l)] /\ \A x \in ToSet(l) : \E i \in 1..Len(l) : l[i] = x
    BY <1>1 DEF ToSet
  <2>2. \A i, j \in 1..Len(l) : l[i] = l[j] => i = j
    BY <1>1 DEF IsInjective
  <2> QED BY <2>1, <2>2 DEF Surjection, Injection, IsInjective
<1>7. IsFiniteSet(ToSet(l)) /\ Cardinality(ToSet(l)) = Cardinality(1..Len(l))
  BY <1>5, <1>6, FS_Surjection
<1>8. m \in Surjection(1..Len(l), ToSet(l))
  BY <1>2, <1>3 DEF Surjection
<1>9. m \in Injection(1..Len(l), ToSet(l))
  BY <1>5, <1>7, <1>8, FS_SurjSameCardinalityImpliesInj
<1>10. IsInjective(m)
  BY <1>9 DEF Injection
<1> QED BY <1>2, <1>4, <1>10

LEMMA StepReadOrder ==
    ASSUME SaveInv, NEW f \in Forms, NEW o, ReadOrder(f, o)
    PROVE  SaveInv'
<1> DEFINE r == RoutineOf(f)
           sent == FinalIds(f)
<1>0. TypeOK /\ FormInv(f)
  BY DEF SaveInv
<1>1. /\ pc[f] = "create" /\ todo[f] = <<>> /\ Outcome(f, o)
      /\ UNCHANGED <<name, list, origin, form>>
  BY DEF ReadOrder, database
<1>2. /\ sent \in Seq(Actions) /\ list[r] \in Seq(Actions)
      /\ f \notin touched => /\ Len(sent) = Len(local[f])
                            /\ \A i \in 1..Len(local[f]) : Shows(sent[i], local[f][i])
  <2>1. r \in Routines
    BY <1>0, <1>1 DEF FormInv, Course, RoutineOf, TypeOK
  <2> QED BY <1>0, <1>1, <2>1, FinalIdsFacts DEF TypeOK
<1>3. /\ Lists' /\ name' \in [Routines -> Names \union {None}] /\ list' \in [Routines -> Seq(Actions)]
      /\ faults' \in 0..MaxFaults
  BY <1>0, <1>1, FaultsBounded DEF SaveInv, Lists, TypeOK
<1>4. CASE Fail(f, {})
  BY <1>1, <1>3, <1>4, StepFailed
<1>5. CASE /\ IsInjective(sent) /\ ToSet(sent) = ToSet(list[r]) /\ Goto(f, "order")
           /\ ids' = [ids EXCEPT ![f] = sent] /\ seen' = [seen EXCEPT ![f] = list[r]]
           /\ UNCHANGED <<awaited, todo, made, created, stray, touched, remade>>
  <2> HIDE DEF sent
  <2>1. TypeOK'
    <3>1. ids' \in [Forms -> Seq(Actions)] /\ seen' \in [Forms -> Seq(Actions)]
      BY <1>0, <1>2, <1>5 DEF TypeOK
    <3>2. pc' \in [Forms -> Saving \union {"open", "closed"}]
      BY <1>0, <1>5 DEF Goto, Saving, TypeOK
    <3> HIDE DEF r
    <3> QED BY <1>0, <1>1, <1>3, <1>5, <3>1, <3>2 DEF TypeOK, form
  <2>2. /\ pc'[f] = "order" /\ ids'[f] = sent /\ seen'[f] = list[r] /\ Elsewhere(f)
        /\ UNCHANGED <<target, local, left>>
    BY <1>0, <1>1, <1>5 DEF Goto, form, Elsewhere, TypeOK
  <2>3. Origins' /\ Grows
    BY <1>1, <1>5, DataKept
  <2>4. /\ DraftsIn(f)' = DraftsIn(f) /\ MadeDrafts(f)' = MadeDrafts(f)
        /\ (Creates(f)' <=> Creates(f)) /\ RoutineOf(f)' = RoutineOf(f)
    BY <1>5, <2>2 DEF DraftsIn, MadeDrafts, Creates, RoutineOf
  <2>5. FormInv(f)'
    <3>1. Course(f)'
      BY <1>0, <1>1, <1>5, <2>2, <2>4 DEF FormInv, Course
    <3>2. Sends(f)' /\ Known(f)'
      BY <1>0, <1>1, <1>5, <2>2, <2>4 DEF FormInv, Sends, Known
    <3>3. Complete(f)'
      BY <2>2 DEF Complete
    <3>4. Ordered(f)'
      BY <1>1, <1>2, <1>5, <2>2 DEF Ordered, Shows
    <3> QED BY <3>1, <3>2, <3>3, <3>4 DEF FormInv
  <2>6. \A g \in Forms \ {f} : \A d \in DraftsIn(g) :
           (d \in Range(origin') => d \in Range(origin)) /\ d \notin DraftsIn(f)'
    BY <1>1, <2>4 DEF SaveInv, Apart
  <2> QED BY <1>3, <2>1, <2>2, <2>3, <2>5, <2>6, OneForm
<1> QED BY <1>4, <1>5 DEF ReadOrder

LEMMA StepWriteOrder ==
    ASSUME SaveInv, NEW f \in Forms, NEW o, WriteOrder(f, o)
    PROVE  SaveInv'
<1> DEFINE r == RoutineOf(f)
<1>0. TypeOK /\ Ordered(f)
  BY DEF SaveInv, FormInv
<1>1. /\ pc[f] = "order" /\ Outcome(f, o) /\ UNCHANGED <<name, origin, form>>
      /\ list' = list \/ \E l \in Written(f, list[r]) : list' = [list EXCEPT ![r] = l]
  BY DEF WriteOrder, Answer
<1>2. Lists' /\ list' \in [Routines -> Seq(Actions)]
  <2>1. CASE UNCHANGED list
    BY <1>0, <1>1, <2>1 DEF SaveInv, Lists, TypeOK
  <2>2. ASSUME r \in Routines, NEW l \in Written(f, list[r]), list' = [list EXCEPT ![r] = l]
        PROVE  Lists' /\ list' \in [Routines -> Seq(Actions)]
    <3>1. list[r] \in Seq(Actions) /\ IsInjective(list[r]) /\ ids[f] \in Seq(Actions)
      BY <1>0, <2>2 DEF SaveInv, Lists, TypeOK
    <3>2. l \in Seq(Actions) /\ IsInjective(l) /\ ToSet(l) = ToSet(list[r])
      <4>1. CASE list[r] = seen[f]
        BY <1>0, <1>1, <2>2, <3>1, <4>1 DEF Written, Ordered
      <4>2. CASE list[r] # seen[f]
        BY <2>2, <3>1, <4>2, RearrangedFacts DEF Written
      <4> QED BY <4>1, <4>2
    <3> HIDE DEF r
    <3>3. list' \in [Routines -> Seq(Actions)]
      BY <1>0, <2>2, <3>2 DEF TypeOK
    <3>4. \A s \in Routines : IsInjective(list'[s]) /\ ToSet(list'[s]) = ToSet(list[s])
      BY <1>0, <2>2, <3>2 DEF TypeOK, SaveInv, Lists
    <3> QED BY <1>1, <3>3, <3>4 DEF SaveInv, Lists
  <2>3. r \in Routines
    BY <1>0, <1>1 DEF SaveInv, FormInv, Course, RoutineOf, TypeOK
  <2> QED BY <1>1, <2>1, <2>2, <2>3
<1>3. name' \in [Routines -> Names \union {None}] /\ faults' \in 0..MaxFaults
  BY <1>0, <1>1, FaultsBounded DEF TypeOK
<1>4. CASE Fail(f, {})
  BY <1>1, <1>2, <1>3, <1>4, StepFailed
<1>5. CASE Finish(f, "closed", {}) /\ UNCHANGED <<touched, remade>>
  BY <1>1, <1>2, <1>3, <1>5, StepEnded
<1> QED BY <1>4, <1>5 DEF WriteOrder

\* An order that is refused, or not sent at all.
LEMMA StepNoOrder ==
    ASSUME SaveInv, NEW f \in Forms, RefuseOrder(f) \/ SkipOrder(f)
    PROVE  SaveInv'
<1>0. TypeOK
  BY DEF SaveInv
<1>1. pc[f] # "closed" /\ UNCHANGED <<name, list, origin, form, faults>>
  BY DEF RefuseOrder, SkipOrder, database, bounds
<1>2. /\ Lists' /\ name' \in [Routines -> Names \union {None}] /\ list' \in [Routines -> Seq(Actions)]
      /\ faults' \in 0..MaxFaults
  BY <1>0, <1>1 DEF SaveInv, Lists, TypeOK
<1>3. CASE RefuseOrder(f)
  <2>1. Fail(f, {})
    BY <1>3 DEF RefuseOrder
  <2> QED BY <1>1, <1>2, <2>1, StepFailed
<1>4. CASE SkipOrder(f)
  <2>1. Finish(f, "closed", {}) /\ UNCHANGED <<remade, touched>>
    BY <1>4 DEF SkipOrder, history
  <2> QED BY <1>1, <1>2, <2>1, StepEnded
<1> QED BY <1>3, <1>4

LEMMA SaveStep == SaveInv /\ [Next]_vars => SaveInv'
<1> SUFFICES ASSUME SaveInv, [Next]_vars
             PROVE  SaveInv'
  OBVIOUS
<1>1. ASSUME NEW f \in Forms, User(f)
      PROVE  SaveInv'
  <2>1. ASSUME NEW r \in Routines \union {None}, Open(f, r)
        PROVE  SaveInv'
    BY <2>1, StepOpen
  <2>2. CASE AddAction(f)
    BY <2>2, StepEditing
  <2>3. CASE \E i \in 1..Len(local[f]) : RemoveAction(f, i) \/ (i > 1 /\ MoveAction(f, i))
    BY <2>3, StepEditing
  <2>4. CASE \E n \in Names \ {title[f]} : ChangeName(f, n)
    BY <2>4, StepEditing
  <2>5. CASE StartSave(f)
    BY <2>5, StepStartSave
  <2>6. CASE Leave(f)
    BY <2>6, StepLeave
  <2> QED BY <1>1, <2>1, <2>2, <2>3, <2>4, <2>5, <2>6 DEF User
<1>2. ASSUME NEW f \in Forms, Send(f)
      PROVE  SaveInv'
  <2>1. CASE StartCreating(f)
    BY <2>1, StepCreating
  <2>2. ASSUME NEW o \in {"ok", "error"}, CheckName(f, o)
        PROVE  SaveInv'
    BY <2>2, StepCheck
  <2>3. ASSUME NEW o \in Outcomes, Update(f, o)
        PROVE  SaveInv'
    BY <2>3, StepUpdate
  <2>4. ASSUME NEW o, ReadOrder(f, o) \/ WriteOrder(f, o)
        PROVE  SaveInv'
    BY <2>4, StepReadOrder, StepWriteOrder
  <2>5. ASSUME NEW o \in Outcomes, NEW a \in Actions, DeleteAction(f, a, o)
        PROVE  SaveInv'
    BY <2>5, StepDelete
  <2>6. ASSUME NEW o \in Outcomes, Insert(f, o)
        PROVE  SaveInv'
    BY <2>6, StepInsert
  <2>7. ASSUME NEW o \in Outcomes, CreateAction(f, o)
        PROVE  SaveInv'
    BY <2>7, StepCreate
  <2>8. CASE RefuseOrder(f) \/ SkipOrder(f)
    BY <2>8, StepNoOrder
  <2> QED BY <1>2, <2>1, <2>2, <2>3, <2>4, <2>5, <2>6, <2>7, <2>8 DEF Send
<1>3. CASE \E a \in Actions, o \in {"ok", "error"} : StrayDelete(a, o)
  BY <1>3, StepStray
<1>4. CASE UNCHANGED vars
  <2>1. UNCHANGED <<name, list, origin, pc, target, title, local, removed, awaited, todo, made,
                    created, stray, touched, remade, faults, left, ids, seen>>
    BY <1>4 DEF vars, database, form, save, order, history, bounds
  <2>2. TypeOK' /\ Lists' /\ Origins' /\ Apart'
    BY <2>1 DEF SaveInv, TypeOK, Lists, Origins, Apart, DraftsIn
  <2>3. \A f \in Forms : FormInv(f)'
    BY <2>1 DEF SaveInv, FormInv, Course, Sends, Known, Complete, Ordered, Shows, Creates, RoutineOf,
                DraftsIn, MadeDrafts
  <2> QED BY <2>2, <2>3 DEF SaveInv
<1> QED BY <1>1, <1>2, <1>3, <1>4 DEF Next

THEOREM SaveInvariant == Spec => []SaveInv
BY InitSave, SaveStep, PTL DEF Spec

\* Type correctness.
THEOREM TypeCorrect == Spec => []TypeOK
<1>1. SaveInv => TypeOK
  BY DEF SaveInv
<1> QED BY <1>1, SaveInvariant, PTL

LEMMA AddedOnceFollows == SaveInv => AddedOnce
<1> SUFFICES ASSUME SaveInv, NEW r \in Routines, NEW i \in 1..Len(list[r]), NEW j \in 1..Len(list[r]),
                    i # j, Content(list[r][i]) = Content(list[r][j])
             PROVE  Content(list[r][i]) \in remade
  BY DEF AddedOnce
<1>1. list[r] \in Seq(Actions) /\ IsInjective(list[r]) /\ origin \in [Actions -> Drafts \union {None}]
  BY DEF SaveInv, TypeOK, Lists
<1>2. list[r][i] \in Actions /\ list[r][j] \in Actions /\ list[r][i] # list[r][j]
  BY <1>1, ElementOfSeq, Members
<1> DEFINE a == list[r][i]
           b == list[r][j]
<1> HIDE DEF a, b
<1>3. a \in Actions /\ b \in Actions /\ a # b /\ Content(a) = Content(b)
  BY <1>2 DEF a, b
<1>4. \A c \in Actions : Content(c) = IF origin[c] # None THEN origin[c] ELSE c
  BY DEF Content
<1>5. \A c \in Actions : origin[c] # None => origin[c] \notin Actions
  BY <1>1, DataAssumption
<1>6. origin[a] = origin[b] /\ origin[a] # None /\ Content(a) = origin[a]
  BY <1>3, <1>4, <1>5
<1>7. Content(a) \in remade
  BY <1>3, <1>6 DEF SaveInv, Origins
<1> QED BY <1>7 DEF a

\* An action that was added once is in its routine once, unless the save that
\* created it failed afterwards: whatever requests fail or lose their answer, whatever
\* other tabs save meanwhile, handleSave never sends a draft a second time within a
\* save, and no two forms send the same one.
THEOREM AddedOnlyOnce == Spec => []AddedOnce
BY SaveInvariant, AddedOnceFollows, PTL

\* A step that ends a save as the form goes away either leaves it, or is the last
\* request of one that went well.
LEMMA ClosingStep ==
    ASSUME SaveInv, Next, NEW f \in Forms, pc[f] \in Saving, pc'[f] = "closed"
    PROVE  \/ f \in touched'
           \/ local[f] = <<>>
           \/ \E o \in Outcomes : WriteOrder(f, o) /\ Finish(f, "closed", {})
<1>0. pc \in [Forms -> Saving \union {"open", "closed"}] /\ pc[f] # "closed" /\ Course(f)
  BY DEF SaveInv, FormInv, TypeOK, Saving
<1>1. ASSUME NEW g \in Forms, NEW p, p # "closed", pc' = [pc EXCEPT ![g] = p]
      PROVE  FALSE
  BY <1>0, <1>1
<1>2. pc' # pc
  BY <1>0
<1>3. ASSUME NEW g \in Forms, g # f, NEW p, pc' = [pc EXCEPT ![g] = p]
      PROVE  FALSE
  BY <1>0, <1>3
<1>4. ASSUME NEW g \in Forms, User(g)
      PROVE  f \in touched'
  <2>1. CASE Leave(g)
    <3>1. Finish(g, "closed", awaited[g])
      BY <1>2, <2>1 DEF Leave
    <3>2. f = g
      BY <1>3, <3>1 DEF Finish, Goto
    <3> QED BY <2>1, <3>2 DEF Leave
  <2>2. CASE StartSave(g)
    BY <1>1, <2>2 DEF StartSave
  <2>3. CASE \E r \in Routines \union {None} : Open(g, r)
    BY <1>1, <2>3 DEF Open
  <2>4. ASSUME Edit(g)
        PROVE  FALSE
    BY <1>2, <2>4 DEF Edit
  <2> QED BY <1>4, <2>1, <2>2, <2>3, <2>4 DEF User, AddAction, RemoveAction, MoveAction, ChangeName
<1>5. ASSUME NEW g \in Forms, Send(g)
      PROVE  \/ f \in touched'
             \/ local[f] = <<>>
             \/ \E o \in Outcomes : WriteOrder(f, o) /\ Finish(f, "closed", {})
  <2>0. ASSUME NEW S, NEW D, FailHaving(g, S, D)
        PROVE  f \in touched'
    <3>1. PICK p \in {"open", "closed"} : Goto(g, p) /\ (p = "open" <=> g \notin left)
      BY <2>0, Failing
    <3>2. g = f
      BY <1>3, <3>1 DEF Goto
    <3>3. p = "closed"
      BY <1>1, <3>1 DEF Goto
    <3>4. touched' = touched
      BY <2>0, Failing
    <3> QED BY <1>0, <3>1, <3>2, <3>3, <3>4 DEF Course
  <2>1. CASE StartCreating(g)
    BY <1>1, <2>1 DEF StartCreating, Goto
  <2>2. ASSUME NEW o, CheckName(g, o)
        PROVE  f \in touched'
    BY <1>1, <2>0, <2>2 DEF CheckName, Fail, Goto
  <2>3. ASSUME NEW o, Update(g, o)
        PROVE  f \in touched'
    BY <1>1, <2>0, <2>3 DEF Update, Fail, Goto
  <2>4. ASSUME NEW o, NEW a, DeleteAction(g, a, o)
        PROVE  f \in touched'
    BY <1>2, <2>0, <2>4 DEF DeleteAction, Fail
  <2>5. ASSUME NEW o, Insert(g, o)
        PROVE  f \in touched' \/ local[f] = <<>>
    <3>1. CASE local[g] = <<>> /\ Finish(g, "closed", {})
      BY <1>3, <3>1 DEF Finish, Goto
    <3>2. CASE Goto(g, "create")
      BY <1>1, <3>2 DEF Goto
    <3> QED BY <2>0, <2>5, <3>1, <3>2 DEF Insert, Fail
  <2>6. ASSUME NEW o, CreateAction(g, o)
        PROVE  f \in touched'
    BY <1>2, <2>0, <2>6 DEF CreateAction
  <2>7. ASSUME NEW o, ReadOrder(g, o)
        PROVE  f \in touched'
    BY <1>1, <2>0, <2>7 DEF ReadOrder, Fail, Goto
  <2>8. ASSUME NEW o \in Outcomes, WriteOrder(g, o)
        PROVE  f \in touched' \/ (WriteOrder(f, o) /\ Finish(f, "closed", {}))
    <3>1. CASE Finish(g, "closed", {})
      <4>1. f = g
        BY <1>3, <3>1 DEF Finish, Goto
      <4> QED BY <2>8, <3>1, <4>1
    <3> QED BY <2>0, <2>8, <3>1 DEF WriteOrder, Fail
  <2>9. CASE RefuseOrder(g)
    BY <2>0, <2>9 DEF RefuseOrder, Fail
  <2>10. CASE SkipOrder(g)
    <3>1. f = g
      BY <1>3, <2>10 DEF SkipOrder, Finish, Goto
    <3>2. /\ pc[f] = "create" /\ todo[f] = <<>> /\ FinalIds(f) = <<>> /\ touched' = touched
      BY <2>10, <3>1 DEF SkipOrder, history
    <3>3. f \notin touched => Len(local[f]) = 0
      BY <3>2, FinalIdsFacts
    <3>4. local[f] \in Seq(Actions \union Drafts)
      BY DEF SaveInv, TypeOK
    <3> QED BY <3>2, <3>3, <3>4, EmptySeq
  <2> QED BY <1>5, <2>1, <2>2, <2>3, <2>4, <2>5, <2>6, <2>7, <2>8, <2>9, <2>10 DEF Send
<1>6. CASE \E a \in Actions, o \in {"ok", "error"} : StrayDelete(a, o)
  BY <1>2, <1>6 DEF StrayDelete
<1> QED BY <1>4, <1>5, <1>6 DEF Next

\* The list the routine has then, and the list the form shows, say the same.
LEMMA OrderShows ==
    ASSUME SaveInv, NEW f \in Forms, NEW o, WriteOrder(f, o), Finish(f, "closed", {}),
           NEW r \in Routines, r = RoutineOf(f), list[r] = seen[f], f \notin touched
    PROVE  Contents(list[r])' = Contents(local[f])'
<1> DEFINE l == local[f]
<1>0. TypeOK /\ Course(f) /\ Ordered(f)
  BY DEF SaveInv, FormInv
<1>1. pc[f] = "order" /\ UNCHANGED <<origin, local>>
  BY DEF WriteOrder, form
<1>2. /\ ids[f] \in Seq(Actions) /\ Len(ids[f]) = Len(l)
      /\ \A i \in 1..Len(l) : Shows(ids[f][i], l[i])
  BY <1>0, <1>1 DEF Ordered, TypeOK
<1>3. Len(l) \in Nat /\ DOMAIN l = 1..Len(l) /\ DOMAIN ids[f] = 1..Len(l)
  <2>1. l \in Seq(Actions \union Drafts)
    BY <1>0 DEF TypeOK
  <2> QED BY <1>2, <2>1, LenProperties
<1>4. o = "ok"
  <2>1. f \notin left
    BY <1>0 DEF Course
  <2>2. pc'[f] = "closed"
    BY <1>0 DEF Finish, Goto, TypeOK
  <2>3. ~ Fail(f, {})
    BY <1>0, <2>1, <2>2 DEF Fail, FailHaving, Finish, Goto, TypeOK
  <2> QED BY <2>3 DEF WriteOrder
<1>5. list'[r] = ids[f]
  <2>1. \E k \in Written(f, list[r]) : list' = [list EXCEPT ![r] = k]
    BY <1>4 DEF WriteOrder
  <2> QED BY <1>0, <2>1 DEF Written, TypeOK
<1>6. \A i \in 1..Len(l) : Content(ids[f][i]) = Content(l[i])
  <2> SUFFICES ASSUME NEW i \in 1..Len(l)
               PROVE  Content(ids[f][i]) = Content(l[i])
    OBVIOUS
  <2>1. ids[f][i] \in Actions /\ Shows(ids[f][i], l[i])
    BY <1>2, ElementOfSeq
  <2>2. \A x \in Drafts : x \notin Actions /\ x # None
    BY DataAssumption
  <2> HIDE DEF l
  <2> QED BY <2>1, <2>2 DEF Shows, Content
<1>7. Contents(list[r])' = [i \in 1..Len(l) |-> Content(ids[f][i])]
  BY <1>1, <1>3, <1>5 DEF Contents, Content
<1>8. Contents(local[f])' = [i \in 1..Len(l) |-> Content(l[i])]
  BY <1>1, <1>3 DEF Contents, Content
<1> QED BY <1>6, <1>7, <1>8

\* A save that says "Saved" leaves the routine with the actions the form shows, in
\* its order: handleSave sends every draft the form had, maps it to the id it got,
\* and sends exactly the form's list as the order, which the routine has once
\* reorder_actions commits, unless another request changed the routine's list since
\* that one read it.
THEOREM SavedMeansShown == Spec => SavedIsShown
<1>1. SaveInv /\ [Next]_vars =>
        [\A f \in Forms, r \in Routines :
            /\ pc[f] \in Saving /\ pc'[f] = "closed"
            /\ f \notin touched' /\ local[f] # <<>> /\ r = RoutineOf(f)
            /\ list[r] = seen[f] \/ pc[f] # "order"
            => Contents(list[r])' = Contents(local[f])']_vars
  <2> SUFFICES ASSUME SaveInv, Next, NEW f \in Forms, NEW r \in Routines,
                      pc[f] \in Saving, pc'[f] = "closed",
                      f \notin touched', local[f] # <<>>, r = RoutineOf(f),
                      list[r] = seen[f] \/ pc[f] # "order"
               PROVE  Contents(list[r])' = Contents(local[f])'
    OBVIOUS
  <2>1. PICK o \in Outcomes : WriteOrder(f, o) /\ Finish(f, "closed", {})
    BY ClosingStep
  <2>2. touched' = touched /\ pc[f] = "order"
    BY <2>1 DEF WriteOrder, Fail, FailHaving
  <2> QED BY <2>1, <2>2, OrderShows
<1> QED BY <1>1, SaveInvariant, PTL DEF SavedIsShown, Spec
=============================================================================
