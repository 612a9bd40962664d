------------------------ MODULE ActionPositionsProofs ------------------------
(***************************************************************************)
(* Proofs about ActionPositions, for any numbers of actions and requests:  *)
(* requests one after another keep the positions contiguous, and requests  *)
(* that overlap still edit the list in one piece, as ActionList has it.    *)
(***************************************************************************)
EXTENDS ActionPositions, FiniteSetTheorems, SequenceTheorems, TLAPS

-----------------------------------------------------------------------------
(* Lists.                                                                   *)

\* A function on 1..n is a sequence of length n.
LEMMA FunctionIsSeq ==
    ASSUME NEW S, NEW n \in Nat, NEW f \in [1..n -> S]
    PROVE  f \in Seq(S) /\ Len(f) = n
<1>1. f \in Seq(S)
  BY SeqDef
<1>2. DOMAIN f = 1..Len(f) /\ Len(f) \in Nat
  BY <1>1, LenProperties
<1>3. n <= Len(f)
  <2>1. n = 0 \/ n \in 1..Len(f)
    BY <1>2
  <2> QED BY <2>1, <1>2
<1>4. Len(f) <= n
  <2>1. Len(f) = 0 \/ Len(f) \in 1..n
    BY <1>2
  <2> QED BY <2>1, <1>2
<1> QED BY <1>1, <1>2, <1>3, <1>4

\* What a list holds after an insertion,
LEMMA InsertAtFacts ==
    ASSUME NEW S, NEW s \in Seq(S), NEW a \in S, NEW i \in 1..Len(s)+1
    PROVE  /\ List!InsertAt(s, i, a) \in Seq(S) /\ Len(List!InsertAt(s, i, a)) = Len(s)+1
           /\ \A k \in 1..Len(s)+1 : List!InsertAt(s, i, a)[k] =
                IF k < i THEN s[k] ELSE IF k = i THEN a ELSE s[k-1]
<1> DEFINE u == SubSeq(s, 1, i-1)
           v == SubSeq(s, i, Len(s))
           x == u \o <<a>>
           t == List!InsertAt(s, i, a)
<1>1. Len(s) \in Nat /\ \A k \in 1..Len(s) : s[k] \in S
  BY LenProperties, ElementOfSeq
<1>2. u \in Seq(S) /\ Len(u) = i-1 /\ \A k \in 1..i-1 : u[k] = s[k]
  <2>1. Len(u) = (IF 1 <= i-1 THEN i-1-1+1 ELSE 0) /\ u \in Seq(S)
        /\ \A k \in 1..(i-1)-1+1 : u[k] = s[1+k-1]
    BY <1>1, SubSeqProperties
  <2> QED BY <2>1, <1>1
<1>3. v \in Seq(S) /\ Len(v) = Len(s)-i+1 /\ \A k \in 1..Len(s)-i+1 : v[k] = s[k+i-1]
  <2>1. Len(v) = (IF i <= Len(s) THEN Len(s)-i+1 ELSE 0) /\ v \in Seq(S)
        /\ \A k \in 1..Len(s)-i+1 : v[k] = s[i+k-1]
    BY <1>1, SubSeqProperties
  <2> QED BY <2>1, <1>1
<1>4. <<a>> \in Seq(S) /\ Len(<<a>>) = 1 /\ <<a>>[1] = a
  OBVIOUS
<1> HIDE DEF u, v
<1>5. x \in Seq(S) /\ Len(x) = i /\ \A k \in 1..i : x[k] = IF k < i THEN s[k] ELSE a
  BY <1>1, <1>2, <1>4, ConcatProperties
<1>6. t = x \o v
  BY DEF List!InsertAt, u, v
<1> HIDE DEF t, x
<1>7. /\ t \in Seq(S)
      /\ Len(t) = i + (Len(s)-i+1)
      /\ \A k \in 1..i + (Len(s)-i+1) : t[k] = IF k <= i THEN x[k] ELSE v[k-i]
  BY <1>6, <1>3, <1>5, ConcatProperties
<1>8. ASSUME NEW k \in 1..Len(s)+1
      PROVE  t[k] = IF k < i THEN s[k] ELSE IF k = i THEN a ELSE s[k-1]
  <2>1. CASE k <= i
    BY <2>1, <1>7, <1>1, <1>5
  <2>2. CASE k > i
    <3>1. k-i \in 1..Len(s)-i+1 /\ (k-i)+i-1 = k-1
      BY <2>2, <1>1
    <3>2. t[k] = v[k-i]
      BY <2>2, <1>7, <1>1
    <3> QED BY <3>1, <3>2, <2>2, <1>3
  <2> QED BY <2>1, <2>2, <1>1
<1>9. Len(t) = Len(s)+1
  BY <1>7, <1>1
<1> QED BY <1>7, <1>8, <1>9 DEF t

\* and after a removal.
LEMMA RemoveAtFacts ==
    ASSUME NEW S, NEW s \in Seq(S), NEW i \in 1..Len(s)
    PROVE  /\ List!RemoveAt(s, i) \in Seq(S) /\ Len(List!RemoveAt(s, i)) = Len(s)-1
           /\ \A k \in 1..Len(s)-1 : List!RemoveAt(s, i)[k] = IF k < i THEN s[k] ELSE s[k+1]
<1> DEFINE u == SubSeq(s, 1, i-1)
           v == SubSeq(s, i+1, Len(s))
           t == List!RemoveAt(s, i)
<1>1. Len(s) \in Nat /\ \A k \in 1..Len(s) : s[k] \in S
  BY LenProperties, ElementOfSeq
<1>2. u \in Seq(S) /\ Len(u) = i-1 /\ \A k \in 1..i-1 : u[k] = s[k]
  <2>1. Len(u) = (IF 1 <= i-1 THEN i-1-1+1 ELSE 0) /\ u \in Seq(S)
        /\ \A k \in 1..(i-1)-1+1 : u[k] = s[1+k-1]
    BY <1>1, SubSeqProperties
  <2> QED BY <2>1, <1>1
<1>3. v \in Seq(S) /\ Len(v) = Len(s)-i /\ \A k \in 1..Len(s)-i : v[k] = s[k+i]
  <2>1. Len(v) = (IF i+1 <= Len(s) THEN Len(s)-(i+1)+1 ELSE 0) /\ v \in Seq(S)
        /\ \A k \in 1..Len(s)-(i+1)+1 : v[k] = s[(i+1)+k-1]
    BY <1>1, SubSeqProperties
  <2> QED BY <2>1, <1>1
<1>4. t = u \o v
  BY DEF List!RemoveAt
<1> HIDE DEF u, v, t
<1>5. /\ t \in Seq(S)
      /\ Len(t) = (i-1) + (Len(s)-i)
      /\ \A k \in 1..(i-1) + (Len(s)-i) : t[k] = IF k <= i-1 THEN u[k] ELSE v[k-(i-1)]
  <2>1. /\ t \in Seq(S)
        /\ Len(t) = Len(u) + Len(v)
        /\ \A k \in 1..Len(u) + Len(v) : t[k] = IF k <= Len(u) THEN u[k] ELSE v[k-Len(u)]
    BY <1>2, <1>3, <1>4, ConcatProperties, Zenon
  <2> QED BY <2>1, <1>2, <1>3
<1>6. ASSUME NEW k \in 1..Len(s)-1
      PROVE  t[k] = IF k < i THEN s[k] ELSE s[k+1]
  <2>1. CASE k < i
    BY <2>1, <1>5, <1>1, <1>2
  <2>2. CASE k >= i
    <3>1. k-(i-1) \in 1..Len(s)-i /\ (k-(i-1))+i = k+1
      BY <2>2, <1>1
    <3>2. t[k] = v[k-(i-1)]
      BY <2>2, <1>5, <1>1
    <3> QED BY <3>1, <3>2, <2>2, <1>1, <1>3
  <2> QED BY <2>1, <2>2, <1>1
<1>7. Len(t) = Len(s)-1
  BY <1>5, <1>1
<1> QED BY <1>5, <1>6, <1>7 DEF t

-----------------------------------------------------------------------------
(* The order that positions give to rows.                                   *)

RowsOf(f) == {a \in Actions : f[a] > 0}

\* The place of row a among all rows, counted from one.
Rank(f, a) == Cardinality({b \in RowsOf(f) : f[b] <= f[a]})

Order(f) == [i \in 1..Cardinality(RowsOf(f)) |->
                CHOOSE a \in RowsOf(f) : Rank(f, a) = i]

\* Positions a committed table may hold.
Positions(f) == f \in [Actions -> Nat] /\ IsFiniteSet(RowsOf(f)) /\ Unique(f)

\* Ranks grow with positions, and each number up to the number of rows is one.
LEMMA RankFacts ==
    ASSUME NEW f, Positions(f)
    PROVE  /\ Cardinality(RowsOf(f)) \in Nat
           /\ \A a \in RowsOf(f) : Rank(f, a) \in 1..Cardinality(RowsOf(f))
           /\ \A a, b \in RowsOf(f) : f[a] < f[b] <=> Rank(f, a) < Rank(f, b)
           /\ \A a, b \in RowsOf(f) : Rank(f, a) = Rank(f, b) => a = b
           /\ \A i \in 1..Cardinality(RowsOf(f)) : \E a \in RowsOf(f) : Rank(f, a) = i
<1> DEFINE R == RowsOf(f)
           n == Cardinality(R)
           upto(a) == {b \in R : f[b] <= f[a]}
<1>1. IsFiniteSet(R) /\ n \in Nat /\ R \subseteq Actions /\ \A a \in R : f[a] \in Nat
  BY FS_CardinalityType DEF Positions, RowsOf
<1>2. \A a, b \in R : f[a] = f[b] => a = b
  BY DEF Positions, Unique, RowsOf
<1> HIDE DEF R
<1>3. ASSUME NEW a \in R
      PROVE  IsFiniteSet(upto(a)) /\ Rank(f, a) = Cardinality(upto(a)) /\ Rank(f, a) \in 1..n
  <2>1. IsFiniteSet(upto(a)) /\ Cardinality(upto(a)) <= n /\ Cardinality(upto(a)) \in Nat
    BY <1>1, FS_Subset, FS_CardinalityType
  <2>2. a \in upto(a)
    BY <1>1
  <2>3. Cardinality(upto(a)) # 0
    BY <2>1, <2>2, FS_EmptySet
  <2> QED BY <1>1, <2>1, <2>3 DEF Rank, R
<1> HIDE DEF n
<1> HIDE DEF upto
<1>8. \A a \in R : Rank(f, a) \in 1..n /\ Rank(f, a) \in Nat
  BY <1>1, <1>3
<1>4. ASSUME NEW a \in R, NEW b \in R, f[a] < f[b]
      PROVE  Rank(f, a) < Rank(f, b)
  <2>1. upto(a) \subseteq upto(b) /\ b \notin upto(a) /\ b \in upto(b)
    BY <1>1, <1>4 DEF upto
  <2>2. Cardinality(upto(a)) <= Cardinality(upto(b)) /\ Cardinality(upto(a)) # Cardinality(upto(b))
    BY <1>3, <2>1, FS_Subset
  <2> QED BY <1>3, <2>2
<1>5. \A a, b \in R : Rank(f, a) = Rank(f, b) => a = b
  <2> SUFFICES ASSUME NEW a \in R, NEW b \in R, a # b
               PROVE  Rank(f, a) # Rank(f, b)
    OBVIOUS
  <2>1. f[a] < f[b] \/ f[b] < f[a]
    BY <1>1, <1>2
  <2>2. Rank(f, a) < Rank(f, b) \/ Rank(f, b) < Rank(f, a)
    BY <1>4, <2>1
  <2> QED BY <1>8, <2>2
<1>6. \A a, b \in R : f[a] < f[b] <=> Rank(f, a) < Rank(f, b)
  <2> SUFFICES ASSUME NEW a \in R, NEW b \in R, Rank(f, a) < Rank(f, b)
               PROVE  f[a] < f[b]
    BY <1>4
  <2>1. Rank(f, a) \in Nat /\ Rank(f, b) \in Nat
    BY <1>8
  <2>2. f[a] # f[b]
    BY <1>2, <2>1
  <2>3. ~ f[b] < f[a]
    BY <1>4, <2>1
  <2> QED BY <1>1, <2>2, <2>3
<1>7. \A i \in 1..n : \E a \in R : Rank(f, a) = i
  <2> DEFINE r == [a \in R |-> Rank(f, a)]
  <2>1. r \in Injection(R, 1..n)
    BY <1>8, <1>5 DEF Injection, IsInjective
  <2>2. IsFiniteSet(1..n) /\ Cardinality(1..n) = n
    BY <1>1, FS_Interval
  <2>3. r \in Surjection(R, 1..n)
    BY <2>1, <2>2, FS_Injection DEF n
  <2> QED BY <2>3 DEF Surjection
<1> QED BY <1>1, <1>8, <1>5, <1>6, <1>7 DEF R, n

\* The rows in order, and where each one stands.
LEMMA OrderFacts ==
    ASSUME NEW f, Positions(f)
    PROVE  /\ Order(f) \in Seq(RowsOf(f)) /\ Len(Order(f)) = Cardinality(RowsOf(f))
           /\ \A i \in 1..Cardinality(RowsOf(f)) :
                Order(f)[i] \in RowsOf(f) /\ Rank(f, Order(f)[i]) = i
           /\ \A a \in RowsOf(f) : Order(f)[Rank(f, a)] = a
<1> DEFINE R == RowsOf(f)
           n == Cardinality(R)
           s == Order(f)
<1>1. n \in Nat /\ s = [i \in 1..n |-> CHOOSE a \in R : Rank(f, a) = i]
  BY RankFacts DEF Order
<1>2. \A i \in 1..n : s[i] \in R /\ Rank(f, s[i]) = i
  BY <1>1, RankFacts
<1>3. \A a \in R : s[Rank(f, a)] = a
  BY <1>2, RankFacts
<1>4. s \in Seq(R) /\ Len(s) = n
  <2>1. s \in [1..n -> R]
    BY <1>1, <1>2
  <2> QED BY <1>1, <2>1, SeqDef, LenProperties, FunctionIsSeq
<1> QED BY <1>2, <1>3, <1>4
-----------------------------------------------------------------------------
(* How the order changes.                                                   *)

\* g gives the rows of f, and perhaps others, positions in the same order.
Keeps(f, g) == \A a, b \in RowsOf(f) : f[a] < f[b] => g[a] < g[b]

\* A row that comes in moves those behind it by one place, whatever the gaps
\* between their positions.
LEMMA InsertRank ==
    ASSUME NEW f, Positions(f), NEW g, Positions(g), NEW x, x \notin RowsOf(f),
           RowsOf(g) = RowsOf(f) \union {x}, Keeps(f, g), NEW a \in RowsOf(f)
    PROVE  Rank(g, a) = IF Rank(f, a) < Rank(g, x) THEN Rank(f, a) ELSE Rank(f, a) + 1
<1> DEFINE U == {b \in RowsOf(f) : f[b] <= f[a]}
           V == {b \in RowsOf(g) : g[b] <= g[a]}
<1>1. /\ \A b \in RowsOf(f) : f[b] \in Nat
      /\ \A b \in RowsOf(g) : g[b] \in Nat
      /\ \A b \in RowsOf(f) : f[b] = f[a] => b = a
      /\ x \in RowsOf(g) /\ a \in RowsOf(g) /\ x # a
      /\ g[x] # g[a]
  BY DEF Positions, RowsOf, Unique
<1>2. \A b \in RowsOf(f) : f[b] <= f[a] <=> g[b] <= g[a]
  <2> SUFFICES ASSUME NEW b \in RowsOf(f)
               PROVE  f[b] <= f[a] <=> g[b] <= g[a]
    OBVIOUS
  <2>1. f[b] < f[a] => g[b] < g[a]
    BY DEF Keeps
  <2>2. f[a] < f[b] => g[a] < g[b]
    BY DEF Keeps
  <2>3. b \in RowsOf(g)
    OBVIOUS
  <2> QED BY <1>1, <2>1, <2>2, <2>3
<1>3. IsFiniteSet(U) /\ Rank(f, a) = Cardinality(U) /\ Rank(f, a) \in Nat
  <2>1. IsFiniteSet(RowsOf(f)) /\ U \subseteq RowsOf(f)
    BY DEF Positions
  <2>2. IsFiniteSet(U)
    BY <2>1, FS_Subset
  <2> QED BY <2>2, FS_CardinalityType DEF Rank
<1>4. Rank(g, a) = Cardinality(V)
  BY DEF Rank
<1>5. Rank(g, a) \in Nat /\ Rank(g, x) \in Nat /\ (g[x] < g[a] <=> Rank(g, x) < Rank(g, a))
  BY <1>1, RankFacts
<1>6. CASE g[x] < g[a]
  <2>1. V = U \union {x} /\ x \notin U
    BY <1>1, <1>2, <1>6
  <2>2. Cardinality(V) = Cardinality(U) + 1
    BY <1>3, <2>1, FS_AddElement
  <2> QED BY <1>3, <1>4, <1>5, <1>6, <2>2
<1>7. CASE g[a] < g[x]
  <2>1. V = U
    BY <1>1, <1>2, <1>7
  <2>2. Rank(g, a) < Rank(g, x)
    BY <1>1, <1>7, RankFacts
  <2> QED BY <1>3, <1>4, <1>5, <2>1, <2>2
<1> QED BY <1>1, <1>6, <1>7

\* Seen as lists, f is g without one element.
LEMMA InsertOrder ==
    ASSUME NEW f, Positions(f), NEW g, Positions(g), NEW x, x \notin RowsOf(f),
           RowsOf(g) = RowsOf(f) \union {x}, Keeps(f, g)
    PROVE  /\ Rank(g, x) \in 1..Len(Order(f))+1 /\ Rank(g, x) \in 1..Len(Order(g))
           /\ Order(g) = List!InsertAt(Order(f), Rank(g, x), x)
           /\ Order(f) = List!RemoveAt(Order(g), Rank(g, x))
<1> DEFINE n == Cardinality(RowsOf(f))
           r == Rank(g, x)
           s == Order(f)
           t == Order(g)
<1>1. /\ n \in Nat /\ s \in Seq(RowsOf(f)) /\ Len(s) = n
      /\ \A i \in 1..n : s[i] \in RowsOf(f) /\ Rank(f, s[i]) = i
  BY OrderFacts, RankFacts
<1>2. Cardinality(RowsOf(g)) = n + 1
  BY FS_AddElement DEF Positions
<1>3. t \in Seq(RowsOf(g)) /\ Len(t) = n + 1 /\ \A a \in RowsOf(g) : t[Rank(g, a)] = a
  BY <1>2, OrderFacts
<1>4. r \in 1..n+1 /\ x \in RowsOf(g)
  BY <1>2, RankFacts
<1>5. ASSUME NEW i \in 1..n
      PROVE  t[IF i < r THEN i ELSE i + 1] = s[i]
  <2>1. s[i] \in RowsOf(f) /\ s[i] \in RowsOf(g) /\ Rank(f, s[i]) = i
    BY <1>1
  <2>2. Rank(g, s[i]) = IF i < r THEN i ELSE i + 1
    BY <2>1, InsertRank
  <2> QED BY <1>3, <2>1, <2>2
<1>6. t[r] = x
  BY <1>3, <1>4
<1> HIDE DEF n, r, s, t
<1>7. t = List!InsertAt(s, r, x)
  <2> DEFINE u == List!InsertAt(s, r, x)
  <2>1. s \in Seq(RowsOf(g)) /\ Len(s) = n
    <3>1. \A i \in 1..Len(s) : s[i] \in RowsOf(g)
      BY <1>1
    <3> QED BY <3>1, <1>1, SeqDef, LenProperties
  <2>2. /\ u \in Seq(RowsOf(g)) /\ Len(u) = n + 1
        /\ \A k \in 1..n+1 : u[k] = IF k < r THEN s[k] ELSE IF k = r THEN x ELSE s[k-1]
    <3>1. r \in 1..Len(s)+1 /\ Len(s)+1 = n + 1 /\ x \in RowsOf(g)
      BY <2>1, <1>1, <1>4
    <3> DEFINE S == RowsOf(g)
    <3> HIDE DEF S
    <3>2. s \in Seq(S) /\ x \in S /\ r \in 1..Len(s)+1
      BY <3>1, <2>1 DEF S
    <3>3. u \in Seq(S) /\ Len(u) = Len(s)+1
      BY <3>2, InsertAtFacts
    <3>4. \A k \in 1..Len(s)+1 : u[k] = IF k < r THEN s[k] ELSE IF k = r THEN x ELSE s[k-1]
      BY <3>2, InsertAtFacts
    <3> QED BY <3>1, <3>3, <3>4 DEF S
  <2>3. ASSUME NEW k \in 1..n+1
        PROVE  t[k] = u[k]
    <3>1. CASE k < r
      <4>1. k \in 1..n
        BY <3>1, <1>1, <1>4
      <4> QED BY <3>1, <4>1, <2>2, <1>5
    <3>2. CASE k = r
      BY <3>2, <2>2, <1>4, <1>6
    <3>3. CASE k > r
      <4>1. k-1 \in 1..n /\ ~ (k-1 < r) /\ (k-1)+1 = k
        BY <3>3, <1>1, <1>4
      <4>2. t[k] = s[k-1]
        BY <4>1, <1>5
      <4> QED BY <3>3, <4>2, <2>2, <1>4
    <3> QED BY <3>1, <3>2, <3>3, <1>1, <1>4
  <2> QED BY <2>2, <2>3, <1>3, SeqEqual
<1>8. s = List!RemoveAt(t, r)
  <2> DEFINE u == List!RemoveAt(t, r)
  <2>1. /\ u \in Seq(RowsOf(g)) /\ Len(u) = n
        /\ \A k \in 1..n : u[k] = IF k < r THEN t[k] ELSE t[k+1]
    <3>1. r \in 1..Len(t) /\ Len(t) - 1 = n
      BY <1>1, <1>3, <1>4
    <3> QED BY <3>1, <1>3, RemoveAtFacts
  <2>2. ASSUME NEW k \in 1..n
        PROVE  s[k] = u[k]
    BY <1>5, <2>1
  <2> QED BY <2>1, <2>2, <1>1, SeqEqual
<1> QED BY <1>1, <1>3, <1>4, <1>7, <1>8 DEF r, s, t

\* The list stays when no row comes or goes and the order is kept.
LEMMA KeepOrder ==
    ASSUME NEW f, Positions(f), NEW g, Positions(g), RowsOf(g) = RowsOf(f), Keeps(f, g)
    PROVE  Order(g) = Order(f)
<1>1. ASSUME NEW a \in RowsOf(f)
      PROVE  Rank(g, a) = Rank(f, a)
  <2>1. /\ \A b \in RowsOf(f) : f[b] \in Nat /\ g[b] \in Nat
        /\ \A b \in RowsOf(f) : f[b] = f[a] => b = a
    BY DEF Positions, RowsOf, Unique
  <2>2. \A b \in RowsOf(f) : f[b] <= f[a] <=> g[b] <= g[a]
    BY <2>1 DEF Keeps
  <2> QED BY <2>2 DEF Rank
<1>2. \A i \in 1..Cardinality(RowsOf(f)) :
        (CHOOSE a \in RowsOf(g) : Rank(g, a) = i) = CHOOSE a \in RowsOf(f) : Rank(f, a) = i
  BY <1>1
<1> QED BY <1>2 DEF Order

\* t has the elements of s in another order.
Permutes(s, t) ==
    \E p \in [1..Len(s) -> 1..Len(s)] :
        List!IsInjective(p) /\ t = [i \in 1..Len(s) |-> s[p[i]]]

\* The list is rearranged when no row comes or goes.
LEMMA Reordered ==
    ASSUME NEW f, Positions(f), NEW g, Positions(g), RowsOf(g) = RowsOf(f)
    PROVE  Permutes(Order(f), Order(g))
<1> DEFINE n == Cardinality(RowsOf(f))
           p == [i \in 1..n |-> Rank(f, Order(g)[i])]
<1>1. n \in Nat /\ Len(Order(f)) = n
  BY RankFacts, OrderFacts
<1>2. /\ \A i \in 1..n : Order(g)[i] \in RowsOf(f) /\ Rank(g, Order(g)[i]) = i
      /\ Order(g) \in Seq(RowsOf(f)) /\ Len(Order(g)) = n
  BY OrderFacts
<1>3. p \in [1..n -> 1..n]
  BY <1>2, RankFacts
<1>4. \A i, j \in 1..n : p[i] = p[j] => i = j
  <2> SUFFICES ASSUME NEW i \in 1..n, NEW j \in 1..n, p[i] = p[j]
               PROVE  i = j
    OBVIOUS
  <2>1. Rank(f, Order(g)[i]) = Rank(f, Order(g)[j])
    OBVIOUS
  <2>2. Order(g)[i] = Order(g)[j]
    BY <1>2, <2>1, RankFacts
  <2> QED BY <1>2, <2>2
<1>5. \A i \in 1..n : Order(g)[i] = Order(f)[p[i]]
  BY <1>2, OrderFacts
<1>6. Order(g) = [i \in 1..n |-> Order(f)[p[i]]]
  <2>1. Order(g) = [i \in 1..n |-> Order(g)[i]]
    BY DEF Order
  <2> QED BY <2>1, <1>5
<1>7. List!IsInjective(p)
  BY <1>3, <1>4 DEF List!IsInjective
<1> QED BY <1>1, <1>3, <1>6, <1>7 DEF Permutes

-----------------------------------------------------------------------------
(* What holds however requests overlap.                                     *)

\* A row that is locked is there; one that is being created is not, and belongs
\* to one request.
Keys ==
    /\ \A a \in spare : pos[a] = 0
    /\ \A a \in Actions : lock[a] # None => pos[a] > 0
    /\ \A q \in Requests : op[q] = "create" =>
            act[q] \in Actions \ spare /\ pos[act[q]] = 0 /\ at[q] > 0
    /\ \A p, q \in Requests :
            op[p] = "create" /\ op[q] = "create" /\ act[p] = act[q] => p = q

\* What request q has written to row a, and when: a creation and a deletion move
\* rows by one place, all in one direction, from where they still are.
Written(q, a) ==
    /\ op[q] = "create" => pc[q] = "commit" /\ mine[q][a] = pos[a] + 1
    /\ op[q] = "delete" =>
          \/ a = act[q] /\ mine[q][a] = 0 /\ pc[q] # "remove"
          \/ pc[q] = "commit" /\ mine[q][a] = pos[a] - 1 /\ mine[q][a] > 0
    /\ op[q] \in {"move", "reorder"} => pc[q] = "commit" /\ mine[q][a] > 0
    /\ op[q] # "none"

Course(q) ==
    /\ op[q] = "none" <=> pc[q] = "idle"
    /\ op[q] = "create" => pc[q] \in {"shift", "shifting", "commit"}
    /\ op[q] = "delete" => pc[q] \in {"remove", "shift", "shifting", "commit"} /\ at[q] > 1
    /\ op[q] \in {"move", "reorder"} => pc[q] \in {"find", "write", "commit"}
    /\ \A a \in Actions : lock[a] = q => Written(q, a)

Sound == TypeOK /\ Positions(pos) /\ Keys /\ \A q \in Requests : Course(q)

-----------------------------------------------------------------------------
\* The greatest position: create_action appends after it.
LEMMA MaxFacts ==
    ASSUME Positions(pos), Actions # {}
    PROVE  /\ NextAppendPosition \in Nat \ {0}
           /\ \A a \in Actions : pos[a] < NextAppendPosition
           /\ \E a \in Actions : NextAppendPosition = pos[a] + 1
<1> DEFINE P == {pos[a] : a \in Actions}
           R == RowsOf(pos)
<1>1. pos \in [Actions -> Nat]
  BY DEF Positions
<1>2. \E m \in P : \A k \in P : m >= k
  <2>1. CASE R = {}
    <3>1. \A a \in Actions : pos[a] = 0
      BY <1>1, <2>1 DEF RowsOf
    <3> QED BY <3>1
  <2>2. CASE R # {}
    <3>1. Cardinality(R) \in Nat /\ Cardinality(R) # 0
      BY <2>2, RankFacts, FS_EmptySet DEF Positions
    <3>2. PICK a \in R : Rank(pos, a) = Cardinality(R)
      BY <3>1, RankFacts
    <3>3. \A b \in R : Rank(pos, b) \in 1..Cardinality(R) /\ ~ (Rank(pos, a) < Rank(pos, b))
      BY <3>1, <3>2, RankFacts
    <3>4. \A b \in R : ~ (pos[a] < pos[b])
      BY <3>3, RankFacts
    <3>5. a \in Actions /\ \A b \in Actions : pos[a] >= pos[b]
      BY <1>1, <3>4 DEF RowsOf
    <3> QED BY <3>5
  <2> QED BY <2>1, <2>2
<1>3. Max(P) \in P /\ \A k \in P : Max(P) >= k
  BY <1>2 DEF Max
<1>4. NextAppendPosition = Max(P) + 1
  BY DEF NextAppendPosition
<1>5. PICK a \in Actions : Max(P) = pos[a]
  BY <1>3
<1>6. \A b \in Actions : pos[a] >= pos[b] /\ pos[b] \in Nat
  BY <1>1, <1>3, <1>5
<1>7. NextAppendPosition = pos[a] + 1
  BY <1>4, <1>5
<1> HIDE DEF P
<1> QED BY <1>6, <1>7

\* The requests that take no part in a step stay where they are.
LEMMA Others ==
    ASSUME Sound, NEW q \in Requests,
           \A p \in Requests \ {q} :
              /\ pc'[p] = pc[p] /\ op'[p] = op[p] /\ act'[p] = act[p] /\ at'[p] = at[p]
              /\ mine'[p] = mine[p]
              /\ \A a \in Actions : lock'[a] = p => lock[a] = p /\ pos'[a] = pos[a]
    PROVE  \A p \in Requests \ {q} : Course(p)'
BY DEF Sound, Course, Written

\* A request begins; if it creates an action, the key is a new one.
LEMMA BeginSound ==
    ASSUME Sound, NEW q \in Requests, NEW o \in AllOperations, NEW a \in Actions \union {None}, NEW p,
           Begin(q, o, a, p), UNCHANGED <<pos, lock, seen>>,
           at' \in [Requests -> Nat], old' \in [Requests -> Nat], mine' \in [Requests -> [Actions -> Nat]],
           \A r \in Requests \ {q} : at'[r] = at[r] /\ mine'[r] = mine[r],
           o = "create" => /\ p \in {"shift", "commit"} /\ a \in spare /\ spare' = spare \ {a} /\ at'[q] > 0,
           o = "delete" => p = "remove" /\ at'[q] > 1,
           o \in {"move", "reorder"} => p \in {"find", "write"},
           o # "create" => spare' = spare
    PROVE  Sound'
<1>1. /\ pc[q] = "idle" /\ op[q] = "none"
      /\ pc' = [pc EXCEPT ![q] = p] /\ op' = [op EXCEPT ![q] = o] /\ act' = [act EXCEPT ![q] = a]
      /\ begun < MaxRequests /\ begun' = begun + 1 /\ overlapped' \in BOOLEAN
  BY DEF Begin, Sound, Course, TypeOK
<1>2. p \in {"shift", "commit", "remove", "find", "write"}
  BY DEF AllOperations
<1>3. TypeOK'
  BY <1>1, <1>2, RequestAssumption DEF Sound, TypeOK
<1>4. Positions(pos)'
  BY DEF Sound, Positions, RowsOf, Unique
<1>5. \A b \in Actions : lock[b] # q
  BY <1>1 DEF Sound, Course, Written
<1>6. Course(q)'
  BY <1>1, <1>5 DEF Course, AllOperations, Sound, TypeOK
<1>7. \A r \in Requests \ {q} : Course(r)'
  <2>1. \A r \in Requests \ {q} :
           /\ pc'[r] = pc[r] /\ op'[r] = op[r] /\ act'[r] = act[r] /\ at'[r] = at[r]
           /\ mine'[r] = mine[r]
           /\ \A b \in Actions : lock'[b] = r => lock[b] = r /\ pos'[b] = pos[b]
    BY <1>1 DEF Sound, TypeOK
  <2> QED BY <2>1, Others
<1>8. Keys'
  <2>1. \A r \in Requests : op'[r] = "create" =>
            \/ r # q /\ op[r] = "create" /\ act'[r] = act[r] /\ at'[r] = at[r]
            \/ r = q /\ act'[r] = a /\ a \in spare /\ spare' = spare \ {a} /\ at'[r] > 0
    BY <1>1 DEF Sound, TypeOK
  <2>2. spare' \subseteq spare /\ spare \subseteq Actions
    BY DEF AllOperations, Sound, TypeOK
  <2> QED BY <2>1, <2>2 DEF Sound, Keys
<1> QED BY <1>3, <1>4, <1>6, <1>7, <1>8 DEF Sound

\* A transaction ends and has changed nothing.
LEMMA EndSound ==
    ASSUME Sound, NEW q \in Requests, End(q), UNCHANGED <<pos, spare>>
    PROVE  Sound'
<1>1. TypeOK'
  BY DEF Sound, TypeOK, End, Nothing
<1>2. Positions(pos)'
  BY DEF Sound, Positions, RowsOf, Unique
<1>3. /\ pc' = [pc EXCEPT ![q] = "idle"] /\ op' = [op EXCEPT ![q] = "none"]
      /\ \A a \in Actions : lock'[a] # q /\ (lock'[a] # None => lock'[a] = lock[a])
  BY NoneAssumption DEF End
<1>4. Course(q)'
  BY <1>3 DEF Course, Sound, TypeOK
<1>5. \A r \in Requests \ {q} : Course(r)'
  BY Others, NoneAssumption DEF End, Sound, TypeOK
<1>6. Keys'
  BY <1>3 DEF Keys, End, Sound, TypeOK
<1> QED BY <1>1, <1>2, <1>4, <1>5, <1>6 DEF Sound

\* A statement writes rows that are there, and the request goes on to p.
LEMMA WriteSound ==
    ASSUME Sound, NEW q \in Requests, NEW S \in SUBSET Actions, NEW w, NEW p, Write(q, S, w),
           Goto(q, p), UNCHANGED <<pos, spare, old, at>>, seen' \in [Requests -> SUBSET Actions],
           p \in {"shift", "commit"}, op[q] # "none", pc[q] # "commit",
           op[q] \in {"create", "move", "reorder"} => p = "commit",
           pc[q] = "remove" => p = "shift" /\ S \subseteq {act[q]},
           \A a \in S : w[a] \in Nat /\ pos[a] > 0,
           \A a \in S : lock'[a] = q /\ mine'[q][a] = w[a] /\ pc'[q] = p => Written(q, a)'
    PROVE  Sound'
<1>1. /\ pc' = [pc EXCEPT ![q] = p] /\ UNCHANGED <<op, act, begun, overlapped>>
      /\ \A a \in S : Free(q, a)
      /\ lock' = [a \in Actions |-> IF a \in S THEN q ELSE lock[a]]
      /\ mine' = [mine EXCEPT ![q] = [a \in Actions |-> IF a \in S THEN w[a] ELSE @[a]]]
  BY DEF Goto, Write
<1>2. TypeOK'
  BY <1>1 DEF Sound, TypeOK
<1>3. Positions(pos)'
  BY DEF Sound, Positions, RowsOf, Unique
<1>4. Keys'
  BY <1>1 DEF Sound, Keys
<1>5. \A r \in Requests \ {q} : Course(r)'
  <2>1. \A r \in Requests \ {q} :
           /\ pc'[r] = pc[r] /\ op'[r] = op[r] /\ act'[r] = act[r] /\ at'[r] = at[r]
           /\ mine'[r] = mine[r]
           /\ \A a \in Actions : lock'[a] = r => lock[a] = r /\ pos'[a] = pos[a]
    BY <1>1 DEF Sound, TypeOK
  <2> QED BY <2>1, Others
<1>6. Course(q)'
  <2>1. pc'[q] = p /\ \A a \in Actions \ S : lock'[a] = lock[a] /\ mine'[q][a] = mine[q][a]
    BY <1>1 DEF Sound, TypeOK
  <2>2. ASSUME NEW a \in Actions, lock'[a] = q
        PROVE  Written(q, a)'
    <3>1. CASE a \in S
      <4>1. mine'[q][a] = w[a]
        BY <1>1, <3>1 DEF Sound, TypeOK
      <4> QED BY <2>1, <2>2, <3>1, <4>1
    <3>2. CASE a \notin S
      <4>1. Written(q, a) /\ lock[a] = q
        BY <2>1, <2>2, <3>2 DEF Sound, Course
      <4> QED BY <1>1, <2>1, <3>2, <4>1 DEF Written
    <3> QED BY <3>1, <3>2
  <2>3. Course(q) /\ op[q] \in AllOperations
    BY DEF Sound, TypeOK
  <2> QED BY <1>1, <2>1, <2>2, <2>3 DEF Course, AllOperations
<1> QED BY <1>2, <1>3, <1>4, <1>5, <1>6 DEF Sound

-----------------------------------------------------------------------------
(* The commit.                                                              *)

\* What a commit makes of the rows: one comes in, one goes, or the same rows
\* change places; if no two collide, the others keep their order.
LEMMA MergedFacts ==
    ASSUME Sound, NEW q \in Requests, pc[q] = "commit"
    PROVE  /\ Merged(q) \in [Actions -> Nat]
           /\ IsFiniteSet(RowsOf(Merged(q)))
           /\ op[q] = "create" =>
                /\ act[q] \in Actions \ RowsOf(pos)
                /\ RowsOf(Merged(q)) = RowsOf(pos) \union {act[q]}
                /\ Unique(Merged(q)) => Keeps(pos, Merged(q))
           /\ op[q] = "delete" =>
                /\ \/ /\ act[q] \in Actions \ RowsOf(Merged(q))
                      /\ RowsOf(pos) = RowsOf(Merged(q)) \union {act[q]}
                   \/ RowsOf(Merged(q)) = RowsOf(pos)
                /\ Unique(Merged(q)) => Keeps(Merged(q), pos)
           /\ op[q] \in {"move", "reorder"} => RowsOf(Merged(q)) = RowsOf(pos)
           /\ op[q] \in AllOperations
<1> DEFINE g == Merged(q)
<1>1. /\ pos \in [Actions -> Nat] /\ mine[q] \in [Actions -> Nat] /\ at[q] \in Nat
      /\ op[q] \in AllOperations /\ Keys /\ Positions(pos)
      /\ \A a \in Actions : lock[a] = q => pos[a] > 0 /\ Written(q, a)
  BY NoneAssumption DEF Sound, TypeOK, Course, Keys
<1>2. g \in [Actions -> Nat]
  BY <1>1 DEF Merged, View
<1>3. /\ \A a \in Actions : lock[a] = q /\ ~ (op[q] = "create" /\ act[q] = a) => g[a] = mine[q][a]
      /\ \A a \in Actions : lock[a] # q /\ ~ (op[q] = "create" /\ act[q] = a) => g[a] = pos[a]
      /\ op[q] = "create" => \A a \in Actions : act[q] = a => g[a] = at[q]
  BY DEF Merged, View
<1> HIDE DEF g
<1>4. IsFiniteSet(RowsOf(pos)) /\ \A a, b \in Actions : pos[a] = pos[b] /\ pos[a] > 0 => a = b
  BY <1>1 DEF Positions, Unique
<1>5. CASE op[q] = "create"
  <2>1. act[q] \in Actions \ RowsOf(pos) /\ at[q] > 0
    BY <1>1, <1>5 DEF Keys, RowsOf
  <2>2. g[act[q]] > 0 /\ \A a \in Actions : a # act[q] => g[a] = pos[a] \/ (g[a] = pos[a] + 1 /\ pos[a] > 0)
    BY <1>1, <1>3, <1>5, <2>1 DEF Written
  <2>3. RowsOf(g) = RowsOf(pos) \union {act[q]}
    BY <1>1, <1>2, <2>1, <2>2 DEF RowsOf
  <2>4. Unique(g) => Keeps(pos, g)
    <3> SUFFICES ASSUME Unique(g), NEW a \in RowsOf(pos), NEW b \in RowsOf(pos), pos[a] < pos[b]
                 PROVE  g[a] < g[b]
      BY DEF Keeps
    <3>1. a \in Actions /\ b \in Actions /\ a # act[q] /\ b # act[q] /\ a # b /\ pos[a] > 0 /\ pos[b] > 0
      BY <1>1, <2>1 DEF RowsOf
    <3>2. g[a] <= g[b]
      BY <1>1, <2>2, <3>1
    <3>3. g[a] # g[b]
      BY <1>1, <2>2, <3>1 DEF Unique
    <3> QED BY <1>2, <3>1, <3>2, <3>3
  <2>5. IsFiniteSet(RowsOf(g))
    BY <1>4, <2>3, FS_AddElement
  <2> QED BY <1>1, <1>2, <1>5, <2>1, <2>3, <2>4, <2>5 DEF g
<1>6. CASE op[q] = "delete"
  <2>1. \A a \in Actions : \/ g[a] = pos[a]
                           \/ g[a] = pos[a] - 1 /\ g[a] > 0 /\ pos[a] > 0
                           \/ a = act[q] /\ g[a] = 0 /\ pos[a] > 0
    BY <1>1, <1>3, <1>6 DEF Written
  <2>2. RowsOf(g) \subseteq RowsOf(pos)
    BY <1>1, <2>1 DEF RowsOf
  <2>3. \/ act[q] \in Actions \ RowsOf(g) /\ RowsOf(pos) = RowsOf(g) \union {act[q]}
        \/ RowsOf(g) = RowsOf(pos)
    <3>1. CASE act[q] \in Actions /\ g[act[q]] = 0 /\ pos[act[q]] > 0
      BY <1>1, <2>1, <2>2, <3>1 DEF RowsOf
    <3>2. CASE ~ (act[q] \in Actions /\ g[act[q]] = 0 /\ pos[act[q]] > 0)
      BY <1>1, <2>1, <2>2, <3>2 DEF RowsOf
    <3> QED BY <3>1, <3>2
  <2>4. Unique(g) => Keeps(g, pos)
    <3> SUFFICES ASSUME Unique(g), NEW a \in RowsOf(g), NEW b \in RowsOf(g), g[a] < g[b]
                 PROVE  pos[a] < pos[b]
      BY DEF Keeps
    <3>1. a \in Actions /\ b \in Actions /\ g[a] > 0 /\ g[b] > 0 /\ g[a] \in Nat /\ g[b] \in Nat
      BY <1>2 DEF RowsOf
    <3>2. pos[a] \in Nat /\ pos[b] \in Nat /\ pos[a] # pos[b] /\ pos[a] >= g[a] /\ pos[b] >= g[b]
          /\ pos[a] <= g[a] + 1
      BY <1>1, <1>4, <2>1, <3>1
    <3> QED BY <3>1, <3>2
  <2>5. IsFiniteSet(RowsOf(g))
    BY <1>4, <2>2, FS_Subset
  <2> QED BY <1>1, <1>2, <1>6, <2>3, <2>4, <2>5 DEF g
<1>7. CASE op[q] \in {"move", "reorder"}
  <2>1. \A a \in Actions : g[a] = pos[a] \/ (g[a] > 0 /\ pos[a] > 0)
    BY <1>1, <1>3, <1>7 DEF Written
  <2>2. RowsOf(g) = RowsOf(pos)
    BY <2>1 DEF RowsOf
  <2> QED BY <1>1, <1>2, <1>4, <1>7, <2>2 DEF g
<1>8. op[q] # "none"
  BY DEF Sound, Course
<1> QED BY <1>1, <1>5, <1>6, <1>7, <1>8 DEF AllOperations

\* The commit of positions without a collision.
LEMMA CommitSound ==
    ASSUME Sound, NEW q \in Requests, pc[q] = "commit", Unique(Merged(q)), pos' = Merged(q),
           End(q), UNCHANGED spare
    PROVE  Sound'
<1>1. Positions(pos)'
  <2>1. Merged(q) \in [Actions -> Nat] /\ IsFiniteSet(RowsOf(Merged(q)))
    BY MergedFacts
  <2> QED BY <2>1 DEF Positions, RowsOf, Unique
<1>2. TypeOK'
  BY <1>1 DEF Positions, Sound, TypeOK, End, Nothing
<1>3. /\ pc' = [pc EXCEPT ![q] = "idle"] /\ op' = [op EXCEPT ![q] = "none"]
      /\ \A a \in Actions : lock'[a] # q /\ (lock'[a] # None => lock'[a] = lock[a])
  BY NoneAssumption DEF End
<1>4. Course(q)'
  BY <1>3 DEF Course, Sound, TypeOK
<1>5. \A a \in Actions : lock[a] # q => pos'[a] = pos[a] \/ (op[q] = "create" /\ act[q] = a)
  BY DEF Merged, View
<1>6. \A a \in Actions : lock[a] # None => pos[a] > 0
  BY DEF Sound, Keys
<1>7. \A r \in Requests \ {q} :
         /\ pc'[r] = pc[r] /\ op'[r] = op[r] /\ act'[r] = act[r] /\ at'[r] = at[r]
         /\ mine'[r] = mine[r]
         /\ \A a \in Actions : lock'[a] = r => lock[a] = r /\ pos'[a] = pos[a]
  <2> SUFFICES ASSUME NEW r \in Requests \ {q}
               PROVE  /\ pc'[r] = pc[r] /\ op'[r] = op[r] /\ act'[r] = act[r] /\ at'[r] = at[r]
                      /\ mine'[r] = mine[r]
                      /\ \A a \in Actions : lock'[a] = r => lock[a] = r /\ pos'[a] = pos[a]
    OBVIOUS
  <2>1. /\ pc'[r] = pc[r] /\ op'[r] = op[r] /\ act'[r] = act[r] /\ at'[r] = at[r]
        /\ mine'[r] = mine[r]
    BY DEF End, Sound, TypeOK
  <2>2. ASSUME NEW a \in Actions, lock'[a] = r
        PROVE  lock[a] = r /\ pos'[a] = pos[a]
    <3>1. lock[a] = r /\ r # None
      BY <1>3, <2>2, NoneAssumption
    <3>2. ~ (op[q] = "create" /\ act[q] = a)
      BY <1>6, <3>1 DEF Sound, Keys
    <3> QED BY <1>5, <3>1, <3>2
  <2> QED BY <2>1, <2>2
<1>8. \A r \in Requests \ {q} : Course(r)'
  BY <1>7, Others
<1>9. Keys'
  <2>1. \A a \in Actions : pos[a] = 0 /\ ~ (op[q] = "create" /\ act[q] = a) => pos'[a] = 0
    BY <1>5, <1>6, NoneAssumption
  <2>2. \A a \in spare' : pos'[a] = 0
    BY <2>1 DEF Sound, Keys, TypeOK
  <2>3. \A a \in Actions : lock'[a] # None => pos'[a] > 0
    <3> SUFFICES ASSUME NEW a \in Actions, lock'[a] # None
                 PROVE  pos'[a] > 0
      OBVIOUS
    <3>1. lock[a] # q /\ lock[a] # None
      BY <1>3
    <3>2. pos[a] > 0 /\ ~ (op[q] = "create" /\ act[q] = a)
      BY <1>6, <3>1 DEF Sound, Keys
    <3> QED BY <1>5, <3>1, <3>2
  <2>4. \A r \in Requests : op'[r] = "create" =>
            r # q /\ op[r] = "create" /\ act'[r] = act[r] /\ at'[r] = at[r]
    BY <1>3, <1>7 DEF Sound, TypeOK
  <2>5. \A r \in Requests : op'[r] = "create" =>
            act'[r] \in Actions \ spare' /\ pos'[act'[r]] = 0 /\ at'[r] > 0
    BY <2>1, <2>4 DEF Sound, Keys
  <2>6. \A r, p \in Requests : op'[p] = "create" /\ op'[r] = "create" /\ act'[p] = act'[r] => p = r
    BY <2>4 DEF Sound, Keys
  <2> QED BY <2>2, <2>3, <2>5, <2>6 DEF Keys
<1> QED BY <1>1, <1>2, <1>4, <1>8, <1>9 DEF Sound

-----------------------------------------------------------------------------
(* Every step.                                                              *)

LEMMA InitSound == Init => Sound
<1> SUFFICES ASSUME Init
             PROVE  Sound
  OBVIOUS
<1> DEFINE n == Len(InitialList)
<1>1. n \in Nat /\ InitialList \in [1..n -> Actions]
  BY ListAssumption, LenProperties
<1>2. pos = [a \in Actions |-> IF \E i \in 1..n : InitialList[i] = a
                               THEN CHOOSE i \in 1..n : InitialList[i] = a ELSE 0]
  BY DEF Init
<1> HIDE DEF n
<1>3. ASSUME NEW a \in Actions
      PROVE  \/ pos[a] \in 1..n /\ InitialList[pos[a]] = a
             \/ pos[a] = 0 /\ \A i \in 1..n : InitialList[i] # a
  BY <1>2
<1>4. pos \in [Actions -> Nat] /\ \A a \in Actions : pos[a] > 0 => pos[a] \in 1..n /\ InitialList[pos[a]] = a
  <2>1. \A a \in Actions : pos[a] \in Nat
    BY <1>1, <1>3
  <2> QED BY <1>2, <1>3, <2>1
<1>5. Positions(pos)
  <2>1. Unique(pos)
    BY <1>4 DEF Unique
  <2>2. IsFiniteSet(RowsOf(pos))
    <3> DEFINE f == [a \in RowsOf(pos) |-> pos[a]]
    <3>1. f \in Injection(RowsOf(pos), 1..n)
      BY <1>4 DEF RowsOf, Injection, IsInjective
    <3>2. IsFiniteSet(1..n)
      BY <1>1, FS_Interval
    <3> QED BY <3>1, <3>2, FS_Injection
  <2> QED BY <1>4, <2>1, <2>2 DEF Positions
<1>6. TypeOK
  <2>1. /\ lock = [a \in Actions |-> None] /\ pc = [q \in Requests |-> "idle"]
        /\ op = [q \in Requests |-> "none"] /\ act = [q \in Requests |-> None]
        /\ old = [q \in Requests |-> 0] /\ at = [q \in Requests |-> 0]
        /\ mine = [q \in Requests |-> [a \in Actions |-> 0]] /\ seen = [q \in Requests |-> {}]
        /\ begun = 0 /\ overlapped = FALSE
    BY DEF Init, Nothing
  <2>2. spare \subseteq Actions
    BY DEF Init
  <2>3. begun \in 0..MaxRequests
    BY <2>1, RequestAssumption
  <2>4. overlapped \in BOOLEAN
    BY <2>1
  <2> QED BY <1>4, <2>1, <2>2, <2>3, <2>4 DEF TypeOK
<1>7. Keys
  <2>1. \A a \in spare : a \in Actions /\ \A i \in 1..n : InitialList[i] # a
    BY DEF Init, n
  <2>2. \A a \in spare : pos[a] = 0
    BY <1>2, <2>1
  <2> QED BY <2>2 DEF Init, Keys
<1>8. \A q \in Requests : Course(q)
  BY NoneAssumption DEF Init, Course
<1> QED BY <1>5, <1>6, <1>7, <1>8 DEF Sound

LEMMA ArriveSound ==
    ASSUME Sound, NEW q \in Requests, Arrive(q)
    PROVE  Sound'
<1>0. /\ pos \in [Actions -> Nat] /\ at \in [Requests -> Nat] /\ old \in [Requests -> Nat]
      /\ mine \in [Requests -> [Actions -> Nat]]
      /\ Positions(pos)
  BY DEF Sound, TypeOK
<1>1. ASSUME NEW a \in Actions, AppendAtEnd(q, a)
      PROVE  Sound'
  <2>1. NextAppendPosition \in Nat \ {0}
    BY <1>0, MaxFacts
  <2>2. /\ a \in spare /\ Begin(q, "create", a, "commit") /\ spare' = spare \ {a}
        /\ at' = [at EXCEPT ![q] = NextAppendPosition] /\ UNCHANGED <<pos, lock, old, mine, seen>>
    BY <1>1 DEF AppendAtEnd
  <2>3. at' \in [Requests -> Nat] /\ at'[q] > 0 /\ \A r \in Requests \ {q} : at'[r] = at[r]
    BY <1>0, <2>1, <2>2
  <2> QED BY <1>0, <2>2, <2>3, BeginSound DEF AllOperations
<1>2. ASSUME NEW a \in Actions, NEW p \in 1..NextAppendPosition, Insert(q, a, p)
      PROVE  Sound'
  <2>1. p \in Nat /\ p > 0
    BY <1>0, MaxFacts
  <2>2. /\ a \in spare /\ Begin(q, "create", a, "shift") /\ spare' = spare \ {a}
        /\ at' = [at EXCEPT ![q] = p] /\ UNCHANGED <<pos, lock, old, mine, seen>>
    BY <1>2 DEF Insert
  <2>3. at' \in [Requests -> Nat] /\ at'[q] > 0 /\ \A r \in Requests \ {q} : at'[r] = at[r]
    BY <1>0, <2>1, <2>2
  <2> QED BY <1>0, <2>2, <2>3, BeginSound DEF AllOperations
<1>3. ASSUME NEW a \in Actions, ReadForDelete(q, a)
      PROVE  Sound'
  <2>1. /\ pos[a] > 0 /\ Begin(q, "delete", a, "remove")
        /\ at' = [at EXCEPT ![q] = pos[a] + 1] /\ UNCHANGED <<pos, spare, lock, old, mine, seen>>
    BY <1>3 DEF ReadForDelete, Rows
  <2>2. at' \in [Requests -> Nat] /\ at'[q] > 1 /\ \A r \in Requests \ {q} : at'[r] = at[r]
    BY <1>0, <2>1
  <2> QED BY <1>0, <2>1, <2>2, BeginSound DEF AllOperations
<1>4. ASSUME NEW a \in Actions, NEW p \in {pos[b] : b \in Rows}, ReadForMove(q, a, p)
      PROVE  Sound'
  <2>1. /\ Begin(q, "move", a, "find")
        /\ old' = [old EXCEPT ![q] = pos[a]] /\ at' = [at EXCEPT ![q] = p]
        /\ UNCHANGED <<pos, spare, lock, mine, seen>>
    BY <1>4 DEF ReadForMove
  <2>2. p \in Nat
    BY <1>0 DEF Rows
  <2>3. /\ at' \in [Requests -> Nat] /\ old' \in [Requests -> Nat]
        /\ \A r \in Requests \ {q} : at'[r] = at[r]
    BY <1>0, <2>1, <2>2
  <2> QED BY <1>0, <2>1, <2>3, BeginSound DEF AllOperations
<1>5. ASSUME NEW ids \in [1..Cardinality(Rows) -> Rows], ReadForReorder(q, ids)
      PROVE  Sound'
  <2> DEFINE w == [a \in Actions |->
                    IF \E i \in DOMAIN ids : ids[i] = a /\ pos[a] # i
                    THEN CHOOSE i \in DOMAIN ids : ids[i] = a ELSE 0]
  <2>1. /\ Begin(q, "reorder", None, "write") /\ mine' = [mine EXCEPT ![q] = w]
        /\ UNCHANGED <<pos, spare, lock, old, at, seen>>
    BY <1>5 DEF ReadForReorder
  <2>2. w \in [Actions -> Nat]
    <3>1. DOMAIN ids \subseteq Nat
      OBVIOUS
    <3>2. ASSUME NEW a \in Actions, NEW i \in DOMAIN ids, ids[i] = a
          PROVE  (CHOOSE j \in DOMAIN ids : ids[j] = a) \in DOMAIN ids
      BY <3>2
    <3> QED BY <3>1, <3>2
  <2> HIDE DEF w
  <2>3. mine' \in [Requests -> [Actions -> Nat]] /\ \A r \in Requests \ {q} : mine'[r] = mine[r]
    BY <1>0, <2>1, <2>2
  <2> QED BY <1>0, <2>1, <2>3, BeginSound DEF AllOperations
<1> QED BY <1>1, <1>2, <1>3, <1>4, <1>5 DEF Arrive

LEMMA StepSound == Sound /\ [Next]_vars => Sound'
<1> SUFFICES ASSUME Sound, [Next]_vars
             PROVE  Sound'
  OBVIOUS
<1>0. /\ TypeOK /\ Keys /\ pos \in [Actions -> Nat] /\ mine \in [Requests -> [Actions -> Nat]]
      /\ seen \in [Requests -> SUBSET Actions] /\ old \in [Requests -> Nat] /\ at \in [Requests -> Nat]
  BY DEF Sound, TypeOK
<1>1. ASSUME NEW q \in Requests, Remove(q)
      PROVE  Sound'
  <2> DEFINE S == {act[q]} \intersect Rows
  <2>1. pc[q] = "remove" /\ Write(q, S, Nothing) /\ Goto(q, "shift") /\ UNCHANGED <<pos, spare, old, at, seen>>
    BY <1>1 DEF Remove
  <2>2. op[q] = "delete"
    BY <2>1 DEF Sound, Course, TypeOK, AllOperations
  <2>3. S \subseteq Actions /\ \A a \in S : a = act[q] /\ Nothing[a] = 0 /\ pos[a] > 0
    BY DEF Rows, Nothing
  <2>4. \A a \in S : lock'[a] = q /\ mine'[q][a] = Nothing[a] /\ pc'[q] = "shift" => Written(q, a)'
    BY <2>1, <2>2, <2>3 DEF Written, Goto
  <2> HIDE DEF S
  <2> QED BY <1>0, <2>1, <2>2, <2>3, <2>4, WriteSound
<1>2. ASSUME NEW q \in Requests, FindRows(q)
      PROVE  Sound'
  <2>1. /\ pc[q] = "shift" /\ pc' = [pc EXCEPT ![q] = "shifting"]
        /\ seen' = [seen EXCEPT ![q] = ToShift(q)]
        /\ UNCHANGED <<pos, spare, lock, old, at, mine, op, act, begun, overlapped>>
    BY <1>2 DEF FindRows, Goto
  <2>2. TypeOK'
    BY <1>0, <2>1 DEF TypeOK, ToShift
  <2>3. Positions(pos)' /\ Keys'
    BY <2>1 DEF Sound, Positions, RowsOf, Unique, Keys
  <2>4. Course(q)'
    BY <1>0, <2>1 DEF Sound, Course, Written, TypeOK, AllOperations
  <2>5. \A r \in Requests \ {q} :
         /\ pc'[r] = pc[r] /\ op'[r] = op[r] /\ act'[r] = act[r] /\ at'[r] = at[r]
         /\ mine'[r] = mine[r]
         /\ \A a \in Actions : lock'[a] = r => lock[a] = r /\ pos'[a] = pos[a]
    BY <1>0, <2>1 DEF TypeOK
  <2>6. \A r \in Requests \ {q} : Course(r)'
    BY <2>5, Others
  <2> QED BY <2>2, <2>3, <2>4, <2>6 DEF Sound
<1>3. ASSUME NEW q \in Requests, ShiftRows(q)
      PROVE  Sound'
  <2> DEFINE S == seen[q] \intersect ToShift(q)
             w == [a \in Actions |-> Shifted(q, a)]
  <2>1. /\ pc[q] = "shifting" /\ Write(q, S, w) /\ Goto(q, "commit")
        /\ seen' = [seen EXCEPT ![q] = {}] /\ UNCHANGED <<pos, spare, old, at>>
    BY <1>3 DEF ShiftRows
  <2>2. op[q] \in {"create", "delete"} /\ (op[q] = "delete" => at[q] > 1)
    BY <2>1 DEF Sound, Course, TypeOK, AllOperations
  <2>3. ASSUME NEW a \in S
        PROVE  a \in Actions /\ View(q, a) = pos[a] /\ pos[a] >= at[q] /\ pos[a] > 0
    <3>1. a \in Actions /\ View(q, a) >= at[q] /\ View(q, a) > 0
      BY DEF ToShift
    <3>2. lock[a] = q => mine[q][a] = 0
      BY <2>1, <2>2, <3>1 DEF Sound, Course, Written
    <3> QED BY <3>1, <3>2 DEF View
  <2>4. \A a \in S : w[a] = IF op[q] = "create" THEN pos[a] + 1 ELSE pos[a] - 1
    BY <2>3 DEF Shifted
  <2>5. ASSUME NEW a \in S
        PROVE  w[a] \in Nat /\ pos[a] > 0 /\ (op[q] = "delete" => w[a] > 0)
    <3>1. pos[a] \in Nat /\ pos[a] >= at[q] /\ pos[a] > 0 /\ at[q] \in Nat
      BY <1>0, <2>3
    <3>2. w[a] = IF op[q] = "create" THEN pos[a] + 1 ELSE pos[a] - 1
      BY <2>4
    <3> HIDE DEF w
    <3> QED BY <2>2, <3>1, <3>2
  <2>6. S \subseteq Actions
    BY <2>3
  <2>7. \A a \in S : lock'[a] = q /\ mine'[q][a] = w[a] /\ pc'[q] = "commit" => Written(q, a)'
    BY <2>1, <2>2, <2>4, <2>5 DEF Written, Goto
  <2> HIDE DEF S, w
  <2>8. seen' \in [Requests -> SUBSET Actions]
    BY <1>0, <2>1
  <2> QED BY <2>1, <2>2, <2>5, <2>6, <2>7, <2>8, WriteSound
<1>4. ASSUME NEW q \in Requests, FindOther(q)
      PROVE  Sound'
  <2>1. pc[q] = "find" /\ op[q] \in {"move", "reorder"}
    BY <1>4 DEF FindOther, Sound, Course, TypeOK, AllOperations
  <2>2. /\ UNCHANGED <<pos, spare, lock, old, at, seen, op, act, begun, overlapped>>
        /\ \E p \in {"commit", "write"} : pc' = [pc EXCEPT ![q] = p]
    BY <1>4 DEF FindOther, Goto
  <2>3. \E w \in [Actions -> Nat] : mine' = [mine EXCEPT ![q] = w]
    <3> DEFINE b == CHOOSE b \in Rows \ {act[q]} : pos[b] = at[q]
    <3>1. mine' = [mine EXCEPT ![q] = [@ EXCEPT ![act[q]] = at[q], ![b] = old[q]]]
      BY <1>4 DEF FindOther
    <3> HIDE DEF b
    <3>2. [mine[q] EXCEPT ![act[q]] = at[q], ![b] = old[q]] \in [Actions -> Nat]
      BY <1>0
    <3> QED BY <1>0, <3>1, <3>2
  <2>4. TypeOK'
    BY <1>0, <2>2, <2>3 DEF TypeOK
  <2>5. Positions(pos)' /\ Keys'
    BY <2>2 DEF Sound, Positions, RowsOf, Unique, Keys
  <2>6. \A a \in Actions : lock[a] # q
    BY <2>1 DEF Sound, Course, Written
  <2>7. Course(q)'
    BY <1>0, <2>1, <2>2, <2>6 DEF Course, TypeOK
  <2>8. \A r \in Requests \ {q} :
         /\ pc'[r] = pc[r] /\ op'[r] = op[r] /\ act'[r] = act[r] /\ at'[r] = at[r]
         /\ mine'[r] = mine[r]
         /\ \A a \in Actions : lock'[a] = r => lock[a] = r /\ pos'[a] = pos[a]
    BY <1>0, <2>2, <2>3 DEF TypeOK
  <2>9. \A r \in Requests \ {q} : Course(r)'
    BY <2>8, Others
  <2> QED BY <2>4, <2>5, <2>7, <2>9 DEF Sound
<1>5. ASSUME NEW q \in Requests, WriteRows(q)
      PROVE  Sound'
  <2> DEFINE S == {a \in Actions : mine[q][a] > 0}
  <2>1. pc[q] = "write" /\ op[q] \in {"move", "reorder"} /\ UNCHANGED <<pos, spare>>
    BY <1>5 DEF WriteRows, Sound, Course, TypeOK, AllOperations
  <2>2. CASE S \subseteq Rows
    <3>1. Write(q, S, mine[q]) /\ Goto(q, "commit") /\ UNCHANGED <<old, at, seen>>
      BY <1>5, <2>2 DEF WriteRows
    <3>2. S \subseteq Actions /\ \A a \in S : mine[q][a] \in Nat /\ pos[a] > 0 /\ mine[q][a] > 0
      BY <1>0, <2>2 DEF Rows
    <3>3. \A a \in S : lock'[a] = q /\ mine'[q][a] = mine[q][a] /\ pc'[q] = "commit" => Written(q, a)'
      BY <2>1, <3>1, <3>2 DEF Written, Goto
    <3> HIDE DEF S
    <3> QED BY <1>0, <2>1, <3>1, <3>2, <3>3, WriteSound
  <2>3. CASE ~ (S \subseteq Rows)
    BY <1>5, <2>1, <2>3, EndSound DEF WriteRows
  <2> QED BY <2>2, <2>3
<1>6. ASSUME NEW q \in Requests, Commit(q)
      PROVE  Sound'
  BY <1>6, CommitSound, EndSound DEF Commit
<1>7. ASSUME NEW q \in Requests, Abort(q)
      PROVE  Sound'
  BY <1>7, EndSound DEF Abort
<1>8. CASE UNCHANGED vars
  BY <1>8 DEF vars, request, Sound, TypeOK, Positions, RowsOf, Unique, Keys, Course, Written
<1> QED BY <1>1, <1>2, <1>3, <1>4, <1>5, <1>6, <1>7, <1>8, ArriveSound DEF Next

\* Locks belong to requests, and positions stay in their types, whoever overlaps.
THEOREM TypeCorrect == Spec => []TypeOK
<1>1. Sound => TypeOK
  BY DEF Sound
<1> QED BY <1>1, InitSound, StepSound, PTL DEF Spec

-----------------------------------------------------------------------------
(* Contiguous positions.                                                    *)

\* The positions of f's rows are 1 to m.
Spans(f, m) ==
    /\ \A a \in RowsOf(f) : f[a] \in 1..m
    /\ \A i \in 1..m : \E a \in RowsOf(f) : f[a] = i

\* There are then m rows, and the position of each is its rank.
LEMMA SpanFacts ==
    ASSUME NEW f, Positions(f), NEW m \in Nat, Spans(f, m)
    PROVE  /\ Cardinality(RowsOf(f)) = m
           /\ \A a \in RowsOf(f) : Rank(f, a) = f[a]
<1>1. IsFiniteSet(RowsOf(f)) /\ \A a, b \in RowsOf(f) : f[a] = f[b] => a = b
  BY DEF Positions, Unique, RowsOf
<1>2. ASSUME NEW i \in 0..m
      PROVE  Cardinality({b \in RowsOf(f) : f[b] <= i}) = i
  <2> DEFINE U == {b \in RowsOf(f) : f[b] <= i}
             h == [b \in U |-> f[b]]
  <2>1. h \in Bijection(U, 1..i)
    <3>1. h \in [U -> 1..i] /\ \A b, c \in U : h[b] = h[c] => b = c
      BY <1>1 DEF Spans
    <3>2. \A k \in 1..i : \E b \in U : h[b] = k
      BY DEF Spans
    <3> HIDE DEF U, h
    <3> QED BY <3>1, <3>2 DEF Bijection, Injection, IsInjective, Surjection
  <2>2. IsFiniteSet(U)
    <3>1. U \subseteq RowsOf(f)
      OBVIOUS
    <3> QED BY <1>1, <3>1, FS_Subset
  <2>3. Cardinality(1..i) = i
    BY FS_Interval
  <2> HIDE DEF U, h
  <2>4. Cardinality(1..i) = Cardinality(U)
    BY <2>1, <2>2, FS_Bijection DEF ExistsBijection
  <2> QED BY <2>3, <2>4 DEF U
<1>3. \A a \in RowsOf(f) : Rank(f, a) = f[a]
  BY <1>2 DEF Rank, Spans
<1>4. {b \in RowsOf(f) : f[b] <= m} = RowsOf(f) /\ m \in 0..m
  BY DEF Spans
<1>5. Cardinality(RowsOf(f)) = m
  BY <1>2, <1>4
<1> QED BY <1>3, <1>5

LEMMA InitSpans ==
    ASSUME Init
    PROVE  /\ Len(InitialList) \in Nat
           /\ Spans(pos, Len(InitialList))
           /\ \A i \in 1..Len(InitialList) : InitialList[i] \in RowsOf(pos) /\ pos[InitialList[i]] = i
<1> DEFINE n == Len(InitialList)
<1>1. n \in Nat /\ InitialList \in [1..n -> Actions]
  BY ListAssumption, LenProperties
<1>2. /\ pos = [a \in Actions |-> IF \E i \in 1..n : InitialList[i] = a
                                  THEN CHOOSE i \in 1..n : InitialList[i] = a ELSE 0]
      /\ \A i, j \in 1..n : InitialList[i] = InitialList[j] => i = j
  BY ListAssumption DEF Init
<1> HIDE DEF n
<1>3. ASSUME NEW a \in Actions
      PROVE  \/ pos[a] \in 1..n /\ InitialList[pos[a]] = a
             \/ pos[a] = 0 /\ \A i \in 1..n : InitialList[i] # a
  BY <1>2
<1>4. ASSUME NEW i \in 1..n
      PROVE  InitialList[i] \in RowsOf(pos) /\ pos[InitialList[i]] = i
  <2>1. InitialList[i] \in Actions
    BY <1>1
  <2>2. pos[InitialList[i]] \in 1..n /\ InitialList[pos[InitialList[i]]] = InitialList[i]
    BY <1>3, <2>1
  <2>3. pos[InitialList[i]] = i
    BY <1>2, <2>2
  <2> QED BY <1>1, <2>1, <2>3 DEF RowsOf
<1>5. \A a \in RowsOf(pos) : pos[a] \in 1..n
  BY <1>3 DEF RowsOf
<1> QED BY <1>1, <1>4, <1>5 DEF Spans, n

\* A request that reads its way through has written nothing.
Blank == \A q \in Requests : pc[q] \in {"idle", "find"} => mine[q] = Nothing

Alone == \A p, q \in Requests : pc[p] # "idle" /\ pc[q] # "idle" => p = q

\* The positions a move or a reordering has in mind.
Target(q) == [a \in Actions |-> IF mine[q][a] > 0 THEN mine[q][a] ELSE pos[a]]

\* The rows from the position of request q on, except the one it deletes.
Behind(q) == {a \in Actions : pos[a] >= at[q] /\ pos[a] > 0}

\* What request q will do, or has done, when no other overlaps it.
Plan(q) ==
    /\ op[q] = "create" =>
          /\ at[q] \in 1..Cardinality(RowsOf(pos))+1
          /\ pc[q] = "shifting" => seen[q] = Behind(q)
          /\ pc[q] = "commit" => \A a \in Actions : lock[a] = q <=> a \in Behind(q)
    /\ op[q] = "delete" =>
          /\ act[q] \in RowsOf(pos) /\ at[q] = pos[act[q]] + 1
          /\ pc[q] # "remove" => lock[act[q]] = q /\ mine[q][act[q]] = 0
          /\ pc[q] = "shifting" => seen[q] = Behind(q)
          /\ pc[q] = "commit" =>
                \A a \in Actions \ {act[q]} : lock[a] = q <=> a \in Behind(q)
    /\ pc[q] = "find" =>
          /\ act[q] \in RowsOf(pos) /\ old[q] = pos[act[q]]
          /\ at[q] \in 1..Cardinality(RowsOf(pos))
    /\ op[q] \in {"move", "reorder"} /\ pc[q] # "find" =>
          /\ Spans(Target(q), Cardinality(RowsOf(pos)))
          /\ RowsOf(Target(q)) = RowsOf(pos)
          /\ pc[q] = "commit" => \A a \in Actions : lock[a] = q <=> mine[q][a] > 0

InTurn ==
    ~ overlapped =>
        /\ Alone
        /\ Spans(pos, Cardinality(RowsOf(pos)))
        /\ \A q \in Requests : Plan(q)

-----------------------------------------------------------------------------
(* The list.                                                                *)

LEMMA InitList == Init => List!Init
<1> SUFFICES ASSUME Init
             PROVE  OrderedActions = InitialList
  BY DEF List!Init
<1> DEFINE n == Len(InitialList)
<1>1. Positions(pos) /\ n \in Nat /\ Spans(pos, n)
  BY InitSound, InitSpans DEF Sound
<1>2. Cardinality(RowsOf(pos)) = n /\ \A a \in RowsOf(pos) : Rank(pos, a) = pos[a]
  BY <1>1, SpanFacts
<1>3. OrderedActions = Order(pos)
  BY DEF OrderedActions, Order, Rows, RowsOf, Rank
<1>4. \A i \in 1..n : Order(pos)[i] = InitialList[i]
  BY <1>2, InitSpans, OrderFacts, <1>1
<1>5. Order(pos) \in Seq(Actions) /\ Len(Order(pos)) = n
  <2>1. Order(pos) \in Seq(RowsOf(pos)) /\ Len(Order(pos)) = n
    BY <1>1, <1>2, OrderFacts
  <2>2. RowsOf(pos) \subseteq Actions
    BY DEF RowsOf
  <2>3. Order(pos) \in [1..n -> Actions]
    BY <2>1, <2>2, LenProperties
  <2> QED BY <2>1, <2>3, <1>1, FunctionIsSeq
<1> QED BY <1>3, <1>4, <1>5, ListAssumption, SeqEqual

\* A commit is one step of the list, or none.
LEMMA CommitList ==
    ASSUME Sound, NEW q \in Requests, Commit(q)
    PROVE  [List!Next]_OrderedActions
<1> DEFINE s == Order(pos)
           g == Merged(q)
<1>1. pc[q] = "commit" /\ Positions(pos)
  BY DEF Commit, Sound
<1>2. OrderedActions = s
  BY DEF OrderedActions, Order, Rows, RowsOf, Rank
<1>3. CASE ~ Unique(g)
  BY <1>3 DEF Commit, OrderedActions, Rows
<1>4. CASE Unique(g)
  <2>1. OrderedActions' = Order(g)
    <3>1. pos' = g
      BY <1>4 DEF Commit
    <3> QED BY <3>1 DEF OrderedActions, Order, Rows, RowsOf, Rank
  <2>2. Positions(g) /\ op[q] \in AllOperations
    BY <1>1, <1>4, MergedFacts DEF Positions
  <2>3. /\ s \in Seq(RowsOf(pos)) /\ Len(s) = Cardinality(RowsOf(pos)) /\ Len(s) \in Nat
        /\ \A k \in 1..Len(s) : s[k] \in RowsOf(pos)
        /\ \A a \in RowsOf(pos) : s[Rank(pos, a)] = a
    BY <1>1, OrderFacts, RankFacts
  <2>4. CASE op[q] = "create"
    <3> DEFINE x == act[q]
               i == Rank(g, x)
    <3>1. x \in Actions \ RowsOf(pos) /\ RowsOf(g) = RowsOf(pos) \union {x} /\ Keeps(pos, g)
      BY <1>1, <1>4, <2>4, MergedFacts
    <3>2. i \in 1..Len(s)+1 /\ Order(g) = List!InsertAt(s, i, x)
      BY <1>1, <2>2, <3>1, InsertOrder
    <3>3. x \in Actions \ {s[k] : k \in 1..Len(s)}
      BY <2>3, <3>1
    <3> HIDE DEF x, i, s, g
    <3> QED BY <1>2, <2>1, <3>2, <3>3 DEF List!Next, List!Extend
  <2>5. CASE op[q] = "delete"
    <3>1. CASE RowsOf(g) = RowsOf(pos)
      <4>1. Keeps(g, pos)
        BY <1>1, <1>4, <2>5, MergedFacts
      <4>2. Order(pos) = Order(g)
        BY <1>1, <2>2, <3>1, <4>1, KeepOrder
      <4> QED BY <1>2, <2>1, <4>2
    <3>2. CASE act[q] \in Actions \ RowsOf(g) /\ RowsOf(pos) = RowsOf(g) \union {act[q]}
      <4> DEFINE x == act[q]
                 i == Rank(pos, x)
      <4>1. Keeps(g, pos)
        BY <1>1, <1>4, <2>5, MergedFacts
      <4>2. i \in 1..Len(s) /\ Order(g) = List!RemoveAt(s, i)
        BY <1>1, <2>2, <3>2, <4>1, InsertOrder
      <4> HIDE DEF x, i, s, g
      <4> QED BY <1>2, <2>1, <4>2 DEF List!Next, List!Shrink
    <3> QED BY <1>1, <2>5, <3>1, <3>2, MergedFacts
  <2>6. CASE op[q] \in {"move", "reorder"}
    <3>1. RowsOf(g) = RowsOf(pos)
      BY <1>1, <2>6, MergedFacts
    <3>2. Permutes(s, Order(g))
      BY <1>1, <2>2, <3>1, Reordered
    <3> HIDE DEF s, g
    <3> QED BY <1>2, <2>1, <3>2 DEF List!Next, List!Rearrange, Permutes
  <2> QED BY <2>2, <2>4, <2>5, <2>6 DEF AllOperations
<1> QED BY <1>3, <1>4

\* However requests overlap, the list they leave is one that was edited in one
\* piece: a committed creation or deletion is where it is meant to be among the
\* actions that are there, and a lost race edits nothing.
THEOREM EditsAList == Spec => ImplementsList
<1>1. Init => List!Init
  BY InitList
<1>2. Sound /\ [Next]_vars => [List!Next]_OrderedActions
  <2> SUFFICES ASSUME Sound, [Next]_vars
               PROVE  [List!Next]_OrderedActions
    OBVIOUS
  <2>1. CASE pos' = pos
    BY <2>1 DEF OrderedActions, Rows
  <2>2. ASSUME NEW q \in Requests, Commit(q)
        PROVE  [List!Next]_OrderedActions
    BY <2>2, CommitList
  <2>3. pos' = pos \/ \E q \in Requests : Commit(q)
    BY DEF Next, Arrive, AppendAtEnd, Insert, ReadForDelete, ReadForMove, ReadForReorder,
           Remove, FindRows, ShiftRows, FindOther, WriteRows, Abort, vars
  <2> QED BY <2>1, <2>2, <2>3
<1> QED BY <1>1, <1>2, InitSound, StepSound, PTL DEF Spec, ImplementsList, List!Spec

LEMMA InitTurn == Init => Blank /\ InTurn
<1> SUFFICES ASSUME Init
             PROVE  Blank /\ InTurn
  OBVIOUS
<1>1. Spans(pos, Cardinality(RowsOf(pos)))
  <2>1. Positions(pos) /\ Len(InitialList) \in Nat /\ Spans(pos, Len(InitialList))
    BY InitSound, InitSpans DEF Sound
  <2> QED BY <2>1, SpanFacts
<1>2. Blank /\ Alone /\ \A q \in Requests : Plan(q)
  BY DEF Init, Blank, Alone, Plan
<1> QED BY <1>1, <1>2 DEF InTurn

LEMMA BlankStep ==
    ASSUME Sound, Blank, [Next]_vars
    PROVE  Blank'
<1>0. /\ pc \in [Requests -> {"idle", "remove", "shift", "shifting", "find", "write", "commit"}]
      /\ mine \in [Requests -> [Actions -> Nat]]
  BY DEF Sound, TypeOK
<1>1. ASSUME NEW q \in Requests, NEW p, pc' = [pc EXCEPT ![q] = p],
             \/ UNCHANGED mine /\ (p \notin {"idle", "find"} \/ pc[q] = "idle")
             \/ \E w : mine' = [mine EXCEPT ![q] = w] /\ (p \in {"idle", "find"} => w = Nothing)
      PROVE  Blank'
  BY <1>0, <1>1 DEF Blank
<1>2. ASSUME NEW q \in Requests, End(q)
      PROVE  Blank'
  <2>1. pc' = [pc EXCEPT ![q] = "idle"] /\ mine' = [mine EXCEPT ![q] = Nothing]
    BY <1>2 DEF End
  <2> QED BY <2>1, <1>1
<1>3. ASSUME NEW q \in Requests, NEW S, NEW w, NEW p \in {"shift", "commit"}, Write(q, S, w), Goto(q, p)
      PROVE  Blank'
  <2>1. pc' = [pc EXCEPT ![q] = p]
    BY <1>3 DEF Goto
  <2>2. \E v : mine' = [mine EXCEPT ![q] = v]
    BY <1>3 DEF Write
  <2> QED BY <2>1, <2>2, <1>1
<1>4. ASSUME NEW q \in Requests, Arrive(q)
      PROVE  Blank'
  <2>1. ASSUME NEW o, NEW a, NEW p, Begin(q, o, a, p), UNCHANGED mine
        PROVE  Blank'
    <3>1. pc[q] = "idle" /\ pc' = [pc EXCEPT ![q] = p]
      BY <2>1 DEF Begin
    <3> QED BY <2>1, <3>1, <1>1
  <2>2. ASSUME NEW ids, ReadForReorder(q, ids)
        PROVE  Blank'
    <3>1. pc' = [pc EXCEPT ![q] = "write"] /\ \E w : mine' = [mine EXCEPT ![q] = w]
      BY <2>2 DEF ReadForReorder, Begin
    <3> QED BY <3>1, <1>1
  <2> QED BY <1>4, <2>1, <2>2 DEF Arrive, AppendAtEnd, Insert, ReadForDelete, ReadForMove
<1>5. ASSUME NEW q \in Requests, FindRows(q)
      PROVE  Blank'
  <2>1. pc' = [pc EXCEPT ![q] = "shifting"] /\ UNCHANGED mine
    BY <1>5 DEF FindRows, Goto
  <2> QED BY <2>1, <1>1
<1>6. ASSUME NEW q \in Requests, FindOther(q)
      PROVE  Blank'
  <2>1. \E p \in {"write", "commit"} : pc' = [pc EXCEPT ![q] = p]
    BY <1>6 DEF FindOther, Goto
  <2>2. \E w : mine' = [mine EXCEPT ![q] = w]
    BY <1>6 DEF FindOther
  <2> QED BY <2>1, <2>2, <1>1
<1>7. CASE UNCHANGED vars
  BY <1>7 DEF vars, request, Blank
<1> QED BY <1>2, <1>3, <1>4, <1>5, <1>6, <1>7 DEF Next, Remove, ShiftRows, WriteRows, Commit, Abort

\* When one request runs, nothing is locked but by it, and the others plan nothing.
LEMMA Solo ==
    ASSUME Sound, NEW q \in Requests, \A r \in Requests \ {q} : pc[r] = "idle"
    PROVE  /\ \A r \in Requests \ {q} : op[r] = "none"
           /\ \A a \in Actions : lock[a] \in {None, q}
BY DEF Sound, Course, Written, TypeOK

\* It keeps the turn if it leaves the positions contiguous and follows a plan.
LEMMA TurnKept ==
    ASSUME Sound, NEW q \in Requests, \A r \in Requests \ {q} : pc[r] = "idle",
           \A r \in Requests \ {q} : pc'[r] = pc[r] /\ op'[r] = op[r],
           Spans(pos', Cardinality(RowsOf(pos'))), Plan(q)'
    PROVE  InTurn'
<1>1. \A r \in Requests \ {q} : pc'[r] = "idle" /\ op'[r] = "none"
  BY Solo
<1>2. \A r \in Requests \ {q} : Plan(r)'
  BY <1>1 DEF Plan
<1>3. Alone'
  BY <1>1 DEF Alone
<1>4. Spans(pos, Cardinality(RowsOf(pos)))'
  BY DEF Spans, RowsOf
<1> QED BY <1>2, <1>3, <1>4 DEF InTurn

-----------------------------------------------------------------------------
(* One request begins while none runs.                                      *)

\* A request that begins finds nothing locked, and leaves the positions alone.
LEMMA BeginTurn ==
    ASSUME Sound, Sound', ~ overlapped, ~ overlapped', InTurn, NEW q \in Requests,
           NEW o \in AllOperations, NEW a, NEW p, Begin(q, o, a, p), UNCHANGED pos,
           pc'[q] = p /\ op'[q] = o /\ act'[q] = a => Plan(q)'
    PROVE  InTurn'
<1>1. /\ pc[q] = "idle" /\ pc' = [pc EXCEPT ![q] = p] /\ op' = [op EXCEPT ![q] = o]
      /\ act' = [act EXCEPT ![q] = a] /\ \A r \in Requests : pc[r] = "idle"
  BY DEF Begin
<1>2. pc'[q] = p /\ op'[q] = o /\ act'[q] = a /\ \A r \in Requests \ {q} : pc'[r] = pc[r] /\ op'[r] = op[r]
  BY <1>1 DEF Sound, TypeOK
<1>3. Spans(pos', Cardinality(RowsOf(pos')))
  BY DEF InTurn
<1> QED BY <1>1, <1>2, <1>3, TurnKept

\* A reordering has a permutation of the positions in mind.
LEMMA ReorderTarget ==
    ASSUME Sound, NEW q \in Requests, NEW ids \in [1..Cardinality(RowsOf(pos)) -> RowsOf(pos)],
           ReadForReorder(q, ids), Spans(pos, Cardinality(RowsOf(pos)))
    PROVE  Spans(Target(q)', Cardinality(RowsOf(pos))) /\ RowsOf(Target(q)') = RowsOf(pos)
<1> DEFINE n == Cardinality(RowsOf(pos))
           R == RowsOf(pos)
           w == [a \in Actions |-> IF \E i \in DOMAIN ids : ids[i] = a /\ pos[a] # i
                                   THEN CHOOSE i \in DOMAIN ids : ids[i] = a ELSE 0]
           g == Target(q)'
<1>1. n \in Nat /\ IsFiniteSet(R) /\ R \subseteq Actions /\ pos \in [Actions -> Nat]
  BY RankFacts DEF Sound, Positions, RowsOf
<1>2. \A a \in R : \E i \in 1..n : ids[i] = a
  <2> DEFINE I == {ids[i] : i \in 1..n}
  <2>1. I \subseteq R
    OBVIOUS
  <2>2. Cardinality(I) = Cardinality(R)
    <3>1. DOMAIN ids = 1..n /\ Rows = R
      BY DEF Rows, RowsOf
    <3> QED BY <3>1 DEF ReadForReorder
  <2> HIDE DEF I, R
  <2>3. I = R
    BY <1>1, <2>1, <2>2, FS_Subset
  <2> QED BY <2>3 DEF I
<1>3. mine'[q] = w
  BY DEF ReadForReorder, Sound, TypeOK
<1>4. g \in [Actions -> Nat] /\ \A a \in Actions : g[a] = IF w[a] > 0 THEN w[a] ELSE pos[a]
  <2>1. g = [a \in Actions |-> IF w[a] > 0 THEN w[a] ELSE pos[a]]
    BY <1>3 DEF Target, ReadForReorder
  <2>2. w \in [Actions -> Nat]
    <3>1. ASSUME NEW a \in Actions, NEW i \in DOMAIN ids, ids[i] = a
          PROVE  (CHOOSE j \in DOMAIN ids : ids[j] = a) \in DOMAIN ids
      BY <3>1
    <3>2. DOMAIN ids \subseteq Nat
      OBVIOUS
    <3> QED BY <3>1, <3>2
  <2> HIDE DEF w
  <2> QED BY <1>1, <2>1, <2>2
<1> HIDE DEF g
<1>5. ASSUME NEW a \in R
      PROVE  g[a] \in 1..n /\ ids[g[a]] = a
  <2>1. PICK i \in 1..n : ids[i] = a
    BY <1>2
  <2>2. CASE \E j \in 1..n : ids[j] = a /\ pos[a] # j
    <3>1. w[a] = CHOOSE j \in 1..n : ids[j] = a
      BY <1>1, <2>2
    <3>2. w[a] \in 1..n /\ ids[w[a]] = a
      BY <2>1, <3>1
    <3> HIDE DEF w
    <3> QED BY <1>1, <1>4, <3>2
  <2>3. CASE ~ \E j \in 1..n : ids[j] = a /\ pos[a] # j
    <3>1. w[a] = 0 /\ pos[a] = i
      BY <1>1, <2>1, <2>3
    <3> HIDE DEF w
    <3> QED BY <1>1, <1>4, <2>1, <3>1
  <2> QED BY <2>2, <2>3
<1>6. \A a \in Actions \ R : g[a] = 0
  <2> SUFFICES ASSUME NEW a \in Actions \ R
               PROVE  g[a] = 0
    OBVIOUS
  <2>1. w[a] = 0
    OBVIOUS
  <2> HIDE DEF w
  <2>2. pos[a] = 0
    BY <1>1 DEF RowsOf
  <2> QED BY <1>4, <2>1, <2>2
<1> HIDE DEF w, R
<1>7. RowsOf(g) = R
  BY <1>1, <1>5, <1>6 DEF RowsOf
<1>8. \A i \in 1..n : \E a \in R : g[a] = i
  <2> DEFINE h == [a \in R |-> g[a]]
  <2>1. h \in Injection(R, 1..n)
    BY <1>5 DEF Injection, IsInjective
  <2>2. IsFiniteSet(1..n) /\ Cardinality(1..n) = n
    BY <1>1, FS_Interval
  <2>3. h \in Surjection(R, 1..n)
    BY <2>1, <2>2, FS_Injection DEF R
  <2> QED BY <2>3 DEF Surjection
<1> QED BY <1>5, <1>7, <1>8 DEF Spans, R, g

LEMMA ArriveTurn ==
    ASSUME Sound, Sound', Blank, ~ overlapped, ~ overlapped', InTurn, NEW q \in Requests, Arrive(q)
    PROVE  InTurn'
<1> DEFINE n == Cardinality(RowsOf(pos))
<1>0. /\ pos \in [Actions -> Nat] /\ at \in [Requests -> Nat] /\ old \in [Requests -> Nat]
      /\ Positions(pos) /\ n \in Nat
      /\ Spans(pos, n) /\ RowsOf(pos) = Rows /\ Rows \subseteq Actions
  BY RankFacts DEF Sound, TypeOK, InTurn, RowsOf, Rows
<1>1. ASSUME Actions # {}
      PROVE  NextAppendPosition = n + 1
  <2>1. PICK b \in Actions : NextAppendPosition = pos[b] + 1
    BY <1>0, <1>1, MaxFacts
  <2>2. pos[b] = 0 \/ pos[b] \in 1..n
    BY <1>0 DEF Spans, RowsOf
  <2>3. n = 0 \/ \E a \in Actions : pos[a] = n
    <3>1. \A i \in 1..n : \E a \in Rows : pos[a] = i
      BY <1>0 DEF Spans
    <3> HIDE DEF n
    <3>2. n = 0 \/ n \in 1..n
      BY <1>0
    <3> QED BY <1>0, <3>1, <3>2
  <2>4. \A a \in Actions : pos[a] < NextAppendPosition
    BY <1>0, <1>1, MaxFacts
  <2> QED BY <1>0, <2>1, <2>2, <2>3, <2>4
<1>2. ASSUME pc[q] = "idle"
      PROVE  \A a \in Actions : lock[a] # q
  BY <1>2 DEF Sound, Course, Written
<1>3. ASSUME NEW a \in Actions, AppendAtEnd(q, a)
      PROVE  InTurn'
  <2>1. Begin(q, "create", a, "commit") /\ at' = [at EXCEPT ![q] = NextAppendPosition] /\ UNCHANGED <<pos, lock>>
    BY <1>3 DEF AppendAtEnd
  <2>2. at'[q] = n + 1 /\ \A b \in Actions : lock'[b] # q
    BY <1>0, <1>1, <1>2, <2>1 DEF Begin
  <2>3. \A b \in Actions : b \notin Behind(q)'
    BY <1>0, <2>1, <2>2 DEF Behind, Spans, RowsOf
  <2>4. pc'[q] = "commit" /\ op'[q] = "create" /\ act'[q] = a => Plan(q)'
    BY <1>0, <2>1, <2>2, <2>3 DEF Plan
  <2> QED BY <2>1, <2>4, BeginTurn DEF AllOperations
<1>4. ASSUME NEW a \in Actions, NEW p \in 1..NextAppendPosition, Insert(q, a, p)
      PROVE  InTurn'
  <2>1. Begin(q, "create", a, "shift") /\ at' = [at EXCEPT ![q] = p] /\ UNCHANGED pos
    BY <1>4 DEF Insert
  <2>2. at'[q] \in 1..n+1
    BY <1>0, <1>1, <2>1
  <2>3. pc'[q] = "shift" /\ op'[q] = "create" /\ act'[q] = a => Plan(q)'
    BY <1>0, <2>1, <2>2 DEF Plan
  <2> QED BY <2>1, <2>3, BeginTurn DEF AllOperations
<1>5. ASSUME NEW a \in Actions, ReadForDelete(q, a)
      PROVE  InTurn'
  <2>1. a \in Rows /\ Begin(q, "delete", a, "remove") /\ at' = [at EXCEPT ![q] = pos[a] + 1] /\ UNCHANGED pos
    BY <1>5 DEF ReadForDelete
  <2>2. at'[q] = pos[a] + 1
    BY <1>0, <2>1
  <2>3. pc'[q] = "remove" /\ op'[q] = "delete" /\ act'[q] = a => Plan(q)'
    BY <1>0, <2>1, <2>2 DEF Plan
  <2> QED BY <2>1, <2>3, BeginTurn DEF AllOperations
<1>6. ASSUME NEW a \in Actions, NEW p \in {pos[b] : b \in Rows}, ReadForMove(q, a, p)
      PROVE  InTurn'
  <2>1. /\ a \in Rows /\ Begin(q, "move", a, "find")
        /\ old' = [old EXCEPT ![q] = pos[a]] /\ at' = [at EXCEPT ![q] = p] /\ UNCHANGED pos
    BY <1>6 DEF ReadForMove
  <2>2. at'[q] \in 1..n /\ old'[q] = pos[a]
    BY <1>0, <2>1 DEF Spans
  <2>3. pc'[q] = "find" /\ op'[q] = "move" /\ act'[q] = a => Plan(q)'
    BY <1>0, <2>1, <2>2 DEF Plan
  <2> QED BY <2>1, <2>3, BeginTurn DEF AllOperations
<1>7. ASSUME NEW ids \in [1..Cardinality(Rows) -> Rows], ReadForReorder(q, ids)
      PROVE  InTurn'
  <2>1. Begin(q, "reorder", None, "write") /\ UNCHANGED pos
    BY <1>7 DEF ReadForReorder
  <2>2. Spans(Target(q)', n) /\ RowsOf(Target(q)') = RowsOf(pos)
    BY <1>0, <1>7, ReorderTarget
  <2>3. pc'[q] = "write" /\ op'[q] = "reorder" /\ act'[q] = None => Plan(q)'
    BY <1>0, <2>1, <2>2 DEF Plan, Spans, RowsOf
  <2> QED BY <2>1, <2>3, BeginTurn DEF AllOperations
<1> QED BY <1>3, <1>4, <1>5, <1>6, <1>7 DEF Arrive

-----------------------------------------------------------------------------
(* The one request goes on.                                                 *)

\* It changes no position and follows its plan.
LEMMA GoesOn ==
    ASSUME Sound, Sound', ~ overlapped, InTurn, NEW q \in Requests, pc[q] # "idle",
           NEW p, Goto(q, p), UNCHANGED pos, pc'[q] = p => Plan(q)'
    PROVE  InTurn'
<1>1. /\ pc' = [pc EXCEPT ![q] = p] /\ UNCHANGED op /\ \A r \in Requests \ {q} : pc[r] = "idle"
      /\ Spans(pos', Cardinality(RowsOf(pos')))
  BY DEF Goto, InTurn, Alone
<1>2. pc'[q] = p /\ \A r \in Requests \ {q} : pc'[r] = pc[r] /\ op'[r] = op[r]
  BY <1>1 DEF Sound, TypeOK
<1> QED BY <1>1, <1>2, TurnKept

\* It ends and leaves contiguous positions.
LEMMA Ends ==
    ASSUME Sound, Sound', ~ overlapped, InTurn, NEW q \in Requests, pc[q] # "idle",
           End(q), Spans(pos', Cardinality(RowsOf(pos')))
    PROVE  InTurn'
<1>1. /\ pc' = [pc EXCEPT ![q] = "idle"] /\ op' = [op EXCEPT ![q] = "none"]
      /\ \A r \in Requests \ {q} : pc[r] = "idle"
  BY DEF End, InTurn, Alone
<1>2. /\ pc'[q] = "idle" /\ op'[q] = "none"
      /\ \A r \in Requests \ {q} : pc'[r] = pc[r] /\ op'[r] = op[r]
  BY <1>1 DEF Sound, TypeOK
<1>3. Plan(q)'
  BY <1>2 DEF Plan
<1> QED BY <1>1, <1>2, <1>3, TurnKept

\* The rows it finds, before it shifts them, are those behind its position.
LEMMA FindsBehind ==
    ASSUME Sound, ~ overlapped, InTurn, NEW q \in Requests, pc[q] \in {"shift", "shifting"}
    PROVE  /\ ToShift(q) = Behind(q)
           /\ op[q] \in {"create", "delete"}
           /\ \A a \in Actions : lock[a] = q => op[q] = "delete" /\ a = act[q]
           /\ op[q] = "delete" => act[q] \notin Behind(q)
<1>1. /\ Plan(q) /\ Course(q) /\ op[q] \in AllOperations \union {"none"}
      /\ pos \in [Actions -> Nat]
  BY DEF InTurn, Sound, TypeOK
<1>2. op[q] \in {"create", "delete"}
  BY <1>1 DEF Course, AllOperations
<1>3. \A a \in Actions : lock[a] = q => op[q] = "delete" /\ a = act[q] /\ mine[q][a] = 0
  BY <1>1, <1>2 DEF Course, Written
<1>4. op[q] = "delete" => act[q] \notin Behind(q)
  BY <1>1 DEF Plan, Behind, RowsOf
<1>5. \A a \in Actions : a \in ToShift(q) <=> a \in Behind(q)
  <2> SUFFICES ASSUME NEW a \in Actions
               PROVE  a \in ToShift(q) <=> a \in Behind(q)
    OBVIOUS
  <2>1. CASE lock[a] = q
    BY <1>3, <1>4, <2>1 DEF ToShift, View
  <2>2. CASE lock[a] # q
    BY <2>2 DEF ToShift, View, Behind
  <2> QED BY <2>1, <2>2
<1> QED BY <1>2, <1>3, <1>4, <1>5 DEF ToShift, Behind

LEMMA DeleteTurn ==
    ASSUME Sound, Sound', ~ overlapped, InTurn, NEW q \in Requests, Remove(q)
    PROVE  InTurn'
<1>1. /\ pc[q] = "remove" /\ Write(q, {act[q]} \intersect Rows, Nothing) /\ Goto(q, "shift")
      /\ UNCHANGED <<pos, at>>
  BY DEF Remove
<1>2. op[q] = "delete" /\ Plan(q) /\ UNCHANGED <<op, act>>
  <2>1. op[q] = "delete"
    BY <1>1 DEF Sound, Course, TypeOK, AllOperations
  <2> QED BY <1>1, <2>1 DEF InTurn, Goto
<1>3. act[q] \in Rows /\ act[q] \in Actions
  BY <1>2 DEF Plan, Rows, RowsOf
<1>4. lock'[act[q]] = q /\ mine'[q][act[q]] = 0
  BY <1>1, <1>3 DEF Write, Nothing, Sound, TypeOK
<1>5. pc'[q] = "shift" => Plan(q)'
  BY <1>1, <1>2, <1>4 DEF Plan
<1> QED BY <1>1, <1>5, GoesOn

LEMMA FindRowsTurn ==
    ASSUME Sound, Sound', ~ overlapped, InTurn, NEW q \in Requests, FindRows(q)
    PROVE  InTurn'
<1>1. /\ pc[q] = "shift" /\ seen' = [seen EXCEPT ![q] = ToShift(q)] /\ Goto(q, "shifting")
      /\ UNCHANGED <<pos, lock, at, mine, op, act>>
  BY DEF FindRows, Goto
<1>2. seen'[q] = Behind(q)' /\ op[q] \in {"create", "delete"} /\ Plan(q)
  <2>1. ToShift(q) = Behind(q) /\ op[q] \in {"create", "delete"}
    BY <1>1, FindsBehind
  <2> QED BY <1>1, <2>1 DEF Behind, Sound, TypeOK, InTurn
<1>3. pc'[q] = "shifting" => Plan(q)'
  BY <1>1, <1>2 DEF Plan
<1> QED BY <1>1, <1>3, GoesOn

LEMMA ShiftTurn ==
    ASSUME Sound, Sound', ~ overlapped, InTurn, NEW q \in Requests, ShiftRows(q)
    PROVE  InTurn'
<1> DEFINE S == seen[q] \intersect ToShift(q)
           w == [a \in Actions |-> Shifted(q, a)]
<1>1. /\ pc[q] = "shifting" /\ Write(q, S, w) /\ Goto(q, "commit") /\ UNCHANGED <<pos, at, op, act>>
  BY DEF ShiftRows, Goto
<1>2. /\ ToShift(q) = Behind(q) /\ op[q] \in {"create", "delete"}
      /\ \A a \in Actions : lock[a] = q => op[q] = "delete" /\ a = act[q]
      /\ op[q] = "delete" => act[q] \notin Behind(q)
  BY <1>1, FindsBehind
<1>3. Plan(q) /\ S = Behind(q) /\ Behind(q)' = Behind(q)
  BY <1>1, <1>2 DEF InTurn, Plan, Behind
<1> HIDE DEF S, w
<1>4. /\ lock' = [a \in Actions |-> IF a \in S THEN q ELSE lock[a]]
      /\ mine'[q] = [a \in Actions |-> IF a \in S THEN w[a] ELSE mine[q][a]]
  BY <1>1 DEF Write, Sound, TypeOK
<1>5. CASE op[q] = "create"
  <2>1. \A a \in Actions : lock'[a] = q <=> a \in Behind(q)'
    BY <1>2, <1>3, <1>4, <1>5
  <2>2. at[q] \in 1..Cardinality(RowsOf(pos))+1
    BY <1>3, <1>5 DEF Plan
  <2>3. pc'[q] = "commit" => Plan(q)'
    BY <1>1, <1>5, <2>1, <2>2 DEF Plan
  <2> QED BY <1>1, <2>3, GoesOn
<1>6. CASE op[q] = "delete"
  <2>1. act[q] \in RowsOf(pos) /\ act[q] \in Actions /\ at[q] = pos[act[q]] + 1
        /\ lock[act[q]] = q /\ mine[q][act[q]] = 0
    BY <1>1, <1>3, <1>6 DEF Plan, RowsOf
  <2>2. lock'[act[q]] = q /\ mine'[q][act[q]] = 0
    BY <1>2, <1>3, <1>4, <1>6, <2>1
  <2>3. \A a \in Actions \ {act[q]} : lock'[a] = q <=> a \in Behind(q)'
    BY <1>2, <1>3, <1>4
  <2>4. pc'[q] = "commit" => Plan(q)'
    BY <1>1, <1>6, <2>1, <2>2, <2>3 DEF Plan
  <2> QED BY <1>1, <2>4, GoesOn
<1> QED BY <1>2, <1>5, <1>6

\* A move has a transposition of the positions in mind.
LEMMA FindOtherTurn ==
    ASSUME Sound, Sound', Blank, ~ overlapped, InTurn, NEW q \in Requests, FindOther(q)
    PROVE  InTurn'
<1> DEFINE n == Cardinality(RowsOf(pos))
           b == CHOOSE b \in Rows \ {act[q]} : pos[b] = at[q]
           a == act[q]
           g == Target(q)'
<1>1. pc[q] = "find" /\ b \in Rows \ {a} /\ pos[b] = at[q] /\ UNCHANGED <<pos, old, at>>
  BY DEF FindOther
<1>2. /\ mine' = [mine EXCEPT ![q] = [@ EXCEPT ![a] = at[q], ![b] = old[q]]]
      /\ IF old[q] = at[q] THEN Goto(q, "commit") ELSE Goto(q, "write")
  BY DEF FindOther
<1> HIDE DEF b
<1>3. a \in RowsOf(pos) /\ old[q] = pos[a] /\ Spans(pos, n) /\ n \in Nat
      /\ op[q] \in {"move", "reorder"} /\ mine[q] = Nothing /\ mine \in [Requests -> [Actions -> Nat]]
  <2>1. a \in RowsOf(pos) /\ old[q] = pos[a] /\ Spans(pos, n)
    BY <1>1 DEF InTurn, Plan
  <2>2. n \in Nat
    BY RankFacts DEF Sound
  <2>3. op[q] \in {"move", "reorder"}
    BY <1>1 DEF Sound, Course, TypeOK, AllOperations
  <2>4. mine[q] = Nothing /\ mine \in [Requests -> [Actions -> Nat]]
    BY <1>1 DEF Blank, Sound, TypeOK
  <2> QED BY <2>1, <2>2, <2>3, <2>4
<1>4. /\ a \in Actions /\ b \in Actions /\ a # b /\ pos[a] > 0 /\ pos[b] > 0 /\ pos[a] # pos[b]
      /\ pos \in [Actions -> Nat]
  BY <1>1, <1>3 DEF RowsOf, Rows, Sound, Positions, Unique
<1>5. Goto(q, "write")
  BY <1>1, <1>2, <1>3, <1>4
<1> HIDE DEF a
<1>6. mine'[q] = [c \in Actions |-> IF c = a THEN pos[b] ELSE IF c = b THEN pos[a] ELSE 0]
  BY <1>1, <1>2, <1>3, <1>4 DEF Nothing
<1>7. \A c \in Actions : g[c] = IF c = a THEN pos[b] ELSE IF c = b THEN pos[a] ELSE pos[c]
  BY <1>1, <1>4, <1>6 DEF Target
<1> HIDE DEF g
<1>8. RowsOf(g) = RowsOf(pos)
  BY <1>4, <1>7 DEF RowsOf
<1>9. Spans(g, n)
  <2> HIDE DEF n
  <2>1. \A c \in RowsOf(pos) : g[c] \in 1..n
    BY <1>3, <1>4, <1>7 DEF Spans, RowsOf
  <2>2. ASSUME NEW i \in 1..n
        PROVE  \E c \in RowsOf(pos) : g[c] = i
    <3>1. PICK c \in RowsOf(pos) : pos[c] = i
      BY <1>3 DEF Spans
    <3>2. \E d \in {a, b, c} : d \in RowsOf(pos) /\ g[d] = i
      BY <1>4, <1>7, <3>1 DEF RowsOf
    <3> QED BY <3>2
  <2> QED BY <1>8, <2>1, <2>2 DEF Spans
<1>10. pc'[q] = "write" => Plan(q)'
  <2>1. UNCHANGED op
    BY <1>5 DEF Goto
  <2>2. Spans(Target(q), Cardinality(RowsOf(pos)))' /\ (RowsOf(Target(q)) = RowsOf(pos))'
    BY <1>1, <1>8, <1>9 DEF g, Spans, RowsOf
  <2> QED BY <1>3, <2>1, <2>2 DEF Plan
<1> QED BY <1>1, <1>5, <1>10, GoesOn

LEMMA WriteRowsTurn ==
    ASSUME Sound, Sound', ~ overlapped, InTurn, NEW q \in Requests, WriteRows(q)
    PROVE  InTurn'
<1> DEFINE S == {a \in Actions : mine[q][a] > 0}
<1>1. pc[q] = "write" /\ UNCHANGED <<pos, spare>>
  BY DEF WriteRows
<1>2. /\ op[q] \in {"move", "reorder"} /\ Plan(q) /\ Spans(pos, Cardinality(RowsOf(pos)))
      /\ mine[q] \in [Actions -> Nat] /\ \A a \in Actions : lock[a] # q
  <2>1. op[q] \in {"move", "reorder"}
    BY <1>1 DEF Sound, Course, TypeOK, AllOperations
  <2>2. \A a \in Actions : lock[a] # q
    BY <1>1, <2>1 DEF Sound, Course, Written
  <2> QED BY <2>1, <2>2 DEF InTurn, Sound, TypeOK
<1>3. CASE S \subseteq Rows
  <2>1. Write(q, S, mine[q]) /\ Goto(q, "commit") /\ UNCHANGED op
    BY <1>3 DEF WriteRows, Goto
  <2>2. \A a \in Actions : lock'[a] = q <=> a \in S
    BY <1>2, <2>1 DEF Write
  <2>3. mine'[q] = mine[q]
    <3>1. mine'[q] = [a \in Actions |-> IF a \in S THEN mine[q][a] ELSE mine[q][a]]
      BY <2>1 DEF Write, Sound, TypeOK
    <3> QED BY <1>2, <3>1
  <2>4. Target(q)' = Target(q)
    BY <1>1, <2>3 DEF Target
  <2>5. Spans(Target(q), Cardinality(RowsOf(pos)))' /\ (RowsOf(Target(q)) = RowsOf(pos))'
    BY <1>1, <1>2, <2>4 DEF Plan, Spans, RowsOf
  <2>6. \A a \in Actions : lock'[a] = q <=> mine'[q][a] > 0
    BY <2>2, <2>3
  <2>7. pc'[q] = "commit" => Plan(q)'
    BY <1>2, <2>1, <2>5, <2>6 DEF Plan
  <2> QED BY <1>1, <2>1, <2>7, GoesOn
<1>4. CASE ~ (S \subseteq Rows)
  <2>1. End(q)
    BY <1>4 DEF WriteRows
  <2>2. Spans(pos', Cardinality(RowsOf(pos')))
    BY <1>1, <1>2
  <2> QED BY <1>1, <2>1, <2>2, Ends
<1> QED BY <1>3, <1>4

\* The positions a lone request commits are contiguous.
LEMMA MergedSpans ==
    ASSUME Sound, ~ overlapped, InTurn, NEW q \in Requests, pc[q] = "commit"
    PROVE  \E m \in Nat : Spans(Merged(q), m)
<1> DEFINE n == Cardinality(RowsOf(pos))
           g == Merged(q)
           a == act[q]
<1>1. /\ Plan(q) /\ Course(q) /\ Spans(pos, n) /\ n \in Nat /\ op[q] \in AllOperations
      /\ pos \in [Actions -> Nat] /\ mine[q] \in [Actions -> Nat]
  <2>1. n \in Nat
    BY RankFacts DEF Sound
  <2>2. op[q] \in AllOperations
    BY MergedFacts
  <2> QED BY <2>1, <2>2 DEF InTurn, Sound, TypeOK
<1> HIDE DEF n
<1>2. /\ \A c \in Actions : pos[c] > 0 => pos[c] \in 1..n
      /\ \A i \in 1..n : \E c \in Actions : pos[c] = i
      /\ \A c, d \in Actions : pos[c] = pos[d] /\ pos[c] > 0 => c = d
  BY <1>1 DEF Spans, RowsOf, Sound, Positions, Unique
<1>3. CASE op[q] = "create"
  <2>1. a \in Actions /\ pos[a] = 0
    BY <1>3 DEF Sound, Keys
  <2>2. at[q] \in 1..n+1 /\ \A c \in Actions : lock[c] = q <=> (pos[c] >= at[q] /\ pos[c] > 0)
    BY <1>1, <1>3 DEF Plan, Behind, n
  <2>3. \A c \in Actions : lock[c] = q => mine[q][c] = pos[c] + 1
    BY <1>1, <1>3 DEF Course, Written
  <2>4. /\ g[a] = at[q]
        /\ \A c \in Actions \ {a} : g[c] = IF pos[c] >= at[q] /\ pos[c] > 0 THEN pos[c] + 1 ELSE pos[c]
    BY <1>3, <2>1, <2>2, <2>3 DEF Merged, View
  <2> HIDE DEF g, a
  <2>5. \A c \in RowsOf(g) : g[c] \in 1..n+1
    BY <1>1, <1>2, <2>2, <2>4 DEF RowsOf
  <2>6. ASSUME NEW i \in 1..n+1
        PROVE  \E c \in RowsOf(g) : g[c] = i
    <3>1. CASE i = at[q]
      BY <2>1, <2>2, <2>4, <3>1 DEF RowsOf
    <3>2. CASE i < at[q]
      <4>1. i \in 1..n
        BY <1>1, <2>2, <3>2
      <4>2. PICK c \in Actions : pos[c] = i
        BY <1>2, <4>1
      <4>3. c # a /\ g[c] = i
        BY <2>1, <2>2, <2>4, <3>2, <4>1, <4>2
      <4> QED BY <4>1, <4>3 DEF RowsOf
    <3>3. CASE i > at[q]
      <4>1. i-1 \in 1..n /\ (i-1)+1 = i
        BY <1>1, <2>2, <3>3
      <4>2. PICK c \in Actions : pos[c] = i-1
        BY <1>2, <4>1
      <4>3. c # a /\ g[c] = i
        BY <2>1, <2>2, <2>4, <3>3, <4>1, <4>2
      <4> QED BY <4>3 DEF RowsOf
    <3> QED BY <1>1, <2>2, <3>1, <3>2, <3>3
  <2>7. n+1 \in Nat /\ Spans(g, n+1)
    BY <1>1, <2>5, <2>6 DEF Spans
  <2> QED BY <2>7 DEF g
<1>4. CASE op[q] = "delete"
  <2>1. a \in Actions /\ pos[a] \in 1..n /\ at[q] = pos[a] + 1 /\ lock[a] = q /\ mine[q][a] = 0
    BY <1>1, <1>2, <1>4 DEF Plan, RowsOf
  <2>2. \A c \in Actions \ {a} : lock[c] = q <=> (pos[c] >= at[q] /\ pos[c] > 0)
    BY <1>1, <1>4 DEF Plan, Behind
  <2>3. \A c \in Actions \ {a} : lock[c] = q => mine[q][c] = pos[c] - 1
    BY <1>1, <1>4 DEF Course, Written
  <2>4. /\ g[a] = 0
        /\ \A c \in Actions \ {a} : g[c] = IF pos[c] >= at[q] /\ pos[c] > 0 THEN pos[c] - 1 ELSE pos[c]
    BY <1>4, <2>1, <2>2, <2>3 DEF Merged, View
  <2> HIDE DEF g, a
  <2>5. ASSUME NEW c \in RowsOf(g)
        PROVE  g[c] \in 1..n-1
    <3>1. c \in Actions /\ g[c] > 0
      BY DEF RowsOf
    <3>2. c # a
      BY <2>4, <3>1
    <3>3. pos[c] \in Nat /\ pos[c] > 0
      BY <1>1, <2>4, <3>1, <3>2
    <3>4. pos[c] \in 1..n /\ pos[c] # pos[a]
      BY <1>2, <2>1, <3>1, <3>2, <3>3
    <3> QED BY <1>1, <2>1, <2>4, <3>1, <3>2, <3>4
  <2>6. ASSUME NEW i \in 1..n-1
        PROVE  \E c \in RowsOf(g) : g[c] = i
    <3>1. CASE i < pos[a]
      <4>1. i \in 1..n
        BY <1>1
      <4>2. PICK c \in Actions : pos[c] = i
        BY <1>2, <4>1
      <4>3. c # a /\ g[c] = i
        BY <2>1, <2>4, <3>1, <4>1, <4>2
      <4> QED BY <4>1, <4>3 DEF RowsOf
    <3>2. CASE i >= pos[a]
      <4>1. i+1 \in 1..n /\ (i+1)-1 = i
        BY <1>1
      <4>2. PICK c \in Actions : pos[c] = i+1
        BY <1>2, <4>1
      <4>3. c # a /\ g[c] = i
        BY <2>1, <2>4, <3>2, <4>1, <4>2
      <4> QED BY <4>3 DEF RowsOf
    <3> QED BY <1>1, <2>1, <3>1, <3>2
  <2>7. n-1 \in Nat /\ Spans(g, n-1)
    <3>1. n-1 \in Nat
      BY <1>1, <2>1
    <3> QED BY <3>1, <2>5, <2>6 DEF Spans
  <2> QED BY <2>7 DEF g
<1>5. CASE op[q] \in {"move", "reorder"}
  <2>1. \A c \in Actions : lock[c] = q <=> mine[q][c] > 0
    BY <1>1, <1>5 DEF Plan
  <2>2. g = Target(q)
    BY <1>5, <2>1 DEF Merged, View, Target
  <2>3. Spans(Target(q), n)
    BY <1>1, <1>5 DEF Plan, n
  <2> QED BY <1>1, <2>2, <2>3
<1> QED BY <1>1, <1>3, <1>4, <1>5 DEF AllOperations

LEMMA CommitTurn ==
    ASSUME Sound, Sound', ~ overlapped, InTurn, NEW q \in Requests, Commit(q)
    PROVE  InTurn'
<1>1. pc[q] = "commit" /\ End(q) /\ pos' = IF Unique(Merged(q)) THEN Merged(q) ELSE pos
  BY DEF Commit
<1>2. CASE ~ Unique(Merged(q))
  <2>1. Spans(pos', Cardinality(RowsOf(pos')))
    BY <1>1, <1>2 DEF InTurn
  <2> QED BY <1>1, <2>1, Ends
<1>3. CASE Unique(Merged(q))
  <2>1. PICK m \in Nat : Spans(Merged(q), m)
    BY <1>1, MergedSpans
  <2>2. Positions(Merged(q))
    BY <1>1, <1>3, MergedFacts DEF Positions
  <2>3. Cardinality(RowsOf(Merged(q))) = m
    BY <2>1, <2>2, SpanFacts
  <2>4. Spans(pos', Cardinality(RowsOf(pos')))
    BY <1>1, <1>3, <2>1, <2>3
  <2> QED BY <1>1, <2>4, Ends
<1> QED BY <1>2, <1>3

\* Requests that overlapped have done so for good.
LEMMA OverlapsForGood ==
    ASSUME Sound, Next, ~ overlapped'
    PROVE  ~ overlapped
<1>0. overlapped \in BOOLEAN
  BY DEF Sound, TypeOK
<1>1. ASSUME NEW q, NEW o, NEW a, NEW p, Begin(q, o, a, p)
      PROVE  ~ overlapped
  BY <1>1 DEF Begin
<1>2. ASSUME NEW q, Arrive(q)
      PROVE  ~ overlapped
  BY <1>1, <1>2 DEF Arrive, AppendAtEnd, Insert, ReadForDelete, ReadForMove, ReadForReorder
<1>3. ASSUME NEW q, End(q)
      PROVE  ~ overlapped
  BY <1>3 DEF End
<1>4. ASSUME NEW q, NEW p, Goto(q, p)
      PROVE  ~ overlapped
  BY <1>4 DEF Goto
<1>5. ASSUME NEW q, Remove(q) \/ FindRows(q) \/ ShiftRows(q) \/ FindOther(q)
      PROVE  ~ overlapped
  BY <1>3, <1>4, <1>5 DEF Remove, FindRows, ShiftRows, FindOther
<1>6. ASSUME NEW q, WriteRows(q) \/ Commit(q) \/ Abort(q)
      PROVE  ~ overlapped
  BY <1>3, <1>4, <1>6 DEF WriteRows, Commit, Abort
<1> QED BY <1>2, <1>5, <1>6 DEF Next

LEMMA TurnStep == Sound /\ Sound' /\ Blank /\ InTurn /\ [Next]_vars => InTurn'
<1> SUFFICES ASSUME Sound, Sound', Blank, InTurn, [Next]_vars, ~ overlapped'
             PROVE  InTurn'
  BY DEF InTurn
<1>1. CASE UNCHANGED vars
  <2>1. /\ pos' = pos /\ lock' = lock /\ pc' = pc /\ op' = op /\ act' = act /\ old' = old
        /\ at' = at /\ mine' = mine /\ seen' = seen /\ overlapped' = overlapped
    BY <1>1 DEF vars, request
  <2>2. Alone' /\ (Spans(pos, Cardinality(RowsOf(pos))))'
    BY <2>1 DEF InTurn, Alone
  <2>3. \A q \in Requests : Plan(q) => Plan(q)'
    <3>1. \A q \in Requests : Target(q)' = Target(q) /\ Behind(q)' = Behind(q)
      BY <2>1 DEF Target, Behind
    <3> QED BY <2>1, <3>1 DEF Plan
  <2> QED BY <2>1, <2>2, <2>3 DEF InTurn
<1>2. ASSUME NEW q \in Requests, Abort(q)
      PROVE  InTurn'
  <2>1. pc[q] # "idle" /\ End(q) /\ UNCHANGED <<pos, overlapped>>
    BY <1>2 DEF Abort, End
  <2>2. Spans(pos', Cardinality(RowsOf(pos')))
    BY <2>1 DEF InTurn
  <2> QED BY <2>1, <2>2, Ends
<1>3. CASE Next
  <2>1. ~ overlapped
    BY <1>3, OverlapsForGood
  <2> QED BY <1>2, <1>3, <2>1, ArriveTurn, DeleteTurn, FindRowsTurn, ShiftTurn, FindOtherTurn,
             WriteRowsTurn, CommitTurn DEF Next
<1> QED BY <1>1, <1>3

\* "... so the sequence remains contiguous" (routine_services.py:444): it does,
\* for any number of actions and of requests, whatever these do and wherever
\* they fail, as long as no two of them overlap.
THEOREM InTurnContiguous == Spec => []ContiguousInTurn
<1>1. Init => Sound /\ Blank /\ InTurn
  BY InitSound, InitTurn
<1>2. Sound /\ Blank /\ InTurn /\ [Next]_vars => Sound' /\ Blank' /\ InTurn'
  BY StepSound, BlankStep, TurnStep
<1>3. Sound /\ InTurn => ContiguousInTurn
  <2> SUFFICES ASSUME Sound, InTurn, ~ overlapped
               PROVE  Contiguous
    BY DEF ContiguousInTurn
  <2>1. Rows = RowsOf(pos) /\ Spans(pos, Cardinality(Rows))
    BY DEF InTurn, Rows, RowsOf
  <2> QED BY <2>1 DEF Contiguous, Spans
<1> QED BY <1>1, <1>2, <1>3, PTL DEF Spec
=============================================================================
