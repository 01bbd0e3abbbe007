---------------------------- MODULE SearchProofs ----------------------------
(***************************************************************************)
(* Proofs about Search and Features, in this order:                        *)
(*                                                                         *)
(*   sums            MapThenSumSet of some numbers does not depend on the  *)
(*                   order in which they are chosen                        *)
(*   proximity       bs finds the first later position, and a chain that   *)
(*                   takes the next position of each word ends before any  *)
(*                   other, so that getMinQueryDistInDoc is ShortestSpan   *)
(*   words in a URL  what boyerMoorAlgorithm counts are parts of the URL   *)
(*   GoroutinesInv   what the goroutines have added up and listed          *)
(*   ListInv         what Sort and the ranking loop do to the list         *)
(*   FeaturesInv     what is counted of a URL, and who may panic           *)
(*                                                                         *)
(* The recursive functions of Features are CHOOSEn, so each lemma about    *)
(* one first shows that there is a function as described, by an induction  *)
(* that SetInduction allows.                                               *)
(***************************************************************************)
EXTENDS Search, FiniteSetTheorems, SequenceTheorems, WellFoundedInduction, TLAPS

\* The natural numbers are the least set with 0 and the successors of its members.
LEMMA SetInduction ==
  ASSUME NEW T, 0 \in T, \A n \in Nat : n \in T => n + 1 \in T
  PROVE  Nat \subseteq T
<1> DEFINE R == OpToRel(<, Nat)
<1>1. \A y, x \in Nat : y < x => <<y, x>> \in R
  BY DEF OpToRel
<1>2. IsWellFoundedOn(R, Nat)
  BY NatLessThanWellFounded
<1> HIDE DEF R
<1>3. ASSUME Nat \ T # {} PROVE FALSE
  <2>1. PICK x \in Nat \ T : \A y \in Nat \ T : ~(<<y, x>> \in R)
    BY <1>2, <1>3, WFMin
  <2>2. x # 0 /\ x - 1 \in Nat /\ (x - 1) + 1 = x /\ x - 1 < x
    BY <2>1
  <2>3. x - 1 \notin T
    BY <2>1, <2>2
  <2> QED
    BY <1>1, <2>1, <2>2, <2>3
<1> QED
  BY <1>3


-----------------------------------------------------------------------------
(* Sums *)

Some(s) == CHOOSE x \in s : TRUE

\* it is the function that MapThenSumSet computes with, for the numbers c.
Sums(it, S, c) ==
  it = [s \in SUBSET S |-> IF s = {} THEN 0 ELSE c[Some(s)] + it[s \ {Some(s)}]]

Numbers(c, S) == IsFiniteSet(S) /\ c \in [S -> Nat]

Summing(it, S, c) == Numbers(c, S) /\ it \in [SUBSET S -> Nat] /\ Sums(it, S, c)

LEMMA OneLess ==
  ASSUME NEW s, IsFiniteSet(s), NEW x \in s
  PROVE  /\ IsFiniteSet(s \ {x}) /\ Cardinality(s) \in Nat \ {0}
         /\ Cardinality(s \ {x}) = Cardinality(s) - 1
BY FS_RemoveElement, FS_CardinalityType, FS_EmptySet

Upto(S, n) == {s \in SUBSET S : Cardinality(s) <= n}

\* There is one.
LEMMA SumExists ==
  ASSUME NEW S, NEW c, Numbers(c, S)
  PROVE  \E it : Summing(it, S, c)
<1> USE DEF Numbers
<1> DEFINE Good(n) == \E it \in [Upto(S, n) -> Nat] :
             \A s \in Upto(S, n) : it[s] = IF s = {} THEN 0 ELSE c[Some(s)] + it[s \ {Some(s)}]
<1>0. \A s \in SUBSET S : /\ IsFiniteSet(s) /\ Cardinality(s) \in Nat
                          /\ Cardinality(s) <= Cardinality(S)
                          /\ Cardinality(s) = 0 <=> s = {}
  BY FS_Subset, FS_CardinalityType, FS_EmptySet
<1>1. Good(0)
  <2> DEFINE it == [s \in Upto(S, 0) |-> 0]
  <2>1. \A s \in Upto(S, 0) : s = {}
    BY <1>0 DEF Upto
  <2>2. it \in [Upto(S, 0) -> Nat] /\ \A s \in Upto(S, 0) : it[s] = 0
    OBVIOUS
  <2> HIDE DEF it
  <2> QED
    BY <2>1, <2>2
<1>2. ASSUME NEW n \in Nat, Good(n)
      PROVE  Good(n + 1)
  <2>1. PICK it \in [Upto(S, n) -> Nat] :
          \A s \in Upto(S, n) : it[s] = IF s = {} THEN 0 ELSE c[Some(s)] + it[s \ {Some(s)}]
    BY <1>2
  <2>2. ASSUME NEW s \in Upto(S, n + 1), s # {}
        PROVE  Some(s) \in s /\ Some(s) \in S /\ s \ {Some(s)} \in Upto(S, n)
    <3>1. Some(s) \in s /\ s \in SUBSET S /\ Cardinality(s) <= n + 1
      BY <2>2 DEF Some, Upto
    <3>2. Cardinality(s) \in Nat /\ Cardinality(s \ {Some(s)}) = Cardinality(s) - 1
      BY <1>0, <3>1, OneLess
    <3> QED
      BY <3>1, <3>2 DEF Upto
  <2> DEFINE more == [s \in Upto(S, n + 1) |-> IF s = {} THEN 0 ELSE c[Some(s)] + it[s \ {Some(s)}]]
  <2>3. more \in [Upto(S, n + 1) -> Nat]
    BY <2>2
  <2>4. Upto(S, n) \subseteq Upto(S, n + 1)
    BY <1>0 DEF Upto
  <2>5. \A s \in Upto(S, n + 1) : more[s] = IF s = {} THEN 0 ELSE c[Some(s)] + it[s \ {Some(s)}]
    OBVIOUS
  <2> HIDE DEF more
  <2>6. \A s \in Upto(S, n) : more[s] = it[s]
    BY <2>1, <2>4, <2>5
  <2>7. \A s \in Upto(S, n + 1) : more[s] = IF s = {} THEN 0 ELSE c[Some(s)] + more[s \ {Some(s)}]
    BY <2>2, <2>5, <2>6
  <2> QED
    BY <2>3, <2>7
<1>3. Good(Cardinality(S))
  <2> HIDE DEF Good
  <2> DEFINE T == {n \in Nat : Good(n)}
  <2>1. 0 \in T /\ \A n \in Nat : n \in T => n + 1 \in T
    BY <1>1, <1>2
  <2> HIDE DEF T
  <2>2. Nat \subseteq T
    BY <2>1, SetInduction
  <2> QED
    BY <1>0, <2>2 DEF T
<1>4. Upto(S, Cardinality(S)) = SUBSET S
  BY <1>0 DEF Upto
<1>5. PICK it \in [SUBSET S -> Nat] :
        \A s \in SUBSET S : it[s] = IF s = {} THEN 0 ELSE c[Some(s)] + it[s \ {Some(s)}]
  BY <1>3, <1>4
<1>6. it = [s \in SUBSET S |-> it[s]]
  OBVIOUS
<1> QED
  BY <1>5, <1>6 DEF Sums, Summing

AnyOrder(it, S, c) == \A s \in SUBSET S : \A x \in s : it[s] = c[x] + it[s \ {x}]

\* The order in which the elements are chosen does not matter.
LEMMA SumAnyOrder ==
  ASSUME NEW S, NEW c, NEW it, Summing(it, S, c)
  PROVE  AnyOrder(it, S, c)
<1> USE DEF AnyOrder
<1> DEFINE Good(n) == \A s \in SUBSET S : Cardinality(s) = n => \A x \in s : it[s] = c[x] + it[s \ {x}]
<1>0. \A s \in SUBSET S : /\ IsFiniteSet(s) /\ Cardinality(s) \in Nat
                          /\ Cardinality(s) = 0 <=> s = {}
                          /\ it[s] = IF s = {} THEN 0 ELSE c[Some(s)] + it[s \ {Some(s)}]
                          /\ it[s] \in Nat
  BY FS_Subset, FS_CardinalityType, FS_EmptySet DEF Sums, Summing, Numbers
<1>a. c \in [S -> Nat] /\ it \in [SUBSET S -> Nat]
  BY DEF Summing, Numbers
<1>1. Good(0)
  BY <1>0
<1>2. ASSUME NEW n \in Nat, Good(n)
      PROVE  Good(n + 1)
  <2> SUFFICES ASSUME NEW s \in SUBSET S, Cardinality(s) = n + 1, NEW x \in s
               PROVE  it[s] = c[x] + it[s \ {x}]
    OBVIOUS
  <2>1. PICK y \in s : y = Some(s) /\ it[s] = c[y] + it[s \ {y}]
    <3>1. Some(s) \in s
      BY DEF Some
    <3> QED
      BY <1>0, <3>1
  <2>2. CASE x = y
    BY <2>1, <2>2
  <2>3. CASE x # y
    <3>1. Cardinality(s \ {y}) = n /\ Cardinality(s \ {x}) = n
      <4>1. IsFiniteSet(s) /\ \A u \in s : Cardinality(s \ {u}) = Cardinality(s) - 1
        BY <1>0, OneLess
      <4> QED
        BY <4>1
    <3>2. it[s \ {y}] = c[x] + it[(s \ {y}) \ {x}]
      BY <1>2, <2>3, <3>1
    <3>3. it[s \ {x}] = c[y] + it[(s \ {x}) \ {y}]
      BY <1>2, <2>3, <3>1
    <3>4. PICK z \in SUBSET S : z = (s \ {y}) \ {x} /\ z = (s \ {x}) \ {y}
      OBVIOUS
    <3>5. it[z] \in Nat /\ c[x] \in Nat /\ c[y] \in Nat
      BY <1>0, <1>a
    <3>6. it[s] = c[y] + (c[x] + it[z]) /\ it[s \ {x}] = c[y] + it[z]
      BY <2>1, <3>2, <3>3, <3>4
    <3> HIDE <1>2
    <3> QED
      BY <3>5, <3>6
  <2> QED
    BY <2>2, <2>3
<1>3. \A n \in Nat : Good(n)
  <2> HIDE DEF Good
  <2> DEFINE T == {n \in Nat : Good(n)}
  <2>1. 0 \in T /\ \A n \in Nat : n \in T => n + 1 \in T
    BY <1>1, <1>2
  <2> HIDE DEF T
  <2>2. Nat \subseteq T
    BY <2>1, SetInduction
  <2> QED
    BY <2>2 DEF T
<1> QED
  BY <1>0, <1>3

\* There is only one, and that for a part of S is a part of it.
LEMMA SumUnique ==
  ASSUME NEW S, IsFiniteSet(S), NEW T \in SUBSET S, NEW c, NEW it, Sums(it, S, c), NEW jt, Sums(jt, T, c)
  PROVE  jt[T] = it[T]
<1> DEFINE Good(n) == \A s \in SUBSET T : Cardinality(s) = n => jt[s] = it[s]
<1>0. \A s \in SUBSET T : /\ IsFiniteSet(s) /\ Cardinality(s) \in Nat
                          /\ Cardinality(s) = 0 <=> s = {}
                          /\ it[s] = IF s = {} THEN 0 ELSE c[Some(s)] + it[s \ {Some(s)}]
                          /\ jt[s] = IF s = {} THEN 0 ELSE c[Some(s)] + jt[s \ {Some(s)}]
  BY FS_Subset, FS_CardinalityType, FS_EmptySet DEF Sums
<1>1. Good(0)
  BY <1>0
<1>2. ASSUME NEW n \in Nat, Good(n)
      PROVE  Good(n + 1)
  <2> SUFFICES ASSUME NEW s \in SUBSET T, Cardinality(s) = n + 1
               PROVE  jt[s] = it[s]
    OBVIOUS
  <2>1. IsFiniteSet(s) /\ s # {}
    <3>1. n + 1 # 0
      OBVIOUS
    <3> QED
      BY <1>0, <3>1
  <2>2. PICK u \in s : u = Some(s)
    BY <2>1 DEF Some
  <2>4. Cardinality(s \ {u}) = n
    <3>1. Cardinality(s \ {u}) = Cardinality(s) - 1
      BY <2>1, OneLess
    <3> QED
      BY <3>1
  <2>3. jt[s \ {u}] = it[s \ {u}]
    BY <1>2, <2>4
  <2> QED
    BY <1>0, <2>1, <2>2, <2>3
<1>3. \A n \in Nat : Good(n)
  <2> HIDE DEF Good
  <2> DEFINE U == {n \in Nat : Good(n)}
  <2>1. 0 \in U /\ \A n \in Nat : n \in U => n + 1 \in U
    BY <1>1, <1>2
  <2> HIDE DEF U
  <2>2. Nat \subseteq U
    BY <2>1, SetInduction
  <2> QED
    BY <2>2 DEF U
<1> QED
  BY <1>0, <1>3

\* What the words of S have counted for d.
TotalOf(ix, d, S) == MapThenSumSet(LAMBDA i : ix[i][d].Count, S)

Counts(ix, c, d, S) == \A i \in S : c[i] = ix[i][d].Count

LEMMA TotalIs ==
  ASSUME NEW ix, NEW d, NEW S, NEW c, Numbers(c, S), Counts(ix, c, d, S)
  PROVE  \E it : Summing(it, S, c) /\ TotalOf(ix, d, S) = it[S]
<1>1. PICK it : Summing(it, S, c)
  BY SumExists
<1> DEFINE P(jt) == jt = [s \in SUBSET S |-> IF s = {} THEN 0 ELSE ix[CHOOSE x \in s : TRUE][d].Count
                                                                + jt[s \ {CHOOSE x \in s : TRUE}]]
<1>2. TotalOf(ix, d, S) = (CHOOSE jt : P(jt))[S]
  BY DEF TotalOf, MapThenSumSet, MapThenFoldSet
<1>3. \A s \in SUBSET S : s # {} => Some(s) \in S /\ c[Some(s)] = ix[Some(s)][d].Count
  BY DEF Some, Counts
<1>4. ASSUME NEW jt PROVE P(jt) <=> Sums(jt, S, c)
  <2> DEFINE F == [s \in SUBSET S |-> IF s = {} THEN 0 ELSE ix[Some(s)][d].Count + jt[s \ {Some(s)}]]
             G == [s \in SUBSET S |-> IF s = {} THEN 0 ELSE c[Some(s)] + jt[s \ {Some(s)}]]
  <2>1. F = G
    BY <1>3
  <2>2. P(jt) <=> jt = F
    BY DEF Some
  <2>3. Sums(jt, S, c) <=> jt = G
    BY DEF Sums
  <2> HIDE DEF F, G, P
  <2> QED
    BY <2>1, <2>2, <2>3
<1> HIDE DEF P
<1>5. P(CHOOSE jt : P(jt))
  BY <1>1, <1>4 DEF Summing
<1>6. PICK jt : jt = (CHOOSE kt : P(kt)) /\ Sums(jt, S, c)
  BY <1>4, <1>5
<1>7. jt[S] = it[S]
  <2>1. IsFiniteSet(S) /\ Sums(it, S, c) /\ S \in SUBSET S
    BY <1>1 DEF Summing, Numbers
  <2> QED
    BY <1>6, <2>1, SumUnique
<1> QED
  BY <1>1, <1>2, <1>6, <1>7

\* The sum over the words, one of them apart.
LEMMA TotalOneMore ==
  ASSUME NEW ix, NEW d, NEW S, IsFiniteSet(S), \A i \in S : ix[i][d].Count \in Nat, NEW x \in S
  PROVE  /\ TotalOf(ix, d, S) = ix[x][d].Count + TotalOf(ix, d, S \ {x})
         /\ TotalOf(ix, d, S) \in Nat /\ TotalOf(ix, d, S \ {x}) \in Nat
<1> DEFINE T == S \ {x}
           cS == [i \in S |-> ix[i][d].Count]
           cT == [i \in T |-> ix[i][d].Count]
<1>1. Numbers(cS, S) /\ Numbers(cT, T) /\ T \in SUBSET S /\ IsFiniteSet(S)
  BY OneLess DEF Numbers
<1>2. Counts(ix, cS, d, S)
  BY DEF Counts
<1>3. Counts(ix, cT, d, T)
  BY DEF Counts
<1> HIDE DEF cS, cT, T
<1>4. PICK it : Summing(it, S, cS) /\ TotalOf(ix, d, S) = it[S]
  BY <1>1, <1>2, TotalIs
<1>5. PICK jt : Summing(jt, T, cT) /\ TotalOf(ix, d, T) = jt[T]
  BY <1>1, <1>3, TotalIs
<1>6. Sums(jt, T, cS)
  <2>1. \A s \in SUBSET T : s # {} => cS[Some(s)] = cT[Some(s)]
    BY <1>1, <1>2, <1>3 DEF Some, Counts
  <2> QED
    BY <1>5, <2>1 DEF Sums, Summing
<1>7. jt[T] = it[T]
  <2>1. Sums(it, S, cS)
    BY <1>4 DEF Summing
  <2>2. IsFiniteSet(S) /\ T \in SUBSET S
    BY <1>1
  <2> QED
    BY <1>6, <2>1, <2>2, SumUnique
<1>8. AnyOrder(it, S, cS)
  BY <1>4, SumAnyOrder
<1>9. it[S] = cS[x] + it[T] /\ it[S] \in Nat /\ jt[T] \in Nat
  BY <1>1, <1>4, <1>5, <1>8 DEF T, Summing, AnyOrder
<1> QED
  BY <1>2, <1>4, <1>5, <1>7, <1>9 DEF T, Counts

LEMMA TotalOfNone ==
  ASSUME NEW ix, NEW d
  PROVE  TotalOf(ix, d, {}) = 0
<1> DEFINE c == [i \in {} |-> 0]
<1>1. Numbers(c, {}) /\ Counts(ix, c, d, {})
  BY FS_EmptySet DEF Numbers, Counts
<1> HIDE DEF c
<1>2. PICK it : Summing(it, {}, c) /\ TotalOf(ix, d, {}) = it[{}]
  BY <1>1, TotalIs
<1> QED
  BY <1>2 DEF Sums, Summing
-----------------------------------------------------------------------------
(* Lists of positions *)

Ascending(s) ==
  /\ Len(s) \in Nat /\ DOMAIN s = 1..Len(s)
  /\ \A k \in 1..Len(s) : s[k] \in Nat /\ s[k] < MaxInt
  /\ \A k, l \in 1..Len(s) : k < l => s[k] < s[l]

\* The first b elements of s, and no others, are at most x.
UpTo(s, x, b) == b \in 0..Len(s) /\ \A k \in 1..Len(s) : s[k] <= x <=> k <= b

LEMMA SomeAreUpTo ==
  ASSUME NEW s, Ascending(s), NEW x \in Nat
  PROVE  \E b : UpTo(s, x, b)
<1> DEFINE T == {n \in Nat : n <= Len(s) => \E b \in 0..n : \A k \in 1..n : s[k] <= x <=> k <= b}
<1>1. 0 \in T
  OBVIOUS
<1>2. ASSUME NEW n \in Nat, n \in T PROVE n + 1 \in T
  <2> SUFFICES ASSUME n + 1 <= Len(s)
               PROVE  \E b \in 0..(n + 1) : \A k \in 1..(n + 1) : s[k] <= x <=> k <= b
    OBVIOUS
  <2>1. PICK b \in 0..n : \A k \in 1..n : s[k] <= x <=> k <= b
    BY <1>2 DEF Ascending
  <2>2. n + 1 \in 1..Len(s) /\ s[n + 1] \in Nat /\ \A k \in 1..n : k \in 1..Len(s) /\ s[k] < s[n + 1] /\ s[k] \in Nat
    BY DEF Ascending
  <2>3. CASE s[n + 1] <= x
    <3>1. \A k \in 1..(n + 1) : s[k] <= x
      BY <2>2, <2>3
    <3> QED
      BY <3>1
  <2>4. CASE ~(s[n + 1] <= x)
    <3>1. \A k \in 1..(n + 1) : s[k] <= x <=> k <= b
      BY <2>1, <2>4
    <3>2. b \in 0..(n + 1)
      OBVIOUS
    <3> QED
      BY <3>1, <3>2
  <2> QED
    BY <2>3, <2>4
<1> HIDE DEF T
<1>3. Nat \subseteq T
  BY <1>1, <1>2, SetInduction
<1>4. Len(s) \in T /\ Len(s) \in Nat
  BY <1>3 DEF Ascending
<1>5. \E b \in 0..Len(s) : \A k \in 1..Len(s) : s[k] <= x <=> k <= b
  BY <1>4 DEF T
<1> QED
  BY <1>5 DEF UpTo

Spans(arr) == (0..Len(arr)) \X (0..Len(arr))

\* f is a function that bs searches arr with, for what is after x.
Searches(f, arr, x) ==
  f = [s \in Spans(arr) |->
         IF s[1] >= s[2] THEN s[1]
         ELSE IF arr[(s[1] + s[2]) \div 2 + 1] <= x THEN f[<<(s[1] + s[2]) \div 2 + 1, s[2]>>]
         ELSE f[<<s[1], (s[1] + s[2]) \div 2>>]]

\* What a search finds between s[1] and s[2] when the first b elements are not after x.
Found(b, s) == IF s[1] >= s[2] \/ b <= s[1] THEN s[1] ELSE IF b >= s[2] THEN s[2] ELSE b

LEMMA Halves ==
  ASSUME NEW l \in Nat, NEW r \in Nat, l < r
  PROVE  LET m == (l + r) \div 2 IN m \in Nat /\ l <= m /\ m < r
OBVIOUS

LEMMA SearchExists ==
  ASSUME NEW arr, Ascending(arr), NEW x \in Nat, NEW b, UpTo(arr, x, b)
  PROVE  Searches([s \in Spans(arr) |-> Found(b, s)], arr, x)
<1> DEFINE f == [s \in Spans(arr) |-> Found(b, s)]
<1>1. ASSUME NEW s \in Spans(arr)
      PROVE  f[s] = IF s[1] >= s[2] THEN s[1]
                    ELSE IF arr[(s[1] + s[2]) \div 2 + 1] <= x THEN f[<<(s[1] + s[2]) \div 2 + 1, s[2]>>]
                    ELSE f[<<s[1], (s[1] + s[2]) \div 2>>]
  <2>1. CASE s[1] >= s[2]
    BY <2>1 DEF Found
  <2>2. CASE ~(s[1] >= s[2])
    <3>1. PICK l \in 0..Len(arr), r \in 0..Len(arr) : s = <<l, r>>
      BY DEF Spans
    <3>2. l \in Nat /\ r \in Nat /\ l < r /\ b \in Nat /\ Len(arr) \in Nat
      BY <2>2, <3>1 DEF Ascending, UpTo
    <3>3. PICK m \in Nat : m = (l + r) \div 2 /\ l <= m /\ m < r
      BY <3>2, Halves
    <3>4. /\ m + 1 \in 1..Len(arr) /\ m \in 0..Len(arr) /\ m + 1 \in 0..Len(arr)
          /\ arr[m + 1] <= x <=> m + 1 <= b
      BY <3>2, <3>3 DEF UpTo
    <3>5. f[<<l, r>>] = Found(b, <<l, r>>) /\ f[<<m + 1, r>>] = Found(b, <<m + 1, r>>) /\ f[<<l, m>>] = Found(b, <<l, m>>)
      BY <3>4 DEF Spans
    <3>6. Found(b, <<l, r>>) = IF m + 1 <= b THEN Found(b, <<m + 1, r>>) ELSE Found(b, <<l, m>>)
      BY <3>2, <3>3 DEF Found
    <3> QED
      BY <3>1, <3>2, <3>3, <3>4, <3>5, <3>6
  <2> QED
    BY <2>1, <2>2
<1> HIDE DEF f
<1>2. f = [s \in Spans(arr) |-> f[s]]
  BY DEF f
<1>3. Searches(f, arr, x)
  BY <1>1, <1>2 DEF Searches
<1> QED
  BY <1>3 DEF f

\* A search finds what it should, whatever is the length of what is left to be searched.
LEMMA SearchIs ==
  ASSUME NEW arr, Ascending(arr), NEW x \in Nat, NEW b, UpTo(arr, x, b), NEW f, Searches(f, arr, x)
  PROVE  \A s \in Spans(arr) : f[s] = Found(b, s)
<1> DEFINE T == {n \in Nat : \A l, r \in 0..Len(arr) : r - l <= n => f[<<l, r>>] = Found(b, <<l, r>>)}
<1>1. ASSUME NEW l \in 0..Len(arr), NEW r \in 0..Len(arr)
      PROVE  f[<<l, r>>] = IF l >= r THEN l
                           ELSE IF arr[(l + r) \div 2 + 1] <= x THEN f[<<(l + r) \div 2 + 1, r>>]
                           ELSE f[<<l, (l + r) \div 2>>]
  BY DEF Searches, Spans
<1>2. 0 \in T
  <2> SUFFICES ASSUME NEW l \in 0..Len(arr), NEW r \in 0..Len(arr), r - l <= 0
               PROVE  f[<<l, r>>] = Found(b, <<l, r>>)
    OBVIOUS
  <2>1. l >= r
    BY DEF Ascending
  <2> QED
    BY <1>1, <2>1 DEF Found
<1>3. ASSUME NEW n \in Nat, n \in T PROVE n + 1 \in T
  <2> SUFFICES ASSUME NEW l \in 0..Len(arr), NEW r \in 0..Len(arr), r - l <= n + 1
               PROVE  f[<<l, r>>] = Found(b, <<l, r>>)
    OBVIOUS
  <2>1. CASE l >= r
    BY <1>1, <2>1 DEF Found
  <2>2. CASE ~(l >= r)
    <3>1. l \in Nat /\ r \in Nat /\ l < r /\ b \in Nat /\ Len(arr) \in Nat
      BY <2>2 DEF Ascending, UpTo
    <3>2. PICK m \in Nat : m = (l + r) \div 2 /\ l <= m /\ m < r
      BY <3>1, Halves
    <3>3. /\ m + 1 \in 1..Len(arr) /\ m \in 0..Len(arr) /\ m + 1 \in 0..Len(arr)
          /\ arr[m + 1] <= x <=> m + 1 <= b
      BY <3>1, <3>2 DEF UpTo
    <3>4. f[<<l, r>>] = IF m + 1 <= b THEN f[<<m + 1, r>>] ELSE f[<<l, m>>]
      BY <1>1, <2>2, <3>2, <3>3
    <3>5. f[<<m + 1, r>>] = Found(b, <<m + 1, r>>) /\ f[<<l, m>>] = Found(b, <<l, m>>)
      BY <1>3, <3>1, <3>2, <3>3
    <3>6. Found(b, <<l, r>>) = IF m + 1 <= b THEN Found(b, <<m + 1, r>>) ELSE Found(b, <<l, m>>)
      BY <3>1, <3>2 DEF Found
    <3> QED
      BY <3>4, <3>5, <3>6
  <2> QED
    BY <2>1, <2>2
<1> HIDE DEF T
<1>4. Nat \subseteq T
  BY <1>2, <1>3, SetInduction
<1>5. ASSUME NEW l \in 0..Len(arr), NEW r \in 0..Len(arr)
      PROVE  f[<<l, r>>] = Found(b, <<l, r>>)
  <2>1. Len(arr) \in T /\ r - l <= Len(arr)
    BY <1>4 DEF Ascending
  <2> QED
    BY <2>1 DEF T
<1> QED
  BY <1>5 DEF Spans

\* bs finds how many elements of a list of positions are not after x.
LEMMA bsIs ==
  ASSUME NEW arr, Ascending(arr), NEW x \in Nat
  PROVE  UpTo(arr, x, bs(arr, x))
<1>1. PICK b : UpTo(arr, x, b)
  BY SomeAreUpTo
<1> DEFINE f == CHOOSE g : Searches(g, arr, x)
<1>2. bs(arr, x) = f[<<0, Len(arr)>>]
  BY DEF bs, Searches, Spans
<1>3. Searches(f, arr, x)
  BY <1>1, SearchExists
<1> HIDE DEF f
<1>4. <<0, Len(arr)>> \in Spans(arr) /\ b \in 0..Len(arr) /\ Len(arr) \in Nat
  BY <1>1 DEF Spans, Ascending, UpTo
<1>5. f[<<0, Len(arr)>>] = b
  BY <1>1, <1>3, <1>4, SearchIs DEF Found
<1> QED
  BY <1>1, <1>2, <1>5

-----------------------------------------------------------------------------
(* Chains of positions *)

NextIn(s, x) == IF bs(s, x) >= Len(s) THEN MaxInt ELSE s[bs(s, x) + 1]

\* v is the least element of s after x, or MaxInt.
IsNext(v, s, x) ==
  /\ v \in Nat /\ v <= MaxInt
  /\ v # MaxInt => v \in Range(s) /\ x < v
  /\ \A y \in Range(s) : x < y => v <= y

LEMMA NextIs ==
  ASSUME MaxInt \in Nat, NEW s, Ascending(s), NEW x \in Nat
  PROVE  IsNext(NextIn(s, x), s, x)
<1>1. PICK b : b = bs(s, x) /\ UpTo(s, x, b)
  BY bsIs
<1>2. /\ Len(s) \in Nat /\ b \in 0..Len(s) /\ Range(s) = {s[k] : k \in 1..Len(s)}
      /\ \A k \in 1..Len(s) : s[k] <= x <=> k <= b
      /\ \A k \in 1..Len(s) : s[k] \in Nat /\ s[k] < MaxInt
      /\ \A k, l \in 1..Len(s) : k < l => s[k] < s[l]
  BY <1>1 DEF Ascending, UpTo, Range
<1>3. CASE b >= Len(s)
  <2>1. NextIn(s, x) = MaxInt
    BY <1>1, <1>3 DEF NextIn
  <2> QED
    BY <1>2, <1>3, <2>1 DEF IsNext
<1>4. CASE ~(b >= Len(s))
  <2>1. NextIn(s, x) = s[b + 1] /\ b + 1 \in 1..Len(s)
    BY <1>1, <1>2, <1>4 DEF NextIn
  <2>2. s[b + 1] \in Range(s) /\ x < s[b + 1] /\ s[b + 1] \in Nat /\ s[b + 1] < MaxInt
    BY <1>2, <2>1
  <2>3. ASSUME NEW y \in Range(s), x < y PROVE s[b + 1] <= y
    <3>1. PICK k \in 1..Len(s) : y = s[k]
      BY <1>2
    <3>2. k >= b + 1
      BY <1>2, <2>3, <3>1
    <3> QED
      BY <1>2, <2>1, <3>1, <3>2
  <2> QED
    BY <2>1, <2>2, <2>3 DEF IsNext
<1> QED
  BY <1>3, <1>4

\* f is the function that ChainEnd computes with.
Follows(f, ps, n, start) ==
  f = [j \in 1..n |-> IF j = 1 THEN start
                      ELSE IF f[j - 1] = MaxInt THEN MaxInt ELSE NextIn(ps[j], f[j - 1])]

LEMMA ChainExists ==
  ASSUME NEW ps, NEW start, NEW n \in Nat
  PROVE  \E f : Follows(f, ps, n, start)
<1> DEFINE T == {m \in Nat : \E f : Follows(f, ps, m, start)}
<1>1. 0 \in T
  <2>1. Follows([j \in 1..0 |-> start], ps, 0, start)
    BY 1..0 = {} DEF Follows
  <2> QED
    BY <2>1
<1>2. ASSUME NEW m \in Nat, m \in T PROVE m + 1 \in T
  <2>1. PICK f : Follows(f, ps, m, start)
    BY <1>2
  <2> DEFINE v == IF m + 1 = 1 THEN start
                  ELSE IF f[m] = MaxInt THEN MaxInt ELSE NextIn(ps[m + 1], f[m])
             g == [j \in 1..(m + 1) |-> IF j = m + 1 THEN v ELSE f[j]]
  <2>2. ASSUME NEW j \in 1..(m + 1)
        PROVE  g[j] = IF j = 1 THEN start
                      ELSE IF g[j - 1] = MaxInt THEN MaxInt ELSE NextIn(ps[j], g[j - 1])
    <3>1. CASE j = m + 1
      <4>1. m + 1 # 1 => g[m] = f[m]
        OBVIOUS
      <4>2. g[m + 1] = v /\ m + 1 - 1 = m
        OBVIOUS
      <4> QED
        BY <3>1, <4>1, <4>2
    <3>2. CASE j # m + 1
      <4>1. j \in 1..m /\ g[j] = f[j] /\ (j # 1 => g[j - 1] = f[j - 1])
        BY <3>2
      <4> QED
        BY <2>1, <4>1 DEF Follows
    <3> QED
      BY <3>1, <3>2
  <2>3. Follows(g, ps, m + 1, start)
    BY <2>2 DEF Follows
  <2> QED
    BY <2>3
<1> HIDE DEF T
<1>3. Nat \subseteq T
  BY <1>1, <1>2, SetInduction
<1> QED
  BY <1>3 DEF T

Chains(ps, n) ==
  {c \in [1..n -> UNION {Range(ps[j]) : j \in 1..n}] :
     /\ \A j \in 1..n : c[j] \in Range(ps[j])
     /\ \A j \in 1..(n - 1) : c[j] < c[j + 1]}

AllAscend(ps, n) == \A j \in 1..n : Ascending(ps[j])

LEMMA RangeIs ==
  ASSUME NEW s, Ascending(s), NEW y \in Range(s)
  PROVE  y \in Nat /\ y < MaxInt
BY DEF Ascending, Range

\* The first m members of f are a chain, and every chain that begins alike takes at
\* least as long to its m-th.
Shortest(f, ps, n, start, m) ==
  /\ f[m] \in Nat /\ f[m] <= MaxInt
  /\ f[m] # MaxInt => /\ \A j \in 1..m : f[j] \in Range(ps[j])
                      /\ \A j \in 1..(m - 1) : f[j] < f[j + 1]
  /\ \A c \in Chains(ps, n) : c[1] = start => f[m] <= c[m]

LEMMA FollowsIs ==
  ASSUME MaxInt \in Nat, NEW n \in Nat \ {0}, NEW ps, AllAscend(ps, n),
         NEW start \in Range(ps[1]), NEW f, Follows(f, ps, n, start)
  PROVE  Shortest(f, ps, n, start, n)
<1> DEFINE T == {m \in Nat : m \in 1..n => Shortest(f, ps, n, start, m)}
<1>1. 0 \in T
  OBVIOUS
<1>2. ASSUME NEW m \in Nat, m \in T PROVE m + 1 \in T
  <2> SUFFICES ASSUME m + 1 \in 1..n PROVE Shortest(f, ps, n, start, m + 1)
    OBVIOUS
  <2>1. CASE m = 0
    <3>1. f[1] = start /\ 1 \in 1..n
      BY <2>1 DEF Follows
    <3>2. start \in Nat /\ start < MaxInt
      BY <3>1, RangeIs DEF AllAscend
    <3> QED
      BY <2>1, <3>1, <3>2 DEF Shortest
  <2>2. CASE m # 0
    <3>1. m \in 1..n /\ m + 1 # 1 /\ m + 1 - 1 = m
      BY <2>2
    <3>2. Shortest(f, ps, n, start, m)
      BY <1>2, <3>1
    <3>3. f[m + 1] = IF f[m] = MaxInt THEN MaxInt ELSE NextIn(ps[m + 1], f[m])
      BY <3>1 DEF Follows
    <3>4. CASE f[m] = MaxInt
      <4>1. f[m + 1] = MaxInt
        BY <3>3, <3>4
      <4>2. ASSUME NEW c \in Chains(ps, n), c[1] = start PROVE FALSE
        <5>1. c[m] \in Nat /\ c[m] < MaxInt
          BY <3>1, RangeIs DEF Chains, AllAscend
        <5> QED
          BY <3>2, <3>4, <4>2, <5>1 DEF Shortest
      <4> QED
        BY <4>1, <4>2 DEF Shortest
    <3>5. CASE f[m] # MaxInt
      <4>1. PICK v : v = f[m + 1] /\ v = NextIn(ps[m + 1], f[m])
        BY <3>3, <3>5
      <4>2. IsNext(v, ps[m + 1], f[m])
        BY <3>2, <4>1, NextIs DEF Shortest, AllAscend
      <4>3. v \in Nat /\ v <= MaxInt
        BY <4>2 DEF IsNext
      <4>4. ASSUME v # MaxInt
            PROVE  /\ \A j \in 1..(m + 1) : f[j] \in Range(ps[j])
                   /\ \A j \in 1..(m + 1 - 1) : f[j] < f[j + 1]
        <5>1. v \in Range(ps[m + 1]) /\ f[m] < v
          BY <4>2, <4>4 DEF IsNext
        <5>2. /\ \A j \in 1..m : f[j] \in Range(ps[j])
              /\ \A j \in 1..(m - 1) : f[j] < f[j + 1]
          BY <3>2, <3>5 DEF Shortest
        <5>3. ASSUME NEW j \in 1..(m + 1) PROVE f[j] \in Range(ps[j])
          BY <4>1, <5>1, <5>2, j \in 1..m \/ j = m + 1
        <5>4. ASSUME NEW j \in 1..m PROVE f[j] < f[j + 1]
          BY <4>1, <5>1, <5>2, j \in 1..(m - 1) \/ j = m
        <5> QED
          BY <3>1, <5>3, <5>4
      <4>5. ASSUME NEW c \in Chains(ps, n), c[1] = start PROVE v <= c[m + 1]
        <5>1. f[m] <= c[m] /\ f[m] \in Nat
          BY <3>2, <4>5 DEF Shortest
        <5>2. m \in 1..(n - 1)
          BY <3>1
        <5>3. c[m] < c[m + 1] /\ c[m + 1] \in Range(ps[m + 1]) /\ c[m] \in Range(ps[m])
          BY <3>1, <5>2 DEF Chains
        <5>4. c[m] \in Nat /\ c[m + 1] \in Nat
          BY <3>1, <5>3, RangeIs DEF AllAscend
        <5>5. f[m] < c[m + 1]
          BY <5>1, <5>3, <5>4
        <5> QED
          BY <4>2, <5>3, <5>5 DEF IsNext
      <4> QED
        BY <4>1, <4>3, <4>4, <4>5 DEF Shortest
    <3> QED
      BY <3>4, <3>5
  <2> QED
    BY <2>1, <2>2
<1> HIDE DEF T
<1>3. Nat \subseteq T
  BY <1>1, <1>2, SetInduction
<1> QED
  BY <1>3 DEF T

LEMMA ChainEndIs ==
  ASSUME MaxInt \in Nat, NEW n \in Nat \ {0}, NEW ps, AllAscend(ps, n), NEW start \in Range(ps[1])
  PROVE  \E f : Follows(f, ps, n, start) /\ Shortest(f, ps, n, start, n) /\ ChainEnd(ps, n, start) = f[n]
<1>1. PICK f : f = CHOOSE g : Follows(g, ps, n, start)
  OBVIOUS
<1>2. Follows(f, ps, n, start)
  BY <1>1, ChainExists
<1>3. ChainEnd(ps, n, start) = f[n]
  BY <1>1 DEF ChainEnd, Follows, NextIn
<1> QED
  BY <1>2, <1>3, FollowsIs

LEMMA LeastIs ==
  ASSUME NEW S \in SUBSET Nat, S # {}
  PROVE  Min(S) \in S /\ \A y \in S : Min(S) <= y
<1> DEFINE R == OpToRel(<, Nat)
<1>1. IsWellFoundedOn(R, Nat)
  BY NatLessThanWellFounded
<1>2. \A x, y \in Nat : y < x => <<y, x>> \in R
  BY DEF OpToRel
<1> HIDE DEF R
<1>3. PICK x \in S : \A y \in S : ~(<<y, x>> \in R)
  BY <1>1, WFMin
<1>4. ASSUME NEW y \in S PROVE x <= y
  <2>1. x \in Nat /\ y \in Nat /\ ~(<<y, x>> \in R)
    BY <1>3
  <2> QED
    BY <1>2, <2>1
<1> QED
  BY <1>4 DEF Min

LEMMA SameLeast ==
  ASSUME NEW A \in SUBSET Nat, A # {}, NEW B \in SUBSET Nat, B # {},
         \A a \in A : \E b \in B : b <= a,
         \A b \in B : \E a \in A : a <= b
  PROVE  Min(A) = Min(B)
<1>1. PICK m \in A : m = Min(A) /\ \A y \in A : m <= y
  BY LeastIs
<1>2. PICK o \in B : o = Min(B) /\ \A y \in B : o <= y
  BY LeastIs
<1>3. m <= o /\ o <= m
  BY <1>1, <1>2
<1> QED
  BY <1>1, <1>2, <1>3

\* The function finds the shortest stretch, whatever the positions.
LEMMA ShortestFound ==
  ASSUME MaxInt \in Nat, NEW n \in Nat \ {0}, NEW ps, AllAscend(ps, n)
  PROVE  getMinQueryDistInDoc(ps, n) = ShortestSpan(ps, n)
<1> DEFINE ends == {<<s, ChainEnd(ps, n, s)>> : s \in Range(ps[1])}
           A == {e[2] - e[1] : e \in {x \in ends : x[2] # MaxInt}} \cup {MaxInt}
           B == {c[n] - c[1] : c \in Chains(ps, n)} \cup {MaxInt}
<1>1. getMinQueryDistInDoc(ps, n) = Min(A) /\ ShortestSpan(ps, n) = Min(B)
  BY DEF getMinQueryDistInDoc, ShortestSpan, Chains
<1>2. \A c \in Chains(ps, n), j \in 1..n : c[j] \in Range(ps[j]) /\ c[j] \in Nat /\ c[j] < MaxInt
  BY RangeIs DEF Chains, AllAscend
<1>3. 1 \in 1..n /\ n \in 1..n /\ \A s \in Range(ps[1]) : s \in Nat /\ s < MaxInt
  BY RangeIs DEF AllAscend
<1>4. ASSUME NEW s \in Range(ps[1]), ChainEnd(ps, n, s) # MaxInt
      PROVE  \E c \in Chains(ps, n) : c[1] = s /\ c[n] = ChainEnd(ps, n, s)
  <2>1. PICK f : Follows(f, ps, n, s) /\ Shortest(f, ps, n, s, n) /\ ChainEnd(ps, n, s) = f[n]
    BY ChainEndIs
  <2>2. f[1] = s /\ DOMAIN f = 1..n /\ f = [j \in 1..n |-> f[j]]
    BY <1>3, <2>1 DEF Follows
  <2>3. /\ \A j \in 1..n : f[j] \in Range(ps[j])
        /\ \A j \in 1..(n - 1) : f[j] < f[j + 1]
    BY <1>4, <2>1 DEF Shortest
  <2>4. f \in [1..n -> UNION {Range(ps[j]) : j \in 1..n}]
    BY <2>2, <2>3
  <2> QED
    BY <2>1, <2>2, <2>3, <2>4 DEF Chains
<1>5. ASSUME NEW c \in Chains(ps, n)
      PROVE  c[1] \in Range(ps[1]) /\ ChainEnd(ps, n, c[1]) \in Nat /\ ChainEnd(ps, n, c[1]) <= c[n]
  <2>1. PICK s \in Range(ps[1]) : s = c[1]
    BY <1>2, <1>3
  <2>2. PICK f : Follows(f, ps, n, s) /\ Shortest(f, ps, n, s, n) /\ ChainEnd(ps, n, s) = f[n]
    BY ChainEndIs
  <2> QED
    BY <2>1, <2>2 DEF Shortest
<1>6. \A c \in Chains(ps, n) : c[n] - c[1] \in Nat
  <2>1. ASSUME NEW c \in Chains(ps, n) PROVE \A m \in Nat : m \in 1..n => c[1] <= c[m]
    <3> DEFINE T == {m \in Nat : m \in 1..n => c[1] <= c[m]}
    <3>1. 0 \in T
      OBVIOUS
    <3>2. ASSUME NEW m \in Nat, m \in T PROVE m + 1 \in T
      <4>1. m + 1 \in 1..n /\ m # 0 => m \in 1..(n - 1) /\ c[m] < c[m + 1]
        BY DEF Chains
      <4>2. m + 1 \in 1..n => c[m + 1] \in Nat /\ c[1] \in Nat
        BY <1>2, <1>3
      <4>3. m \in 1..n => c[m] \in Nat
        BY <1>2
      <4> QED
        BY <3>2, <4>1, <4>2, <4>3
    <3> HIDE DEF T
    <3>3. Nat \subseteq T
      BY <3>1, <3>2, SetInduction
    <3> QED
      BY <3>3 DEF T
  <2> QED
    BY <1>2, <1>3, <2>1
<1>7. B \in SUBSET Nat /\ B # {}
  BY <1>6
<1>8. \A a \in A : a \in B
  <2> SUFFICES ASSUME NEW s \in Range(ps[1]), ChainEnd(ps, n, s) # MaxInt
               PROVE  ChainEnd(ps, n, s) - s \in B
    OBVIOUS
  <2> QED
    BY <1>4
<1>9. \A b \in B : \E a \in A : a <= b
  <2>1. MaxInt \in A
    OBVIOUS
  <2>2. ASSUME NEW c \in Chains(ps, n)
        PROVE  \E a \in A : a <= c[n] - c[1]
    <3>1. PICK x : x = ChainEnd(ps, n, c[1])
      OBVIOUS
    <3>2. c[1] \in Range(ps[1]) /\ x \in Nat /\ x <= c[n] /\ c[n] \in Nat /\ c[n] < MaxInt /\ c[1] \in Nat
      BY <1>2, <1>3, <1>5, <3>1
    <3>3. <<c[1], x>> \in ends /\ x # MaxInt
      BY <3>1, <3>2
    <3>4. x - c[1] \in A
      <4>1. PICK e \in ends : e = <<c[1], x>>
        BY <3>3
      <4>2. e[2] # MaxInt /\ e[2] - e[1] = x - c[1]
        BY <3>3, <4>1
      <4> QED
        BY <4>2
    <3> QED
      BY <3>2, <3>4
  <2> QED
    BY <2>1, <2>2
<1> HIDE DEF A, B
<1>10. A \in SUBSET Nat /\ A # {}
  BY <1>7, <1>8, <1>9
<1>11. ASSUME NEW a \in A PROVE \E b \in B : b <= a
  <2>1. a \in B
    BY <1>8
  <2>2. a \in Nat
    BY <1>7, <2>1
  <2>3. a <= a
    BY <2>2
  <2> QED
    BY <2>1, <2>3
<1> QED
  BY <1>1, <1>7, <1>9, <1>10, <1>11, SameLeast

-----------------------------------------------------------------------------
(* Words in a URL *)

LEMMA GreatestIs ==
  ASSUME NEW n \in Nat, NEW S \in SUBSET (0..n), S # {}
  PROVE  Max(S) \in S /\ \A y \in S : y <= Max(S)
<1> DEFINE R == {n - x : x \in S}
<1>1. R \in SUBSET Nat /\ R # {}
  <2>1. ASSUME NEW x \in S PROVE n - x \in Nat
    <3>1. x \in 0..n
      OBVIOUS
    <3> QED
      BY <3>1
  <2> QED
    BY <2>1
<1>2. PICK m \in R : \A y \in R : m <= y
  BY <1>1, LeastIs
<1>3. PICK x \in S : m = n - x
  BY <1>2
<1>4. ASSUME NEW y \in S PROVE y <= x
  <2>1. n - x <= n - y
    BY <1>2, <1>3
  <2> QED
    BY <2>1
<1>5. \E z \in S : \A y \in S : z >= y
  BY <1>4
<1>6. Max(S) \in S /\ \A y \in S : Max(S) >= y
  BY <1>5 DEF Max
<1> QED
  BY <1>6

LEMMA ShiftIs ==
  ASSUME NEW word, Len(word) \in Nat \ {0}, NEW r
  PROVE  Shift(word, r) \in Nat \ {0}
<1> DEFINE occurs == {i \in 1..Len(word) : At(word, i) = r}
<1>1. CASE occurs = {}
  BY <1>1 DEF Shift
<1>2. CASE occurs # {}
  <2>1. PICK n \in Nat : n = Len(word)
    OBVIOUS
  <2>2. occurs \in SUBSET (0..n)
    BY <2>1
  <2>3. Max(occurs) \in 1..n
    BY <1>2, <2>1, <2>2, GreatestIs
  <2>4. PICK o \in 1..n : o = Max(occurs)
    BY <2>3
  <2>5. {1, n - o} \in SUBSET (0..n) /\ {1, n - o} # {}
    BY <2>4
  <2>6. Max({1, n - o}) \in {1, n - o} /\ 1 <= Max({1, n - o})
    BY <2>5, GreatestIs
  <2>7. Shift(word, r) = Max({1, n - o})
    BY <1>2, <2>1, <2>4 DEF Shift
  <2> QED
    BY <2>4, <2>6, <2>7
<1> QED
  BY <1>1, <1>2

LEMMA AgreeingIs ==
  ASSUME NEW url, NEW word, Len(word) \in Nat, NEW end
  PROVE  \A j \in 1..Agreeing(url, word, end) : At(word, Len(word) - j + 1) = At(url, end - j + 1)
<1> DEFINE S == {k \in 0..Len(word) : \A j \in 1..k : At(word, Len(word) - j + 1) = At(url, end - j + 1)}
<1>1. S \in SUBSET (0..Len(word)) /\ 0 \in S
  OBVIOUS
<1>2. Max(S) \in S
  BY <1>1, GreatestIs
<1> QED
  BY <1>2 DEF Agreeing

\* What the search answers at end, when f has its answers further on.
Answer(f, url, word, end) ==
  IF end > Len(url) THEN FALSE
  ELSE IF Agreeing(url, word, end) = 0 THEN f[end + Shift(word, At(url, end))]
  ELSE Agreeing(url, word, end) = Len(word) \/ f[end + Len(word)]

Seeks(f, url, word, D) == f = [end \in D |-> Answer(f, url, word, end)]

Lengths(url, word) == Len(url) \in Nat /\ Len(word) \in Nat \ {0}

\* The ends with at most n characters of the URL before the last.
Past(url, n) == {end \in Nat : end + n > Len(url)}

LEMMA Further ==
  ASSUME NEW url, NEW word, Lengths(url, word), NEW n \in Nat, NEW end \in Past(url, n + 1)
  PROVE  \A r : end + Shift(word, r) \in Past(url, n) /\ end + Len(word) \in Past(url, n)
<1>1. ASSUME NEW s \in Nat \ {0} PROVE end + s \in Past(url, n)
  BY DEF Past, Lengths
<1> QED
  BY <1>1, ShiftIs DEF Lengths

LEMMA SameAnswer ==
  ASSUME NEW url, NEW word, Lengths(url, word), NEW n \in Nat, NEW end \in Past(url, n + 1),
         NEW f, NEW g, \A e \in Past(url, n) : f[e] = g[e]
  PROVE  Answer(f, url, word, end) = Answer(g, url, word, end)
<1>1. /\ f[end + Shift(word, At(url, end))] = g[end + Shift(word, At(url, end))]
      /\ f[end + Len(word)] = g[end + Len(word)]
  BY Further
<1> QED
  BY <1>1, Zenon DEF Answer

LEMMA SeekExists ==
  ASSUME NEW url, NEW word, Lengths(url, word)
  PROVE  \E f : Seeks(f, url, word, Nat)
<1> DEFINE T == {n \in Nat : \E f : Seeks(f, url, word, Past(url, n))}
<1>1. \A n \in Nat : Past(url, n) \subseteq Past(url, n + 1)
  BY DEF Past, Lengths
<1>2. 0 \in T
  <2> DEFINE f == [end \in Past(url, 0) |-> FALSE]
  <2>1. \A end \in Past(url, 0) : Answer(f, url, word, end) = FALSE
    BY DEF Answer, Past, Lengths
  <2>2. Seeks(f, url, word, Past(url, 0))
    BY <2>1, Zenon DEF Seeks
  <2> QED
    BY <2>2
<1>3. ASSUME NEW n \in Nat, n \in T PROVE n + 1 \in T
  <2>1. PICK f : Seeks(f, url, word, Past(url, n))
    BY <1>3
  <2> DEFINE g == [end \in Past(url, n + 1) |-> Answer(f, url, word, end)]
  <2>2. \A end \in Past(url, n) : f[end] = g[end]
    BY <1>1, <2>1, Zenon DEF Seeks
  <2> HIDE DEF T
  <2>3. \A end \in Past(url, n + 1) : Answer(f, url, word, end) = Answer(g, url, word, end)
    <3> HIDE DEF g
    <3> QED
      BY <2>2, SameAnswer
  <2>4. Seeks(g, url, word, Past(url, n + 1))
    BY <2>3, Zenon DEF Seeks
  <2> QED
    BY <2>4 DEF T
<1> HIDE DEF T
<1>4. Nat \subseteq T
  BY <1>2, <1>3, SetInduction
<1>5. Past(url, Len(url) + 1) = Nat /\ Len(url) + 1 \in T
  BY <1>4 DEF Past, Lengths
<1> QED
  BY <1>5 DEF T

LEMMA AgreesIsPart ==
  ASSUME NEW url, NEW word, Lengths(url, word), Spelled(url, word),
         NEW end \in Nat, end >= Len(word), end <= Len(url), Agreeing(url, word, end) = Len(word)
  PROVE  IsPart(url, word)
<1>1. PICK n \in Nat, w \in Nat \ {0}, u \in Nat : w = Len(word) /\ n = end - w /\ u = Len(url)
  <2>1. Len(word) \in Nat \ {0} /\ Len(url) \in Nat /\ end - Len(word) \in Nat
    BY DEF Lengths
  <2> QED
    BY <2>1
<1>2. \A j \in 1..w : At(word, w - j + 1) = At(url, end - j + 1)
  BY <1>1, AgreeingIs
<1>3. ASSUME NEW j \in 1..w PROVE At(word, j) = At(url, n + j)
  <2>1. w - j + 1 \in 1..w /\ w - (w - j + 1) + 1 = j /\ end - (w - j + 1) + 1 = n + j
    BY <1>1
  <2>2. At(word, w - (w - j + 1) + 1) = At(url, end - (w - j + 1) + 1)
    BY <1>2, <2>1
  <2> QED
    BY <2>1, <2>2
<1>4. n \in 0..(u - w) /\ n \in 0..u /\ n + w <= u
  BY <1>1
<1>5. SubSeq(url, n + 1, n + w) = word
  BY <1>1, <1>3, <1>4 DEF Spelled
<1> QED
  BY <1>1, <1>4, <1>5 DEF IsPart

LEMMA SoughtIsPart ==
  ASSUME NEW url, NEW word, Lengths(url, word), Spelled(url, word), NEW f, Seeks(f, url, word, Nat),
         ~IsPart(url, word)
  PROVE  \A end \in Nat : end >= Len(word) => ~f[end]
<1> DEFINE T == {n \in Nat : \A end \in Past(url, n) : end >= Len(word) => ~f[end]}
<1>1. \A end \in Nat : f[end] = Answer(f, url, word, end)
  BY Zenon DEF Seeks
<1>2. 0 \in T
  <2>1. ASSUME NEW end \in Past(url, 0) PROVE ~f[end]
    <3>1. end \in Nat /\ end > Len(url)
      BY DEF Past, Lengths
    <3> QED
      BY <1>1, <3>1, Zenon DEF Answer
  <2> QED
    BY <2>1
<1>3. ASSUME NEW n \in Nat, n \in T PROVE n + 1 \in T
  <2> SUFFICES ASSUME NEW end \in Past(url, n + 1), end >= Len(word) PROVE ~f[end]
    OBVIOUS
  <2>1. end \in Nat
    BY DEF Past
  <2>2. ASSUME NEW r PROVE ~f[end + Shift(word, r)]
    <3>1. end + Shift(word, r) \in Past(url, n)
      BY Further
    <3>2. end + Shift(word, r) >= Len(word)
      BY <2>1, ShiftIs DEF Lengths
    <3> QED
      BY <1>3, <3>1, <3>2
  <2>3. ~f[end + Len(word)]
    <3>1. end + Len(word) \in Past(url, n)
      BY Further
    <3>2. end + Len(word) >= Len(word)
      BY <2>1 DEF Lengths
    <3> QED
      BY <1>3, <3>1, <3>2
  <2>4. end <= Len(url) => Agreeing(url, word, end) # Len(word)
    BY <2>1, AgreesIsPart
  <2>5. ~(end > Len(url)) => end <= Len(url)
    BY <2>1 DEF Lengths
  <2>6. ~Answer(f, url, word, end)
    BY <2>2, <2>3, <2>4, <2>5, Zenon DEF Answer
  <2> QED
    BY <1>1, <2>1, <2>6, Zenon
<1> HIDE DEF T
<1>4. Nat \subseteq T
  BY <1>2, <1>3, SetInduction
<1>5. Len(url) + 1 \in T /\ \A end \in Nat : end \in Past(url, Len(url) + 1)
  BY <1>4 DEF Past, Lengths
<1> QED
  BY <1>5 DEF T

\* A word that is found occurs.
LEMMA FoundIsPart ==
  ASSUME NEW url, NEW word, Spelled(url, word), OccursFrom(url, word)
  PROVE  IsPart(url, word)
<1>0. Lengths(url, word)
  BY DEF Spelled, Lengths
<1>1. PICK f : f = CHOOSE g : Seeks(g, url, word, Nat)
  OBVIOUS
<1>2. Seeks(f, url, word, Nat)
  BY <1>0, <1>1, SeekExists
<1>3. OccursFrom(url, word) = f[Len(word)]
  BY <1>1, Zenon DEF OccursFrom, Seeks, Answer
<1>4. Len(word) \in Nat /\ Len(word) >= Len(word)
  BY <1>0 DEF Lengths
<1>5. ~IsPart(url, word) => ~f[Len(word)]
  BY <1>0, <1>2, <1>4, SoughtIsPart
<1> QED
  BY <1>3, <1>5

\* What is nowhere more adds up to no more.
LEMMA SumLess ==
  ASSUME NEW S, NEW c, NEW e, NEW it, NEW jt, Summing(it, S, c), Summing(jt, S, e),
         \A x \in S : c[x] <= e[x]
  PROVE  it[S] <= jt[S]
<1> DEFINE U == {n \in Nat : \A s \in SUBSET S : Cardinality(s) = n => it[s] <= jt[s]}
<1>0. \A s \in SUBSET S : /\ IsFiniteSet(s) /\ Cardinality(s) \in Nat
                          /\ Cardinality(s) = 0 <=> s = {}
                          /\ it[s] = IF s = {} THEN 0 ELSE c[Some(s)] + it[s \ {Some(s)}]
                          /\ jt[s] = IF s = {} THEN 0 ELSE e[Some(s)] + jt[s \ {Some(s)}]
  BY FS_Subset, FS_CardinalityType, FS_EmptySet DEF Sums, Summing, Numbers
<1>1. 0 \in U
  <2> SUFFICES ASSUME NEW s \in SUBSET S, Cardinality(s) = 0
               PROVE  it[s] <= jt[s]
    OBVIOUS
  <2>1. it[s] = 0 /\ jt[s] = 0
    BY <1>0
  <2> QED
    BY <2>1
<1>2. ASSUME NEW n \in Nat, n \in U
      PROVE  n + 1 \in U
  <2> SUFFICES ASSUME NEW s \in SUBSET S, Cardinality(s) = n + 1
               PROVE  it[s] <= jt[s]
    OBVIOUS
  <2>1. IsFiniteSet(s) /\ s # {}
    <3>1. n + 1 # 0
      OBVIOUS
    <3> QED
      BY <1>0, <3>1
  <2>2. PICK u \in s : u = Some(s)
    BY <2>1 DEF Some
  <2>3. Cardinality(s \ {u}) = n
    <3>1. Cardinality(s \ {u}) = Cardinality(s) - 1
      BY <2>1, OneLess
    <3> QED
      BY <3>1
  <2>4. it[s \ {u}] <= jt[s \ {u}]
    BY <1>2, <2>3
  <2>5. it[s \ {u}] \in Nat /\ jt[s \ {u}] \in Nat /\ c[u] \in Nat /\ e[u] \in Nat /\ c[u] <= e[u]
    BY <2>2 DEF Summing, Numbers
  <2>6. it[s] = c[u] + it[s \ {u}] /\ jt[s] = e[u] + jt[s \ {u}]
    BY <1>0, <2>1, <2>2
  <2> QED
    BY <2>4, <2>5, <2>6
<1> HIDE DEF U
<1>3. Nat \subseteq U
  BY <1>1, <1>2, SetInduction
<1> QED
  BY <1>0, <1>3 DEF U

\* The two sums over the words of S, for a URL.
FoundOf(url, ws, S) == MapThenSumSet(LAMBDA i : IF OccursFrom(url, ws[i]) THEN Len(ws[i]) ELSE 0, S)

PartsOf(url, ws, S) == MapThenSumSet(LAMBDA i : IF IsPart(url, ws[i]) THEN Len(ws[i]) ELSE 0, S)

FoundLen(c, url, ws, S) == \A i \in S : c[i] = IF OccursFrom(url, ws[i]) THEN Len(ws[i]) ELSE 0

PartLen(c, url, ws, S) == \A i \in S : c[i] = IF IsPart(url, ws[i]) THEN Len(ws[i]) ELSE 0

LEMMA FoundSum ==
  ASSUME NEW url, NEW ws, NEW S, NEW c, Numbers(c, S), FoundLen(c, url, ws, S)
  PROVE  \E it : Summing(it, S, c) /\ FoundOf(url, ws, S) = it[S]
<1>1. PICK it : Summing(it, S, c)
  BY SumExists
<1> DEFINE P(jt) == jt = [s \in SUBSET S |-> IF s = {} THEN 0
                            ELSE (IF OccursFrom(url, ws[CHOOSE x \in s : TRUE]) THEN Len(ws[CHOOSE x \in s : TRUE]) ELSE 0)
                                   + jt[s \ {CHOOSE x \in s : TRUE}]]
<1>2. FoundOf(url, ws, S) = (CHOOSE jt : P(jt))[S]
  BY DEF FoundOf, MapThenSumSet, MapThenFoldSet
<1>3. \A s \in SUBSET S : s # {} =>
        c[Some(s)] = IF OccursFrom(url, ws[Some(s)]) THEN Len(ws[Some(s)]) ELSE 0
  BY DEF Some, FoundLen
<1>4. ASSUME NEW jt PROVE P(jt) <=> Sums(jt, S, c)
  <2> DEFINE F == [s \in SUBSET S |-> IF s = {} THEN 0
                     ELSE (IF OccursFrom(url, ws[Some(s)]) THEN Len(ws[Some(s)]) ELSE 0) + jt[s \ {Some(s)}]]
             G == [s \in SUBSET S |-> IF s = {} THEN 0 ELSE c[Some(s)] + jt[s \ {Some(s)}]]
  <2>1. F = G
    BY <1>3
  <2>2. P(jt) <=> jt = F
    BY DEF Some
  <2>3. Sums(jt, S, c) <=> jt = G
    BY DEF Sums
  <2> HIDE DEF F, G, P
  <2> QED
    BY <2>1, <2>2, <2>3
<1> HIDE DEF P
<1>5. P(CHOOSE jt : P(jt))
  BY <1>1, <1>4 DEF Summing
<1>6. PICK jt : jt = (CHOOSE kt : P(kt)) /\ Sums(jt, S, c)
  BY <1>4, <1>5
<1>7. jt[S] = it[S]
  <2>1. IsFiniteSet(S) /\ Sums(it, S, c) /\ S \in SUBSET S
    BY <1>1 DEF Summing, Numbers
  <2> QED
    BY <1>6, <2>1, SumUnique
<1> QED
  BY <1>1, <1>2, <1>6, <1>7

LEMMA PartSum ==
  ASSUME NEW url, NEW ws, NEW S, NEW c, Numbers(c, S), PartLen(c, url, ws, S)
  PROVE  \E it : Summing(it, S, c) /\ PartsOf(url, ws, S) = it[S]
<1>1. PICK it : Summing(it, S, c)
  BY SumExists
<1> DEFINE P(jt) == jt = [s \in SUBSET S |-> IF s = {} THEN 0
                            ELSE (IF IsPart(url, ws[CHOOSE x \in s : TRUE]) THEN Len(ws[CHOOSE x \in s : TRUE]) ELSE 0)
                                   + jt[s \ {CHOOSE x \in s : TRUE}]]
<1>2. PartsOf(url, ws, S) = (CHOOSE jt : P(jt))[S]
  BY DEF PartsOf, MapThenSumSet, MapThenFoldSet
<1>3. \A s \in SUBSET S : s # {} =>
        c[Some(s)] = IF IsPart(url, ws[Some(s)]) THEN Len(ws[Some(s)]) ELSE 0
  BY DEF Some, PartLen
<1>4. ASSUME NEW jt PROVE P(jt) <=> Sums(jt, S, c)
  <2> DEFINE F == [s \in SUBSET S |-> IF s = {} THEN 0
                     ELSE (IF IsPart(url, ws[Some(s)]) THEN Len(ws[Some(s)]) ELSE 0) + jt[s \ {Some(s)}]]
             G == [s \in SUBSET S |-> IF s = {} THEN 0 ELSE c[Some(s)] + jt[s \ {Some(s)}]]
  <2>1. F = G
    BY <1>3
  <2>2. P(jt) <=> jt = F
    BY DEF Some
  <2>3. Sums(jt, S, c) <=> jt = G
    BY DEF Sums
  <2> HIDE DEF F, G, P
  <2> QED
    BY <2>1, <2>2, <2>3
<1> HIDE DEF P
<1>5. P(CHOOSE jt : P(jt))
  BY <1>1, <1>4 DEF Summing
<1>6. PICK jt : jt = (CHOOSE kt : P(kt)) /\ Sums(jt, S, c)
  BY <1>4, <1>5
<1>7. jt[S] = it[S]
  <2>1. IsFiniteSet(S) /\ Sums(it, S, c) /\ S \in SUBSET S
    BY <1>1 DEF Summing, Numbers
  <2> QED
    BY <1>6, <2>1, SumUnique
<1> QED
  BY <1>1, <1>2, <1>6, <1>7

\* The characters that are counted belong to words that occur.
LEMMA FoundAtMost ==
  ASSUME NEW url, NEW ws, NEW S, IsFiniteSet(S), \A i \in S : Spelled(url, ws[i])
  PROVE  FoundOf(url, ws, S) <= PartsOf(url, ws, S)
<1> DEFINE c == [i \in S |-> IF OccursFrom(url, ws[i]) THEN Len(ws[i]) ELSE 0]
           e == [i \in S |-> IF IsPart(url, ws[i]) THEN Len(ws[i]) ELSE 0]
<1>1. \A i \in S : Len(ws[i]) \in Nat /\ (OccursFrom(url, ws[i]) => IsPart(url, ws[i]))
  <2>1. ASSUME NEW i \in S PROVE Len(ws[i]) \in Nat
    BY DEF Spelled
  <2> QED
    BY <2>1, FoundIsPart
<1>2. Numbers(c, S) /\ Numbers(e, S) /\ \A i \in S : c[i] <= e[i]
  BY <1>1 DEF Numbers
<1>3. FoundLen(c, url, ws, S)
  BY DEF FoundLen
<1>4. PartLen(e, url, ws, S)
  BY DEF PartLen
<1> HIDE DEF c, e
<1>5. PICK it : Summing(it, S, c) /\ FoundOf(url, ws, S) = it[S]
  BY <1>2, <1>3, FoundSum
<1>6. PICK jt : Summing(jt, S, e) /\ PartsOf(url, ws, S) = jt[S]
  BY <1>2, <1>4, PartSum
<1> QED
  BY <1>2, <1>5, <1>6, SumLess
-----------------------------------------------------------------------------
(* The goroutines *)

Names == DOMAIN NoFeatures

\* What word i has added to the features of d, and what it has entered in the list.
Counted(i, d) ==
  d \in DOMAIN index[i] \ todo[i] /\ <<i, d>> \notin failed /\ ~(wpc[i] = "score" /\ at[i] = d)

Entered(i, d) == Counted(i, d) /\ ~(wpc[i] = "collect" /\ at[i] = d)

CountedBy(d) == {i \in Words : Counted(i, d)}

WordsInPlace ==
  /\ query \in Queries
  /\ todo = [i \in Words |-> todo[i]] /\ \A i \in Words : todo[i] \subseteq DOMAIN index[i]
  /\ at = [i \in Words |-> at[i]]
  /\ wpc \in [Words -> {"range", "score", "collect", "ended"}]
  /\ \A i \in Words : wpc[i] \in {"score", "collect"} =>
       at[i] \in DOMAIN index[i] \ todo[i] /\ <<i, at[i]>> \notin failed
  /\ \A i \in Words : \A d \in todo[i] : <<i, d>> \notin failed

Row(r) == r = [x \in Names |-> r[x]]

RankIsTable == rank = [d \in Docs |-> rank[d]] /\ \A d \in Docs : Row(rank[d])

CountsAdded == \A d \in Docs : rank[d].SumTokenInPackage = TotalOf(index, d, CountedBy(d))

ListedOnce ==
  /\ result \in Seq(Docs)
  /\ \A k, l \in 1..Len(result) : result[k] = result[l] => k = l
  /\ included = {result[k] : k \in 1..Len(result)}
  /\ \A d \in Docs : d \in included <=> \E i \in Words : Entered(i, d)

EndsInOrder ==
  /\ pc \in {"query", "vector", "wait", "rank", "returned"}
  /\ pc = "query" => AllEnded
  /\ pc \notin {"query", "returned"} => \A i \in Words : wpc[i] = "ended" => todo[i] = {}
  /\ pc = "rank" => AllEnded

GoroutinesInv == WordsInPlace /\ RankIsTable /\ CountsAdded /\ ListedOnce /\ EndsInOrder

\* What the words of a query bring.
LEMMA QueryIs ==
  ASSUME query \in Queries
  PROVE  /\ Words = DOMAIN index /\ Words = 1..Len(words) /\ Len(words) \in Nat /\ IsFiniteSet(Words)
         /\ averaged \in BOOLEAN
         /\ \A i \in Words : \A d \in DOMAIN index[i] :
              d \in Docs /\ IsPosting(index[i][d]) /\ index[i][d].Count \in Nat
<1>1. /\ Words = DOMAIN index /\ Words = 1..Len(words) /\ Len(words) \in Nat /\ averaged \in BOOLEAN
      /\ \A i \in Words : \A d \in DOMAIN index[i] : d \in Docs /\ IsPosting(index[i][d])
  BY SearchAssumption DEF Words, words, index, averaged
<1>2. IsFiniteSet(1..Len(words))
  BY <1>1, FS_Interval
<1>3. ASSUME NEW p, IsPosting(p) PROVE p.Count \in Nat
  BY <1>3 DEF IsPosting
<1> QED
  BY <1>1, <1>2, <1>3

LEMMA GoroutinesInit == Init => GoroutinesInv
<1> SUFFICES ASSUME Init PROVE GoroutinesInv
  OBVIOUS
<1>1. WordsInPlace
  BY DEF Init, WordsInPlace
<1>2. RankIsTable
  BY DEF Init, RankIsTable, Row, Names, NoFeatures
<1>3. \A i \in Words, d \in Docs : ~Counted(i, d)
  BY DEF Init, Counted
<1>4. CountsAdded
  <2>1. \A d \in Docs : CountedBy(d) = {} /\ rank[d].SumTokenInPackage = 0
    BY <1>3 DEF CountedBy, Init, NoFeatures
  <2> QED
    BY <2>1, TotalOfNone DEF CountsAdded
<1>5. ListedOnce
  BY <1>3 DEF Init, ListedOnce, Entered
<1>6. EndsInOrder
  BY DEF Init, EndsInOrder, AllEnded
<1> QED
  BY <1>1, <1>2, <1>4, <1>5, <1>6 DEF GoroutinesInv

\* A step that leaves the query alone leaves alone what is derived from it.
LEMMA SameQuery ==
  ASSUME query' = query
  PROVE  words' = words /\ index' = index /\ averaged' = averaged /\ Words' = Words
BY DEF words, index, averaged, Words

\* What has been counted stays counted while nothing is added.
LEMMA SameCounts ==
  ASSUME GoroutinesInv, query' = query, rank' = rank,
         \A i \in Words, d \in Docs : Counted(i, d)' <=> Counted(i, d)
  PROVE  CountsAdded'
<1>1. Words' = Words /\ index' = index
  BY SameQuery
<1>2. ASSUME NEW d \in Docs PROVE CountedBy(d)' = CountedBy(d)
  BY <1>1 DEF CountedBy
<1> QED
  BY <1>1, <1>2 DEF GoroutinesInv, CountsAdded

LEMMA SameList ==
  ASSUME GoroutinesInv, query' = query, result' = result, included' = included,
         \A i \in Words, d \in Docs : Entered(i, d)' <=> Entered(i, d)
  PROVE  ListedOnce'
<1>1. Words' = Words
  BY SameQuery
<1>2. result \in Seq(Docs) /\ \A d \in Docs : d \in included <=> \E i \in Words : Entered(i, d)
  BY DEF GoroutinesInv, ListedOnce
<1>3. \A d \in Docs : d \in included' <=> \E i \in Words' : Entered(i, d)'
  BY <1>1, <1>2
<1> QED
  BY <1>3 DEF GoroutinesInv, ListedOnce

\* Search itself leaves alone what the goroutines work on.
LEMMA OthersKeep ==
  ASSUME GoroutinesInv, UNCHANGED <<query, goroutines>>, EndsInOrder'
  PROVE  GoroutinesInv'
<1>1. Words' = Words /\ index' = index
  BY SameQuery DEF goroutines
<1>2. \A i \in Words, d \in Docs : (Counted(i, d)' <=> Counted(i, d)) /\ (Entered(i, d)' <=> Entered(i, d))
  BY <1>1 DEF Counted, Entered, goroutines
<1>3. CountsAdded' /\ ListedOnce'
  BY <1>2, SameCounts, SameList DEF goroutines
<1>4. WordsInPlace' /\ RankIsTable'
  BY <1>1 DEF GoroutinesInv, WordsInPlace, RankIsTable, goroutines
<1> QED
  BY <1>3, <1>4 DEF GoroutinesInv

LEMMA FetchInv ==
  ASSUME GoroutinesInv, NEW i \in Words, Fetch(i)
  PROVE  GoroutinesInv'
<1>1. /\ wpc[i] = "range" /\ query' = query /\ rank' = rank /\ included' = included /\ result' = result
      /\ pc' = pc
  BY DEF Fetch, Main
<1>2. PICK d \in todo[i] :
        /\ todo' = [todo EXCEPT ![i] = @ \ {d}]
        /\ \/ /\ at' = [at EXCEPT ![i] = d] /\ wpc' = [wpc EXCEPT ![i] = "score"] /\ failed' = failed
           \/ /\ at' = at /\ wpc' = wpc /\ failed' = failed \cup {<<i, d>>}
  BY DEF Fetch, Skip
<1>3. /\ Words' = Words /\ index' = index /\ WordsInPlace
      /\ d \in DOMAIN index[i] /\ <<i, d>> \notin failed
  BY <1>1, SameQuery DEF GoroutinesInv, WordsInPlace
<1>4. WordsInPlace'
  BY <1>1, <1>2, <1>3 DEF WordsInPlace
<1>5. \A j \in Words, e \in Docs : (Counted(j, e)' <=> Counted(j, e)) /\ (Entered(j, e)' <=> Entered(j, e))
  <2>1. CASE at' = at /\ wpc' = wpc /\ failed' = failed \cup {<<i, d>>}
    BY <1>1, <1>2, <1>3, <2>1 DEF WordsInPlace, Counted, Entered
  <2>2. CASE at' = [at EXCEPT ![i] = d] /\ wpc' = [wpc EXCEPT ![i] = "score"] /\ failed' = failed
    BY <1>1, <1>2, <1>3, <2>2 DEF WordsInPlace, Counted, Entered
  <2> QED
    BY <1>2, <2>1, <2>2
<1>6. CountsAdded' /\ ListedOnce'
  BY <1>1, <1>5, SameCounts, SameList
<1>7. EndsInOrder'
  BY <1>1, <1>2, <1>3 DEF GoroutinesInv, EndsInOrder, WordsInPlace, AllEnded
<1>8. RankIsTable'
  BY <1>1 DEF GoroutinesInv, RankIsTable
<1> QED
  BY <1>4, <1>6, <1>7, <1>8 DEF GoroutinesInv

\* The features keep their names, and only SumTokenInPackage and its like are added to.
LEMMA AddedIs ==
  ASSUME NEW r, Row(r), NEW i, NEW d
  PROVE  /\ Row(Added(r, i, d))
         /\ Added(r, i, d).SumTokenInPackage = r.SumTokenInPackage + index[i][d].Count
         /\ Added(r, i, d).QueryCoverage = r.QueryCoverage
         /\ Added(r, i, d).lenWordInURL = r.lenWordInURL
BY DEF Added, Row, Names, NoFeatures

LEMMA OnceForAllIs ==
  ASSUME NEW r, Row(r), NEW i, NEW d
  PROVE  /\ Row(OnceForAll(r, i, d))
         /\ OnceForAll(r, i, d).SumTokenInPackage = r.SumTokenInPackage
         /\ OnceForAll(r, i, d).lenWordInURL = boyerMoorAlgorithm(URL[d], words)
BY DEF OnceForAll, Row, Names, NoFeatures

LEMMA ScoreInv ==
  ASSUME GoroutinesInv, NEW i \in Words, Score(i)
  PROVE  GoroutinesInv'
<1>1. /\ wpc[i] = "score" /\ wpc' = [wpc EXCEPT ![i] = "collect"]
      /\ UNCHANGED <<query, todo, at, included, result, failed, pc>>
  BY DEF Score, Main
<1>2. PICK d : d = at[i] /\ d \in DOMAIN index[i] \ todo[i] /\ <<i, d>> \notin failed /\ d \in Docs
  BY <1>1, QueryIs DEF GoroutinesInv, WordsInPlace
<1>3. PICK r : /\ rank' = [rank EXCEPT ![d] = r] /\ Row(r)
               /\ r.SumTokenInPackage = rank[d].SumTokenInPackage + index[i][d].Count
  <2>1. Row(rank[d])
    BY <1>2 DEF GoroutinesInv, RankIsTable
  <2>2. PICK a : a = Added(rank[d], i, d)
    OBVIOUS
  <2>3. Row(a) /\ a.SumTokenInPackage = rank[d].SumTokenInPackage + index[i][d].Count
    BY <2>1, <2>2, AddedIs
  <2>4. PICK b : b = OnceForAll(a, i, d)
    OBVIOUS
  <2>5. Row(b) /\ b.SumTokenInPackage = a.SumTokenInPackage
    BY <2>3, <2>4, OnceForAllIs
  <2>6. rank' = [rank EXCEPT ![d] = a] \/ rank' = [rank EXCEPT ![d] = b]
    BY <1>2, <2>2, <2>4 DEF Score
  <2> QED
    BY <2>3, <2>5, <2>6
<1>4. Words' = Words /\ index' = index /\ WordsInPlace
  BY <1>1, SameQuery DEF GoroutinesInv
<1>5. WordsInPlace'
  BY <1>1, <1>4 DEF WordsInPlace
<1>6. RankIsTable'
  BY <1>3 DEF GoroutinesInv, RankIsTable
<1>7. /\ \A j \in Words, e \in Docs : Entered(j, e)' <=> Entered(j, e)
      /\ \A j \in Words, e \in Docs : j # i \/ e # d => (Counted(j, e)' <=> Counted(j, e))
      /\ Counted(i, d)' /\ ~Counted(i, d)
  BY <1>1, <1>2, <1>4 DEF Counted, Entered, WordsInPlace
<1>8. CountsAdded'
  <2>1. ASSUME NEW e \in Docs, e # d
        PROVE  rank'[e].SumTokenInPackage = TotalOf(index', e, CountedBy(e)')
    <3>1. CountedBy(e)' = CountedBy(e)
      BY <1>4, <1>7, <2>1 DEF CountedBy
    <3>2. rank'[e] = rank[e]
      BY <1>3, <2>1 DEF GoroutinesInv, RankIsTable
    <3> QED
      BY <1>4, <3>1, <3>2 DEF GoroutinesInv, CountsAdded
  <2>2. rank'[d].SumTokenInPackage = TotalOf(index', d, CountedBy(d)')
    <3>1. PICK S : S = CountedBy(d)'
      OBVIOUS
    <3>2. S \ {i} = CountedBy(d) /\ i \in S /\ S \subseteq Words
      <4>1. \A j \in Words : Counted(j, d)' <=> Counted(j, d) \/ j = i
        BY <1>2, <1>7
      <4>2. S = {j \in Words : Counted(j, d)'}
        BY <1>4, <3>1 DEF CountedBy
      <4> QED
        BY <1>7, <4>1, <4>2 DEF CountedBy
    <3>3. IsFiniteSet(S) /\ \A j \in S : index[j][d].Count \in Nat
      <4>1. IsFiniteSet(Words)
        BY QueryIs DEF GoroutinesInv, WordsInPlace
      <4>2. \A j \in S : d \in DOMAIN index[j]
        BY <1>4, <3>1 DEF CountedBy, Counted
      <4> QED
        BY <1>4, <3>2, <4>1, <4>2, QueryIs, FS_Subset DEF WordsInPlace
    <3>4. PICK ix : ix = index
      OBVIOUS
    <3>5. /\ TotalOf(ix, d, S) = ix[i][d].Count + TotalOf(ix, d, S \ {i})
          /\ TotalOf(ix, d, S) \in Nat /\ TotalOf(ix, d, S \ {i}) \in Nat
      BY <3>2, <3>3, <3>4, TotalOneMore
    <3>6. rank[d].SumTokenInPackage = TotalOf(ix, d, S \ {i})
      BY <1>2, <3>2, <3>4 DEF GoroutinesInv, CountsAdded
    <3>7. rank'[d] = r
      BY <1>2, <1>3 DEF GoroutinesInv, RankIsTable
    <3>8. ix[i][d].Count \in Nat
      BY <3>2, <3>3, <3>4
    <3> QED
      BY <1>3, <1>4, <3>1, <3>4, <3>5, <3>6, <3>7, <3>8
  <2> QED
    BY <2>1, <2>2 DEF CountsAdded
<1>9. ListedOnce'
  BY <1>1, <1>7, SameList
<1>10. EndsInOrder'
  BY <1>1, <1>4 DEF GoroutinesInv, EndsInOrder, WordsInPlace, AllEnded
<1> QED
  BY <1>5, <1>6, <1>8, <1>9, <1>10 DEF GoroutinesInv

\* An element is added that was not there.
LEMMA ListGrows ==
  ASSUME NEW E, NEW s \in Seq(E), NEW e \in E
  PROVE  /\ Append(s, e) \in Seq(E) /\ Len(Append(s, e)) = Len(s) + 1
         /\ \A k \in 1..Len(s) : Append(s, e)[k] = s[k]
         /\ Append(s, e)[Len(s) + 1] = e /\ Len(s) \in Nat
BY AppendProperties

LEMMA CollectInv ==
  ASSUME GoroutinesInv, NEW i \in Words, Collect(i)
  PROVE  GoroutinesInv'
<1>1. /\ wpc[i] = "collect" /\ wpc' = [wpc EXCEPT ![i] = "range"] /\ at' = [at EXCEPT ![i] = None]
      /\ UNCHANGED <<query, todo, rank, failed, pc>>
  BY DEF Collect, Main
<1>2. PICK d : d = at[i] /\ d \in DOMAIN index[i] \ todo[i] /\ <<i, d>> \notin failed /\ d \in Docs
  BY <1>1, QueryIs DEF GoroutinesInv, WordsInPlace
<1>3. \/ d \in included /\ result' = result /\ included' = included
      \/ d \notin included /\ result' = Append(result, d) /\ included' = included \cup {d}
  BY <1>2 DEF Collect
<1>4. Words' = Words /\ index' = index /\ WordsInPlace
  BY <1>1, SameQuery DEF GoroutinesInv
<1>5. WordsInPlace'
  BY <1>1, <1>4 DEF WordsInPlace
<1>7. /\ \A j \in Words, e \in Docs : Counted(j, e)' <=> Counted(j, e)
      /\ \A j \in Words, e \in Docs : j # i \/ e # d => (Entered(j, e)' <=> Entered(j, e))
      /\ Entered(i, d)'
  BY <1>1, <1>2, <1>4 DEF Counted, Entered, WordsInPlace
<1>8. CountsAdded' /\ RankIsTable'
  <2>1. RankIsTable'
    BY <1>1 DEF GoroutinesInv, RankIsTable
  <2> QED
    BY <1>1, <1>7, <2>1, SameCounts
<1>9. ListedOnce'
  <2>1. ListedOnce /\ Len(result) \in Nat
    BY DEF GoroutinesInv, ListedOnce
  <2>2. included' = included \cup {d}
    BY <1>3
  <2>3. \A e \in Docs : e \in included' <=> \E j \in Words' : Entered(j, e)'
    <3>1. ASSUME NEW e \in Docs, e # d PROVE e \in included' <=> \E j \in Words' : Entered(j, e)'
      BY <1>4, <1>7, <2>1, <2>2, <3>1 DEF ListedOnce
    <3>2. d \in included' /\ \E j \in Words' : Entered(j, d)'
      BY <1>4, <1>7, <2>2
    <3> QED
      BY <3>1, <3>2
  <2>4. /\ result' \in Seq(Docs)
        /\ \A k, l \in 1..Len(result') : result'[k] = result'[l] => k = l
        /\ included' = {result'[k] : k \in 1..Len(result')}
    <3>1. CASE result' = result
      BY <1>3, <2>1, <3>1 DEF ListedOnce
    <3>2. CASE d \notin included /\ result' = Append(result, d)
      <4>1. /\ result' \in Seq(Docs) /\ Len(result') = Len(result) + 1
            /\ \A k \in 1..Len(result) : result'[k] = result[k]
            /\ result'[Len(result) + 1] = d /\ Len(result) \in Nat
        BY <1>2, <2>1, <3>2, ListGrows DEF ListedOnce
      <4>2. \A k \in 1..Len(result') : k \in 1..Len(result) \/ k = Len(result) + 1
        BY <4>1
      <4>3. \A k \in 1..Len(result) : result[k] # d
        BY <2>1, <3>2 DEF ListedOnce
      <4>4. \A k, l \in 1..Len(result') : result'[k] = result'[l] => k = l
        BY <2>1, <4>1, <4>2, <4>3 DEF ListedOnce
      <4>5. included' = {result'[k] : k \in 1..Len(result')}
        <5>1. ASSUME NEW e \in included' PROVE \E k \in 1..Len(result') : e = result'[k]
          BY <2>1, <2>2, <4>1 DEF ListedOnce
        <5>2. ASSUME NEW k \in 1..Len(result') PROVE result'[k] \in included'
          BY <2>1, <2>2, <4>1, <4>2 DEF ListedOnce
        <5> QED
          BY <5>1, <5>2
      <4> QED
        BY <4>1, <4>4, <4>5
    <3> QED
      BY <1>3, <3>1, <3>2
  <2> QED
    BY <2>3, <2>4 DEF ListedOnce
<1>10. EndsInOrder'
  BY <1>1, <1>4 DEF GoroutinesInv, EndsInOrder, WordsInPlace, AllEnded
<1> QED
  BY <1>5, <1>8, <1>9, <1>10 DEF GoroutinesInv

LEMMA WordDoneInv ==
  ASSUME GoroutinesInv, NEW i \in Words, WordDone(i)
  PROVE  GoroutinesInv'
<1>1. /\ wpc[i] = "range" /\ todo[i] = {} /\ wpc' = [wpc EXCEPT ![i] = "ended"]
      /\ UNCHANGED <<query, todo, at, rank, included, result, failed, pc>>
  BY DEF WordDone, Main
<1>2. Words' = Words /\ index' = index /\ WordsInPlace
  BY <1>1, SameQuery DEF GoroutinesInv
<1>3. \A j \in Words, d \in Docs : (Counted(j, d)' <=> Counted(j, d)) /\ (Entered(j, d)' <=> Entered(j, d))
  BY <1>1, <1>2 DEF Counted, Entered, WordsInPlace
<1>4. CountsAdded' /\ ListedOnce'
  BY <1>1, <1>3, SameCounts, SameList
<1>5. WordsInPlace' /\ RankIsTable'
  BY <1>1, <1>2 DEF GoroutinesInv, WordsInPlace, RankIsTable
<1>6. EndsInOrder'
  BY <1>1, <1>2 DEF GoroutinesInv, EndsInOrder, WordsInPlace, AllEnded
<1> QED
  BY <1>4, <1>5, <1>6 DEF GoroutinesInv

LEMMA HandleInv ==
  ASSUME GoroutinesInv, Handle
  PROVE  GoroutinesInv'
<1>1. /\ pc = "query" /\ UNCHANGED <<query, todo, at, rank, included, result, failed>>
      /\ \/ pc' = "vector" /\ wpc' = [i \in Words |-> "range"]
         \/ pc' = "returned" /\ wpc' = wpc
  BY DEF Handle, Nil
<1>2. Words' = Words /\ index' = index /\ WordsInPlace /\ \A i \in Words : wpc[i] = "ended"
  BY <1>1, SameQuery DEF GoroutinesInv, EndsInOrder, AllEnded
<1>3. \A j \in Words, d \in Docs : (Counted(j, d)' <=> Counted(j, d)) /\ (Entered(j, d)' <=> Entered(j, d))
  BY <1>1, <1>2 DEF Counted, Entered, WordsInPlace
<1>4. CountsAdded' /\ ListedOnce'
  BY <1>1, <1>3, SameCounts, SameList
<1>5. WordsInPlace' /\ RankIsTable'
  BY <1>1, <1>2 DEF GoroutinesInv, WordsInPlace, RankIsTable
<1>6. EndsInOrder'
  BY <1>1, <1>2 DEF EndsInOrder, AllEnded
<1> QED
  BY <1>4, <1>5, <1>6 DEF GoroutinesInv

LEMMA SearchStepInv ==
  ASSUME GoroutinesInv, Vector \/ NoVector \/ Sort \/ Rank \/ RankFails \/ Ranked
  PROVE  GoroutinesInv'
<1>1. UNCHANGED <<query, goroutines>>
  BY DEF Vector, NoVector, Sort, Rank, RankFails, Ranked
<1>2. Words' = Words
  BY <1>1, SameQuery
<1>3. pc' \in {"wait", "rank", "returned"} /\ (pc' = pc \/ (pc' = "rank" => AllEnded))
      /\ (pc' \notin {"query", "returned"} => pc \notin {"query", "returned"})
  BY DEF GoroutinesInv, EndsInOrder, Vector, NoVector, Sort, Rank, RankFails, Ranked, Nil
<1>4. EndsInOrder'
  BY <1>1, <1>2, <1>3 DEF GoroutinesInv, EndsInOrder, AllEnded, goroutines
<1> QED
  BY <1>1, <1>4, OthersKeep

LEMMA StaysInv ==
  ASSUME GoroutinesInv, UNCHANGED vars
  PROVE  GoroutinesInv'
<1>1. UNCHANGED <<query, goroutines>> /\ pc' = pc
  BY DEF vars
<1>2. EndsInOrder'
  BY <1>1, SameQuery DEF GoroutinesInv, EndsInOrder, AllEnded, goroutines
<1> QED
  BY <1>1, <1>2, OthersKeep
-----------------------------------------------------------------------------
(* Arithmetic of groups *)

LEMMA TimesLess ==
  ASSUME NEW a \in Int, NEW b \in Int, NEW w \in Nat \ {0}, a < b
  PROVE  a * w + w <= b * w
<1>1. (b - a - 1) * w >= 0
  OBVIOUS
<1>2. (b - a - 1) * w = b * w - a * w - w
  OBVIOUS
<1> QED
  BY <1>1, <1>2

LEMMA Remainder ==
  ASSUME NEW q \in Nat, NEW w \in Nat \ {0}, NEW r \in 0..(w - 1)
  PROVE  (q * w + r) % w = r
<1> DEFINE x == q * w + r
<1>1. PICK p \in Int : p = x \div w
  OBVIOUS
<1>2. PICK m \in 0..(w - 1) : m = x % w
  OBVIOUS
<1>3. x = p * w + m
  BY <1>1, <1>2
<1>4. p * w \in Int /\ q * w \in Int /\ p * w + m = q * w + r
  BY <1>3
<1> HIDE DEF x
<1>5. CASE p < q
  <2>1. p * w + w <= q * w
    BY <1>5, TimesLess
  <2> QED
    BY <1>4, <2>1
<1>6. CASE q < p
  <2>1. q * w + w <= p * w
    BY <1>6, TimesLess
  <2> QED
    BY <1>4, <2>1
<1>7. CASE p = q
  BY <1>2, <1>4, <1>7 DEF x
<1> QED
  BY <1>5, <1>6, <1>7

\* Numbers whole groups apart are in the same group, and the first ones are in different.
LEMMA SameGroup ==
  ASSUME NEW q \in Nat, NEW w \in Nat \ {0}, NEW g \in 1..w
  PROVE  (q * w + g) % w = g % w
<1>1. CASE g < w
  <2>1. g \in 0..(w - 1) /\ 0 * w + g = g /\ 0 \in Nat
    BY <1>1
  <2>2. (q * w + g) % w = g
    BY <2>1, Remainder
  <2>3. (0 * w + g) % w = g
    BY <2>1, Remainder
  <2> QED
    BY <2>1, <2>2, <2>3
<1>2. CASE g = w
  <2>1. q * w + w = (q + 1) * w + 0 /\ w = 1 * w + 0 /\ 0 \in 0..(w - 1) /\ q + 1 \in Nat /\ 1 \in Nat
    OBVIOUS
  <2>2. ((q + 1) * w + 0) % w = 0
    BY <2>1, Remainder
  <2>3. (1 * w + 0) % w = 0
    BY <2>1, Remainder
  <2> QED
    BY <1>2, <2>1, <2>2, <2>3
<1> QED
  BY <1>1, <1>2

LEMMA GroupsApart ==
  ASSUME NEW w \in Nat \ {0}, NEW g \in 1..w, NEW h \in 1..w, g % w = h % w
  PROVE  g = h
<1>1. ASSUME NEW x \in 1..w PROVE x % w = IF x = w THEN 0 ELSE x
  <2>1. CASE x = w
    <3>1. w = 1 * w + 0 /\ 0 \in 0..(w - 1) /\ 1 \in Nat
      OBVIOUS
    <3>2. (1 * w + 0) % w = 0
      BY <3>1, Remainder
    <3> QED
      BY <2>1, <3>1, <3>2
  <2>2. CASE x # w
    <3>1. x = 0 * w + x /\ x \in 0..(w - 1) /\ 0 \in Nat
      BY <2>2
    <3>2. (0 * w + x) % w = x
      BY <3>1, Remainder
    <3> QED
      BY <2>2, <3>1, <3>2
  <2> QED
    BY <2>1, <2>2
<1> QED
  BY <1>1
-----------------------------------------------------------------------------
(* The list that is returned *)

Groups == 1..Min({Width, Len(fl)})

Group(g) == {k \in 1..Len(fl) : k % Width = g % Width}

\* In group g the first and number b of the sorted list have changed places.
Promoted(g, b) == \A k \in Group(g) : fl[k] = Swapped(sorted, g, b)[k]

\* The list is a rearrangement of the sorted one.
ListPermuted ==
  /\ fl \in Seq(Docs) /\ sorted \in Seq(Docs) /\ group \in Nat
  /\ pc \in {"query", "vector", "wait"} => group = 0
  /\ pc = "rank" => /\ Len(fl) = Len(sorted) /\ ToSet(fl) = ToSet(sorted)
                    /\ group <= Min({Width, Len(fl)})

GroupsPromoted ==
  pc \in {"rank", "returned"} /\ fl # <<>> =>
    /\ Len(fl) = Len(sorted)
    /\ \A g \in Groups : \E b \in Group(g) : Promoted(g, b) /\ (g > group => b = g)

ListInv == GoroutinesInv /\ ListPermuted /\ GroupsPromoted

LEMMA MinOfTwo ==
  ASSUME NEW a \in Nat, NEW b \in Nat
  PROVE  /\ Min({a, b}) \in Nat /\ Min({a, b}) <= a /\ Min({a, b}) <= b
         /\ Min({a, b}) = a \/ Min({a, b}) = b
<1>1. \E x \in {a, b} : \A y \in {a, b} : x =< y
  BY a <= b \/ b <= a
<1> QED
  BY <1>1 DEF Min

LEMMA ListInit == Init => ListInv
<1> SUFFICES ASSUME Init PROVE ListInv
  OBVIOUS
<1>1. pc = "query" /\ fl = <<>> /\ sorted = <<>> /\ group = 0
  BY DEF Init
<1> QED
  BY <1>1, GoroutinesInit DEF ListInv, ListPermuted, GroupsPromoted

\* What changes neither the list nor where Search is.
LEMMA ListStays ==
  ASSUME ListInv, GoroutinesInv', UNCHANGED <<fl, group, sorted>>,
         pc' = pc
  PROVE  ListInv'
<1>1. ListPermuted'
  BY DEF ListInv, ListPermuted
<1>2. GroupsPromoted'
  BY DEF ListInv, GroupsPromoted, Groups, Group, Promoted
<1> QED
  BY <1>1, <1>2 DEF ListInv

LEMMA WordListInv ==
  ASSUME ListInv, NEW i \in Words, WordStep(i)
  PROVE  ListInv'
<1>1. UNCHANGED <<fl, group, sorted, pc>>
  BY DEF WordStep, Fetch, Score, Collect, WordDone, Main
<1>2. GoroutinesInv'
  BY FetchInv, ScoreInv, CollectInv, WordDoneInv DEF ListInv, WordStep
<1> QED
  BY <1>1, <1>2, ListStays

LEMMA BeforeListInv ==
  ASSUME ListInv, Handle \/ Vector \/ NoVector
  PROVE  ListInv'
<1>1. GoroutinesInv'
  BY HandleInv, SearchStepInv DEF ListInv
<1>2. /\ pc \in {"query", "vector"} /\ pc' \in {"vector", "wait", "returned"}
      /\ UNCHANGED <<group, sorted>> /\ fl' \in {fl, <<>>} /\ (pc' = "returned" => fl' = <<>>)
  BY DEF Handle, Vector, NoVector, Nil
<1>3. ListPermuted' /\ GroupsPromoted'
  <2>1. <<>> \in Seq(Docs)
    OBVIOUS
  <2> QED
    BY <1>2, <2>1 DEF ListInv, ListPermuted, GroupsPromoted
<1> QED
  BY <1>1, <1>3 DEF ListInv

\* An ordering of a list is a list of the same documents, as long.
LEMMA SortingIs ==
  ASSUME NEW s \in Seq(Docs), NEW t \in Sortings(s)
  PROVE  t \in Seq(Docs) /\ Len(t) = Len(s) /\ Len(s) \in Nat
<1>1. DOMAIN s = 1..Len(s) /\ Len(s) \in Nat
  OBVIOUS
<1>2. PICK D : D = DOMAIN s
  OBVIOUS
<1>3. PICK p \in Bijection(D, D) : t = [k \in D |-> s[p[k]]]
  BY <1>2 DEF Sortings
<1>4. p \in [D -> D]
  BY <1>3 DEF Bijection, Surjection
<1>5. t \in [1..Len(s) -> Docs]
  BY <1>1, <1>2, <1>3, <1>4
<1> QED
  BY <1>1, <1>5

\* So are the orders in which the list may come, cut.
LEMMA OrderedIs ==
  ASSUME result \in Seq(Docs), result # <<>>, NEW top \in Ordered
  PROVE  top \in Seq(Docs) /\ top # <<>>
<1> DEFINE m == Min({Len(result), MaxLen})
<1>1. PICK t \in Sortings(result) : top = SubSeq(t, 1, m)
  BY DEF Ordered
<1>2. t \in Seq(Docs) /\ Len(t) = Len(result) /\ Len(result) \in Nat
  BY <1>1, SortingIs
<1>3. m \in Nat /\ m <= Len(result) /\ m # 0
  <2>1. MaxLen \in Nat \ {0} /\ Len(result) # 0
    BY SearchAssumption
  <2> QED
    BY <1>2, <2>1, MinOfTwo
<1> HIDE DEF m
<1>4. 1 \in 1..(Len(t) + 1) /\ m \in 0..Len(t) /\ 1 <= m
  BY <1>2, <1>3
<1>5. top \in Seq(Docs) /\ Len(top) = IF 1 <= m THEN m - 1 + 1 ELSE 0
  BY <1>1, <1>2, <1>4
<1> QED
  BY <1>3, <1>4, <1>5

\* Two places of a list change what they hold, and the list keeps its elements.
IsSwap(t, s, i, j) ==
  /\ t \in Seq(Docs) /\ Len(t) = Len(s) /\ ToSet(t) = ToSet(s)
  /\ \A k \in 1..Len(s) : t[k] = s[IF k = j THEN i ELSE IF k = i THEN j ELSE k]

LEMMA SwappedIs ==
  ASSUME NEW s \in Seq(Docs), NEW i \in 1..Len(s), NEW j \in 1..Len(s)
  PROVE  IsSwap(Swapped(s, i, j), s, i, j)
<1>1. DOMAIN s = 1..Len(s) /\ Len(s) \in Nat /\ s \in [1..Len(s) -> Docs]
  OBVIOUS
<1>2. PICK t : t = Swapped(s, i, j)
  OBVIOUS
<1>3. t \in [1..Len(s) -> Docs]
  BY <1>1, <1>2 DEF Swapped
<1>4. t \in Seq(Docs) /\ Len(t) = Len(s)
  BY <1>1, <1>3
<1>5. \A k \in 1..Len(s) : t[k] = s[IF k = j THEN i ELSE IF k = i THEN j ELSE k]
  BY <1>1, <1>2 DEF Swapped
<1>6. ToSet(t) = {t[k] : k \in 1..Len(s)} /\ ToSet(s) = {s[k] : k \in 1..Len(s)}
  BY <1>1, <1>3 DEF ToSet
<1>7. ASSUME NEW d \in ToSet(t) PROVE d \in ToSet(s)
  <2>1. PICK k \in 1..Len(s) : d = t[k]
    BY <1>6
  <2>2. (IF k = j THEN i ELSE IF k = i THEN j ELSE k) \in 1..Len(s)
    OBVIOUS
  <2> QED
    BY <1>5, <1>6, <2>1, <2>2
<1>8. ASSUME NEW d \in ToSet(s) PROVE d \in ToSet(t)
  <2>1. PICK k \in 1..Len(s) : d = s[k]
    BY <1>6
  <2>2. PICK l \in 1..Len(s) : l = IF k = j THEN i ELSE IF k = i THEN j ELSE k
    OBVIOUS
  <2>3. t[l] = s[k]
    BY <1>5, <2>2
  <2> QED
    BY <1>6, <2>1, <2>3
<1>9. ToSet(t) = ToSet(s)
  BY <1>7, <1>8
<1> QED
  BY <1>2, <1>4, <1>5, <1>9 DEF IsSwap

LEMMA SortListInv ==
  ASSUME ListInv, Sort
  PROVE  ListInv'
<1>1. GoroutinesInv'
  BY SearchStepInv DEF ListInv
<1>2. pc = "wait" /\ group = 0 /\ UNCHANGED <<query, goroutines, group>>
  BY DEF Sort, ListInv, ListPermuted
<1>3. CASE pc' = "returned" /\ fl' = <<>> /\ sorted' = sorted
  BY <1>1, <1>2, <1>3 DEF ListInv, ListPermuted, GroupsPromoted
<1>4. CASE result # <<>> /\ fl' \in Ordered /\ sorted' = fl' /\ pc' = "rank"
  <2>1. PICK top \in Ordered : fl' = top
    BY <1>4
  <2>2. result \in Seq(Docs)
    BY DEF ListInv, GoroutinesInv, ListedOnce
  <2>3. top \in Seq(Docs) /\ top # <<>>
    BY <1>4, <2>1, <2>2, OrderedIs
  <2>4. ListPermuted'
    <3>1. Width \in Nat /\ Len(top) \in Nat
      BY <2>3, SearchAssumption
    <3> QED
      BY <1>2, <1>4, <2>1, <2>3, <3>1, MinOfTwo DEF ListPermuted
  <2>5. GroupsPromoted'
    <3>1. ASSUME NEW g \in 1..Min({Width, Len(top)})
          PROVE  /\ g \in 1..Len(top)
                 /\ \A k \in 1..Len(top) : top[k] = Swapped(top, g, g)[k]
      <4>1. Width \in Nat /\ Len(top) \in Nat
        BY <2>3, SearchAssumption
      <4>2. g \in 1..Len(top)
        BY <4>1, MinOfTwo
      <4> QED
        <5>1. IsSwap(Swapped(top, g, g), top, g, g)
          BY <2>3, <4>2, SwappedIs
        <5> QED
          BY <4>2, <5>1 DEF IsSwap
    <3> QED
      BY <1>4, <2>1, <3>1 DEF GroupsPromoted, Groups, Group, Promoted
  <2> QED
    BY <1>1, <2>4, <2>5 DEF ListInv
<1> QED
  BY <1>3, <1>4 DEF Sort, Nil

\* After the ranking, or its failure, the list stays as it is.
LEMMA RankEndsListInv ==
  ASSUME ListInv, RankFails \/ Ranked
  PROVE  ListInv'
<1>1. GoroutinesInv'
  BY SearchStepInv DEF ListInv
<1>2. pc = "rank" /\ pc' = "returned" /\ UNCHANGED <<fl, group, sorted>>
  BY DEF RankFails, Ranked
<1>3. ListPermuted'
  BY <1>2 DEF ListInv, ListPermuted
<1>4. GroupsPromoted'
  BY <1>2 DEF ListInv, GroupsPromoted, Groups, Group, Promoted
<1> QED
  BY <1>1, <1>3, <1>4 DEF ListInv

\* The index the server answers with is that of an element of the group.
LEMMA BestElIsPlace ==
  ASSUME NEW n \in Nat, NEW g \in Nat, NEW w \in Nat \ {0}, NEW b \in Nat,
         b < Cardinality({j \in 0..n : j * w + g < n})
  PROVE  b * w + g < n
<1> DEFINE S == {j \in 0..n : j * w + g < n}
<1> SUFFICES ASSUME b * w + g >= n PROVE FALSE
  BY b * w \in Nat
<1>1. ASSUME NEW j \in S PROVE j \in 0..(b - 1)
  <2>1. j \in Nat /\ j * w \in Nat /\ b * w \in Nat /\ j * w + g < n
    OBVIOUS
  <2>2. CASE b < j
    <3>1. b * w + w <= j * w
      BY <2>1, <2>2, TimesLess
    <3> QED
      BY <2>1, <3>1
  <2>3. CASE b = j
    BY <2>1, <2>3
  <2> QED
    BY <2>1, <2>2, <2>3
<1>2. S \subseteq 0..(b - 1)
  BY <1>1
<1>3. IsFiniteSet(0..(b - 1)) /\ Cardinality(0..(b - 1)) = b
  <2>1. 0 \in Int /\ b - 1 \in Int
    OBVIOUS
  <2> QED
    BY <2>1, FS_Interval
<1>4. Cardinality(S) <= b /\ Cardinality(S) \in Nat
  BY <1>2, <1>3, FS_Subset, FS_CardinalityType
<1> QED
  BY <1>4

\* One promotion changes nothing outside its group.
LEMMA PromotedOnce ==
  ASSUME ListInv, pc = "rank", NEW g \in Groups, g = group + 1, NEW b \in Group(g),
         fl' = Swapped(fl, g, b), UNCHANGED sorted, group' = group + 1, pc' = pc
  PROVE  GroupsPromoted' /\ fl' \in Seq(Docs) /\ Len(fl') = Len(fl) /\ ToSet(fl') = ToSet(fl)
<1>1. /\ fl \in Seq(Docs) /\ sorted \in Seq(Docs) /\ Len(fl) = Len(sorted) /\ Len(fl) \in Nat
      /\ Width \in Nat \ {0} /\ group \in Nat
  BY SearchAssumption DEF ListInv, ListPermuted
<1>2. g \in 1..Len(fl) /\ g \in 1..Width /\ Groups \subseteq 1..Width /\ Groups \subseteq 1..Len(fl)
  BY <1>1, MinOfTwo DEF Groups
<1>3. /\ b \in 1..Len(fl) /\ b % Width = g % Width
      /\ g \in Group(g)
  BY <1>2 DEF Group
<1>4. PICK f : f = Swapped(fl, g, b)
  OBVIOUS
<1>5. /\ f \in Seq(Docs) /\ Len(f) = Len(fl) /\ ToSet(f) = ToSet(fl)
      /\ \A k \in 1..Len(fl) : f[k] = fl[IF k = b THEN g ELSE IF k = g THEN b ELSE k]
  <2>1. IsSwap(f, fl, g, b)
    BY <1>1, <1>2, <1>3, <1>4, SwappedIs
  <2> QED
    BY <2>1 DEF IsSwap
<1>6. Groups' = Groups /\ \A h \in Groups : Group(h)' = Group(h)
  BY <1>4, <1>5 DEF Groups, Group
<1>7. /\ \A h \in Groups : \E c \in Group(h) : Promoted(h, c) /\ (h > group => c = h)
  <2>1. fl # <<>>
    BY <1>1, <1>2
  <2> QED
    BY <2>1 DEF ListInv, GroupsPromoted
<1>8. ASSUME NEW h \in Groups
      PROVE  \E c \in Group(h) : Promoted(h, c)' /\ (h > group + 1 => c = h)
  <2>1. CASE h = g
    <3>1. Promoted(g, g)
      BY <1>1, <1>7
    <3>2. \A k \in Group(g) : fl[k] = sorted[k]
      <4>1. IsSwap(Swapped(sorted, g, g), sorted, g, g)
        BY <1>1, <1>2, SwappedIs
      <4> QED
        BY <1>1, <3>1, <4>1 DEF Promoted, Group, IsSwap
    <3>3. ASSUME NEW k \in Group(g) PROVE f[k] = Swapped(sorted, g, b)[k]
      <4>1. k \in 1..Len(fl)
        BY DEF Group
      <4>2. (IF k = b THEN g ELSE IF k = g THEN b ELSE k) \in Group(g)
        BY <1>3
      <4>3. Swapped(sorted, g, b)[k] = sorted[IF k = b THEN g ELSE IF k = g THEN b ELSE k]
        <5>1. IsSwap(Swapped(sorted, g, b), sorted, g, b)
          BY <1>1, <1>2, <1>3, SwappedIs
        <5> QED
          BY <1>1, <4>1, <5>1 DEF IsSwap
      <4> QED
        BY <1>5, <3>2, <4>1, <4>2, <4>3
    <3>4. Promoted(g, b)'
      BY <1>4, <1>6, <3>3 DEF Promoted
    <3> QED
      BY <1>1, <2>1, <3>4
  <2>2. CASE h # g
    <3>1. PICK c \in Group(h) : Promoted(h, c) /\ (h > group => c = h)
      BY <1>7
    <3>2. ASSUME NEW k \in Group(h) PROVE k \in 1..Len(fl) /\ k # g /\ k # b
      <4>1. k \in 1..Len(fl) /\ k % Width = h % Width
        BY DEF Group
      <4>2. k = g \/ k = b => g % Width = h % Width
        BY <1>3, <4>1
      <4> QED
        BY <1>1, <1>2, <2>2, <4>1, <4>2, GroupsApart
    <3>3. \A k \in Group(h) : f[k] = fl[k]
      BY <1>5, <3>2
    <3>4. Promoted(h, c)'
      BY <1>4, <1>6, <3>1, <3>3 DEF Promoted
    <3> QED
      BY <1>1, <1>2, <3>1, <3>4
  <2> QED
    BY <2>1, <2>2
<1>9. GroupsPromoted'
  BY <1>1, <1>4, <1>5, <1>6, <1>8 DEF GroupsPromoted
<1> QED
  BY <1>4, <1>5, <1>9

LEMMA RankListInv ==
  ASSUME ListInv, Rank
  PROVE  ListInv'
<1>1. GoroutinesInv'
  BY SearchStepInv DEF ListInv
<1>2. /\ pc = "rank" /\ pc' = "rank" /\ group < Min({Width, Len(fl)}) /\ group' = group + 1
      /\ UNCHANGED <<query, goroutines, sorted>>
  BY DEF Rank
<1>3. /\ fl \in Seq(Docs) /\ Len(fl) = Len(sorted) /\ Len(fl) \in Nat /\ Width \in Nat \ {0}
      /\ group \in Nat /\ Min({Width, Len(fl)}) \in Nat
      /\ Min({Width, Len(fl)}) <= Width /\ Min({Width, Len(fl)}) <= Len(fl)
  BY <1>2, SearchAssumption, MinOfTwo DEF ListInv, ListPermuted
<1>4. CASE UNCHANGED fl
  <2>1. ListPermuted'
    <3>1. group + 1 \in Nat /\ group + 1 <= Min({Width, Len(fl)})
      BY <1>2, <1>3
    <3> QED
      BY <1>2, <1>4, <3>1 DEF ListInv, ListPermuted
  <2>2. GroupsPromoted'
    <3>1. fl # <<>>
      BY <1>2, <1>3
    <3>2. ASSUME NEW g \in Groups
          PROVE  \E b \in Group(g) : Promoted(g, b) /\ (g > group + 1 => b = g)
      <4>1. PICK b \in Group(g) : Promoted(g, b) /\ (g > group => b = g)
        BY <1>2, <3>1 DEF ListInv, GroupsPromoted
      <4> QED
        BY <1>3, <4>1 DEF Groups
    <3> QED
      BY <1>2, <1>3, <1>4, <3>2 DEF GroupsPromoted, Groups, Group, Promoted
  <2> QED
    BY <1>1, <2>1, <2>2 DEF ListInv
<1>5. ASSUME ListLen(group) > 1, NEW bestPos \in 0..(ListLen(group) - 1),
             fl' = Swapped(fl, group + 1, BestElIdx(bestPos, group) + 1)
      PROVE  ListInv'
  <2> DEFINE g == group + 1
             b == bestPos * Width + g
  <2>1. g \in Groups /\ g \in 1..Width
    BY <1>2, <1>3 DEF Groups
  <2>2. ListLen(group) \in Nat
    <3>1. IsFiniteSet(0..Len(fl))
      BY <1>3, FS_Interval
    <3>2. IsFiniteSet({j \in 0..Len(fl) : j * Width + group < Len(fl)})
      BY <3>1, FS_Subset
    <3> QED
      BY <3>2, FS_CardinalityType DEF ListLen
  <2>3. bestPos * Width + group < Len(fl)
    <3>1. bestPos \in Nat /\ bestPos < Cardinality({j \in 0..Len(fl) : j * Width + group < Len(fl)})
      BY <2>2 DEF ListLen
    <3> QED
      BY <1>3, <3>1, BestElIsPlace
  <2>4. b \in 1..Len(fl) /\ b % Width = g % Width
    <3>1. bestPos \in Nat /\ bestPos * Width \in Nat
      BY <1>3, <2>2
    <3>2. b \in 1..Len(fl)
      BY <1>3, <2>1, <2>3, <3>1
    <3>3. b % Width = g % Width
      BY <1>3, <2>1, <3>1, SameGroup
    <3> QED
      BY <3>2, <3>3
  <2>5. b \in Group(g) /\ fl' = Swapped(fl, g, b)
    <3>1. BestElIdx(bestPos, group) + 1 = b
      BY <1>3, <2>2 DEF BestElIdx
    <3> QED
      BY <1>5, <2>4, <3>1 DEF Group
  <2> HIDE DEF b
  <2>6. GroupsPromoted' /\ fl' \in Seq(Docs) /\ Len(fl') = Len(fl) /\ ToSet(fl') = ToSet(fl)
    BY <1>2, <2>1, <2>5, PromotedOnce
  <2>7. ListPermuted'
    BY <1>2, <1>3, <2>6 DEF ListInv, ListPermuted
  <2> QED
    BY <1>1, <2>6, <2>7 DEF ListInv
<1> QED
  BY <1>4, <1>5 DEF Rank

LEMMA NextListInv ==
  ASSUME ListInv, [Next]_vars
  PROVE  ListInv'
<1>1. CASE ~panicked /\ \E i \in Words : WordStep(i)
  BY <1>1, WordListInv
<1>2. CASE ~panicked /\ SearchStep
  BY <1>2, BeforeListInv, SortListInv, RankListInv, RankEndsListInv DEF SearchStep
<1>3. CASE UNCHANGED vars
  <2>1. UNCHANGED <<fl, group, sorted, pc>>
    BY <1>3 DEF vars
  <2>2. GoroutinesInv'
    BY <1>3, StaysInv DEF ListInv
  <2> QED
    BY <2>1, <2>2, ListStays
<1> QED
  BY <1>1, <1>2, <1>3 DEF Next, Over

\* The invariant of the search holds: its goroutines have added up and listed what they
\* have gone through, and the list has changed only within its groups.
THEOREM SearchInvariant == Spec => []ListInv
<1>1. Init => ListInv
  BY ListInit
<1>2. ListInv /\ [Next]_vars => ListInv'
  BY NextListInv
<1> QED
  BY <1>1, <1>2, PTL DEF Spec

LEMMA ListOfFound ==
  ASSUME GoroutinesInv, AllEnded, \A i \in Words : todo[i] = {}
  PROVE  /\ \A d \in Docs : CountedBy(d) = Read(d)
         /\ ToSet(result) = {d \in Docs : Read(d) # {}}
         /\ Len(result) = Cardinality(ToSet(result))
<1>1. Words = DOMAIN index
  BY QueryIs DEF GoroutinesInv, WordsInPlace
<1>2. \A i \in Words, d \in Docs : (Counted(i, d) <=> d \in DOMAIN index[i] /\ <<i, d>> \notin failed)
                                   /\ (Entered(i, d) <=> Counted(i, d))
  BY DEF AllEnded, Counted, Entered
<1>3. \A d \in Docs : CountedBy(d) = Read(d)
  BY <1>1, <1>2 DEF CountedBy, Read, Having
<1>4. /\ result \in Seq(Docs) /\ DOMAIN result = 1..Len(result) /\ Len(result) \in Nat
      /\ included = ToSet(result)
      /\ \A d \in Docs : d \in included <=> \E i \in Words : Entered(i, d)
      /\ \A k, l \in 1..Len(result) : result[k] = result[l] => k = l
  BY DEF GoroutinesInv, ListedOnce, ToSet
<1>5. \A d \in Docs : d \in ToSet(result) <=> Read(d) # {}
  BY <1>2, <1>3, <1>4 DEF CountedBy
<1>6. ToSet(result) \subseteq Docs
  BY <1>4 DEF ToSet
<1>7. Len(result) = Cardinality(ToSet(result))
  <2>1. IsFiniteSet(1..Len(result)) /\ Cardinality(1..Len(result)) = Len(result)
    <3>1. 1 \in Int /\ Len(result) \in Int
      BY <1>4
    <3> QED
      BY <1>4, <3>1, FS_Interval
  <2>2. PICK n \in Nat : n = Len(result)
    BY <1>4
  <2>3. PICK R : R = ToSet(result)
    OBVIOUS
  <2>4. result \in [1..n -> R] /\ \A d \in R : \E k \in 1..n : result[k] = d
    BY <1>4, <2>2, <2>3 DEF ToSet
  <2>5. result \in Surjection(1..n, R)
    BY <2>4 DEF Surjection
  <2>6. result \in Injection(1..n, R)
    BY <1>4, <2>2, <2>4 DEF Injection, IsInjective
  <2> QED
    BY <2>1, <2>2, <2>3, <2>5, <2>6, FS_Surjection
<1> QED
  BY <1>3, <1>5, <1>6, <1>7

\* When the results are put in order every goroutine has ended, whatever the order of
\* their steps; a document has been added up over all its words and the list holds, once,
\* each document that could be read.
THEOREM ScoresAreComplete == Spec => []ScoresComplete
<1>1. ListInv => ScoresComplete
  <2> SUFFICES ASSUME ListInv, pc = "rank"
               PROVE  /\ AllEnded
                      /\ \A d \in Docs : rank[d].SumTokenInPackage = TotalOf(index, d, Read(d))
                      /\ ToSet(result) = {d \in Docs : Read(d) # {}}
                      /\ Len(result) = Cardinality(ToSet(result))
    BY DEF ScoresComplete, TotalOf
  <2>1. GoroutinesInv /\ AllEnded /\ \A i \in Words : todo[i] = {}
    BY DEF ListInv, GoroutinesInv, EndsInOrder, AllEnded
  <2> QED
    BY <2>1, ListOfFound DEF GoroutinesInv, CountsAdded
<1> QED
  BY <1>1, SearchInvariant, PTL

\* The ranking server moves candidates within their groups only, and of each group only
\* the first and the one that takes its place, also when it fails in between.
THEOREM PromotedInGroup == Spec => []PromotedWithinGroup
<1>1. ListInv => PromotedWithinGroup
  BY DEF ListInv, GroupsPromoted, PromotedWithinGroup, Groups, Group, Promoted
<1> QED
  BY <1>1, SearchInvariant, PTL
-----------------------------------------------------------------------------
(* The features *)

\* The features of a document have been computed from its URL.
FeaturesComputed ==
  \A d \in Docs : rank[d].QueryCoverage # 0 =>
    rank[d].lenWordInURL = boyerMoorAlgorithm(URL[d], words)

PanicCaused == panicked => \E i \in Words : \E d \in DOMAIN index[i] : OutOfRange(index[i][d])

FeaturesInv == GoroutinesInv /\ FeaturesComputed /\ PanicCaused

LEMMA FeaturesInit == Init => FeaturesInv
<1> SUFFICES ASSUME Init PROVE FeaturesInv
  OBVIOUS
<1>1. \A d \in Docs : rank[d].QueryCoverage = 0
  BY DEF Init, NoFeatures
<1>2. FeaturesComputed
  BY <1>1 DEF FeaturesComputed
<1>3. PanicCaused
  BY DEF Init, PanicCaused
<1> QED
  BY <1>2, <1>3, GoroutinesInit DEF FeaturesInv

LEMMA SameFeatures ==
  ASSUME FeaturesInv, GoroutinesInv', UNCHANGED <<query, rank, panicked>>
  PROVE  FeaturesInv'
<1>1. words' = words /\ index' = index /\ Words' = Words
  BY SameQuery
<1>2. FeaturesComputed'
  BY <1>1 DEF FeaturesInv, FeaturesComputed
<1>3. PanicCaused'
  BY <1>1 DEF FeaturesInv, PanicCaused
<1> QED
  BY <1>2, <1>3 DEF FeaturesInv

LEMMA ScoreFeatures ==
  ASSUME FeaturesInv, NEW i \in Words, Score(i), ~panicked
  PROVE  FeaturesInv'
<1>1. GoroutinesInv' /\ words' = words /\ index' = index /\ Words' = Words
  BY ScoreInv, SameQuery DEF FeaturesInv, Score
<1>2. PICK d : d = at[i] /\ d \in DOMAIN index[i] /\ d \in Docs /\ Row(rank[d])
  BY QueryIs DEF Score, FeaturesInv, GoroutinesInv, WordsInPlace, RankIsTable
<1>3. PICK a : a = Added(rank[d], i, d)
  OBVIOUS
<1>4. /\ Row(a)
      /\ a.QueryCoverage = rank[d].QueryCoverage /\ a.lenWordInURL = rank[d].lenWordInURL
  BY <1>2, <1>3, AddedIs
<1>5. PICK b : b = OnceForAll(a, i, d)
  OBVIOUS
<1>6. b.lenWordInURL = boyerMoorAlgorithm(URL[d], words)
  BY <1>4, <1>5, OnceForAllIs
<1>7. \/ rank' = [rank EXCEPT ![d] = a] /\ panicked' = panicked
      \/ rank' = [rank EXCEPT ![d] = b] /\ panicked' = OutOfRange(index[i][d])
  BY <1>2, <1>3, <1>5 DEF Score
<1>8. ASSUME NEW e \in Docs, rank'[e].QueryCoverage # 0
      PROVE  rank'[e].lenWordInURL = boyerMoorAlgorithm(URL[e], words)
  <2>1. CASE e # d
    <3>1. rank'[e] = rank[e]
      BY <1>7, <2>1 DEF FeaturesInv, GoroutinesInv, RankIsTable
    <3> QED
      BY <1>8, <3>1 DEF FeaturesInv, FeaturesComputed
  <2>2. CASE e = d /\ rank'[e] = a
    BY <1>4, <1>8, <2>2 DEF FeaturesInv, FeaturesComputed
  <2>3. CASE e = d /\ rank'[e] = b
    BY <1>6, <2>3
  <2>4. rank'[d] = a \/ rank'[d] = b
    BY <1>2, <1>7 DEF FeaturesInv, GoroutinesInv, RankIsTable
  <2> QED
    BY <2>1, <2>2, <2>3, <2>4
<1>9. FeaturesComputed'
  BY <1>1, <1>8 DEF FeaturesComputed
<1>10. PanicCaused'
  BY <1>1, <1>2, <1>7 DEF PanicCaused
<1> QED
  BY <1>1, <1>9, <1>10 DEF FeaturesInv

LEMMA NextFeaturesInv ==
  ASSUME FeaturesInv, [Next]_vars
  PROVE  FeaturesInv'
<1>1. ASSUME ~panicked, NEW i \in Words, WordStep(i) PROVE FeaturesInv'
  <2>1. CASE Score(i)
    BY <1>1, <2>1, ScoreFeatures
  <2>2. CASE Fetch(i) \/ Collect(i) \/ WordDone(i)
    <3>1. GoroutinesInv'
      BY <2>2, FetchInv, CollectInv, WordDoneInv DEF FeaturesInv
    <3>2. UNCHANGED <<query, rank, panicked>>
      BY <2>2 DEF Fetch, Collect, WordDone
    <3> QED
      BY <3>1, <3>2, SameFeatures
  <2> QED
    BY <1>1, <2>1, <2>2 DEF WordStep
<1>2. CASE SearchStep
  <2>1. GoroutinesInv'
    BY <1>2, HandleInv, SearchStepInv DEF SearchStep, FeaturesInv
  <2>2. UNCHANGED <<query, rank, panicked>>
    BY <1>2 DEF SearchStep, Handle, Vector, NoVector, Sort, Rank, RankFails, Ranked, goroutines
  <2> QED
    BY <2>1, <2>2, SameFeatures
<1>3. CASE UNCHANGED vars
  <2>1. GoroutinesInv'
    BY <1>3, StaysInv DEF FeaturesInv
  <2>2. UNCHANGED <<query, rank, panicked>>
    BY <1>3 DEF vars, goroutines
  <2> QED
    BY <2>1, <2>2, SameFeatures
<1> QED
  BY <1>1, <1>2, <1>3 DEF Next, Over

LEMMA PosOfAscends ==
  ASSUME NEW p, IsPosting(p)
  PROVE  Ascending(PosOf(p))
<1>1. PICK n \in Nat : n = Len(p.Positions) /\ DOMAIN p.Positions = 1..n
  BY DEF IsPosting
<1>2. PosOf(p) = [k \in 1..n |-> p.Positions[k].I]
  BY <1>1 DEF PosOf
<1>3. \A k \in 1..n : p.Positions[k].I \in Nat /\ p.Positions[k].I < MaxInt
  BY <1>1 DEF IsPosting
<1>4. PosOf(p) \in [1..n -> Nat] /\ Len(PosOf(p)) = n
  BY <1>2, <1>3
<1>5. \A k, l \in 1..n : k < l => p.Positions[k].I < p.Positions[l].I
  BY <1>1 DEF IsPosting
<1> QED
  BY <1>2, <1>3, <1>4, <1>5 DEF Ascending

\* The lists of positions of a document ascend, whichever word each is of.
LEMMA StretchIs ==
  ASSUME GoroutinesInv, NEW d \in Docs, Having(d) # {}, NEW of \in [Words -> Having(d)],
         NEW ps, ps = [j \in Words |-> PosOf(index[of[j]][d])]
  PROVE  getMinQueryDistInDoc(ps, Len(words)) = ShortestSpan(ps, Len(words))
<1>1. /\ Words = 1..Len(words) /\ Len(words) \in Nat /\ Words = DOMAIN index
      /\ \A j \in Words : \A e \in DOMAIN index[j] : IsPosting(index[j][e])
  BY QueryIs DEF GoroutinesInv, WordsInPlace
<1>2. PICK n \in Nat \ {0} : n = Len(words)
  BY <1>1 DEF Having
<1>3. \A j \in Words : of[j] \in Words /\ d \in DOMAIN index[of[j]]
  BY DEF Having
<1>4. \A j \in Words : Ascending(PosOf(index[of[j]][d]))
  BY <1>1, <1>3, PosOfAscends
<1>5. \A j \in 1..n : Ascending(ps[j])
  BY <1>1, <1>2, <1>4
<1>6. AllAscend(ps, n)
  BY <1>5 DEF AllAscend
<1> QED
  BY <1>2, <1>6, SearchAssumption, ShortestFound

\* The greedy binary search returns the shortest chain through any lists of positions of a
\* document, the search by shifts counts only words that occur in the URL, and a goroutine
\* panics only over a word that occurs more often than positions are kept.
THEOREM FeaturesAreExact == Spec => []FeaturesExact
<1>1. FeaturesInv => FeaturesExact
  <2> SUFFICES ASSUME FeaturesInv PROVE FeaturesExact
    OBVIOUS
  <2>1. GoroutinesInv /\ PanicCaused
    BY DEF FeaturesInv
  <2>2. ASSUME NEW d \in Docs, rank[d].QueryCoverage # 0
        PROVE  rank[d].lenWordInURL <= PartsOf(URL[d], words, Words)
    <3>3. PICK url, ws, S : url = URL[d] /\ ws = words /\ S = Words
      OBVIOUS
    <3>4. IsFiniteSet(S) /\ \A j \in S : Spelled(url, ws[j])
      <4>1. query \in Queries
        BY <2>1 DEF GoroutinesInv, WordsInPlace
      <4>2. \A j \in Words : Spelled(URL[d], words[j])
        BY <4>1, SearchAssumption DEF words, Words
      <4> QED
        BY <3>3, <4>1, <4>2, QueryIs
    <3>5. FoundOf(url, ws, S) <= PartsOf(url, ws, S)
      BY <3>4, FoundAtMost
    <3>6. rank[d].lenWordInURL = FoundOf(url, ws, S)
      <4>1. boyerMoorAlgorithm(url, ws) = FoundOf(url, ws, DOMAIN ws)
        BY DEF boyerMoorAlgorithm, FoundOf
      <4>2. rank[d].lenWordInURL = boyerMoorAlgorithm(url, ws)
        BY <2>2, <3>3 DEF FeaturesInv, FeaturesComputed
      <4> QED
        BY <3>3, <4>1, <4>2 DEF Words
    <3> QED
      BY <3>3, <3>5, <3>6
  <2>3. ASSUME NEW d \in Docs, Having(d) # {}, NEW of \in [Words -> Having(d)]
        PROVE  LET positions == [j \in Words |-> PosOf(index[of[j]][d])]
               IN  getMinQueryDistInDoc(positions, Len(words)) = ShortestSpan(positions, Len(words))
    BY <2>1, <2>3, StretchIs
  <2> QED
    BY <2>1, <2>2, <2>3 DEF FeaturesExact, PartsOf, PanicCaused
<1>2. Init => FeaturesInv
  BY FeaturesInit
<1>3. FeaturesInv /\ [Next]_vars => FeaturesInv'
  BY NextFeaturesInv
<1> QED
  BY <1>1, <1>2, <1>3, PTL DEF Spec
=============================================================================
