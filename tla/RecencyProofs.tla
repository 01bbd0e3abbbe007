--------------------------- MODULE RecencyProofs ---------------------------
(***************************************************************************)
(* What the operations of a bounded cache keep: its capacity, at most one  *)
(* entry per key, and that nothing but the entry put is new in it; and two *)
(* facts on numbers and sequences that the proofs on caches need.          *)
(***************************************************************************)
EXTENDS Recency, SequenceTheorems, WellFoundedInduction, TLAPS

\* The natural numbers are the least set with 0 and the successors of its members.
LEMMA SetInduction ==
  ASSUME NEW T, 0 \in T, \A n \in Nat : n \in T => n + 1 \in T
  PROVE  Nat \subseteq T
<1> DEFINE R == OpToRel(<, Nat)
<1>1. \A y, x \in Nat : y < x => <<y, x>> \in R
  BY DEF OpToRel
<1>2. IsWellFoundedOn(R, Nat)
  BY NatLessThanWellFounded
<1> HIDE DEF R
<1>3. ASSUME Nat \ T # {} PROVE FALSE
  <2>1. PICK x \in Nat \ T : \A y \in Nat \ T : ~(<<y, x>> \in R)
    BY <1>2, <1>3, WFMin
  <2>2. x # 0 /\ x - 1 \in Nat /\ (x - 1) + 1 = x /\ x - 1 < x
    BY <2>1
  <2>3. x - 1 \notin T
    BY <2>1, <2>2
  <2> QED
    BY <1>1, <2>1, <2>2, <2>3
<1> QED
  BY <1>3

OneEntryPerKey(cache) ==
  \A i, j \in 1..Len(cache) : cache[i].key = cache[j].key => i = j

\* The place of a key that is there.
LEMMA PlaceOfKey ==
  ASSUME NEW cache, NEW k, Has(cache, k)
  PROVE  Place(cache, k) \in 1..Len(cache) /\ cache[Place(cache, k)].key = k
BY DEF Has, Place

\* A sequence without its p-th element.
Cut(s, p) == SubSeq(s, 1, p - 1) \o SubSeq(s, p + 1, Len(s))

LEMMA CutSeq ==
  ASSUME NEW E, NEW s \in Seq(E), NEW p \in 1..Len(s)
  PROVE  /\ Cut(s, p) \in Seq(E) /\ Len(Cut(s, p)) = Len(s) - 1 /\ Len(s) \in Nat \ {0}
         /\ \A i \in 1..Len(Cut(s, p)) :
              Cut(s, p)[i] = s[IF i < p THEN i ELSE i + 1]
<1> DEFINE left == SubSeq(s, 1, p - 1)
           right == SubSeq(s, p + 1, Len(s))
<1>1. Len(s) \in Nat \ {0} /\ p \in Nat \ {0} /\ p <= Len(s)
  OBVIOUS
<1>2. /\ left \in Seq(E) /\ Len(left) = p - 1
      /\ \A i \in 1..(p - 1) : left[i] = s[i]
  BY <1>1
<1>3. /\ right \in Seq(E) /\ Len(right) = Len(s) - p
      /\ \A i \in 1..(Len(s) - p) : right[i] = s[p + i]
  BY <1>1
<1>4. Cut(s, p) = left \o right
  BY DEF Cut
<1> HIDE DEF left, right
<1>5. /\ left \o right \in Seq(E) /\ Len(left \o right) = Len(left) + Len(right)
      /\ \A i \in 1..(Len(left) + Len(right)) :
           (left \o right)[i] = IF i <= Len(left) THEN left[i] ELSE right[i - Len(left)]
  BY <1>2, <1>3, ConcatProperties
<1>6. Len(Cut(s, p)) = Len(s) - 1 /\ Len(left) = p - 1
  BY <1>1, <1>2, <1>3, <1>4, <1>5
<1>7. ASSUME NEW i \in 1..(Len(s) - 1)
      PROVE  (left \o right)[i] = s[IF i < p THEN i ELSE i + 1]
  <2>1. CASE i < p
    BY <1>1, <1>2, <1>3, <1>5, <2>1
  <2>2. CASE ~(i < p)
    <3>1. /\ i - (p - 1) \in 1..(Len(s) - p) /\ p + (i - (p - 1)) = i + 1
          /\ i \in 1..(Len(left) + Len(right)) /\ ~(i <= Len(left))
      BY <1>1, <1>2, <1>3, <2>2
    <3> QED
      BY <1>2, <1>3, <1>5, <2>2, <3>1
  <2> QED
    BY <2>1, <2>2
<1> QED
  BY <1>1, <1>4, <1>5, <1>6, <1>7

\* An entry is taken out, and the others stay in their order.
LEMMA WithoutKey ==
  ASSUME NEW E, NEW cache \in Seq(E), NEW k
  PROVE  /\ Without(cache, k) \in Seq(E)
         /\ Len(Without(cache, k)) = IF Has(cache, k) THEN Len(cache) - 1 ELSE Len(cache)
         /\ \A i \in 1..Len(Without(cache, k)) :
              \E j \in 1..Len(cache) : /\ Without(cache, k)[i] = cache[j]
                                       /\ j = IF Has(cache, k) /\ i >= Place(cache, k) THEN i + 1 ELSE i
<1>1. CASE ~Has(cache, k)
  BY <1>1 DEF Without
<1>2. CASE Has(cache, k)
  <2>1. PICK p \in 1..Len(cache) : p = Place(cache, k)
    BY <1>2, PlaceOfKey
  <2>2. Without(cache, k) = Cut(cache, p)
    BY <1>2, <2>1 DEF Without, Cut
  <2>3. /\ Cut(cache, p) \in Seq(E) /\ Len(Cut(cache, p)) = Len(cache) - 1 /\ Len(cache) \in Nat \ {0}
        /\ \A i \in 1..Len(Cut(cache, p)) : Cut(cache, p)[i] = cache[IF i < p THEN i ELSE i + 1]
    BY CutSeq
  <2> QED
    BY <1>2, <2>1, <2>2, <2>3
<1> QED
  BY <1>1, <1>2

\* Taking out the entry of a key leaves none, and one for each other key.
LEMMA WithoutDistinct ==
  ASSUME NEW E, NEW cache \in Seq(E), NEW k, OneEntryPerKey(cache)
  PROVE  /\ OneEntryPerKey(Without(cache, k))
         /\ \A i \in 1..Len(Without(cache, k)) : Without(cache, k)[i].key # k
<1> DEFINE w == Without(cache, k)
           to(i) == IF Has(cache, k) /\ i >= Place(cache, k) THEN i + 1 ELSE i
<1>1. /\ w \in Seq(E) /\ Len(w) \in Nat
      /\ \A i \in 1..Len(w) : to(i) \in 1..Len(cache) /\ w[i] = cache[to(i)]
  BY WithoutKey
<1> HIDE DEF w
<1>2. \A i, j \in 1..Len(w) : to(i) = to(j) => i = j
  <2>1. CASE Has(cache, k)
    <3>1. Place(cache, k) \in Nat
      BY <2>1, PlaceOfKey
    <3> QED
      BY <1>1, <2>1, <3>1
  <2> QED
    BY <2>1
<1>3. OneEntryPerKey(w)
  BY <1>1, <1>2 DEF OneEntryPerKey
<1>4. ASSUME NEW i \in 1..Len(w), w[i].key = k PROVE FALSE
  <2>1. Has(cache, k)
    BY <1>1, <1>4 DEF Has
  <2>2. Place(cache, k) \in 1..Len(cache) /\ cache[Place(cache, k)].key = k
    BY <2>1, PlaceOfKey
  <2>3. to(i) = Place(cache, k)
    BY <1>1, <1>4, <2>2 DEF OneEntryPerKey
  <2> QED
    BY <1>1, <2>1, <2>2, <2>3
<1> QED
  BY <1>3, <1>4 DEF w

\* One entry in front of others.
LEMMA Front ==
  ASSUME NEW E, NEW e \in E, NEW s \in Seq(E)
  PROVE  /\ <<e>> \o s \in Seq(E) /\ Len(<<e>> \o s) = Len(s) + 1
         /\ (<<e>> \o s)[1] = e /\ <<e>> \o s # <<>>
         /\ \A i \in 2..Len(<<e>> \o s) : i - 1 \in 1..Len(s) /\ (<<e>> \o s)[i] = s[i - 1]
<1>1. /\ <<e>> \in Seq(E) /\ Len(<<e>>) = 1 /\ <<e>>[1] = e
      /\ Len(s) \in Nat
  OBVIOUS
<1>2. /\ <<e>> \o s \in Seq(E) /\ Len(<<e>> \o s) = 1 + Len(s)
      /\ \A i \in 1..(1 + Len(s)) : (<<e>> \o s)[i] = IF i <= 1 THEN <<e>>[i] ELSE s[i - 1]
  BY <1>1, ConcatProperties
<1> QED
  BY <1>1, <1>2

\* It may go in front when it is the first of its key.
LEMMA OneMore ==
  ASSUME NEW E, NEW e \in E, NEW s \in Seq(E), OneEntryPerKey(s),
         \A i \in 1..Len(s) : s[i].key # e.key
  PROVE  OneEntryPerKey(<<e>> \o s)
<1> DEFINE t == <<e>> \o s
<1>1. /\ t \in Seq(E) /\ Len(t) = Len(s) + 1 /\ t[1] = e /\ Len(s) \in Nat
      /\ \A i \in 2..Len(t) : i - 1 \in 1..Len(s) /\ t[i] = s[i - 1]
  BY Front
<1> HIDE DEF t
<1>2. ASSUME NEW i \in 1..Len(t), NEW j \in 1..Len(t), t[i].key = t[j].key
      PROVE  i = j
  <2>1. CASE i = 1 /\ j = 1
    BY <2>1
  <2>2. CASE i = 1 /\ j \in 2..Len(t)
    BY <1>1, <1>2, <2>2
  <2>3. CASE i \in 2..Len(t) /\ j = 1
    BY <1>1, <1>2, <2>3
  <2>4. CASE i \in 2..Len(t) /\ j \in 2..Len(t)
    <3>1. i - 1 = j - 1
      BY <1>1, <1>2, <2>4 DEF OneEntryPerKey
    <3> QED
      BY <2>4, <3>1
  <2> QED
    BY <1>1, <2>1, <2>2, <2>3, <2>4
<1> QED
  BY <1>2 DEF OneEntryPerKey, t

\* What a hit leaves in the cache was there before.
LEMMA AfterGetEntries ==
  ASSUME NEW E, \A x \in E : Entry(x.key, x.value) = x,
         NEW cache \in Seq(E), NEW k, Has(cache, k)
  PROVE  /\ AfterGet(cache, k) \in Seq(E)
         /\ Len(AfterGet(cache, k)) = Len(cache)
         /\ \A i \in 1..Len(AfterGet(cache, k)) : \E j \in 1..Len(cache) : AfterGet(cache, k)[i] = cache[j]
         /\ \E j \in 1..Len(cache) : cache[j].key = k /\ Lookup(cache, k) = cache[j].value
         /\ OneEntryPerKey(cache) => OneEntryPerKey(AfterGet(cache, k))
<1> DEFINE w == Without(cache, k)
           e == Entry(k, Lookup(cache, k))
<1>1. Place(cache, k) \in 1..Len(cache) /\ cache[Place(cache, k)].key = k
  BY PlaceOfKey
<1>2. cache[Place(cache, k)] \in E /\ e = cache[Place(cache, k)] /\ e.key = k
  <2>1. cache[Place(cache, k)] \in E
    BY <1>1
  <2>2. e = Entry(cache[Place(cache, k)].key, cache[Place(cache, k)].value)
    BY <1>1 DEF Lookup
  <2> HIDE DEF e
  <2> QED
    BY <1>1, <2>1, <2>2
<1>3. AfterGet(cache, k) = <<e>> \o w
  BY DEF AfterGet
<1>4. /\ w \in Seq(E) /\ Len(w) = Len(cache) - 1 /\ Len(cache) \in Nat
      /\ \A i \in 1..Len(w) : \E j \in 1..Len(cache) : w[i] = cache[j]
  BY WithoutKey
<1>5. ASSUME OneEntryPerKey(cache)
      PROVE  OneEntryPerKey(w) /\ \A i \in 1..Len(w) : w[i].key # k
  BY <1>5, WithoutDistinct
<1>6. \E j \in 1..Len(cache) : cache[j].key = k /\ Lookup(cache, k) = cache[j].value
  BY <1>1 DEF Lookup
<1> HIDE DEF w, e
<1>7. /\ <<e>> \o w \in Seq(E) /\ Len(<<e>> \o w) = Len(w) + 1
      /\ (<<e>> \o w)[1] = e
      /\ \A i \in 2..Len(<<e>> \o w) : i - 1 \in 1..Len(w) /\ (<<e>> \o w)[i] = w[i - 1]
  BY <1>2, <1>4, Front
<1>8. \A i \in 1..Len(<<e>> \o w) : \E j \in 1..Len(cache) : (<<e>> \o w)[i] = cache[j]
  BY <1>1, <1>2, <1>4, <1>7
<1>9. ASSUME OneEntryPerKey(cache) PROVE OneEntryPerKey(<<e>> \o w)
  BY <1>2, <1>4, <1>5, <1>9, OneMore
<1>10. Len(<<e>> \o w) = Len(cache)
  BY <1>4, <1>7
<1> QED
  BY <1>3, <1>6, <1>7, <1>8, <1>9, <1>10

\* Put: the entry comes first, what follows was there before, and the capacity is kept.
LEMMA AfterPutEntries ==
  ASSUME NEW E, NEW cache \in Seq(E), NEW k, NEW v, Entry(k, v) \in E,
         NEW capacity \in Nat \ {0}, Len(cache) <= capacity
  PROVE  /\ AfterPut(cache, k, v, capacity) \in Seq(E)
         /\ Len(AfterPut(cache, k, v, capacity)) <= capacity
         /\ AfterPut(cache, k, v, capacity)[1] = Entry(k, v)
         /\ \A i \in 1..Len(AfterPut(cache, k, v, capacity)) :
              \/ AfterPut(cache, k, v, capacity)[i] = Entry(k, v)
              \/ \E j \in 1..Len(cache) : AfterPut(cache, k, v, capacity)[i] = cache[j]
         /\ OneEntryPerKey(cache) => OneEntryPerKey(AfterPut(cache, k, v, capacity))
<1> DEFINE w == Without(cache, k)
           e == Entry(k, v)
           kept == IF Len(w) = capacity THEN SubSeq(w, 1, capacity - 1) ELSE w
<1>1. e \in E /\ e.key = k
  BY DEF Entry
<1>2. AfterPut(cache, k, v, capacity) = <<e>> \o kept
  BY DEF AfterPut
<1>3. /\ w \in Seq(E) /\ Len(w) \in Nat /\ Len(w) <= capacity
      /\ \A i \in 1..Len(w) : \E j \in 1..Len(cache) : w[i] = cache[j]
  <2>1. /\ w \in Seq(E) /\ Len(cache) \in Nat
        /\ Len(w) = IF Has(cache, k) THEN Len(cache) - 1 ELSE Len(cache)
        /\ \A i \in 1..Len(w) : \E j \in 1..Len(cache) : w[i] = cache[j]
    BY WithoutKey
  <2> HIDE DEF w
  <2> QED
    BY <2>1
<1>4. ASSUME OneEntryPerKey(cache)
      PROVE  OneEntryPerKey(w) /\ \A i \in 1..Len(w) : w[i].key # k
  BY <1>4, WithoutDistinct
<1> HIDE DEF w, e
<1>5. /\ kept \in Seq(E) /\ Len(kept) \in Nat /\ Len(kept) + 1 <= capacity
      /\ \A i \in 1..Len(kept) : i \in 1..Len(w) /\ kept[i] = w[i]
  <2>1. CASE Len(w) = capacity
    <3>1. kept = SubSeq(w, 1, capacity - 1) /\ capacity - 1 \in Nat
      BY <2>1
    <3> HIDE DEF kept
    <3>2. kept \in Seq(E) /\ Len(kept) = capacity - 1 /\ \A i \in 1..(capacity - 1) : kept[i] = w[i]
      BY <1>3, <2>1, <3>1
    <3> QED
      BY <1>3, <2>1, <3>2
  <2>2. CASE Len(w) # capacity
    BY <1>3, <2>2
  <2> QED
    BY <2>1, <2>2
<1> HIDE DEF kept
<1>6. /\ <<e>> \o kept \in Seq(E) /\ Len(<<e>> \o kept) = Len(kept) + 1
      /\ (<<e>> \o kept)[1] = e
      /\ \A i \in 2..Len(<<e>> \o kept) : i - 1 \in 1..Len(kept) /\ (<<e>> \o kept)[i] = kept[i - 1]
  BY <1>1, <1>5, Front
<1>7. \A i \in 1..Len(<<e>> \o kept) :
        (<<e>> \o kept)[i] = e \/ \E j \in 1..Len(cache) : (<<e>> \o kept)[i] = cache[j]
  BY <1>3, <1>5, <1>6
<1>8. ASSUME OneEntryPerKey(cache) PROVE OneEntryPerKey(<<e>> \o kept)
  <2>1. OneEntryPerKey(kept) /\ \A i \in 1..Len(kept) : kept[i].key # e.key
    BY <1>1, <1>4, <1>5, <1>8 DEF OneEntryPerKey
  <2> QED
    BY <1>1, <1>5, <2>1, OneMore
<1>9. Len(<<e>> \o kept) <= capacity
  BY <1>5, <1>6
<1> QED
  BY <1>2, <1>6, <1>7, <1>8, <1>9 DEF e
=============================================================================
