--------------------------- MODULE LRUCacheProofs ---------------------------
(***************************************************************************)
(* The linked list and the map of LRUCache agree, and the steps on them    *)
(* are those of LRUSpec, for any keys, values, capacity and store of       *)
(* nodes.  The inductive invariant is that some sequence of nodes is what  *)
(* the pointers lead over in both directions and what the map holds; the   *)
(* lemmas say how remove and insert change that sequence.                  *)
(***************************************************************************)
EXTENDS LRUCache, RecencyProofs, FiniteSetTheorems, FunctionTheorems

\* The pointers lead over s and back, and no node is on it twice.
Chained(fw, bw, s) ==
  /\ s \in Seq(Nodes)
  /\ \A i, j \in 1..Len(s) : s[i] = s[j] => i = j
  /\ LeadsOver(fw, s)
  /\ \A i \in 0..Len(s) : bw[Stop(s, i + 1)] = Stop(s, i)

\* The map holds the nodes of s, each under its key.
Held(m, ky, vl, s) ==
  /\ \A i \in 1..Len(s) : ky[s[i]] \in Keys /\ m[ky[s[i]]] = s[i] /\ vl[s[i]] \in Values
  /\ \A k \in Keys : m[k] # Nil => \E i \in 1..Len(s) : m[k] = s[i] /\ ky[s[i]] = k

ListIs(s) == Chained(next, prev, s) /\ Held(mp, key, value, s) /\ Len(s) <= Capacity

ListInv == TypeOK /\ \E s : ListIs(s)

Pointers == [Linked -> Linked \cup {Nil}]
-----------------------------------------------------------------------------
(* Walks *)

LEMMA StopIs ==
  ASSUME NEW s \in Seq(Nodes)
  PROVE  /\ Len(s) \in Nat
         /\ Stop(s, 0) = HeadNode /\ Stop(s, Len(s) + 1) = TailNode
         /\ \A i \in 1..Len(s) : Stop(s, i) = s[i] /\ s[i] \in Nodes
         /\ \A i \in 0..(Len(s) + 1) : Stop(s, i) \in Linked
<1>1. Len(s) \in Nat /\ \A i \in 1..Len(s) : s[i] \in Nodes
  OBVIOUS
<1>2. Stop(s, 0) = HeadNode /\ Stop(s, Len(s) + 1) = TailNode
  BY <1>1 DEF Stop
<1>3. \A i \in 1..Len(s) : Stop(s, i) = s[i]
  BY <1>1 DEF Stop
<1>4. \A i \in 0..(Len(s) + 1) : Stop(s, i) \in Linked
  BY <1>1 DEF Stop, Linked
<1> QED
  BY <1>1, <1>2, <1>3, <1>4

\* A walk is nowhere twice.
LEMMA StopOnce ==
  ASSUME NEW s \in Seq(Nodes), \A i, j \in 1..Len(s) : s[i] = s[j] => i = j,
         NEW i \in 0..(Len(s) + 1), NEW j \in 0..(Len(s) + 1), Stop(s, i) = Stop(s, j)
  PROVE  i = j
<1>1. /\ Len(s) \in Nat /\ \A m \in 1..Len(s) : s[m] \in Nodes
      /\ HeadNode # TailNode /\ HeadNode \notin Nodes /\ TailNode \notin Nodes
  BY StopIs, LRUCacheAssumption
<1>2. CASE i = 0 \/ j = 0
  BY <1>1, <1>2 DEF Stop
<1>3. CASE i = Len(s) + 1 \/ j = Len(s) + 1
  BY <1>1, <1>3 DEF Stop
<1>4. CASE i \in 1..Len(s) /\ j \in 1..Len(s)
  BY <1>1, <1>4 DEF Stop
<1> QED
  BY <1>1, <1>2, <1>3, <1>4

\* Pointers lead over one sequence only.
LEMMA OneWalk ==
  ASSUME NEW fw, NEW s \in Seq(Nodes), NEW t \in Seq(Nodes), LeadsOver(fw, s), LeadsOver(fw, t)
  PROVE  s = t
<1> DEFINE Same == {n \in Nat : n <= Len(s) + 1 /\ n <= Len(t) + 1 => Stop(s, n) = Stop(t, n)}
<1>1. Len(s) \in Nat /\ Len(t) \in Nat
  BY StopIs
<1>2. 0 \in Same
  BY DEF Stop
<1>3. ASSUME NEW n \in Nat, n \in Same PROVE n + 1 \in Same
  BY <1>1, <1>3 DEF LeadsOver
<1>4. Nat \subseteq Same
  <2> HIDE DEF Same
  <2> QED
    BY <1>2, <1>3, SetInduction
<1>5. \A n \in Nat : n <= Len(s) + 1 /\ n <= Len(t) + 1 => Stop(s, n) = Stop(t, n)
  BY <1>4
<1>6. TailNode \notin Nodes
  BY LRUCacheAssumption
<1>7. ASSUME NEW a \in Seq(Nodes), NEW b \in Seq(Nodes), Len(a) < Len(b),
             Stop(a, Len(a) + 1) = Stop(b, Len(a) + 1)
      PROVE  FALSE
  BY <1>6, <1>7, StopIs
<1>8. Len(s) = Len(t)
  BY <1>1, <1>5, <1>7
<1>9. \A i \in 1..Len(s) : s[i] = t[i]
  BY <1>1, <1>5, <1>8, StopIs
<1> QED
  BY <1>8, <1>9, SeqEqual

\* NodesFrom finds it.
LEMMA WalkFound ==
  ASSUME NEW fw, NEW s \in Seq(Nodes), LeadsOver(fw, s), Len(s) <= Capacity
  PROVE  (CHOOSE t \in Lists : LeadsOver(fw, t)) = s
<1>1. Cardinality(Nodes) \in Nat /\ Capacity \in Nat /\ Capacity < Cardinality(Nodes)
  BY LRUCacheAssumption, FS_CardinalityType
<1>2. Len(s) \in 0..Cardinality(Nodes) /\ s \in [1..Len(s) -> Nodes]
  BY <1>1, LenProperties
<1>3. s \in Lists
  BY <1>2 DEF Lists
<1>4. \A t \in Lists : t \in Seq(Nodes)
  BY <1>1, SeqDef DEF Lists
<1> QED
  BY <1>3, <1>4, OneWalk
-----------------------------------------------------------------------------
(* What remove does to the sequence *)

LEMMA StopOfCut ==
  ASSUME NEW s \in Seq(Nodes), NEW p \in 1..Len(s)
  PROVE  /\ Cut(s, p) \in Seq(Nodes) /\ Len(Cut(s, p)) = Len(s) - 1 /\ Len(s) \in Nat \ {0}
         /\ \A i \in 0..Len(s) : Stop(Cut(s, p), i) = Stop(s, IF i < p THEN i ELSE i + 1)
<1>1. /\ Cut(s, p) \in Seq(Nodes) /\ Len(Cut(s, p)) = Len(s) - 1 /\ Len(s) \in Nat \ {0}
      /\ \A i \in 1..Len(Cut(s, p)) : Cut(s, p)[i] = s[IF i < p THEN i ELSE i + 1]
  BY CutSeq
<1>2. ASSUME NEW i \in 0..Len(s)
      PROVE  Stop(Cut(s, p), i) = Stop(s, IF i < p THEN i ELSE i + 1)
  <2>1. CASE i = 0
    BY <2>1 DEF Stop
  <2>2. CASE i = Len(s)
    BY <1>1, <2>2 DEF Stop
  <2>3. CASE i \in 1..(Len(s) - 1)
    BY <1>1, <2>3 DEF Stop
  <2> QED
    BY <1>1, <2>1, <2>2, <2>3
<1> QED
  BY <1>1, <1>2

LEMMA CutChained ==
  ASSUME NEW fw \in Pointers, NEW bw \in Pointers, NEW s, Chained(fw, bw, s), NEW p \in 1..Len(s),
         NEW n, n = s[p]
  PROVE  /\ [fw EXCEPT ![bw[n]] = fw[n]] \in Pointers /\ [bw EXCEPT ![fw[n]] = bw[n]] \in Pointers
         /\ Chained([fw EXCEPT ![bw[n]] = fw[n]], [bw EXCEPT ![fw[n]] = bw[n]], Cut(s, p))
<1>1. /\ s \in Seq(Nodes) /\ \A i, j \in 1..Len(s) : s[i] = s[j] => i = j
      /\ \A i \in 0..Len(s) : fw[Stop(s, i)] = Stop(s, i + 1) /\ bw[Stop(s, i + 1)] = Stop(s, i)
  BY DEF Chained, LeadsOver
<1>2. /\ Len(s) \in Nat \ {0} /\ p \in Nat \ {0} /\ p <= Len(s) /\ p - 1 \in 0..Len(s)
      /\ Stop(s, p) = n
      /\ \A i \in 0..(Len(s) + 1) : Stop(s, i) \in Linked
  BY <1>1, StopIs
<1>3. fw[n] = Stop(s, p + 1) /\ bw[n] = Stop(s, p - 1)
  BY <1>1, <1>2
<1>4. fw[n] \in Linked /\ bw[n] \in Linked
  BY <1>2, <1>3
<1> DEFINE t == Cut(s, p)
           at(i) == IF i < p THEN i ELSE i + 1
<1>5. /\ t \in Seq(Nodes) /\ Len(t) = Len(s) - 1
      /\ \A i \in 0..Len(s) : Stop(t, i) = Stop(s, at(i))
      /\ \A i \in 1..Len(t) : t[i] = s[at(i)]
  BY <1>1, StopOfCut, CutSeq
<1> HIDE DEF t
<1>6. PICK fw2 \in Pointers : fw2 = [fw EXCEPT ![bw[n]] = fw[n]]
  BY <1>4 DEF Pointers
<1>7. PICK bw2 \in Pointers : bw2 = [bw EXCEPT ![fw[n]] = bw[n]]
  BY <1>4 DEF Pointers
<1>8. \A i, j \in 1..Len(t) : t[i] = t[j] => i = j
  <2>1. \A i \in 1..Len(t) : at(i) \in 1..Len(s)
    BY <1>2, <1>5
  <2>2. \A i, j \in 1..Len(t) : at(i) = at(j) => i = j
    BY <1>2, <1>5
  <2> HIDE DEF at
  <2> QED
    BY <1>1, <1>5, <2>1, <2>2, SMTT(60)
<1>9. ASSUME NEW i \in 0..Len(t)
      PROVE  fw2[Stop(t, i)] = Stop(t, i + 1) /\ bw2[Stop(t, i + 1)] = Stop(t, i)
  <2>1. /\ Stop(t, i) = Stop(s, at(i)) /\ Stop(t, i + 1) = Stop(s, at(i + 1))
        /\ at(i) \in 0..Len(s) /\ at(i + 1) \in 1..(Len(s) + 1)
    BY <1>2, <1>5
  <2>2. CASE i = p - 1
    <3>1. at(i) = p - 1 /\ at(i + 1) = p + 1
      BY <1>2, <2>2
    <3> QED
      BY <1>3, <1>4, <1>6, <1>7, <2>1, <3>1 DEF Pointers
  <2>3. CASE i # p - 1
    <3>1. at(i + 1) = at(i) + 1 /\ at(i) # p - 1 /\ at(i) + 1 # p + 1
      BY <1>2, <2>3
    <3>2. Stop(s, at(i)) # bw[n] /\ Stop(s, at(i) + 1) # fw[n]
      <4>1. p - 1 \in 0..(Len(s) + 1) /\ p + 1 \in 0..(Len(s) + 1)
            /\ at(i) \in 0..(Len(s) + 1) /\ at(i) + 1 \in 0..(Len(s) + 1)
        BY <1>2, <2>1, <3>1
      <4> HIDE DEF at
      <4>2. Stop(s, at(i)) # Stop(s, p - 1)
        BY <1>1, <3>1, <4>1, StopOnce
      <4>3. Stop(s, at(i) + 1) # Stop(s, p + 1)
        BY <1>1, <3>1, <4>1, StopOnce
      <4> QED
        BY <1>3, <4>2, <4>3
    <3>3. Stop(s, at(i)) \in Linked /\ Stop(s, at(i) + 1) \in Linked
      BY <1>2, <2>1, <3>1
    <3>4. fw2[Stop(s, at(i))] = fw[Stop(s, at(i))] /\ bw2[Stop(s, at(i) + 1)] = bw[Stop(s, at(i) + 1)]
      BY <1>6, <1>7, <3>2, <3>3 DEF Pointers
    <3> QED
      BY <1>1, <2>1, <3>1, <3>4
  <2> QED
    BY <2>2, <2>3
<1>10. Chained(fw2, bw2, t)
  BY <1>5, <1>8, <1>9 DEF Chained, LeadsOver
<1> QED
  BY <1>6, <1>7, <1>10 DEF t

LEMMA CutHeld ==
  ASSUME NEW m \in [Keys -> Nodes \cup {Nil}], NEW ky, NEW vl, NEW s \in Seq(Nodes),
         \A i, j \in 1..Len(s) : s[i] = s[j] => i = j,
         Held(m, ky, vl, s), NEW p \in 1..Len(s), NEW n, n = s[p]
  PROVE  /\ [m EXCEPT ![ky[n]] = Nil] \in [Keys -> Nodes \cup {Nil}]
         /\ Held([m EXCEPT ![ky[n]] = Nil], ky, vl, Cut(s, p))
         /\ [m EXCEPT ![ky[n]] = Nil][ky[n]] = Nil /\ ky[n] \in Keys
         /\ \A k \in Keys : m[k] = Nil => [m EXCEPT ![ky[n]] = Nil][k] = Nil
<1> DEFINE t == Cut(s, p)
           at(i) == IF i < p THEN i ELSE i + 1
<1>1. /\ Len(t) = Len(s) - 1 /\ Len(s) \in Nat \ {0}
      /\ \A i \in 1..Len(t) : t[i] = s[at(i)]
  BY CutSeq
<1> HIDE DEF t
<1>2. \A i \in 1..Len(t) : at(i) \in 1..Len(s) /\ at(i) # p
  BY <1>1
<1>3. \A j \in 1..Len(s) : j # p => \E i \in 1..Len(t) : j = at(i)
  <2> SUFFICES ASSUME NEW j \in 1..Len(s), j # p PROVE \E i \in 1..Len(t) : j = at(i)
    OBVIOUS
  <2>1. CASE j < p
    <3>1. j \in 1..Len(t) /\ j = at(j)
      BY <1>1, <2>1
    <3> QED
      BY <3>1
  <2>2. CASE j > p
    <3>1. j - 1 \in 1..Len(t) /\ j = at(j - 1)
      BY <1>1, <2>2
    <3> QED
      BY <3>1
  <2> QED
    BY <2>1, <2>2
<1> HIDE DEF at
<1>4. /\ \A i \in 1..Len(s) : ky[s[i]] \in Keys /\ m[ky[s[i]]] = s[i] /\ vl[s[i]] \in Values
      /\ \A k \in Keys : m[k] # Nil => \E i \in 1..Len(s) : m[k] = s[i] /\ ky[s[i]] = k
  BY DEF Held
<1>5. ky[n] \in Keys
  BY <1>4
<1>6. PICK m2 \in [Keys -> Nodes \cup {Nil}] : m2 = [m EXCEPT ![ky[n]] = Nil]
  OBVIOUS
<1>7. m2[ky[n]] = Nil /\ \A k \in Keys : k # ky[n] => m2[k] = m[k]
  BY <1>5, <1>6
<1>8. \A i \in 1..Len(s) : i # p => ky[s[i]] # ky[n]
  BY <1>4
<1>9. \A i \in 1..Len(t) : ky[t[i]] \in Keys /\ m2[ky[t[i]]] = t[i] /\ vl[t[i]] \in Values
  BY <1>1, <1>2, <1>4, <1>7, <1>8
<1>10. ASSUME NEW k \in Keys, m2[k] # Nil
       PROVE  \E i \in 1..Len(t) : m2[k] = t[i] /\ ky[t[i]] = k
  <2>1. k # ky[n] /\ m2[k] = m[k]
    BY <1>7, <1>10
  <2>2. PICK j \in 1..Len(s) : m[k] = s[j] /\ ky[s[j]] = k
    BY <1>4, <1>10, <2>1
  <2>3. j # p
    BY <2>1, <2>2
  <2> QED
    BY <1>1, <1>3, <2>1, <2>2, <2>3, SMTT(60)
<1>11. Held(m2, ky, vl, t)
  BY <1>9, <1>10 DEF Held
<1> QED
  BY <1>5, <1>6, <1>7, <1>11 DEF t
-----------------------------------------------------------------------------
(* What insert does to it *)

LEMMA StopOfFront ==
  ASSUME NEW s \in Seq(Nodes), NEW n \in Nodes
  PROVE  /\ <<n>> \o s \in Seq(Nodes) /\ Len(<<n>> \o s) = Len(s) + 1 /\ Len(s) \in Nat
         /\ (<<n>> \o s)[1] = n
         /\ \A i \in 2..(Len(s) + 1) : (<<n>> \o s)[i] = s[i - 1]
         /\ Stop(<<n>> \o s, 0) = HeadNode
         /\ \A i \in 1..(Len(s) + 2) : Stop(<<n>> \o s, i) = IF i = 1 THEN n ELSE Stop(s, i - 1)
<1> DEFINE t == <<n>> \o s
<1>1. /\ t \in Seq(Nodes) /\ Len(t) = Len(s) + 1 /\ t[1] = n /\ Len(s) \in Nat
      /\ \A i \in 2..Len(t) : t[i] = s[i - 1]
  BY Front
<1> HIDE DEF t
<1>2. Stop(t, 0) = HeadNode
  BY DEF Stop
<1>3. ASSUME NEW i \in 1..(Len(s) + 2)
      PROVE  Stop(t, i) = IF i = 1 THEN n ELSE Stop(s, i - 1)
  <2>1. CASE i = 1
    BY <1>1, <2>1 DEF Stop
  <2>2. CASE i = Len(s) + 2
    BY <1>1, <2>2 DEF Stop
  <2>3. CASE i \in 2..(Len(s) + 1)
    BY <1>1, <2>3 DEF Stop
  <2> QED
    BY <1>1, <2>1, <2>2, <2>3
<1> QED
  BY <1>1, <1>2, <1>3 DEF t

\* A node is given a key and a value; the others keep theirs.
Written(ky, vl, n, k, ky2, vl2) ==
  /\ ky2[n] = k /\ vl2[n] \in Values
  /\ \A x \in Nodes : x # n => ky2[x] = ky[x] /\ vl2[x] = vl[x]

Off(n, s) == \A i \in 1..Len(s) : s[i] # n

LEMMA FrontChained ==
  ASSUME NEW fw \in Pointers, NEW bw \in Pointers, NEW s, Chained(fw, bw, s),
         NEW n \in Nodes, Off(n, s), NEW first, first = fw[HeadNode]
  PROVE  /\ [fw EXCEPT ![HeadNode] = n, ![n] = first] \in Pointers
         /\ [bw EXCEPT ![n] = HeadNode, ![first] = n] \in Pointers
         /\ Chained([fw EXCEPT ![HeadNode] = n, ![n] = first],
                    [bw EXCEPT ![n] = HeadNode, ![first] = n], <<n>> \o s)
<1>1. /\ s \in Seq(Nodes) /\ \A i, j \in 1..Len(s) : s[i] = s[j] => i = j
      /\ \A i \in 0..Len(s) : fw[Stop(s, i)] = Stop(s, i + 1) /\ bw[Stop(s, i + 1)] = Stop(s, i)
  BY DEF Chained, LeadsOver
<1>2. /\ Len(s) \in Nat /\ Stop(s, 0) = HeadNode
      /\ \A i \in 0..(Len(s) + 1) : Stop(s, i) \in Linked
      /\ \A i \in 1..Len(s) : Stop(s, i) = s[i]
  BY <1>1, StopIs
<1> USE DEF Off
<1>3. first = Stop(s, 1)
  BY <1>1, <1>2
<1>4. HeadNode \in Linked /\ n \in Linked /\ first \in Linked /\ HeadNode # n /\ TailNode # n
  BY <1>2, <1>3, LRUCacheAssumption DEF Linked
<1> DEFINE t == <<n>> \o s
<1>5. /\ t \in Seq(Nodes) /\ Len(t) = Len(s) + 1 /\ t[1] = n
      /\ \A i \in 2..(Len(s) + 1) : t[i] = s[i - 1]
      /\ Stop(t, 0) = HeadNode
      /\ \A i \in 1..(Len(s) + 2) : Stop(t, i) = IF i = 1 THEN n ELSE Stop(s, i - 1)
  <2>1. s \in Seq(Nodes)
    BY <1>1
  <2> QED
    BY ONLY <2>1, n \in Nodes, StopOfFront DEF t
<1> HIDE DEF t
<1>6. \A i \in 0..(Len(s) + 1) : Stop(s, i) # n
  <2> SUFFICES ASSUME NEW i \in 0..(Len(s) + 1) PROVE Stop(s, i) # n
    OBVIOUS
  <2>1. CASE i = 0 \/ i = Len(s) + 1
    BY <1>1, <1>4, <2>1, StopIs
  <2>2. CASE i \in 1..Len(s)
    BY <1>2, <2>2
  <2> QED
    BY <1>2, <2>1, <2>2
<1>7. \A i \in 1..(Len(s) + 1) : Stop(s, i) # HeadNode /\ (i # 1 => Stop(s, i) # first)
  <2> SUFFICES ASSUME NEW i \in 1..(Len(s) + 1)
               PROVE  Stop(s, i) # HeadNode /\ (i # 1 => Stop(s, i) # first)
    OBVIOUS
  <2>1. i \in 0..(Len(s) + 1) /\ 0 \in 0..(Len(s) + 1) /\ 1 \in 0..(Len(s) + 1) /\ i # 0
    BY <1>2
  <2> QED
    BY <1>1, <1>2, <1>3, <2>1, StopOnce
<1>8. PICK fw2 \in Pointers : fw2 = [fw EXCEPT ![HeadNode] = n, ![n] = first]
  BY <1>4 DEF Pointers
<1>9. PICK bw2 \in Pointers : bw2 = [bw EXCEPT ![n] = HeadNode, ![first] = n]
  BY <1>4 DEF Pointers
<1>10. /\ fw2[HeadNode] = n /\ fw2[n] = first
       /\ \A x \in Linked : x # HeadNode /\ x # n => fw2[x] = fw[x]
  BY <1>4, <1>8 DEF Pointers
<1>11. /\ bw2[n] = HeadNode /\ bw2[first] = n
       /\ \A x \in Linked : x # n /\ x # first => bw2[x] = bw[x]
  BY <1>2, <1>3, <1>4, <1>6, <1>9 DEF Pointers
<1>12. \A i, j \in 1..Len(t) : t[i] = t[j] => i = j
  <2> SUFFICES ASSUME NEW i \in 1..Len(t), NEW j \in 1..Len(t), t[i] = t[j] PROVE i = j
    OBVIOUS
  <2>1. CASE i = 1 \/ j = 1
    <3>1. \A m \in 2..(Len(s) + 1) : t[m] # n
      <4>1. \A m \in 2..(Len(s) + 1) : m - 1 \in 1..Len(s)
        BY <1>2
      <4> QED
        BY <1>5, <4>1
    <3>2. i \in 1..(Len(s) + 1) /\ j \in 1..(Len(s) + 1)
      BY <1>5
    <3> QED
      BY <1>2, <1>5, <2>1, <3>1, <3>2
  <2>2. CASE i # 1 /\ j # 1
    <3>1. i - 1 \in 1..Len(s) /\ j - 1 \in 1..Len(s) /\ s[i - 1] = s[j - 1]
      BY <1>2, <1>5, <2>2
    <3> QED
      BY <1>1, <3>1
  <2> QED
    BY <2>1, <2>2
<1>13. ASSUME NEW i \in 0..Len(t)
       PROVE  fw2[Stop(t, i)] = Stop(t, i + 1) /\ bw2[Stop(t, i + 1)] = Stop(t, i)
  <2>1. CASE i = 0
    BY <1>2, <1>5, <1>10, <1>11, <2>1
  <2>2. CASE i = 1
    BY <1>2, <1>3, <1>5, <1>10, <1>11, <2>2
  <2>3. CASE i \in 2..(Len(s) + 1)
    <3>1. /\ Stop(t, i) = Stop(s, i - 1) /\ Stop(t, i + 1) = Stop(s, (i - 1) + 1)
          /\ i - 1 \in 1..Len(s) /\ i - 1 \in 0..Len(s) /\ (i - 1) + 1 \in 2..(Len(s) + 1)
      BY <1>2, <1>5, <2>3
    <3>2. PICK j \in 1..Len(s) : j = i - 1
      BY <3>1
    <3>3. /\ fw[Stop(s, j)] = Stop(s, j + 1) /\ bw[Stop(s, j + 1)] = Stop(s, j)
          /\ Stop(s, j) \in Linked /\ Stop(s, j + 1) \in Linked
      BY <1>1, <1>2
    <3>4. Stop(s, j) # HeadNode /\ Stop(s, j) # n /\ Stop(s, j + 1) # n /\ Stop(s, j + 1) # first
      BY <1>2, <1>6, <1>7
    <3> QED
      BY <1>10, <1>11, <3>1, <3>2, <3>3, <3>4
  <2> QED
    BY <1>2, <1>5, <2>1, <2>2, <2>3
<1>14. Chained(fw2, bw2, t)
  BY <1>5, <1>12, <1>13 DEF Chained, LeadsOver
<1> QED
  BY <1>8, <1>9, <1>14 DEF t

LEMMA FrontHeld ==
  ASSUME NEW m \in [Keys -> Nodes \cup {Nil}], NEW ky, NEW vl, NEW s \in Seq(Nodes), Held(m, ky, vl, s),
         NEW n \in Nodes, Off(n, s), NEW k \in Keys, m[k] = Nil,
         NEW ky2, NEW vl2, Written(ky, vl, n, k, ky2, vl2)
  PROVE  /\ [m EXCEPT ![k] = n] \in [Keys -> Nodes \cup {Nil}]
         /\ Held([m EXCEPT ![k] = n], ky2, vl2, <<n>> \o s)
<1> DEFINE t == <<n>> \o s
<1> USE DEF Written, Off
<1>1. /\ Len(t) = Len(s) + 1 /\ Len(s) \in Nat /\ t[1] = n
      /\ \A i \in 2..(Len(s) + 1) : t[i] = s[i - 1]
  BY StopOfFront
<1> HIDE DEF t
<1>2. /\ \A i \in 1..Len(s) : s[i] \in Nodes /\ ky[s[i]] \in Keys /\ m[ky[s[i]]] = s[i] /\ vl[s[i]] \in Values
      /\ \A q \in Keys : m[q] # Nil => \E i \in 1..Len(s) : m[q] = s[i] /\ ky[s[i]] = q
  BY ElementOfSeq DEF Held
<1>3. PICK m2 \in [Keys -> Nodes \cup {Nil}] : m2 = [m EXCEPT ![k] = n]
  OBVIOUS
<1>4. m2[k] = n /\ \A q \in Keys : q # k => m2[q] = m[q]
  BY <1>3
<1>5. \A i \in 1..Len(s) : /\ ky2[s[i]] = ky[s[i]] /\ vl2[s[i]] = vl[s[i]] /\ ky[s[i]] # k
  BY <1>2, LRUCacheAssumption
<1>6. ASSUME NEW i \in 1..Len(t)
      PROVE  ky2[t[i]] \in Keys /\ m2[ky2[t[i]]] = t[i] /\ vl2[t[i]] \in Values
  <2>1. CASE i = 1
    BY <1>1, <1>4, <2>1
  <2>2. CASE i # 1
    <3>1. i - 1 \in 1..Len(s) /\ t[i] = s[i - 1]
      BY <1>1, <2>2
    <3> QED
      BY <1>2, <1>4, <1>5, <3>1
  <2> QED
    BY <2>1, <2>2
<1>7. ASSUME NEW q \in Keys, m2[q] # Nil
      PROVE  \E i \in 1..Len(t) : m2[q] = t[i] /\ ky2[t[i]] = q
  <2>1. CASE q = k
    BY <1>1, <1>4, <2>1
  <2>2. CASE q # k
    <3>1. PICK j \in 1..Len(s) : m2[q] = s[j] /\ ky[s[j]] = q
      BY <1>2, <1>4, <1>7, <2>2
    <3>2. j + 1 \in 1..Len(t) /\ t[j + 1] = s[j]
      <4>1. j + 1 \in 2..(Len(s) + 1) /\ (j + 1) - 1 = j
        BY <1>1
      <4>2. t[j + 1] = s[(j + 1) - 1]
        BY <1>1, <4>1
      <4> QED
        BY <1>1, <4>1, <4>2
    <3> QED
      BY <1>5, <3>1, <3>2
  <2> QED
    BY <2>1, <2>2
<1>8. Held(m2, ky2, vl2, t)
  BY <1>6, <1>7 DEF Held
<1> QED
  BY <1>3, <1>8 DEF t

\* The map has as many keys as the sequence has nodes.
LEMMA SizeIs ==
  ASSUME NEW m, NEW ky, NEW vl, NEW s \in Seq(Nodes),
         \A i, j \in 1..Len(s) : s[i] = s[j] => i = j, Held(m, ky, vl, s)
  PROVE  Cardinality({k \in Keys : m[k] # Nil}) = Len(s)
<1> DEFINE T == {k \in Keys : m[k] # Nil}
           f == [i \in 1..Len(s) |-> ky[s[i]]]
<1>1. Len(s) \in Nat /\ Nil \notin Nodes
  BY LenProperties, LRUCacheAssumption
<1>2. \A i \in 1..Len(s) : s[i] \in Nodes /\ ky[s[i]] \in T /\ m[ky[s[i]]] = s[i]
  BY <1>1, ElementOfSeq DEF Held
<1>3. f \in [1..Len(s) -> T]
  BY <1>2
<1>4. \A i, j \in 1..Len(s) : f[i] = f[j] => i = j
  BY <1>2
<1>5. \A k \in T : \E i \in 1..Len(s) : f[i] = k
  BY DEF Held
<1> HIDE DEF f, T
<1>6. ExistsBijection(1..Len(s), T)
  BY <1>3, <1>4, <1>5, Fun_IsBij, Fun_IsSurj DEF ExistsBijection
<1>7. IsFiniteSet(1..Len(s)) /\ Cardinality(1..Len(s)) = Len(s)
  <2>1. IsFiniteSet(1..Len(s)) /\ Cardinality(1..Len(s)) = IF 1 > Len(s) THEN 0 ELSE Len(s) - 1 + 1
    <3>1. 1 \in Int /\ Len(s) \in Int
      BY <1>1
    <3> QED
      BY <3>1, FS_Interval
  <2>2. (IF 1 > Len(s) THEN 0 ELSE Len(s) - 1 + 1) = Len(s)
    BY <1>1
  <2> QED
    BY <2>1, <2>2
<1> QED
  BY <1>6, <1>7, FS_Bijection DEF T
-----------------------------------------------------------------------------
(* The entries of the nodes *)

Records == [key : Keys, value : Values]

Rec(ky, vl, s) == [i \in 1..Len(s) |-> [key |-> ky[s[i]], value |-> vl[s[i]]]]

LEMMA RecIs ==
  ASSUME NEW ky, NEW vl, NEW s \in Seq(Nodes),
         \A i \in 1..Len(s) : ky[s[i]] \in Keys /\ vl[s[i]] \in Values
  PROVE  /\ Rec(ky, vl, s) \in Seq(Records) /\ Len(Rec(ky, vl, s)) = Len(s)
         /\ \A i \in 1..Len(s) : /\ Rec(ky, vl, s)[i] = [key |-> ky[s[i]], value |-> vl[s[i]]]
                                 /\ Rec(ky, vl, s)[i].key = ky[s[i]]
                                 /\ Rec(ky, vl, s)[i].value = vl[s[i]]
<1>1. Len(s) \in Nat
  BY LenProperties
<1>2. Rec(ky, vl, s) \in [1..Len(s) -> Records]
  BY DEF Rec, Records
<1>3. Rec(ky, vl, s) \in Seq(Records)
  BY <1>1, <1>2, SeqDef
<1>4. Len(Rec(ky, vl, s)) = Len(s)
  BY <1>1, <1>2, <1>3, LenProperties
<1> QED
  BY <1>3, <1>4 DEF Rec

LEMMA RecCut ==
  ASSUME NEW ky, NEW vl, NEW s \in Seq(Nodes), NEW p \in 1..Len(s),
         \A i \in 1..Len(s) : ky[s[i]] \in Keys /\ vl[s[i]] \in Values
  PROVE  Rec(ky, vl, Cut(s, p)) = Cut(Rec(ky, vl, s), p)
<1> DEFINE t == Cut(s, p)
           c == Rec(ky, vl, s)
           at(i) == IF i < p THEN i ELSE i + 1
<1>1. /\ t \in Seq(Nodes) /\ Len(t) = Len(s) - 1 /\ Len(s) \in Nat \ {0}
      /\ \A i \in 1..Len(t) : t[i] = s[at(i)]
  BY CutSeq
<1>2. /\ c \in Seq(Records) /\ Len(c) = Len(s)
      /\ \A i \in 1..Len(s) : c[i] = [key |-> ky[s[i]], value |-> vl[s[i]]]
  BY RecIs
<1> HIDE DEF t, c
<1>3. /\ Cut(c, p) \in Seq(Records) /\ Len(Cut(c, p)) = Len(c) - 1
      /\ \A i \in 1..Len(Cut(c, p)) : Cut(c, p)[i] = c[at(i)]
  BY <1>2, CutSeq
<1>4. \A i \in 1..Len(t) : at(i) \in 1..Len(s)
  BY <1>1
<1> HIDE DEF at
<1>5. /\ Rec(ky, vl, t) \in Seq(Records) /\ Len(Rec(ky, vl, t)) = Len(t)
      /\ \A i \in 1..Len(t) : Rec(ky, vl, t)[i] = [key |-> ky[t[i]], value |-> vl[t[i]]]
  <2>1. \A i \in 1..Len(t) : ky[t[i]] \in Keys /\ vl[t[i]] \in Values
    BY <1>1, <1>4
  <2> QED
    BY <1>1, <2>1, RecIs
<1>6. Len(Rec(ky, vl, t)) = Len(Cut(c, p))
  BY <1>1, <1>2, <1>3, <1>5
<1>7. \A i \in 1..Len(Rec(ky, vl, t)) : Rec(ky, vl, t)[i] = Cut(c, p)[i]
  <2> SUFFICES ASSUME NEW i \in 1..Len(Rec(ky, vl, t)) PROVE Rec(ky, vl, t)[i] = Cut(c, p)[i]
    OBVIOUS
  <2>1. i \in 1..Len(t) /\ i \in 1..Len(Cut(c, p)) /\ at(i) \in 1..Len(s)
    BY <1>4, <1>5, <1>6
  <2>2. Rec(ky, vl, t)[i] = [key |-> ky[t[i]], value |-> vl[t[i]]] /\ Cut(c, p)[i] = c[at(i)]
    BY <1>3, <1>5, <2>1
  <2>3. t[i] = s[at(i)] /\ c[at(i)] = [key |-> ky[s[at(i)]], value |-> vl[s[at(i)]]]
    BY <1>1, <1>2, <2>1
  <2> QED
    BY <2>2, <2>3
<1>8. Rec(ky, vl, t) = Cut(c, p)
  BY <1>3, <1>5, <1>6, <1>7, SeqEqual
<1> QED
  BY <1>8 DEF t, c

LEMMA RecFront ==
  ASSUME NEW ky, NEW vl, NEW s \in Seq(Nodes), NEW n \in Nodes, NEW ky2, NEW vl2,
         NEW k \in Keys, Written(ky, vl, n, k, ky2, vl2), Off(n, s),
         \A i \in 1..Len(s) : ky[s[i]] \in Keys /\ vl[s[i]] \in Values
  PROVE  Rec(ky2, vl2, <<n>> \o s) = <<[key |-> k, value |-> vl2[n]]>> \o Rec(ky, vl, s)
<1> DEFINE t == <<n>> \o s
           c == Rec(ky, vl, s)
           e == [key |-> k, value |-> vl2[n]]
<1>0. /\ \A i \in 1..Len(s) : ky2[s[i]] = ky[s[i]] /\ vl2[s[i]] = vl[s[i]]
      /\ ky2[n] = k /\ vl2[n] \in Values
  BY ElementOfSeq DEF Written, Off
<1>1. /\ t \in Seq(Nodes) /\ Len(t) = Len(s) + 1 /\ t[1] = n /\ Len(s) \in Nat
      /\ \A i \in 2..(Len(s) + 1) : t[i] = s[i - 1]
  BY StopOfFront
<1>2. /\ c \in Seq(Records) /\ Len(c) = Len(s)
      /\ \A i \in 1..Len(s) : c[i] = [key |-> ky[s[i]], value |-> vl[s[i]]]
  BY RecIs
<1>3. e \in Records
  BY <1>0 DEF Records
<1> HIDE DEF t, c
<1>4. \A i \in 2..(Len(s) + 1) : i - 1 \in 1..Len(s)
  BY <1>1
<1>5. /\ Rec(ky2, vl2, t) \in Seq(Records) /\ Len(Rec(ky2, vl2, t)) = Len(t)
      /\ \A i \in 1..Len(t) : Rec(ky2, vl2, t)[i] = [key |-> ky2[t[i]], value |-> vl2[t[i]]]
  <2>1. ASSUME NEW i \in 1..Len(t) PROVE ky2[t[i]] \in Keys /\ vl2[t[i]] \in Values
    <3>1. CASE i = 1
      BY <1>0, <1>1, <3>1
    <3>2. CASE i # 1
      <4>1. i \in 2..(Len(s) + 1)
        BY <1>1, <3>2
      <4>2. i - 1 \in 1..Len(s) /\ t[i] = s[i - 1]
        BY <1>1, <1>4, <4>1
      <4>3. ky2[s[i - 1]] \in Keys /\ vl2[s[i - 1]] \in Values
        BY <1>0, <4>2
      <4> QED
        BY <1>0, <4>2, <4>3
    <3> QED
      BY <3>1, <3>2
  <2>2. \A i \in 1..Len(t) : ky2[t[i]] \in Keys /\ vl2[t[i]] \in Values
    BY <2>1
  <2>3. t \in Seq(Nodes)
    BY <1>1
  <2> QED
    BY <2>2, <2>3, RecIs
<1>6. ASSUME NEW i \in 2..(Len(s) + 1) PROVE Rec(ky2, vl2, t)[i] = c[i - 1]
  <2>1. i \in 1..Len(t) /\ i - 1 \in 1..Len(s) /\ t[i] = s[i - 1]
    BY <1>1, <1>4
  <2>2. Rec(ky2, vl2, t)[i] = [key |-> ky[s[i - 1]], value |-> vl[s[i - 1]]]
    <3>1. ky2[s[i - 1]] = ky[s[i - 1]] /\ vl2[s[i - 1]] = vl[s[i - 1]]
      BY <1>0, <2>1
    <3>2. Rec(ky2, vl2, t)[i] = [key |-> ky2[s[i - 1]], value |-> vl2[s[i - 1]]]
      BY <1>5, <2>1
    <3> QED
      BY <3>1, <3>2
  <2>3. c[i - 1] = [key |-> ky[s[i - 1]], value |-> vl[s[i - 1]]]
    BY <1>2, <2>1
  <2> QED
    BY <2>2, <2>3
<1>7. Rec(ky2, vl2, t)[1] = e
  BY <1>0, <1>1, <1>5
<1> HIDE DEF e
<1>8. /\ <<e>> \o c \in Seq(Records) /\ Len(<<e>> \o c) = Len(c) + 1 /\ (<<e>> \o c)[1] = e
      /\ \A i \in 2..Len(<<e>> \o c) : (<<e>> \o c)[i] = c[i - 1]
  BY <1>2, <1>3, Front
<1>9. Len(Rec(ky2, vl2, t)) = Len(<<e>> \o c)
  BY <1>1, <1>2, <1>5, <1>8
<1>10. \A i \in 1..Len(Rec(ky2, vl2, t)) : Rec(ky2, vl2, t)[i] = (<<e>> \o c)[i]
  <2> SUFFICES ASSUME NEW i \in 1..Len(Rec(ky2, vl2, t)) PROVE Rec(ky2, vl2, t)[i] = (<<e>> \o c)[i]
    OBVIOUS
  <2>1. CASE i = 1
    BY <1>7, <1>8, <2>1
  <2>2. CASE i # 1
    <3>1. i \in 2..(Len(s) + 1) /\ i \in 2..Len(<<e>> \o c)
      BY <1>1, <1>2, <1>5, <1>8, <2>2
    <3> QED
      BY <1>6, <1>8, <3>1
  <2> QED
    BY <2>1, <2>2
<1>11. Rec(ky2, vl2, t) = <<e>> \o c
  BY <1>5, <1>8, <1>9, <1>10, SeqEqual
<1> QED
  BY <1>11 DEF t, c, e

\* The abstract cache finds the entry at the place of the key's node.
LEMMA EntryIsFound ==
  ASSUME NEW m, NEW ky, NEW vl, NEW s \in Seq(Nodes), Held(m, ky, vl, s), NEW k \in Keys,
         \A i, j \in 1..Len(s) : s[i] = s[j] => i = j
  PROVE  /\ m[k] = Nil => ~Abstract!Has(Rec(ky, vl, s), k)
         /\ m[k] # Nil => /\ Abstract!Has(Rec(ky, vl, s), k)
                          /\ Abstract!Place(Rec(ky, vl, s), k) \in 1..Len(s)
                          /\ s[Abstract!Place(Rec(ky, vl, s), k)] = m[k]
                          /\ ky[m[k]] = k
<1> DEFINE c == Rec(ky, vl, s)
<1>1. /\ \A i \in 1..Len(s) : s[i] \in Nodes /\ ky[s[i]] \in Keys /\ m[ky[s[i]]] = s[i] /\ vl[s[i]] \in Values
      /\ \A q \in Keys : m[q] # Nil => \E i \in 1..Len(s) : m[q] = s[i] /\ ky[s[i]] = q
      /\ Nil \notin Nodes
  BY ElementOfSeq, LRUCacheAssumption DEF Held
<1>2. Len(c) = Len(s) /\ \A i \in 1..Len(s) : c[i].key = ky[s[i]]
  <2>1. \A i \in 1..Len(s) : ky[s[i]] \in Keys /\ vl[s[i]] \in Values
    BY <1>1
  <2>2. /\ Rec(ky, vl, s) \in Seq(Records) /\ Len(Rec(ky, vl, s)) = Len(s)
        /\ \A i \in 1..Len(s) : /\ Rec(ky, vl, s)[i] = [key |-> ky[s[i]], value |-> vl[s[i]]]
                                /\ Rec(ky, vl, s)[i].key = ky[s[i]]
                                /\ Rec(ky, vl, s)[i].value = vl[s[i]]
    <3> HIDE DEF c
    <3> QED
      BY <2>1, RecIs
  <2> QED
    BY <2>2
<1> HIDE DEF c
<1>3. ASSUME m[k] = Nil PROVE ~Abstract!Has(c, k)
  BY <1>1, <1>2, <1>3 DEF Abstract!Has
<1>4. ASSUME m[k] # Nil
      PROVE  /\ Abstract!Has(c, k) /\ Abstract!Place(c, k) \in 1..Len(s)
             /\ s[Abstract!Place(c, k)] = m[k] /\ ky[m[k]] = k
  <2>1. PICK p \in 1..Len(s) : m[k] = s[p] /\ ky[s[p]] = k
    BY <1>1, <1>4
  <2>2. \E i \in 1..Len(c) : c[i].key = k
    BY <1>2, <2>1
  <2>3. Abstract!Place(c, k) \in 1..Len(c) /\ c[Abstract!Place(c, k)].key = k
    BY <2>2 DEF Abstract!Place
  <2>4. s[Abstract!Place(c, k)] = m[k]
    BY <1>1, <1>2, <2>3
  <2> QED
    BY <1>2, <2>1, <2>2, <2>3, <2>4 DEF Abstract!Has
<1> QED
  BY <1>3, <1>4 DEF c
-----------------------------------------------------------------------------
(* The steps *)

\* The fields lru lead over s and map the keys to its nodes, with keys ky and values vl.
GoodWith(lru, s, ky, vl) ==
  /\ lru.mp \in [Keys -> Nodes \cup {Nil}] /\ lru.next \in Pointers /\ lru.prev \in Pointers
  /\ Chained(lru.next, lru.prev, s)
  /\ Held(lru.mp, ky, vl, s)

Good(lru, s) == GoodWith(lru, s, key, value)

LEMMA RemoveNode ==
  ASSUME NEW lru, NEW s, Good(lru, s), NEW p \in 1..Len(s), NEW n, n = s[p]
  PROVE  /\ Good(remove(lru, n), Cut(s, p))
         /\ key[n] \in Keys /\ remove(lru, n).mp[key[n]] = Nil
         /\ \A k \in Keys : lru.mp[k] = Nil => remove(lru, n).mp[k] = Nil
<1> DEFINE m == lru.mp
           fw == lru.next
           bw == lru.prev
<1>1. /\ m \in [Keys -> Nodes \cup {Nil}] /\ fw \in Pointers /\ bw \in Pointers
      /\ Chained(fw, bw, s) /\ Held(m, key, value, s)
  BY DEF Good, GoodWith
<1>2. s \in Seq(Nodes) /\ \A i, j \in 1..Len(s) : s[i] = s[j] => i = j
  BY <1>1 DEF Chained
<1>3. /\ remove(lru, n).mp = [m EXCEPT ![key[n]] = Nil]
      /\ remove(lru, n).next = [fw EXCEPT ![bw[n]] = fw[n]]
      /\ remove(lru, n).prev = [bw EXCEPT ![fw[n]] = bw[n]]
  BY DEF remove
<1> HIDE DEF m, fw, bw
<1>4. /\ [fw EXCEPT ![bw[n]] = fw[n]] \in Pointers /\ [bw EXCEPT ![fw[n]] = bw[n]] \in Pointers
      /\ Chained([fw EXCEPT ![bw[n]] = fw[n]], [bw EXCEPT ![fw[n]] = bw[n]], Cut(s, p))
  BY <1>1, CutChained
<1>5. /\ [m EXCEPT ![key[n]] = Nil] \in [Keys -> Nodes \cup {Nil}]
      /\ Held([m EXCEPT ![key[n]] = Nil], key, value, Cut(s, p))
      /\ [m EXCEPT ![key[n]] = Nil][key[n]] = Nil /\ key[n] \in Keys
      /\ \A k \in Keys : m[k] = Nil => [m EXCEPT ![key[n]] = Nil][k] = Nil
  <2>1. m \in [Keys -> Nodes \cup {Nil}] /\ Held(m, key, value, s)
    BY <1>1
  <2> QED
    BY <1>2, <2>1, CutHeld
<1>6. Good(remove(lru, n), Cut(s, p))
  BY <1>3, <1>4, <1>5 DEF Good, GoodWith
<1> QED
  BY <1>3, <1>5, <1>6 DEF m

LEMMA InsertNode ==
  ASSUME NEW lru, NEW s, NEW ky, NEW vl, GoodWith(lru, s, ky, vl), NEW n \in Nodes, Off(n, s),
         NEW k \in Keys, lru.mp[k] = Nil,
         NEW ky2, NEW vl2, Written(ky, vl, n, k, ky2, vl2)
  PROVE  /\ GoodWith(insert(lru, n, k), <<n>> \o s, ky2, vl2)
         /\ Rec(ky2, vl2, <<n>> \o s) = <<[key |-> k, value |-> vl2[n]]>> \o Rec(ky, vl, s)
<1> DEFINE m == lru.mp
           fw == lru.next
           bw == lru.prev
           first == fw[HeadNode]
<1>1. /\ m \in [Keys -> Nodes \cup {Nil}] /\ fw \in Pointers /\ bw \in Pointers
      /\ Chained(fw, bw, s) /\ Held(m, ky, vl, s) /\ m[k] = Nil
  BY DEF GoodWith
<1>2. s \in Seq(Nodes)
  BY <1>1 DEF Chained
<1>3. /\ insert(lru, n, k).mp = [m EXCEPT ![k] = n]
      /\ insert(lru, n, k).next = [fw EXCEPT ![HeadNode] = n, ![n] = first]
      /\ insert(lru, n, k).prev = [bw EXCEPT ![n] = HeadNode, ![first] = n]
  BY DEF insert
<1> HIDE DEF m, fw, bw
<1>4. /\ [fw EXCEPT ![HeadNode] = n, ![n] = first] \in Pointers
      /\ [bw EXCEPT ![n] = HeadNode, ![first] = n] \in Pointers
      /\ Chained([fw EXCEPT ![HeadNode] = n, ![n] = first],
                 [bw EXCEPT ![n] = HeadNode, ![first] = n], <<n>> \o s)
  BY <1>1, FrontChained
<1>5. /\ [m EXCEPT ![k] = n] \in [Keys -> Nodes \cup {Nil}]
      /\ Held([m EXCEPT ![k] = n], ky2, vl2, <<n>> \o s)
  BY <1>1, <1>2, FrontHeld
<1>6. Rec(ky2, vl2, <<n>> \o s) = <<[key |-> k, value |-> vl2[n]]>> \o Rec(ky, vl, s)
  <2>1. \A i \in 1..Len(s) : ky[s[i]] \in Keys /\ vl[s[i]] \in Values
    BY <1>1 DEF Held
  <2> QED
    BY <1>2, <2>1, RecFront, SMTT(60)
<1>7. GoodWith(insert(lru, n, k), <<n>> \o s, ky2, vl2)
  BY <1>3, <1>4, <1>5 DEF GoodWith
<1> QED
  BY <1>6, <1>7

\* What the invariant says of the fields, and what the list's entries then are.
LEMMA ListIsGood ==
  ASSUME ListInv, NEW s, ListIs(s)
  PROVE  /\ Good(Lru, s) /\ s \in Seq(Nodes) /\ Len(s) \in Nat /\ Len(s) <= Capacity
         /\ \A i, j \in 1..Len(s) : s[i] = s[j] => i = j
         /\ \A i \in 1..Len(s) : s[i] \in Nodes /\ key[s[i]] \in Keys /\ value[s[i]] \in Values
         /\ Contents = Rec(key, value, s)
<1>1. Good(Lru, s)
  BY DEF ListInv, ListIs, Good, GoodWith, Lru, TypeOK, Pointers
<1>2. s \in Seq(Nodes) /\ LeadsOver(next, s) /\ Len(s) <= Capacity /\ Held(mp, key, value, s)
      /\ \A i, j \in 1..Len(s) : s[i] = s[j] => i = j
  BY DEF ListIs, Chained
<1>3. Len(s) \in Nat /\ \A i \in 1..Len(s) : s[i] \in Nodes
  BY <1>2, StopIs
<1>4. NodesFrom = s
  BY <1>2, WalkFound DEF NodesFrom
<1>5. Contents = Rec(key, value, s)
  BY <1>4 DEF Contents, Rec
<1>6. \A i \in 1..Len(s) : key[s[i]] \in Keys /\ value[s[i]] \in Values
  BY <1>2 DEF Held
<1> QED
  BY <1>1, <1>2, <1>3, <1>5, <1>6

LEMMA ListStart ==
  ASSUME Init
  PROVE  ListInv /\ ListIs(<< >>)
<1>1. /\ << >> \in Seq(Nodes) /\ Len(<< >>) = 0
  OBVIOUS
<1>2. /\ HeadNode # TailNode /\ Capacity \in Nat /\ HeadNode \in Linked /\ TailNode \in Linked
  BY LRUCacheAssumption DEF Linked
<1>3. next[HeadNode] = TailNode /\ prev[TailNode] = HeadNode
  BY <1>2 DEF Init
<1>4. Stop(<< >>, 0) = HeadNode /\ Stop(<< >>, 0 + 1) = TailNode
  BY <1>1 DEF Stop
<1>5. Chained(next, prev, << >>)
  <2>1. \A i \in 0..Len(<< >>) : i = 0
    BY <1>1
  <2>2. \A i \in 0..Len(<< >>) : /\ next[Stop(<< >>, i)] = Stop(<< >>, i + 1)
                                /\ prev[Stop(<< >>, i + 1)] = Stop(<< >>, i)
    BY <1>3, <1>4, <2>1
  <2>3. \A i, j \in 1..Len(<< >>) : << >>[i] = << >>[j] => i = j
    BY <1>1
  <2> QED
    BY <1>1, <2>2, <2>3 DEF Chained, LeadsOver
<1>6. Held(mp, key, value, << >>)
  <2>1. \A k \in Keys : mp[k] = Nil
    BY DEF Init
  <2>2. 1..Len(<< >>) = {}
    BY <1>1
  <2> QED
    BY <2>1, <2>2 DEF Held
<1>7. TypeOK
  BY <1>2 DEF Init, TypeOK
<1>8. ListIs(<< >>)
  BY <1>1, <1>2, <1>5, <1>6 DEF ListIs
<1> QED
  BY <1>7, <1>8 DEF ListInv

\* The state that a step leaves, whose fields lead over t.
LEMMA ListAfter ==
  ASSUME NEW i, NEW t, Becomes(i), NEW c,
         key' \in [Nodes -> Keys \cup {Nil}], value' \in [Nodes -> Values \cup {Nil}],
         answer' \in Values \cup {Nil},
         i.mp \in [Keys -> Nodes \cup {Nil}], i.next \in Pointers, i.prev \in Pointers,
         Chained(i.next, i.prev, t), Held(i.mp, key', value', t), Len(t) <= Capacity,
         Rec(key', value', t) = c
  PROVE  ListInv' /\ Contents' = c
<1>1. mp' = i.mp /\ next' = i.next /\ prev' = i.prev
  BY DEF Becomes
<1>2. TypeOK'
  BY <1>1 DEF TypeOK, Pointers
<1>3. ListIs(t)'
  BY <1>1 DEF ListIs
<1>4. t \in Seq(Nodes) /\ LeadsOver(next', t)
  BY <1>1 DEF Chained
<1>5. NodesFrom' = t
  BY <1>4, WalkFound DEF NodesFrom
<1>6. Contents' = Rec(key', value', t)
  BY <1>5 DEF Contents, Rec
<1> QED
  BY <1>2, <1>3, <1>6 DEF ListInv

\* A node that is cut out of a list is off it.
LEMMA CutIsOff ==
  ASSUME NEW s \in Seq(Nodes), \A i, j \in 1..Len(s) : s[i] = s[j] => i = j, NEW p \in 1..Len(s)
  PROVE  Off(s[p], Cut(s, p))
<1>1. /\ Len(Cut(s, p)) = Len(s) - 1 /\ Len(s) \in Nat \ {0}
      /\ \A i \in 1..Len(Cut(s, p)) : Cut(s, p)[i] = s[IF i < p THEN i ELSE i + 1]
  BY CutSeq
<1>2. ASSUME NEW i \in 1..Len(Cut(s, p)) PROVE Cut(s, p)[i] # s[p]
  <2>1. CASE i < p
    <3>1. i \in 1..Len(s) /\ i # p /\ Cut(s, p)[i] = s[i]
      BY <1>1, <2>1
    <3> QED
      BY <3>1
  <2>2. CASE ~(i < p)
    <3>1. i + 1 \in 1..Len(s) /\ i + 1 # p /\ Cut(s, p)[i] = s[i + 1]
      BY <1>1, <2>2
    <3> QED
      BY <3>1
  <2> QED
    BY <2>1, <2>2
<1> QED
  BY <1>2 DEF Off

LEMMA GetStep ==
  ASSUME ListInv, NEW k \in Keys, Get(k)
  PROVE  ListInv' /\ Abstract!Get(k)
<1>1. PICK s : ListIs(s)
  BY DEF ListInv
<1>2. /\ Good(Lru, s) /\ s \in Seq(Nodes) /\ Len(s) \in Nat /\ Len(s) <= Capacity
      /\ \A i, j \in 1..Len(s) : s[i] = s[j] => i = j
      /\ \A i \in 1..Len(s) : s[i] \in Nodes /\ key[s[i]] \in Keys /\ value[s[i]] \in Values
      /\ Contents = Rec(key, value, s)
  BY <1>1, ListIsGood
<1>3. Held(mp, key, value, s) /\ TypeOK
  BY <1>1 DEF ListIs, ListInv
<1>4. /\ mp[k] = Nil => ~Abstract!Has(Contents, k)
      /\ mp[k] # Nil => /\ Abstract!Has(Contents, k)
                        /\ Abstract!Place(Contents, k) \in 1..Len(s)
                        /\ s[Abstract!Place(Contents, k)] = mp[k] /\ key[mp[k]] = k
  BY <1>2, <1>3, EntryIsFound
<1>5. CASE mp[k] = Nil
  <2>1. UNCHANGED <<mp, next, prev, key, value>> /\ answer' = Nil
    BY <1>5 DEF Get
  <2>2. ListInv'
    BY <2>1 DEF ListInv, ListIs, TypeOK
  <2>3. Contents' = Contents
    BY <2>1 DEF Contents, NodesFrom
  <2> QED
    BY <1>4, <1>5, <2>1, <2>2, <2>3 DEF Abstract!Get, Abstract!AfterGet
<1>6. CASE mp[k] # Nil
  <2>1. PICK n : n = mp[k]
    OBVIOUS
  <2>2. PICK p \in 1..Len(s) : p = Abstract!Place(Contents, k)
    BY <1>4, <1>6
  <2>3. s[p] = n /\ key[n] = k /\ n \in Nodes /\ value[n] \in Values
    BY <1>2, <1>4, <1>6, <2>1, <2>2
  <2>4. PICK r : r = remove(Lru, n)
    OBVIOUS
  <2>5. PICK i : i = insert(r, n, k)
    OBVIOUS
  <2>6. Becomes(i) /\ answer' = value[n] /\ key' = key /\ value' = value
    BY <1>6, <2>1, <2>4, <2>5 DEF Get
  <2>7. Good(r, Cut(s, p)) /\ r.mp[k] = Nil
    <3>1. Good(remove(Lru, n), Cut(s, p)) /\ remove(Lru, n).mp[key[n]] = Nil
      BY <1>2, <2>3, RemoveNode
    <3> QED
      BY <2>3, <2>4, <3>1
  <2>8. Off(n, Cut(s, p))
    BY <1>2, <2>3, CutIsOff
  <2>9. Written(key, value, n, k, key, value)
    BY <2>3 DEF Written
  <2>10. PICK t : t = <<n>> \o Cut(s, p)
    OBVIOUS
  <2>11. /\ i.mp \in [Keys -> Nodes \cup {Nil}] /\ i.next \in Pointers /\ i.prev \in Pointers
         /\ Chained(i.next, i.prev, t) /\ Held(i.mp, key, value, t)
         /\ Rec(key, value, t) = <<[key |-> k, value |-> value[n]]>> \o Rec(key, value, Cut(s, p))
    <3>1. PICK u : u = Cut(s, p)
      OBVIOUS
    <3>2. GoodWith(r, u, key, value) /\ n \in Nodes /\ Off(n, u) /\ r.mp[k] = Nil
      BY <2>3, <2>7, <2>8, <3>1 DEF Good
    <3>3. /\ GoodWith(insert(r, n, k), <<n>> \o u, key, value)
          /\ Rec(key, value, <<n>> \o u) = <<[key |-> k, value |-> value[n]]>> \o Rec(key, value, u)
      BY <2>9, <3>2, InsertNode
    <3> QED
      BY <2>5, <2>10, <3>1, <3>3 DEF GoodWith
  <2>12. Len(t) <= Capacity
    <3>1. Cut(s, p) \in Seq(Nodes) /\ Len(Cut(s, p)) = Len(s) - 1
      BY <1>2, CutSeq
    <3>2. Len(t) = Len(Cut(s, p)) + 1
      BY <2>3, <2>10, <3>1, StopOfFront
    <3> QED
      BY <1>2, <3>1, <3>2
  <2>13. Rec(key, value, Cut(s, p)) = Cut(Contents, p)
    BY <1>2, RecCut
  <2>14. PICK c : c = <<[key |-> k, value |-> value[n]]>> \o Cut(Contents, p)
    OBVIOUS
  <2>15. /\ key' \in [Nodes -> Keys \cup {Nil}] /\ value' \in [Nodes -> Values \cup {Nil}]
         /\ answer' \in Values \cup {Nil}
         /\ Held(i.mp, key', value', t) /\ Rec(key', value', t) = c
    BY <1>3, <2>3, <2>6, <2>11, <2>13, <2>14 DEF TypeOK
  <2>16. ListInv' /\ Contents' = c
    BY <2>6, <2>11, <2>12, <2>15, ListAfter
  <2>17. Contents[p].value = value[n]
    <3>1. \A j \in 1..Len(s) : key[s[j]] \in Keys /\ value[s[j]] \in Values
      BY <1>2
    <3>2. \A j \in 1..Len(s) : /\ Rec(key, value, s)[j] = [key |-> key[s[j]], value |-> value[s[j]]]
                               /\ Rec(key, value, s)[j].key = key[s[j]]
                               /\ Rec(key, value, s)[j].value = value[s[j]]
      BY <1>2, <3>1, RecIs
    <3> QED
      BY <1>2, <2>3, <3>2
  <2>18. Abstract!Lookup(Contents, k) = value[n]
    BY <2>2, <2>17 DEF Abstract!Lookup
  <2>19. Abstract!Without(Contents, k) = Cut(Contents, p)
    BY <1>4, <1>6, <2>2 DEF Abstract!Without, Cut
  <2>20. Abstract!AfterGet(Contents, k) = c
    BY <1>4, <1>6, <2>14, <2>18, <2>19 DEF Abstract!AfterGet, Abstract!Entry
  <2> QED
    BY <1>4, <1>6, <2>6, <2>16, <2>18, <2>20 DEF Abstract!Get
<1> QED
  BY <1>5, <1>6

LEMMA OffCut ==
  ASSUME NEW s \in Seq(Nodes), NEW p \in 1..Len(s), NEW n, Off(n, s), Len(s) <= Capacity
  PROVE  Cut(s, p) \in Seq(Nodes) /\ Len(Cut(s, p)) < Capacity /\ Off(n, Cut(s, p))
<1>1. /\ Cut(s, p) \in Seq(Nodes) /\ Len(Cut(s, p)) = Len(s) - 1 /\ Len(s) \in Nat \ {0}
      /\ \A i \in 1..Len(Cut(s, p)) : Cut(s, p)[i] = s[IF i < p THEN i ELSE i + 1]
  BY CutSeq
<1>2. Capacity \in Nat
  BY LRUCacheAssumption
<1>3. \A i \in 1..Len(Cut(s, p)) : (IF i < p THEN i ELSE i + 1) \in 1..Len(s)
  BY <1>1
<1>4. Off(n, Cut(s, p))
  BY <1>1, <1>3 DEF Off
<1> QED
  BY <1>1, <1>2, <1>4

\* What Put keeps of the other entries.
Kept(others) == IF Len(others) = Capacity THEN SubSeq(others, 1, Capacity - 1) ELSE others

\* The node before the tail is the last entry's: it is the one to go when there is no room.
LEMMA EvictStep ==
  ASSUME NEW lru, NEW w, Good(lru, w), NEW k \in Keys, lru.mp[k] = Nil,
         w \in Seq(Nodes), Len(w) <= Capacity, NEW n, Off(n, w),
         NEW c, c = Rec(key, value, w), NEW evicted,
         evicted = IF Size(lru) = Capacity THEN remove(lru, lru.prev[TailNode]) ELSE lru
  PROVE  \E u : /\ Good(evicted, u) /\ evicted.mp[k] = Nil
                /\ u \in Seq(Nodes) /\ Len(u) < Capacity /\ Off(n, u)
                /\ Rec(key, value, u) = Kept(c)
<1>1. /\ Chained(lru.next, lru.prev, w) /\ Held(lru.mp, key, value, w)
      /\ \A i, j \in 1..Len(w) : w[i] = w[j] => i = j
      /\ \A i \in 0..Len(w) : lru.prev[Stop(w, i + 1)] = Stop(w, i)
  BY DEF Good, GoodWith, Chained
<1>2. Len(w) \in Nat /\ Capacity \in Nat \ {0}
  BY LenProperties, LRUCacheAssumption
<1>3. Size(lru) = Len(w)
  BY <1>1, SizeIs DEF Size
<1>4. \A i \in 1..Len(w) : key[w[i]] \in Keys /\ value[w[i]] \in Values
  BY <1>1 DEF Held
<1>5. c \in Seq(Records) /\ Len(c) = Len(w)
  BY <1>4, RecIs
<1>6. CASE Len(w) = Capacity
  <2>1. PICK p \in 1..Len(w) : p = Len(w)
    BY <1>2, <1>6
  <2>2. PICK o : o = lru.prev[TailNode]
    OBVIOUS
  <2>3. o = w[p]
    <3>1. Stop(w, Len(w) + 1) = TailNode /\ Stop(w, p) = w[p]
      BY StopIs
    <3>2. p \in 0..Len(w)
      BY <1>2
    <3> QED
      BY <1>1, <2>1, <2>2, <3>1, <3>2
  <2>4. /\ Good(remove(lru, o), Cut(w, p))
        /\ \A q \in Keys : lru.mp[q] = Nil => remove(lru, o).mp[q] = Nil
    BY <2>3, RemoveNode
  <2>5. evicted = remove(lru, o)
    BY <1>3, <1>6, <2>2
  <2>6. Cut(w, p) \in Seq(Nodes) /\ Len(Cut(w, p)) < Capacity /\ Off(n, Cut(w, p))
    BY OffCut
  <2>7. Rec(key, value, Cut(w, p)) = Cut(c, p)
    BY <1>4, RecCut
  <2>8. Cut(c, p) = SubSeq(c, 1, Capacity - 1)
    <3>1. Cut(c, p) = SubSeq(c, 1, Capacity - 1) \o SubSeq(c, Len(c) + 1, Len(c))
      BY <1>5, <1>6, <2>1 DEF Cut
    <3>2. SubSeq(c, Len(c) + 1, Len(c)) = << >>
      BY <1>2, <1>5
    <3>3. SubSeq(c, 1, Capacity - 1) \in Seq(Records)
      BY <1>2, <1>5, <1>6
    <3> QED
      BY <3>1, <3>2, <3>3, ConcatEmptySeq
  <2> QED
    BY <1>5, <1>6, <2>4, <2>5, <2>6, <2>7, <2>8 DEF Kept
<1>7. CASE Len(w) # Capacity
  BY <1>2, <1>3, <1>5, <1>7 DEF Kept
<1> QED
  BY <1>6, <1>7

LEMMA PutStep ==
  ASSUME ListInv, NEW k \in Keys, NEW v \in Values, Put(k, v)
  PROVE  ListInv' /\ Abstract!Put(k, v)
<1>1. PICK s : ListIs(s)
  BY DEF ListInv
<1>2. /\ Good(Lru, s) /\ s \in Seq(Nodes) /\ Len(s) \in Nat /\ Len(s) <= Capacity
      /\ \A i, j \in 1..Len(s) : s[i] = s[j] => i = j
      /\ \A i \in 1..Len(s) : s[i] \in Nodes /\ key[s[i]] \in Keys /\ value[s[i]] \in Values
      /\ Contents = Rec(key, value, s)
  BY <1>1, ListIsGood
<1>3. Held(mp, key, value, s) /\ TypeOK /\ Lru.mp = mp
  BY <1>1 DEF ListIs, ListInv, Lru
<1>4. /\ mp[k] = Nil => ~Abstract!Has(Contents, k)
      /\ mp[k] # Nil => /\ Abstract!Has(Contents, k)
                        /\ Abstract!Place(Contents, k) \in 1..Len(s)
                        /\ s[Abstract!Place(Contents, k)] = mp[k] /\ key[mp[k]] = k
  BY <1>2, <1>3, EntryIsFound
<1>5. PICK replaced : replaced = IF mp[k] # Nil THEN remove(Lru, mp[k]) ELSE Lru
  OBVIOUS
<1>6. PICK evicted : evicted = IF Size(replaced) = Capacity
                               THEN remove(replaced, replaced.prev[TailNode]) ELSE replaced
  OBVIOUS
<1>7. PICK n \in Nodes \ {mp[q] : q \in Keys} :
        /\ Becomes(insert(evicted, n, k))
        /\ key' = [key EXCEPT ![n] = k] /\ value' = [value EXCEPT ![n] = v] /\ UNCHANGED answer
  BY <1>5, <1>6 DEF Put
<1>8. Off(n, s)
  <2>1. \A i \in 1..Len(s) : s[i] \in {mp[q] : q \in Keys}
    BY <1>2, <1>3 DEF Held
  <2> QED
    BY <1>7, <2>1 DEF Off
\* The old entry of the key goes.
<1>9. PICK w : /\ Good(replaced, w) /\ replaced.mp[k] = Nil
               /\ w \in Seq(Nodes) /\ Len(w) <= Capacity /\ Off(n, w)
               /\ Rec(key, value, w) = Abstract!Without(Contents, k)
  <2>1. CASE mp[k] = Nil
    <3>1. Abstract!Without(Contents, k) = Contents
      BY <1>4, <2>1 DEF Abstract!Without
    <3>2. replaced = Lru
      BY <1>5, <2>1
    <3> QED
      BY <1>2, <1>3, <1>8, <2>1, <3>1, <3>2
  <2>2. CASE mp[k] # Nil
    <3>1. PICK p \in 1..Len(s) : p = Abstract!Place(Contents, k)
      BY <1>4, <2>2
    <3>2. s[p] = mp[k] /\ key[mp[k]] = k
      BY <1>4, <2>2, <3>1
    <3>3. PICK o : o = mp[k]
      OBVIOUS
    <3>4. Good(remove(Lru, o), Cut(s, p)) /\ remove(Lru, o).mp[key[o]] = Nil
      BY <1>2, <3>2, <3>3, RemoveNode
    <3>5. replaced = remove(Lru, o)
      BY <1>5, <2>2, <3>3
    <3>6. Abstract!Without(Contents, k) = Cut(Contents, p)
      BY <1>4, <2>2, <3>1 DEF Abstract!Without, Cut
    <3>7. Rec(key, value, Cut(s, p)) = Cut(Contents, p)
      BY <1>2, RecCut
    <3>8. Cut(s, p) \in Seq(Nodes) /\ Len(Cut(s, p)) <= Capacity /\ Off(n, Cut(s, p))
      <4>1. Len(Cut(s, p)) < Capacity /\ Cut(s, p) \in Seq(Nodes) /\ Off(n, Cut(s, p))
        BY <1>2, <1>8, OffCut
      <4>2. Len(Cut(s, p)) \in Nat /\ Capacity \in Nat
        BY <4>1, LenProperties, LRUCacheAssumption
      <4> QED
        BY <4>1, <4>2
    <3> QED
      BY <3>2, <3>3, <3>4, <3>5, <3>6, <3>7, <3>8
  <2> QED
    BY <2>1, <2>2
\* Where there is no room, the last entry goes.
<1>10. PICK u : /\ Good(evicted, u) /\ evicted.mp[k] = Nil
                /\ u \in Seq(Nodes) /\ Len(u) < Capacity /\ Off(n, u)
                /\ Rec(key, value, u) = Kept(Abstract!Without(Contents, k))
  BY <1>6, <1>9, EvictStep
<1>11. PICK i : i = insert(evicted, n, k)
  OBVIOUS
<1>12. Written(key, value, n, k, key', value') /\ value'[n] = v
  BY <1>3, <1>7 DEF Written, TypeOK
<1>13. /\ i.mp \in [Keys -> Nodes \cup {Nil}] /\ i.next \in Pointers /\ i.prev \in Pointers
       /\ Chained(i.next, i.prev, <<n>> \o u) /\ Held(i.mp, key', value', <<n>> \o u)
       /\ Rec(key', value', <<n>> \o u) = <<[key |-> k, value |-> v]>> \o Rec(key, value, u)
  <2>1. PICK ky2 : ky2 = key'
    OBVIOUS
  <2>2. PICK vl2 : vl2 = value'
    OBVIOUS
  <2>3. Written(key, value, n, k, ky2, vl2) /\ vl2[n] = v /\ n \in Nodes
    BY <1>7, <1>12, <2>1, <2>2
  <2>4. GoodWith(evicted, u, key, value) /\ Off(n, u) /\ evicted.mp[k] = Nil
    BY <1>10 DEF Good
  <2>5. /\ GoodWith(insert(evicted, n, k), <<n>> \o u, ky2, vl2)
        /\ Rec(ky2, vl2, <<n>> \o u) = <<[key |-> k, value |-> vl2[n]]>> \o Rec(key, value, u)
    BY <2>3, <2>4, InsertNode
  <2> QED
    BY <1>11, <2>1, <2>2, <2>3, <2>5 DEF GoodWith
<1>14. PICK t : t = <<n>> \o u
  OBVIOUS
<1>15. Len(t) <= Capacity
  <2>1. Len(t) = Len(u) + 1 /\ Len(u) \in Nat /\ Capacity \in Nat
    BY <1>7, <1>10, <1>14, StopOfFront, LRUCacheAssumption
  <2> QED
    BY <1>10, <2>1
<1>16. PICK c : c = <<[key |-> k, value |-> v]>> \o Kept(Abstract!Without(Contents, k))
  OBVIOUS
<1>17. /\ key' \in [Nodes -> Keys \cup {Nil}] /\ value' \in [Nodes -> Values \cup {Nil}]
       /\ answer' \in Values \cup {Nil} /\ Becomes(i)
  BY <1>3, <1>7, <1>11 DEF TypeOK
<1>18. /\ Chained(i.next, i.prev, t) /\ Held(i.mp, key', value', t)
       /\ Rec(key', value', t) = c
  BY <1>10, <1>13, <1>14, <1>16
<1>19. ListInv' /\ Contents' = c
  BY <1>13, <1>15, <1>17, <1>18, ListAfter
<1>20. Abstract!AfterPut(Contents, k, v, Capacity) = c
  BY <1>16 DEF Abstract!AfterPut, Abstract!Entry, Kept
<1> QED
  BY <1>7, <1>19, <1>20 DEF Abstract!Put
-----------------------------------------------------------------------------
(* The theorems *)

LEMMA ListStep ==
  ASSUME ListInv, [Next]_vars
  PROVE  ListInv' /\ [Abstract!Next]_<<Contents, answer>>
<1>1. ASSUME NEW k \in Keys, Get(k) PROVE ListInv' /\ Abstract!Next
  BY <1>1, GetStep DEF Abstract!Next
<1>2. ASSUME NEW k \in Keys, NEW v \in Values, Put(k, v) PROVE ListInv' /\ Abstract!Next
  BY <1>2, PutStep DEF Abstract!Next
<1>3. CASE UNCHANGED vars
  <2>1. UNCHANGED <<mp, next, prev, key, value, answer>>
    BY <1>3 DEF vars
  <2>2. ListInv'
    BY <2>1 DEF ListInv, ListIs, TypeOK
  <2>3. Contents' = Contents /\ answer' = answer
    BY <2>1 DEF Contents, NodesFrom
  <2> QED
    BY <2>2, <2>3
<1> QED
  BY <1>1, <1>2, <1>3 DEF Next

\* remove and insert keep one sequence of nodes between the sentinels, the same forward and
\* backward, never longer than cap, and the map leads to exactly its nodes.
THEOREM ListInvariant == Spec => []ListInv
<1>1. Init => ListInv
  BY ListStart
<1>2. ListInv /\ [Next]_vars => ListInv'
  BY ListStep
<1> QED
  BY <1>1, <1>2, PTL DEF Spec

\* After every Get and Put the list and the map hold the same nodes, each under its own key,
\* and prev undoes next.
THEOREM ListAndMapMatch == Spec => []ListMatchesMap
<1>1. ListInv => ListMatchesMap
  <2> SUFFICES ASSUME ListInv PROVE ListMatchesMap
    OBVIOUS
  <2>1. PICK s : ListIs(s)
    BY DEF ListInv
  <2>2. TypeOK /\ Held(mp, key, value, s)
    BY <2>1 DEF ListInv, ListIs
  <2>3. /\ s \in Seq(Nodes) /\ LeadsOver(next, s) /\ Len(s) <= Capacity
        /\ \A i \in 0..Len(s) : next[Stop(s, i)] = Stop(s, i + 1) /\ prev[Stop(s, i + 1)] = Stop(s, i)
    BY <2>1 DEF ListIs, Chained, LeadsOver
  <2>4. /\ Len(s) \in Nat /\ Stop(s, 0) = HeadNode /\ Stop(s, Len(s) + 1) = TailNode
        /\ \A i \in 1..Len(s) : Stop(s, i) = s[i] /\ s[i] \in Nodes
    BY <2>3, StopIs
  <2>5. NodesFrom = s
    BY <2>3, WalkFound DEF NodesFrom
  <2>6. /\ \A i \in 1..Len(s) : key[s[i]] \in Keys /\ mp[key[s[i]]] = s[i]
        /\ \A k \in Keys : mp[k] # Nil => \E i \in 1..Len(s) : mp[k] = s[i] /\ key[s[i]] = k
        /\ Nil \notin Nodes
    BY <2>2, LRUCacheAssumption DEF Held
  <2>7. {s[i] : i \in 1..Len(s)} = Mapped
    <3>1. \A i \in 1..Len(s) : s[i] \in Mapped
      BY <2>4, <2>6 DEF Mapped
    <3>2. \A x \in Mapped : \E i \in 1..Len(s) : x = s[i]
      BY <2>6 DEF Mapped
    <3> QED
      BY <3>1, <3>2
  <2>8. ASSUME NEW n \in {HeadNode} \cup Mapped
        PROVE  next[n] \in Nodes \cup {TailNode} /\ prev[next[n]] = n
    <3>1. PICK i \in 0..Len(s) : n = Stop(s, i)
      <4>1. CASE n = HeadNode
        <5>1. 0 \in 0..Len(s)
          BY <2>4
        <5> QED
          BY <2>4, <4>1, <5>1
      <4>2. CASE n \in Mapped
        <5>1. PICK j \in 1..Len(s) : n = s[j]
          BY <2>7, <4>2
        <5>2. j \in 0..Len(s) /\ n = Stop(s, j)
          BY <2>4, <5>1
        <5> QED
          BY <5>2
      <4> QED
        BY <4>1, <4>2
    <3>2. next[n] = Stop(s, i + 1) /\ prev[next[n]] = n
      BY <2>3, <3>1
    <3>3. Stop(s, i + 1) \in Nodes \cup {TailNode}
      <4>1. i + 1 \in 1..Len(s) \/ i + 1 = Len(s) + 1
        BY <2>4
      <4> QED
        BY <2>4, <4>1
    <3> QED
      BY <3>2, <3>3
  <2>9. \A k \in Keys : mp[k] # Nil => key[mp[k]] = k
    BY <2>6
  <2> QED
    BY <2>2, <2>5, <2>7, <2>8, <2>9 DEF ListMatchesMap
<1> QED
  BY <1>1, ListInvariant, PTL

\* The linked list and the map implement a least-recently-used cache: Get answers with the
\* value last put under the key and makes its entry the most recent, Put replaces the entry
\* of its key or, when there is no room, evicts the one used longest ago, and nothing else.
THEOREM ListImplementsLRU == Spec => Implements
<1>1. Init => Abstract!Init
  <2> SUFFICES ASSUME Init PROVE Abstract!Init
    OBVIOUS
  <2>1. ListInv /\ ListIs(<< >>)
    BY ListStart
  <2>2. PICK s \in Seq(Nodes) : s = << >>
    <3>1. << >> \in Seq(Nodes)
      OBVIOUS
    <3> QED
      BY <3>1
  <2>3. Contents = << >>
    <3>1. Contents = Rec(key, value, s)
      BY <2>1, <2>2, ListIsGood
    <3>2. Len(s) = 0 /\ \A i \in 1..Len(s) : key[s[i]] \in Keys /\ value[s[i]] \in Values
      BY <2>2
    <3>3. Rec(key, value, s) \in Seq(Records) /\ Len(Rec(key, value, s)) = Len(s)
      BY <3>2, RecIs
    <3> QED
      BY <3>1, <3>2, <3>3, EmptySeq
  <2>4. answer = Nil
    BY DEF Init
  <2> QED
    BY <2>3, <2>4 DEF Abstract!Init
<1>2. ListInv /\ [Next]_vars => [Abstract!Next]_<<Contents, answer>>
  BY ListStep
<1> QED
  BY <1>1, <1>2, ListInvariant, PTL DEF Spec, Implements, Abstract!Spec
=============================================================================
