--------------------------- MODULE StorageProofs ---------------------------
(***************************************************************************)
(* What holds of the storage components for every number of frames, every  *)
(* page, every number of tables and every hash table:                      *)
(*                                                                         *)
(*  - ClockReplacer: the linked list of circular_list.go is a circle that  *)
(*    its clock hand finds, and the replacer built on it is the queue that *)
(*    BufferPoolManager assumes (Replacer);                                *)
(*  - TablePage: the bytes of a page are tiled by its tuples, and the page *)
(*    behaves as the page of slots that TableHeap assumes (SlotPage);      *)
(*  - Catalog: what a restart finds of the tables, and their first pages;  *)
(*  - HashIndex and its linear probe hash table: a slot once occupied      *)
(*    stays so, the chain of a hash never gets shorter and every pair      *)
(*    stays in the chain it was put into, so that Remove finds the pair of *)
(*    a row, and a row that is not found was never put in.                 *)
(*                                                                         *)
(* Each part has an inductive invariant (ClockInv, PageInv, CatalogInv and *)
(* PagesInv, IndexInv) and one lemma for every action.                     *)
(***************************************************************************)
EXTENDS ClockReplacer, TablePage, Catalog, HashIndex, Integers, FunctionTheorems,
        FiniteSetTheorems, NaturalsInduction, WellFoundedInduction, SequenceTheorems, TLAPS

\* A set of naturals that is not empty has a least element.
LEMMA LeastElement ==
    ASSUME NEW T \in SUBSET Nat, T # {}
    PROVE  \E x \in T : \A y \in T : x <= y
  <1>1. PICK x \in T : \A y \in T : <<y, x>> \notin OpToRel(<, Nat)
    BY NatLessThanWellFounded, WFMin, Zenon
  <1>2. \A y \in T : ~(y < x)
    BY <1>1 DEF OpToRel
  <1> QED  BY <1>2

\* w follows nx for n steps, beginning with h.
Walks(w, n, h, nx) == w[0] = h /\ \A i \in 1 .. n : w[i] = nx[w[i - 1]]

\* There is one way to follow the pointers.
LEMMA WalkIsUnique ==
    ASSUME NEW h, NEW nx, NEW n \in Nat, NEW v, NEW w,
           Walks(v, n, h, nx), Walks(w, n, h, nx)
    PROVE  \A i \in 0 .. n : v[i] = w[i]
  <1> SUFFICES ASSUME {i \in 0 .. n : v[i] # w[i]} # {} PROVE FALSE
    OBVIOUS
  <1>1. PICK k \in {i \in 0 .. n : v[i] # w[i]} : \A i \in {i \in 0 .. n : v[i] # w[i]} : k <= i
    <2>1. {i \in 0 .. n : v[i] # w[i]} \in SUBSET Nat
      OBVIOUS
    <2> QED  BY <2>1, LeastElement
  <1>2. CASE k = 0
    BY <1>1, <1>2 DEF Walks
  <1>3. CASE k # 0
    <2>1. k \in 1 .. n /\ k - 1 \in 0 .. n /\ ~(k <= k - 1)
      BY <1>1, <1>3
    <2>2. v[k - 1] = w[k - 1]
      BY <1>1, <2>1
    <2> QED  BY <1>1, <2>1, <2>2 DEF Walks
  <1> QED  BY <1>2, <1>3

\* And there always is one.
LEMMA WalkExists ==
    ASSUME NEW h, NEW nx, NEW n \in Nat
    PROVE  \E w : Walks(w, n, h, nx)
  <1> DEFINE Bad == {m \in Nat : ~ \E w : Walks(w, m, h, nx)}
  <1> SUFFICES ASSUME Bad # {} PROVE FALSE
    OBVIOUS
  <1>1. PICK k \in Bad : \A m \in Bad : k <= m
    BY LeastElement
  <1>2. Walks([i \in {0} |-> h], 0, h, nx)
    BY DEF Walks
  <1>3. k \in Nat \ {0}
    BY <1>1, <1>2
  <1>4. PICK w : Walks(w, k - 1, h, nx)
    <2>1. k - 1 \in Nat /\ ~(k <= k - 1)
      BY <1>3
    <2> QED  BY <1>1, <2>1
  <1>5. PICK v : v = [i \in 0 .. k |-> IF i = k THEN nx[w[k - 1]] ELSE w[i]]
    OBVIOUS
  <1>6. Walks(v, k, h, nx)
    <2>1. v[0] = h
      BY <1>3, <1>4, <1>5 DEF Walks
    <2>2. ASSUME NEW i \in 1 .. k PROVE v[i] = nx[v[i - 1]]
      <3>1. i - 1 \in 0 .. k /\ i - 1 # k /\ i \in 0 .. k
        BY <1>3
      <3>2. v[i - 1] = w[i - 1]
        BY <1>5, <3>1
      <3>3. CASE i = k
        BY <1>5, <3>1, <3>2, <3>3
      <3>4. CASE i # k
        <4>1. i \in 1 .. k - 1
          BY <1>3, <3>4
        <4>2. w[i] = nx[w[i - 1]]
          BY <1>4, <4>1 DEF Walks
        <4> QED  BY <1>5, <3>1, <3>2, <3>4, <4>2
      <3> QED  BY <3>3, <3>4
    <2> QED  BY <2>1, <2>2 DEF Walks
  <1> QED  BY <1>1, <1>6

\* So the recursive definition of At makes sense.
IsWalk(g, h, nx) == g = [i \in Nat |-> IF i = 0 THEN h ELSE nx[g[i - 1]]]

\* There is a walk from every node.
LEMMA WalkFunction ==
    ASSUME NEW h, NEW nx
    PROVE  \E g : IsWalk(g, h, nx)
  <1> DEFINE walk(n) == CHOOSE w : Walks(w, n, h, nx)
  <1>1. \A n \in Nat : Walks(walk(n), n, h, nx)
    BY WalkExists
  <1>2. PICK g : g = [i \in Nat |-> walk(i)[i]]
    OBVIOUS
  <1> HIDE DEF walk
  <1>3. g[0] = h
    BY <1>1, <1>2 DEF Walks
  <1>4. ASSUME NEW i \in Nat \ {0} PROVE g[i] = nx[g[i - 1]]
    <2>1. i - 1 \in Nat /\ i \in 1 .. i /\ i - 1 \in 0 .. i - 1
      OBVIOUS
    <2>2. Walks(walk(i), i, h, nx) /\ Walks(walk(i - 1), i - 1, h, nx)
      BY <1>1, <2>1
    <2>3. Walks(walk(i), i - 1, h, nx)
      <3>1. \A j \in 1 .. i - 1 : j \in 1 .. i
        OBVIOUS
      <3> QED  BY <2>2, <3>1 DEF Walks
    <2>4. walk(i)[i - 1] = walk(i - 1)[i - 1]
      BY <2>1, <2>2, <2>3, WalkIsUnique
    <2>5. walk(i)[i] = nx[walk(i)[i - 1]]
      BY <2>1, <2>2 DEF Walks
    <2> QED  BY <1>2, <2>1, <2>4, <2>5
  <1>5. \A i \in Nat : g[i] = IF i = 0 THEN h ELSE nx[g[i - 1]]
    BY <1>3, <1>4
  <1>6. IsWalk(g, h, nx)
    BY <1>2, <1>5 DEF IsWalk
  <1> QED  BY <1>6

\* find() and its like walk from the head along next, before a step and after it.
LEMMA AtWalks ==
    /\ At[0] = head /\ \A i \in Nat : At[i + 1] = next[At[i]]
    /\ At'[0] = head' /\ \A i \in Nat : At'[i + 1] = next'[At'[i]]
  <1>1. ASSUME NEW h, NEW nx, NEW g, IsWalk(g, h, nx)
        PROVE  g[0] = h /\ \A i \in Nat : g[i + 1] = nx[g[i]]
    <2>1. \A i \in Nat : i + 1 \in Nat /\ i + 1 # 0 /\ (i + 1) - 1 = i
      OBVIOUS
    <2> QED  BY <1>1, <2>1 DEF IsWalk
  <1>2. IsWalk(At, head, next)
    <2>1. At = CHOOSE f : IsWalk(f, head, next)
      BY Zenon DEF At, IsWalk
    <2> QED  BY <2>1, WalkFunction, Zenon
  <1>3. IsWalk(At', head', next')
    <2>1. At' = CHOOSE f : IsWalk(f, head', next')
      BY Zenon DEF At, IsWalk
    <2> QED  BY <2>1, WalkFunction, Zenon
  <1>4. At[0] = head /\ \A i \in Nat : At[i + 1] = next[At[i]]
    BY <1>1, <1>2
  <1>5. At'[0] = head' /\ \A i \in Nat : At'[i + 1] = next'[At'[i]]
    BY <1>1, <1>3
  <1> QED  BY <1>4, <1>5

----------------------------------------------------------------------------
(* The inductive invariant.                                                *)

ListTypes ==
    /\ key \in [Nodes -> Frames \union {NoFrame}]
    /\ next \in [Nodes -> Nodes \union {Nil}]
    /\ prev \in [Nodes -> Nodes \union {Nil}]
    /\ head \in Nodes \union {Nil} /\ tail \in Nodes \union {Nil} /\ size \in Nat

\* The first size steps from the head meet nodes of the list.
OnCircle ==
    /\ \A i \in 0 .. size - 1 : /\ At[i] \in Nodes /\ key[At[i]] \in Frames
                                /\ next[At[i]] \in Nodes /\ prev[next[At[i]]] = At[i]
    /\ \A i, j \in 0 .. size - 1 : key[At[i]] = key[At[j]] => i = j
    /\ size > 0 => At[size - 1] = tail /\ next[tail] = head

\* The hand is at the head field or on a node that left the list.
HandOutside ==
    /\ hand \in Nodes \union {HeadField}
    /\ size > 0 /\ hand \in Nodes => hand \notin Listed /\ next[hand] = head

ClockInv == ListTypes /\ OnCircle /\ HandOutside

----------------------------------------------------------------------------
(* The list.                                                               *)

\* Nil is no node.
LEMMA NodeNames == Nodes \subseteq Nat \ {0} /\ Nil = 0 /\ HeadField = 0
  <1>1. Cardinality(Frames) \in Nat
    BY FramesAssumption, FS_CardinalityType
  <1> QED  BY <1>1 DEF Nodes, Nil, HeadField

\* The neighbours of a node of the list.
LEMMA Neighbours ==
    ASSUME ClockInv
    PROVE  /\ \A i, j \in 0 .. size - 1 : At[i] = At[j] => i = j
           /\ \A i \in 0 .. size - 1 : i + 1 < size => /\ next[At[i]] = At[i + 1]
                                                       /\ prev[At[i + 1]] = At[i]
           /\ size > 0 => At[0] = head /\ head \in Nodes /\ tail \in Nodes /\ prev[head] = tail
           /\ size > 0 => next[tail] = head /\ At[size - 1] = tail
           /\ \A n : n \in Listed <=> \E i \in 0 .. size - 1 : At[i] = n
           /\ Listed \subseteq Nodes
  <1>1. /\ size \in Nat
        /\ \A i \in 0 .. size - 1 : /\ At[i] \in Nodes /\ key[At[i]] \in Frames
                                    /\ next[At[i]] \in Nodes /\ prev[next[At[i]]] = At[i]
        /\ \A i, j \in 0 .. size - 1 : key[At[i]] = key[At[j]] => i = j
        /\ size > 0 => At[size - 1] = tail /\ next[tail] = head
    BY DEF ClockInv, ListTypes, OnCircle
  <1>2. At[0] = head /\ \A i \in Nat : At[i + 1] = next[At[i]]
    BY AtWalks
  <1>3. \A i, j \in 0 .. size - 1 : At[i] = At[j] => i = j
    BY <1>1
  <1>4. ASSUME NEW i \in 0 .. size - 1, i + 1 < size
        PROVE  next[At[i]] = At[i + 1] /\ prev[At[i + 1]] = At[i]
    BY <1>1, <1>2
  <1>5. ASSUME size > 0 PROVE head \in Nodes /\ tail \in Nodes /\ prev[head] = tail
    <2>1. 0 \in 0 .. size - 1 /\ size - 1 \in 0 .. size - 1
      BY <1>1, <1>5
    <2> QED  BY <1>1, <1>2, <1>5, <2>1
  <1>6. \A n : n \in Listed <=> \E i \in 0 .. size - 1 : At[i] = n
    BY DEF Listed
  <1>7. Listed \subseteq Nodes
    BY <1>1, <1>6
  <1> QED  BY <1>1, <1>2, <1>3, <1>4, <1>5, <1>6, <1>7

\* Whatever follows next' from head' is the list after the step.
LEMMA NewWalk ==
    ASSUME NEW w, NEW n \in Nat, w[0] = head', \A i \in 1 .. n : w[i] = next'[w[i - 1]]
    PROVE  \A i \in 0 .. n : At'[i] = w[i]
  <1>1. Walks(w, n, head', next')
    BY DEF Walks
  <1>2. Walks(At', n, head', next')
    <2>1. At'[0] = head' /\ \A i \in Nat : At'[i + 1] = next'[At'[i]]
      BY AtWalks
    <2>2. \A i \in 1 .. n : i - 1 \in Nat /\ (i - 1) + 1 = i
      OBVIOUS
    <2>3. \A i \in 1 .. n : At'[i] = next'[At'[i - 1]]
      BY <2>1, <2>2
    <2> QED  BY <2>1, <2>3 DEF Walks
  <1> QED  BY <1>1, <1>2, WalkIsUnique

\* find returns the node with the key.
LEMMA Finds ==
    ASSUME ClockInv, NEW f
    PROVE  /\ find(f) = Nil => \A i \in 0 .. size - 1 : key[At[i]] # f
           /\ \A i \in 0 .. size - 1 : key[At[i]] = f => find(f) = At[i]
           /\ find(f) # Nil => \E i \in 0 .. size - 1 : key[At[i]] = f /\ find(f) = At[i]
  <1>1. \A n : n \in Listed <=> \E i \in 0 .. size - 1 : At[i] = n
    BY Neighbours
  <1>2. \A i, j \in 0 .. size - 1 : key[At[i]] = key[At[j]] => i = j
    BY DEF ClockInv, OnCircle
  <1>3. ASSUME NEW i \in 0 .. size - 1, key[At[i]] = f PROVE find(f) = At[i]
    <2>1. At[i] \in Listed /\ \A n \in Listed : key[n] = f => n = At[i]
      BY <1>1, <1>2, <1>3
    <2>2. (CHOOSE n \in Listed : key[n] = f) = At[i]
      BY <1>3, <2>1
    <2> QED  BY <1>3, <2>1, <2>2 DEF find
  <1>4. ASSUME NEW i \in 0 .. size - 1 PROVE At[i] # Nil
    BY NodeNames DEF ClockInv, OnCircle
  <1>5. ASSUME \A i \in 0 .. size - 1 : key[At[i]] # f PROVE find(f) = Nil
    BY <1>1, <1>5 DEF find
  <1> QED  BY <1>3, <1>4, <1>5

\* There is always a node for a new entry.
LEMMA FreshNodeExists ==
    ASSUME ClockInv, NEW f \in Frames, \A i \in 0 .. size - 1 : key[At[i]] # f
    PROVE  FreshNode \in Nodes /\ FreshNode \notin Listed /\ FreshNode # hand
  <1> SUFFICES ASSUME \A n \in Nodes : n \in Listed \/ n = hand PROVE FALSE
    BY DEF FreshNode
  <1>1. /\ IsFiniteSet(Frames) /\ Cardinality(Frames) \in Nat
        /\ IsFiniteSet(Nodes) /\ Cardinality(Nodes) = Cardinality(Frames) + 1
    <2>1. IsFiniteSet(Frames) /\ Cardinality(Frames) \in Nat
      BY FramesAssumption, FS_CardinalityType
    <2>2. IsFiniteSet(Nodes) /\ Cardinality(Nodes) = Cardinality(Frames) + 1
      BY <2>1, FS_Interval DEF Nodes
    <2> QED  BY <2>1, <2>2
  <1>2. PICK T : T = (Frames \ {f}) \union {NoFrame}
    OBVIOUS
  <1>3. IsFiniteSet(T) /\ Cardinality(T) < Cardinality(Nodes)
    <2>1. IsFiniteSet(Frames \ {f}) /\ Cardinality(Frames \ {f}) = Cardinality(Frames) - 1
      BY <1>1, FS_RemoveElement
    <2>2. /\ IsFiniteSet(T)
          /\ Cardinality(T) = Cardinality(Frames) \/ Cardinality(T) = Cardinality(Frames) - 1
      BY <1>1, <1>2, <2>1, FS_AddElement, SMTT(30)
    <2> QED  BY <1>1, <2>2
  <1>4. PICK g : g = [n \in Nodes |-> IF n \in Listed THEN key[n] ELSE NoFrame]
    OBVIOUS
  <1>5. \A n \in Listed : key[n] \in Frames \ {f}
    BY Neighbours DEF ClockInv, OnCircle
  <1>6. g \in [Nodes -> T]
    BY <1>2, <1>4, <1>5
  <1>7. PICK x \in Nodes, y \in Nodes : x # y /\ g[x] = g[y]
    BY <1>1, <1>3, <1>6, FS_PigeonHole
  <1>8. ~(x \in Listed /\ y \in Listed)
    <2>1. \A n : n \in Listed <=> \E i \in 0 .. size - 1 : At[i] = n
      BY Neighbours
    <2> QED  BY <1>4, <1>7, <2>1 DEF ClockInv, OnCircle
  <1>9. x \notin Listed => y \notin Listed
    BY <1>4, <1>5, <1>7, FramesAssumption
  <1>10. y \notin Listed => x \notin Listed
    BY <1>4, <1>5, <1>7, FramesAssumption
  <1> QED  BY <1>7, <1>8, <1>9, <1>10

\* A walk along the new pointers that comes back to the head is the new circle.
LEMMA CircleAgain ==
    ASSUME NEW m \in Nat, size' = m + 1, NEW w,
           w[0] = head', w[m] = tail', next'[tail'] = head', prev'[head'] = tail',
           \A i \in 0 .. m : w[i] \in Nodes /\ key'[w[i]] \in Frames,
           \A i \in 1 .. m : next'[w[i - 1]] = w[i] /\ prev'[w[i]] = w[i - 1],
           \A i, j \in 0 .. m : key'[w[i]] = key'[w[j]] => i = j
    PROVE  /\ OnCircle' /\ \A i \in 0 .. m : At'[i] = w[i]
           /\ \A n : n \in Listed' <=> \E i \in 0 .. m : w[i] = n
  <1>1. size' - 1 = m /\ 0 \in 0 .. m /\ m \in 0 .. m
    OBVIOUS
  <1>2. \A i \in 0 .. m : At'[i] = w[i]
    BY NewWalk
  <1>3. ASSUME NEW i \in 0 .. m
        PROVE  next'[w[i]] \in Nodes /\ prev'[next'[w[i]]] = w[i]
    <2>1. CASE i = m
      BY <1>1, <2>1
    <2>2. CASE i # m
      <3>1. i + 1 \in 1 .. m /\ i + 1 \in 0 .. m /\ (i + 1) - 1 = i
        BY <2>2
      <3>2. next'[w[i]] = w[i + 1] /\ prev'[w[i + 1]] = w[i] /\ w[i + 1] \in Nodes
        BY <3>1
      <3> QED  BY <3>2
    <2> QED  BY <2>1, <2>2
  <1>4. OnCircle'
    BY <1>1, <1>2, <1>3 DEF OnCircle
  <1>5. \A n : n \in Listed' <=> \E i \in 0 .. m : w[i] = n
    BY <1>1, <1>2 DEF Listed
  <1> QED  BY <1>2, <1>4, <1>5

\* insert puts the node at the end of the list.
LEMMA InsertStep ==
    ASSUME ClockInv, NEW n \in Nodes, n \notin Listed, n # hand, NEW f \in Frames,
           \A i \in 0 .. size - 1 : key[At[i]] # f,
           insert(n, f), hand' = IF size = 0 THEN HeadField ELSE hand
    PROVE  /\ ClockInv' /\ size' = size + 1
           /\ \A i \in 0 .. size - 1 : key'[At'[i]] = key[At[i]]
           /\ key'[At'[size]] = f
  <1>1. /\ ListTypes /\ size \in Nat /\ size' = size + 1 /\ tail' = n
        /\ size' - 1 = size /\ 0 \notin Nodes
    BY NodeNames DEF ClockInv, ListTypes, insert
  <1>2. CASE size = 0
    <2>1. /\ head' = n /\ hand' = HeadField
          /\ key' = Collected([key EXCEPT ![n] = f], {n}, NoFrame)
          /\ next' = Collected([next EXCEPT ![n] = n], {n}, Nil)
          /\ prev' = Collected([prev EXCEPT ![n] = n], {n}, Nil)
      BY <1>2 DEF insert, CollectBut
    <2>2. key'[n] = f /\ next'[n] = n /\ prev'[n] = n
      BY <1>1, <2>1 DEF Collected, ListTypes
    <2>3. ListTypes'
      BY <1>1, <2>1 DEF ListTypes, Collected
    <2>4. PICK w : w = [i \in {0} |-> n]
      OBVIOUS
    <2>5. /\ OnCircle' /\ \A i \in 0 .. size : At'[i] = w[i]
      <3>1. \A i \in 0 .. size : i = 0 /\ w[i] = n
        BY <1>1, <1>2, <2>4
      <3>2. w[0] = n /\ w[size] = n /\ 1 .. size = {}
        BY <1>1, <1>2, <2>4
      <3>3. /\ w[0] = head' /\ w[size] = tail' /\ next'[tail'] = head' /\ prev'[head'] = tail'
            /\ \A i \in 0 .. size : w[i] \in Nodes /\ key'[w[i]] \in Frames
            /\ \A i, j \in 0 .. size : key'[w[i]] = key'[w[j]] => i = j
        BY <1>1, <2>1, <2>2, <3>1, <3>2
      <3>4. \A i \in 1 .. size : next'[w[i - 1]] = w[i] /\ prev'[w[i]] = w[i - 1]
        BY <3>2
      <3> QED  BY <1>1, <3>3, <3>4, CircleAgain
    <2>6. HandOutside'
      BY <1>1, <2>1, NodeNames DEF HandOutside
    <2>7. At'[0] = n
      <3>1. 0 \in 0 .. size
        BY <1>1, <1>2
      <3> QED  BY <2>4, <2>5, <3>1
    <2> QED  BY <1>1, <1>2, <2>2, <2>3, <2>5, <2>6, <2>7 DEF ClockInv
  <1>3. CASE size # 0
    <2>1. /\ head' = head /\ hand' = hand
          /\ key' = Collected([key EXCEPT ![n] = f], Listed \union {n, hand}, NoFrame)
          /\ next' = Collected([next EXCEPT ![n] = head, ![tail] = n],
                               Listed \union {n, hand}, Nil)
          /\ prev' = Collected([prev EXCEPT ![n] = tail, ![head] = n],
                               Listed \union {n, hand}, Nil)
      BY <1>3 DEF insert, CollectBut
    <2>2. /\ head \in Listed /\ tail \in Listed /\ head \in Nodes /\ tail \in Nodes
          /\ At[0] = head /\ At[size - 1] = tail /\ next[tail] = head /\ prev[head] = tail
      <3>1. 0 \in 0 .. size - 1 /\ size - 1 \in 0 .. size - 1 /\ size > 0
        BY <1>1, <1>3
      <3> QED  BY <3>1, Neighbours
    <2>3. ListTypes'
      BY <1>1, <2>1, <2>2 DEF ListTypes, Collected
    <2>4. /\ key'[n] = f /\ next'[n] = head /\ prev'[n] = tail
          /\ next'[tail] = n /\ prev'[head] = n
      BY <1>1, <2>1, <2>2 DEF Collected, ListTypes
    <2>5. ASSUME NEW m \in Listed
          PROVE  /\ m \in Nodes /\ key'[m] = key[m]
                 /\ m # tail => next'[m] = next[m]
                 /\ m # head => prev'[m] = prev[m]
      <3>1. m \in Nodes /\ m # n
        BY Neighbours
      <3> QED  BY <1>1, <2>1, <2>2, <3>1 DEF Collected, ListTypes
    <2>6. PICK w : w = [i \in 0 .. size |-> IF i = size THEN n ELSE At[i]]
      OBVIOUS
    <2>7. /\ \A i \in 0 .. size - 1 : w[i] = At[i] /\ At[i] \in Listed
          /\ w[size] = n
      <3>1. \A i \in 0 .. size - 1 : i \in 0 .. size /\ i # size
        BY <1>1
      <3>2. size \in 0 .. size
        BY <1>1
      <3>3. \A i \in 0 .. size - 1 : At[i] \in Listed
        BY Neighbours
      <3> QED  BY <2>6, <3>1, <3>2, <3>3
    <2>8. ASSUME NEW i \in 1 .. size
          PROVE  next'[w[i - 1]] = w[i] /\ prev'[w[i]] = w[i - 1]
      <3>1. CASE i = size
        <4>1. i - 1 \in 0 .. size - 1
          BY <1>1, <1>3, <3>1
        <4>2. w[i - 1] = tail
          BY <2>2, <2>7, <3>1, <4>1
        <4> QED  BY <2>4, <2>7, <3>1, <4>2
      <3>2. CASE i # size
        <4>1. /\ i \in 0 .. size - 1 /\ i - 1 \in 0 .. size - 1 /\ (i - 1) + 1 = i
              /\ i - 1 # size - 1 /\ i # 0 /\ i < size
              /\ 0 \in 0 .. size - 1 /\ size - 1 \in 0 .. size - 1
          BY <1>1, <1>3, <3>2
        <4>2. At[i - 1] # tail /\ At[i] # head
          BY <2>2, <4>1, Neighbours
        <4>3. next[At[i - 1]] = At[i] /\ prev[At[i]] = At[i - 1]
          BY <4>1, Neighbours
        <4> QED  BY <2>5, <2>7, <4>1, <4>2, <4>3
      <3> QED  BY <3>1, <3>2
    <2>9. ASSUME NEW i \in 0 .. size
          PROVE  /\ w[i] \in Nodes /\ key'[w[i]] \in Frames
                 /\ i = size => key'[w[i]] = f
                 /\ i # size => i \in 0 .. size - 1 /\ key'[w[i]] = key[At[i]]
      <3>1. CASE i = size
        BY <2>4, <2>7, <3>1
      <3>2. CASE i # size
        <4>1. i \in 0 .. size - 1
          BY <1>1, <3>2
        <4> QED  BY <2>5, <2>7, <3>2, <4>1 DEF ClockInv, OnCircle
      <3> QED  BY <3>1, <3>2
    <2>10. ASSUME NEW i \in 0 .. size, NEW j \in 0 .. size,
                  key'[w[i]] = key'[w[j]]
           PROVE  i = j
      BY <2>9, <2>10 DEF ClockInv, OnCircle
    <2>11. /\ OnCircle' /\ \A i \in 0 .. size : At'[i] = w[i]
           /\ \A m : m \in Listed' <=> \E i \in 0 .. size : w[i] = m
      <3>1. w[0] = head' /\ w[size] = tail'
        <4>1. 0 \in 0 .. size - 1
          BY <1>1, <1>3
        <4> QED  BY <1>1, <2>1, <2>2, <2>7, <4>1
      <3>2. next'[tail'] = head' /\ prev'[head'] = tail'
        BY <1>1, <2>1, <2>4
      <3> QED  BY <1>1, <2>8, <2>9, <2>10, <3>1, <3>2, CircleAgain
    <2>12. HandOutside'
      <3>1. hand \in Nodes \union {HeadField}
        BY DEF ClockInv, HandOutside
      <3>2. ASSUME hand \in Nodes PROVE hand \notin Listed' /\ next'[hand] = head
        <4>1. hand \notin Listed /\ next[hand] = head
          BY <1>1, <1>3, <3>2 DEF ClockInv, HandOutside
        <4>2. next'[hand] = next[hand]
          BY <1>1, <2>1, <2>2, <3>2, <4>1 DEF Collected, ListTypes
        <4>3. \A i \in 0 .. size : w[i] # hand
          BY <1>1, <2>7, <2>9, <4>1
        <4> QED  BY <2>11, <4>1, <4>2, <4>3
      <3> QED  BY <2>1, <3>1, <3>2 DEF HandOutside
    <2>13. size \in 0 .. size /\ \A i \in 0 .. size - 1 : i \in 0 .. size /\ i # size
      BY <1>1
    <2> QED  BY <1>1, <2>3, <2>9, <2>11, <2>12, <2>13 DEF ClockInv
  <1> QED  BY <1>2, <1>3

\* The position in the list before a removal at k of what is at i after it.
Before(i, k) == IF i < k THEN i ELSE i + 1

\* remove closes the circle behind the node, and the hand is left outside of it.
LEMMA RemoveStep ==
    ASSUME ClockInv, NEW k \in 0 .. size - 1, NEW n, n = At[k], NEW h,
           (h = hand /\ k # 0) \/ (h = n /\ k = 0), remove(n, h), hand' = h
    PROVE  /\ ClockInv' /\ size' = size - 1
           /\ \A i \in 0 .. size - 2 : key'[At'[i]] = key[At[Before(i, k)]]
  <1>1. /\ ListTypes /\ OnCircle /\ HandOutside /\ size \in Nat /\ size > 0 /\ 0 \notin Nodes
        /\ size' = size - 1 /\ HeadField = 0 /\ h \in Nodes \union {0} /\ n \in Nodes
    BY NodeNames DEF ClockInv, ListTypes, OnCircle, HandOutside, remove
  <1>2. /\ key' = Collected(key, (Listed \ {n}) \union {h}, NoFrame)
        /\ next' = Collected([next EXCEPT ![prev[n]] = next[n]], (Listed \ {n}) \union {h}, Nil)
        /\ prev' = Collected([prev EXCEPT ![next[n]] = prev[n]], (Listed \ {n}) \union {h}, Nil)
    BY DEF remove, CollectBut
  <1>3. PICK p, s : p = prev[n] /\ s = next[n]
    OBVIOUS
  <1>4. p \in Nodes /\ s \in Nodes /\ p \in Listed
    <2>1. s \in Nodes
      BY <1>1, <1>3 DEF OnCircle
    <2>2. \E i \in 0 .. size - 1 : p = At[i]
      <3>1. CASE k = 0
        BY <1>1, <1>3, <3>1, Neighbours
      <3>2. CASE k # 0
        <4>1. k - 1 \in 0 .. size - 1 /\ (k - 1) + 1 = k /\ (k - 1) + 1 < size
          BY <1>1, <3>2
        <4> QED  BY <1>3, <4>1, Neighbours
      <3> QED  BY <3>1, <3>2
    <2> QED  BY <2>1, <2>2, Neighbours
  <1>5. /\ \A x \in Nodes : x \in Listed \ {n} \/ x = h =>
               /\ key'[x] = key[x]
               /\ next'[x] = IF x = p THEN s ELSE next[x]
               /\ prev'[x] = IF x = s THEN p ELSE prev[x]
    BY <1>1, <1>2, <1>3, <1>4 DEF Collected, ListTypes
  <1>6. ListTypes'
    <2>1. key' \in [Nodes -> Frames \union {NoFrame}]
      BY <1>1, <1>2 DEF Collected, ListTypes
    <2>2. next' \in [Nodes -> Nodes \union {Nil}]
      BY <1>1, <1>2, <1>3, <1>4 DEF Collected, ListTypes
    <2>3. prev' \in [Nodes -> Nodes \union {Nil}]
      BY <1>1, <1>2, <1>3, <1>4 DEF Collected, ListTypes
    <2>4. head' \in Nodes \union {Nil} /\ tail' \in Nodes \union {Nil}
      BY <1>1, Neighbours DEF remove, ListTypes
    <2>5. size' \in Nat
      BY <1>1
    <2> QED  BY <2>1, <2>2, <2>3, <2>4, <2>5 DEF ListTypes
  <1>7. CASE size = 1
    <2>1. size' = 0 /\ 0 .. size' - 1 = {} /\ ~(size' > 0) /\ 0 .. size - 2 = {}
      BY <1>1, <1>7
    <2>2. OnCircle' /\ HandOutside'
      BY <1>1, <2>1 DEF OnCircle, HandOutside
    <2> QED  BY <1>1, <1>6, <2>1, <2>2 DEF ClockInv
  <1>8. CASE size # 1
    <2>1. PICK m \in Nat : m = size - 2
      BY <1>1, <1>8
    <2>2. PICK w : w = [i \in 0 .. m |-> At[Before(i, k)]]
      OBVIOUS
    <2>3. /\ \A i \in 0 .. m : Before(i, k) \in 0 .. size - 1 /\ Before(i, k) # k
          /\ \A i, j \in 0 .. m : Before(i, k) = Before(j, k) => i = j
      BY <1>1, <2>1 DEF Before
    <2>4. ASSUME NEW i \in 0 .. size - 1, i # k
          PROVE  At[i] \in Nodes /\ At[i] \in Listed \ {n} /\ key'[At[i]] = key[At[i]]
      BY <1>5, <2>4, Neighbours
    <2>5. /\ k = 0 => p = At[size - 1]
          /\ k # 0 => p = At[k - 1]
          /\ k = size - 1 => s = At[0]
          /\ k # size - 1 => s = At[k + 1]
      <3>1. At[0] = head /\ prev[head] = tail /\ next[tail] = head /\ At[size - 1] = tail
        BY <1>1, Neighbours
      <3>2. k # 0 => p = At[k - 1]
        <4>1. k # 0 => k - 1 \in 0 .. size - 1 /\ (k - 1) + 1 = k /\ (k - 1) + 1 < size
          BY <1>1
        <4> QED  BY <1>3, <4>1, Neighbours
      <3>3. k # size - 1 => s = At[k + 1]
        <4>1. k # size - 1 => k + 1 < size
          BY <1>1
        <4> QED  BY <1>3, <4>1, Neighbours
      <3> QED  BY <1>3, <3>1, <3>2, <3>3
    <2>6. ASSUME NEW i \in 0 .. size - 1, i # k
          PROVE  /\ At[i] = p <=> (k = 0 /\ i = size - 1) \/ (k # 0 /\ i = k - 1)
                 /\ At[i] = s <=> (k = size - 1 /\ i = 0) \/ (k # size - 1 /\ i = k + 1)
      <3>1. /\ 0 \in 0 .. size - 1 /\ size - 1 \in 0 .. size - 1
            /\ k # 0 => k - 1 \in 0 .. size - 1
            /\ k # size - 1 => k + 1 \in 0 .. size - 1
        BY <1>1
      <3>2. \A a, b \in 0 .. size - 1 : At[a] = At[b] => a = b
        BY Neighbours
      <3> QED  BY <2>5, <3>1, <3>2
    <2>7. /\ head' = IF k = 0 THEN At[1] ELSE At[0]
          /\ tail' = IF k = size - 1 THEN At[size - 2] ELSE At[size - 1]
      <3>1. /\ head' = IF n = head THEN next[head] ELSE head
            /\ tail' = IF n = tail THEN prev[tail] ELSE tail
        BY <1>8 DEF remove
      <3>2. At[0] = head /\ At[size - 1] = tail /\ \A a, b \in 0 .. size - 1 : At[a] = At[b] => a = b
        BY <1>1, Neighbours
      <3>3. (n = head <=> k = 0) /\ (n = tail <=> k = size - 1)
        BY <1>1, <3>2
      <3>4. next[head] = At[1] /\ prev[tail] = At[size - 2]
        <4>1. 0 \in 0 .. size - 1 /\ size - 2 \in 0 .. size - 1 /\ 0 + 1 < size /\ (size - 2) + 1 < size
              /\ 0 + 1 = 1 /\ (size - 2) + 1 = size - 1
          BY <1>1, <1>8
        <4>2. next[At[0]] = At[0 + 1] /\ prev[At[(size - 2) + 1]] = At[size - 2]
          BY <4>1, Neighbours
        <4> QED  BY <3>2, <4>1, <4>2
      <3> QED  BY <3>1, <3>2, <3>3, <3>4
    <2>8. w[0] = head' /\ w[m] = tail'
      <3>1. 0 \in 0 .. m /\ m \in 0 .. m /\ m + 1 = size - 1
        BY <1>1, <2>1
      <3>2. w[0] = IF k = 0 THEN At[1] ELSE At[0]
        BY <1>1, <2>2, <3>1 DEF Before
      <3>3. m < k <=> k = size - 1
        BY <1>1, <2>1
      <3>4. w[m] = IF k = size - 1 THEN At[size - 2] ELSE At[size - 1]
        BY <2>1, <2>2, <3>1, <3>3 DEF Before
      <3> QED  BY <2>7, <3>2, <3>4
    <2>9. ASSUME NEW i \in 1 .. m
          PROVE  next'[w[i - 1]] = w[i] /\ prev'[w[i]] = w[i - 1]
      <3>1. i \in 0 .. m /\ i - 1 \in 0 .. m
        BY <2>1
      <3>2. w[i] = At[Before(i, k)] /\ w[i - 1] = At[Before(i - 1, k)]
        BY <2>2, <3>1
      <3>3. PICK a, b : a = Before(i - 1, k) /\ b = Before(i, k)
        OBVIOUS
      <3>4. a \in 0 .. size - 1 /\ b \in 0 .. size - 1 /\ a # k /\ b # k
        BY <2>3, <3>1, <3>3
      <3>5. /\ next'[At[a]] = IF At[a] = p THEN s ELSE next[At[a]]
            /\ prev'[At[b]] = IF At[b] = s THEN p ELSE prev[At[b]]
        BY <1>5, <2>4, <3>4
      <3>6. CASE i = k
        <4>1. a = k - 1 /\ b = k + 1 /\ k # 0 /\ k # size - 1
          BY <1>1, <2>1, <3>3, <3>6 DEF Before
        <4>2. At[a] = p /\ At[b] = s
          BY <2>5, <4>1
        <4> QED  BY <3>2, <3>3, <3>5, <4>2
      <3>7. CASE i # k
        <4>1. /\ b = a + 1 /\ a + 1 < size
              /\ ~((k = 0 /\ a = size - 1) \/ (k # 0 /\ a = k - 1))
              /\ ~((k = size - 1 /\ b = 0) \/ (k # size - 1 /\ b = k + 1))
          BY <1>1, <2>1, <3>3, <3>7 DEF Before
        <4>2. At[a] # p /\ At[b] # s
          BY <2>6, <3>4, <4>1
        <4>3. next[At[a]] = At[b] /\ prev[At[b]] = At[a]
          BY <3>4, <4>1, Neighbours
        <4> QED  BY <3>2, <3>3, <3>5, <4>2, <4>3
      <3> QED  BY <3>6, <3>7
    <2>10. next'[tail'] = head' /\ prev'[head'] = tail'
      <3>1. PICK a, b : /\ a = (IF k = size - 1 THEN size - 2 ELSE size - 1)
                        /\ b = (IF k = 0 THEN 1 ELSE 0)
        OBVIOUS
      <3>2. /\ a \in 0 .. size - 1 /\ b \in 0 .. size - 1 /\ a # k /\ b # k
        BY <1>1, <1>8, <3>1
      <3>3. tail' = At[a] /\ head' = At[b]
        BY <2>7, <3>1
      <3>4. /\ next'[At[a]] = IF At[a] = p THEN s ELSE next[At[a]]
            /\ prev'[At[b]] = IF At[b] = s THEN p ELSE prev[At[b]]
        BY <1>5, <2>4, <3>2
      <3>5. CASE k = 0
        <4>1. a = size - 1 /\ b = k + 1 /\ k # size - 1
          BY <1>1, <1>8, <3>1, <3>5
        <4> QED  BY <2>5, <3>3, <3>4, <3>5, <4>1
      <3>6. CASE k # 0 /\ k = size - 1
        <4>1. a = k - 1 /\ b = 0
          BY <1>1, <3>1, <3>6
        <4> QED  BY <2>5, <3>3, <3>4, <3>6, <4>1
      <3>7. CASE k # 0 /\ k # size - 1
        <4>1. a = size - 1 /\ b = 0 /\ a # k - 1 /\ b # k + 1
          BY <1>1, <3>1, <3>7
        <4>2. At[a] # p /\ At[b] # s
          BY <2>6, <3>2, <3>7, <4>1
        <4>3. At[0] = head /\ prev[head] = tail /\ next[tail] = head /\ At[size - 1] = tail
          BY <1>1, Neighbours
        <4> QED  BY <3>3, <3>4, <4>1, <4>2, <4>3
      <3> QED  BY <3>5, <3>6, <3>7
    <2>11. /\ \A i \in 0 .. m : /\ w[i] \in Nodes /\ w[i] \in Listed \ {n}
                                /\ key'[w[i]] = key[At[Before(i, k)]]
           /\ \A i \in 0 .. m : key'[w[i]] \in Frames
           /\ \A i, j \in 0 .. m : key'[w[i]] = key'[w[j]] => i = j
      <3>1. ASSUME NEW i \in 0 .. m
            PROVE  /\ w[i] \in Nodes /\ w[i] \in Listed \ {n}
                   /\ key'[w[i]] = key[At[Before(i, k)]]
        BY <2>2, <2>3, <2>4
      <3>2. ASSUME NEW i \in 0 .. m PROVE key[At[Before(i, k)]] \in Frames
        BY <1>1, <2>3 DEF OnCircle
      <3>3. ASSUME NEW i \in 0 .. m, NEW j \in 0 .. m, key'[w[i]] = key'[w[j]]
            PROVE  i = j
        <4>1. key[At[Before(i, k)]] = key[At[Before(j, k)]]
          BY <3>1, <3>3
        <4>2. Before(i, k) = Before(j, k)
          BY <1>1, <2>3, <4>1 DEF OnCircle
        <4> QED  BY <2>3, <4>2
      <3> QED  BY <3>1, <3>2, <3>3
    <2>12. /\ OnCircle' /\ \A i \in 0 .. m : At'[i] = w[i]
           /\ \A x : x \in Listed' <=> \E i \in 0 .. m : w[i] = x
      <3>1. size' = m + 1
        BY <1>1, <2>1
      <3> QED  BY <2>8, <2>9, <2>10, <2>11, <3>1, CircleAgain
    <2>13. HandOutside'
      <3>1. ASSUME h \in Nodes PROVE h \notin Listed' /\ next'[h] = head'
        <4>1. CASE h = n /\ k = 0
          <5>1. n # p /\ s = At[1]
            <6>1. 0 # size - 1 /\ size - 1 \in 0 .. size - 1 /\ 0 \in 0 .. size - 1 /\ 0 + 1 = 1
              BY <1>1, <1>8
            <6>2. \A a, b \in 0 .. size - 1 : At[a] = At[b] => a = b
              BY Neighbours
            <6>3. p = At[size - 1] /\ s = At[0 + 1] /\ n = At[0]
              BY <2>5, <4>1, <6>1
            <6> QED  BY <6>1, <6>2, <6>3
          <5>2. next'[n] = s
            BY <1>1, <1>3, <1>5, <4>1, <5>1
          <5>3. n \notin Listed'
            BY <2>11, <2>12
          <5> QED  BY <2>7, <4>1, <5>1, <5>2, <5>3
        <4>2. CASE h = hand /\ k # 0
          <5>1. hand \notin Listed /\ next[hand] = head
            BY <1>1, <3>1, <4>2 DEF HandOutside
          <5>2. next'[hand] = head
            BY <1>4, <1>5, <3>1, <4>2, <5>1
          <5>3. hand \notin Listed'
            BY <2>11, <2>12, <5>1
          <5>4. At[0] = head
            BY <1>1, Neighbours
          <5> QED  BY <2>7, <4>2, <5>2, <5>3, <5>4
        <4> QED  BY <4>1, <4>2
      <3> QED  BY <1>1, <3>1 DEF HandOutside
    <2> QED  BY <1>1, <1>6, <2>1, <2>11, <2>12, <2>13 DEF ClockInv
  <1> QED  BY <1>7, <1>8

----------------------------------------------------------------------------
(* The operations of the replacer.                                         *)

\* What the replacer's clients see of the list.
Queue == [i \in 1 .. size |-> key[At[i - 1]]]

\* The queue has the frames of the list, each once.
LEMMA QueueOfList ==
    ASSUME ClockInv
    PROVE  /\ size \in Nat /\ Queue \in Seq(Frames) /\ Len(Queue) = size
           /\ \A i \in 1 .. size : i - 1 \in 0 .. size - 1 /\ Queue[i] = key[At[i - 1]]
           /\ \A i, j \in 1 .. size : Queue[i] = Queue[j] => i = j
           /\ \A i \in 0 .. size - 1 : i + 1 \in 1 .. size /\ Queue[i + 1] = key[At[i]]
  <1>1. /\ size \in Nat /\ \A i \in 0 .. size - 1 : key[At[i]] \in Frames
        /\ \A i, j \in 0 .. size - 1 : key[At[i]] = key[At[j]] => i = j
    BY DEF ClockInv, ListTypes, OnCircle
  <1>2. \A i \in 1 .. size : i - 1 \in 0 .. size - 1 /\ Queue[i] = key[At[i - 1]]
    BY <1>1 DEF Queue
  <1>3. Queue \in Seq(Frames) /\ Len(Queue) = size
    BY <1>1, <1>2 DEF Queue
  <1>4. ASSUME NEW i \in 1 .. size, NEW j \in 1 .. size, Queue[i] = Queue[j] PROVE i = j
    <2>1. i - 1 = j - 1
      BY <1>1, <1>2, <1>4
    <2> QED  BY <1>1, <2>1
  <1>5. ASSUME NEW i \in 0 .. size - 1 PROVE i + 1 \in 1 .. size /\ Queue[i + 1] = key[At[i]]
    <2>1. i + 1 \in 1 .. size /\ (i + 1) - 1 = i
      BY <1>1
    <2> QED  BY <1>2, <2>1
  <1> QED  BY <1>1, <1>2, <1>3, <1>4, <1>5

\* The hand leads to the head of the list.
LEMMA HandAtHead == ASSUME ClockInv, size > 0 PROVE AtHand = head /\ head = At[0]
  <1>1. At[0] = head
    BY Neighbours
  <1>2. AtHand = head
    BY NodeNames DEF AtHand, ClockInv, HandOutside
  <1> QED  BY <1>1, <1>2

\* Unpin keeps the invariant; it appends the frame unless it is there.
LEMMA UnpinStep ==
    ASSUME ClockInv, NEW f \in Frames, Unpin(f)
    PROVE  /\ ClockInv' /\ victim' = victim
           /\ \/ (\E i \in 1 .. size : Queue[i] = f) /\ Queue' = Queue
              \/ /\ \A i \in 1 .. size : Queue[i] # f
                 /\ Queue' = Append(Queue, f)
  <1>1. victim' = victim
    BY DEF Unpin
  <1>2. CASE find(f) # Nil
    <2>1. PICK i \in 0 .. size - 1 : key[At[i]] = f
      BY <1>2, Finds
    <2>2. UNCHANGED <<listVars, hand>>
      BY <1>2 DEF Unpin
    <2>3. At' = At
      BY <2>2 DEF At, listVars
    <2>4. ClockInv' /\ Queue' = Queue
      BY <2>2, <2>3 DEF ClockInv, ListTypes, OnCircle, HandOutside, Queue, listVars, Listed
    <2>5. \E j \in 1 .. size : Queue[j] = f
      BY <2>1, QueueOfList
    <2> QED  BY <1>1, <2>4, <2>5
  <1>3. CASE find(f) = Nil
    <2>1. \A i \in 0 .. size - 1 : key[At[i]] # f
      BY <1>3, Finds
    <2>2. PICK n : n = FreshNode
      OBVIOUS
    <2>3. insert(n, f) /\ hand' = IF size = 0 THEN HeadField ELSE hand
      BY <1>3, <2>2 DEF Unpin
    <2>4. n \in Nodes /\ n \notin Listed /\ n # hand
      BY <2>1, <2>2, FreshNodeExists
    <2>5. /\ ClockInv' /\ size' = size + 1
          /\ \A i \in 0 .. size - 1 : key'[At'[i]] = key[At[i]]
          /\ key'[At'[size]] = f
      BY <2>1, <2>3, <2>4, InsertStep
    <2>6. \A i \in 1 .. size : Queue[i] # f
      BY <2>1, QueueOfList
    <2>7. Queue' = Append(Queue, f)
      <3>1. /\ size \in Nat /\ Queue \in Seq(Frames) /\ Len(Queue) = size
            /\ \A i \in 1 .. size : i - 1 \in 0 .. size - 1 /\ Queue[i] = key[At[i - 1]]
        BY QueueOfList
      <3>2. Queue' = [i \in 1 .. size + 1 |-> key'[At'[i - 1]]]
        BY <2>5 DEF Queue
      <3>3. ASSUME NEW i \in 1 .. size + 1
            PROVE  key'[At'[i - 1]] = IF i = size + 1 THEN f ELSE Queue[i]
        <4>1. CASE i = size + 1
          <5>1. i - 1 = size
            BY <3>1, <4>1
          <5> QED  BY <2>5, <4>1, <5>1
        <4>2. CASE i # size + 1
          <5>1. i \in 1 .. size
            BY <3>1, <4>2
          <5> QED  BY <2>5, <3>1, <4>2, <5>1
        <4> QED  BY <4>1, <4>2
      <3>4. Append(Queue, f) = [i \in 1 .. size + 1 |-> IF i = size + 1 THEN f ELSE Queue[i]]
        <4>1. PICK q : q = Queue
          OBVIOUS
        <4>2. Append(q, f) = [i \in 1 .. Len(q) + 1 |-> IF i = Len(q) + 1 THEN f ELSE q[i]]
          <5>1. PICK r : r = Append(q, f)
            OBVIOUS
          <5>2. /\ r \in Seq(Frames) /\ Len(r) = Len(q) + 1
                /\ \A i \in 1 .. Len(q) : r[i] = q[i]
                /\ r[Len(q) + 1] = f
            BY <3>1, <4>1, <5>1, AppendProperties
          <5>3. r = [i \in 1 .. Len(r) |-> r[i]]
            BY <5>2
          <5>4. \A i \in 1 .. Len(q) + 1 : i # Len(q) + 1 => i \in 1 .. Len(q)
            BY <3>1, <4>1
          <5> QED  BY <5>1, <5>2, <5>3, <5>4
        <4> QED  BY <3>1, <4>1, <4>2
      <3> QED  BY <3>2, <3>3, <3>4
    <2> QED  BY <1>1, <2>5, <2>6, <2>7
  <1> QED  BY <1>2, <1>3

\* The queue after a removal at k.
LEMMA QueueWithout ==
    ASSUME ClockInv, ClockInv', NEW k \in 0 .. size - 1, size' = size - 1,
           \A i \in 0 .. size - 2 : key'[At'[i]] = key[At[Before(i, k)]]
    PROVE  Queue' = [i \in 1 .. size - 1 |-> IF i < k + 1 THEN Queue[i] ELSE Queue[i + 1]]
  <1>1. /\ size \in Nat
        /\ \A i \in 1 .. size : i - 1 \in 0 .. size - 1 /\ Queue[i] = key[At[i - 1]]
    BY QueueOfList
  <1>2. Queue' = [i \in 1 .. size - 1 |-> key'[At'[i - 1]]]
    BY DEF Queue
  <1>3. ASSUME NEW i \in 1 .. size - 1
        PROVE  key'[At'[i - 1]] = IF i < k + 1 THEN Queue[i] ELSE Queue[i + 1]
    <2>1. /\ i - 1 \in 0 .. size - 2 /\ i \in 1 .. size /\ i + 1 \in 1 .. size
          /\ (i < k + 1 <=> i - 1 < k) /\ (i - 1) + 1 = (i + 1) - 1
      BY <1>1
    <2>2. key'[At'[i - 1]] = key[At[Before(i - 1, k)]]
      BY <2>1
    <2>3. CASE i < k + 1
      <3>1. Before(i - 1, k) = i - 1
        BY <2>1, <2>3 DEF Before
      <3> QED  BY <1>1, <2>1, <2>2, <2>3, <3>1
    <2>4. CASE ~(i < k + 1)
      <3>1. Before(i - 1, k) = (i + 1) - 1
        BY <2>1, <2>4 DEF Before
      <3> QED  BY <1>1, <2>1, <2>2, <2>4, <3>1
    <2> QED  BY <2>3, <2>4
  <1> QED  BY <1>2, <1>3

\* Pin keeps the invariant; it takes the frame out if it is there.
LEMMA PinStep ==
    ASSUME ClockInv, NEW f \in Frames, Pin(f)
    PROVE  /\ ClockInv' /\ victim' = victim
           /\ \/ (\A i \in 1 .. size : Queue[i] # f) /\ Queue' = Queue
              \/ \E k \in 1 .. size :
                    /\ Queue[k] = f
                    /\ Queue' = [i \in 1 .. size - 1 |-> IF i < k THEN Queue[i] ELSE Queue[i + 1]]
  <1>1. victim' = victim
    BY DEF Pin
  <1>2. CASE find(f) = Nil
    <2>1. \A i \in 1 .. size : Queue[i] # f
      BY <1>2, Finds, QueueOfList
    <2>2. UNCHANGED <<listVars, hand>>
      BY <1>2 DEF Pin
    <2>3. At' = At
      BY <2>2 DEF At, listVars
    <2>4. ClockInv' /\ Queue' = Queue
      BY <2>2, <2>3 DEF ClockInv, ListTypes, OnCircle, HandOutside, Queue, listVars, Listed
    <2> QED  BY <1>1, <2>1, <2>4
  <1>3. CASE find(f) # Nil
    <2>1. PICK k \in 0 .. size - 1 : key[At[k]] = f /\ find(f) = At[k]
      BY <1>3, Finds
    <2>2. PICK n, h : n = find(f) /\ h = hand'
      OBVIOUS
    <2>3. remove(n, h) /\ h = IF AtHand = n THEN AtHand ELSE hand
      BY <1>3, <2>2 DEF Pin
    <2>4. AtHand = At[0] /\ (At[0] = At[k] <=> k = 0)
      <3>1. size > 0 /\ 0 \in 0 .. size - 1
        BY QueueOfList
      <3> QED  BY <3>1, HandAtHead, Neighbours
    <2>5. (h = hand /\ k # 0) \/ (h = n /\ k = 0)
      BY <2>1, <2>2, <2>3, <2>4
    <2>6. /\ ClockInv' /\ size' = size - 1
          /\ \A i \in 0 .. size - 2 : key'[At'[i]] = key[At[Before(i, k)]]
      BY <2>1, <2>2, <2>3, <2>5, RemoveStep
    <2>7. k + 1 \in 1 .. size /\ Queue[k + 1] = f
      BY <2>1, QueueOfList
    <2>8. Queue' = [i \in 1 .. size - 1 |-> IF i < k + 1 THEN Queue[i] ELSE Queue[i + 1]]
      BY <2>6, QueueWithout
    <2> QED  BY <1>1, <2>6, <2>7, <2>8
  <1> QED  BY <1>2, <1>3

\* Victim keeps the invariant; it takes out the frame at the head.
LEMMA VictimStep ==
    ASSUME ClockInv, Victim
    PROVE  /\ ClockInv'
           /\ \/ size = 0 /\ victim' = NoFrame /\ Queue' = Queue
              \/ /\ size > 0 /\ victim' = Queue[1]
                 /\ Queue' = [i \in 1 .. size - 1 |-> Queue[i + 1]]
  <1>1. CASE size = 0
    <2>1. victim' = NoFrame /\ UNCHANGED <<listVars, hand>>
      BY <1>1 DEF Victim
    <2>2. At' = At
      BY <2>1 DEF At, listVars
    <2>3. ClockInv' /\ Queue' = Queue
      BY <2>1, <2>2 DEF ClockInv, ListTypes, OnCircle, HandOutside, Queue, listVars, Listed
    <2> QED  BY <1>1, <2>1, <2>3
  <1>2. CASE size # 0
    <2>1. size \in Nat /\ size > 0 /\ 0 \in 0 .. size - 1 /\ 0 + 1 = 1
      BY <1>2, QueueOfList
    <2>2. AtHand = At[0]
      BY <2>1, HandAtHead
    <2>3. PICK n : n = At[0]
      OBVIOUS
    <2>4. find(key[n]) = n
      BY <2>1, <2>3, Finds
    <2>5. hand' = n /\ victim' = key[n] /\ remove(n, n)
      BY <1>2, <2>2, <2>3, <2>4 DEF Victim
    <2>6. /\ ClockInv' /\ size' = size - 1
          /\ \A i \in 0 .. size - 2 : key'[At'[i]] = key[At[Before(i, 0)]]
      BY <2>1, <2>3, <2>5, RemoveStep
    <2>7. Queue' = [i \in 1 .. size - 1 |-> IF i < 0 + 1 THEN Queue[i] ELSE Queue[i + 1]]
      BY <2>1, <2>6, QueueWithout
    <2>8. Queue' = [i \in 1 .. size - 1 |-> Queue[i + 1]]
      BY <2>1, <2>7
    <2>9. victim' = Queue[1]
      BY <2>1, <2>3, <2>5, QueueOfList
    <2> QED  BY <2>1, <2>6, <2>8, <2>9
  <1> QED  BY <1>1, <1>2

----------------------------------------------------------------------------
(* What holds of the replacer.                                             *)

\* An empty list satisfies the invariant, and its queue is empty.
LEMMA ClockInitInv == ASSUME ClockInit PROVE ClockInv /\ Queue = << >>
  <1>1. size = 0 /\ 0 .. size - 1 = {} /\ ~(size > 0) /\ 1 .. size = {}
    BY DEF ClockInit
  <1>2. ListTypes
    BY <1>1 DEF ClockInit, ListTypes
  <1>3. OnCircle /\ HandOutside
    BY <1>1 DEF ClockInit, OnCircle, HandOutside
  <1>4. Queue = << >>
    BY <1>1 DEF Queue
  <1> QED  BY <1>2, <1>3, <1>4 DEF ClockInv

\* A step that changes nothing keeps the invariant.
LEMMA ClockStutter == ASSUME ClockInv, UNCHANGED clockVars PROVE ClockInv' /\ Queue' = Queue
  <1>1. UNCHANGED <<listVars, hand>>
    BY DEF clockVars
  <1>2. At' = At
    BY <1>1 DEF At, listVars
  <1> QED  BY <1>1, <1>2
    DEF ClockInv, ListTypes, OnCircle, HandOutside, Queue, listVars, Listed

\* The invariant holds throughout.
LEMMA ClockInvariance == ClockSpec => []ClockInv
  <1>1. ClockInit => ClockInv
    BY ClockInitInv
  <1>2. ASSUME ClockInv, [ClockNext]_clockVars PROVE ClockInv'
    <2>1. CASE Victim
      BY <1>2, <2>1, VictimStep
    <2>2. ASSUME NEW f \in Frames, Unpin(f) PROVE ClockInv'
      BY <1>2, <2>2, UnpinStep
    <2>3. ASSUME NEW f \in Frames, Pin(f) PROVE ClockInv'
      BY <1>2, <2>3, PinStep
    <2>4. CASE UNCHANGED clockVars
      BY <1>2, <2>4, ClockStutter
    <2> QED  BY <1>2, <2>1, <2>2, <2>3, <2>4 DEF ClockNext
  <1> QED  BY <1>1, <1>2, PTL DEF ClockSpec

\* For any set of frames, after any calls of Pin, Unpin and Victim the list is
\* one circle of size nodes with distinct keys.
THEOREM ListStaysACircle == ClockSpec => []ListIsCircle
  <1>1. ClockInv => ListIsCircle
    BY DEF ClockInv, OnCircle, ListIsCircle
  <1> QED  BY <1>1, ClockInvariance, PTL

\* The hand, wherever it hangs, leads to the head of the list.
THEOREM HandFindsTheList == ClockSpec => []HandLeadsToHead
  <1>1. ClockInv => HandLeadsToHead
    BY HandAtHead DEF HandLeadsToHead
  <1> QED  BY <1>1, ClockInvariance, PTL

\* Taking the only occurrence of an element out of a sequence.
LEMMA RemoveOnly ==
    ASSUME NEW S, NEW q \in Seq(S), NEW k \in 1 .. Len(q),
           \A i \in 1 .. Len(q) : q[i] = q[k] => i = k
    PROVE  AbstractReplacer!RemoveFirst(q, q[k]) =
               [i \in 1 .. Len(q) - 1 |-> IF i < k THEN q[i] ELSE q[i + 1]]
  <1>1. {i \in 1 .. Len(q) : q[i] = q[k]} = {k}
    OBVIOUS
  <1>2. AbstractReplacer!SelectInSeq(q, LAMBDA v : v = q[k]) = k
    <2>1. AbstractReplacer!Min({k}) = k
      BY DEF AbstractReplacer!Min
    <2> QED  BY <1>1, <2>1 DEF AbstractReplacer!SelectInSeq
  <1>3. AbstractReplacer!RemoveFirst(q, q[k]) = AbstractReplacer!RemoveAt(q, k)
    BY <1>2 DEF AbstractReplacer!RemoveFirst
  <1>4. PICK a, b : a = SubSeq(q, 1, k - 1) /\ b = SubSeq(q, k + 1, Len(q))
    OBVIOUS
  <1>5. a \in Seq(S) /\ Len(a) = k - 1 /\ \A j \in 1 .. k - 1 : a[j] = q[j]
    BY <1>4, SubSeqProperties
  <1>6. b \in Seq(S) /\ Len(b) = Len(q) - k /\ \A j \in 1 .. Len(q) - k : b[j] = q[k + j]
    BY <1>4
  <1>7. PICK c : c = a \o b
    OBVIOUS
  <1>8. /\ c \in Seq(S) /\ Len(c) = Len(q) - 1
        /\ \A j \in 1 .. Len(q) - 1 : c[j] = IF j <= k - 1 THEN a[j] ELSE b[j - (k - 1)]
    <2>1. /\ c \in Seq(S) /\ Len(c) = Len(a) + Len(b)
          /\ \A j \in 1 .. Len(a) + Len(b) : c[j] = IF j <= Len(a) THEN a[j] ELSE b[j - Len(a)]
      BY <1>5, <1>6, <1>7, ConcatProperties, ZenonT(30)
    <2>2. Len(a) = k - 1 /\ Len(a) + Len(b) = Len(q) - 1
      BY <1>5, <1>6, SMTT(30)
    <2> QED  BY <2>1, <2>2
  <1>9. ASSUME NEW j \in 1 .. Len(q) - 1
        PROVE  c[j] = IF j < k THEN q[j] ELSE q[j + 1]
    <2>1. CASE j < k
      BY <1>5, <1>8, <2>1
    <2>2. CASE ~(j < k)
      <3>1. j - (k - 1) \in 1 .. Len(q) - k /\ k + (j - (k - 1)) = j + 1
        BY <2>2
      <3> QED  BY <1>6, <1>8, <2>2, <3>1
    <2> QED  BY <2>1, <2>2
  <1>10. c = [i \in 1 .. Len(c) |-> c[i]]
    BY <1>8
  <1>11. AbstractReplacer!RemoveAt(q, k) = c
    BY <1>4, <1>7 DEF AbstractReplacer!RemoveAt
  <1> QED  BY <1>3, <1>8, <1>9, <1>10, <1>11

\* The circular list with its hand is, to the buffer pool, a queue of frames:
\* Unpin appends, Pin takes out, and Victim returns the frame unpinned first.
THEOREM ClockImplementsReplacer == ClockSpec => ImplementsReplacer
  <1>1. ClockInit => AbstractReplacer!ReplacerInit
    BY ClockInitInv DEF AbstractReplacer!ReplacerInit, Queue, ClockInit
  <1>2. ASSUME ClockInv, [ClockNext]_clockVars
        PROVE  [AbstractReplacer!ReplacerNext]_<<Queue, victim>>
    <2>1. /\ size \in Nat /\ Queue \in Seq(Frames) /\ Len(Queue) = size
          /\ \A i, j \in 1 .. size : Queue[i] = Queue[j] => i = j
      BY <1>2, QueueOfList
    <2>2. PICK q, r : q = Queue /\ r = Queue'
      OBVIOUS
    <2>3. CASE Victim
      <3>1. \/ size = 0 /\ victim' = NoFrame /\ r = q
            \/ /\ size > 0 /\ victim' = q[1]
               /\ r = [i \in 1 .. size - 1 |-> q[i + 1]]
        BY <1>2, <2>2, <2>3, VictimStep
      <3>2. IF q = << >> THEN victim' = NoFrame /\ r = q ELSE victim' = Head(q) /\ r = Tail(q)
        BY <2>1, <2>2, <3>1
      <3>3. AbstractReplacer!Victim
        BY <2>2, <3>2 DEF AbstractReplacer!Victim, Queue
      <3> QED  BY <3>3 DEF AbstractReplacer!ReplacerNext
    <2>4. ASSUME NEW f \in Frames, Unpin(f) PROVE AbstractReplacer!Unpin(f)
      <3>1. /\ victim' = victim
            /\ \/ (\E i \in 1 .. size : q[i] = f) /\ r = q
               \/ (\A i \in 1 .. size : q[i] # f) /\ r = Append(q, f)
        BY <1>2, <2>2, <2>4, UnpinStep
      <3>2. r = IF AbstractReplacer!Contains(q, f) THEN q ELSE Append(q, f)
        BY <2>1, <2>2, <3>1 DEF AbstractReplacer!Contains
      <3> QED  BY <2>2, <3>1, <3>2 DEF AbstractReplacer!Unpin, Queue
    <2>5. ASSUME NEW f \in Frames, Pin(f) PROVE AbstractReplacer!Pin(f)
      <3>1. /\ victim' = victim
            /\ \/ (\A i \in 1 .. size : q[i] # f) /\ r = q
               \/ \E k \in 1 .. size :
                     /\ q[k] = f
                     /\ r = [i \in 1 .. size - 1 |-> IF i < k THEN q[i] ELSE q[i + 1]]
        BY <1>2, <2>2, <2>5, PinStep
      <3>2. r = AbstractReplacer!RemoveFirst(q, f)
        <4>1. CASE \A i \in 1 .. size : q[i] # f
          BY <2>1, <2>2, <3>1, <4>1 DEF AbstractReplacer!RemoveFirst
        <4>2. ASSUME NEW k \in 1 .. size, q[k] = f,
                     r = [i \in 1 .. size - 1 |-> IF i < k THEN q[i] ELSE q[i + 1]]
              PROVE  r = AbstractReplacer!RemoveFirst(q, f)
          <5>1. AbstractReplacer!RemoveFirst(q, q[k]) =
                    [i \in 1 .. Len(q) - 1 |-> IF i < k THEN q[i] ELSE q[i + 1]]
            <6>1. /\ q \in Seq(Frames) /\ k \in 1 .. Len(q)
                  /\ \A i \in 1 .. Len(q) : q[i] = q[k] => i = k
              BY <2>1, <2>2
            <6> QED  BY <6>1, RemoveOnly, Zenon
          <5>2. Len(q) = size
            BY <2>1, <2>2
          <5> QED  BY <4>2, <5>1, <5>2
        <4> QED  BY <3>1, <4>1, <4>2
      <3> QED  BY <2>2, <3>1, <3>2 DEF AbstractReplacer!Pin, Queue
    <2>6. CASE UNCHANGED clockVars
      <3>1. Queue' = Queue /\ victim' = victim
        BY <1>2, <2>6, ClockStutter DEF clockVars
      <3> QED  BY <3>1
    <2> QED  BY <1>2, <2>3, <2>4, <2>5, <2>6 DEF ClockNext, AbstractReplacer!ReplacerNext
  <1>3. [AbstractReplacer!ReplacerNext]_<<Queue, victim>> =>
            [AbstractReplacer!ReplacerNext]_<<[i \in 1 .. size |-> key[At[i - 1]]], victim>>
    BY DEF Queue
  <1> QED  BY <1>1, <1>2, <1>3, ClockInvariance, PTL
    DEF ClockSpec, ImplementsReplacer, AbstractReplacer!ReplacerSpec

----------------------------------------------------------------------------
(* The table page.  A slot is full when its size is not zero; the full     *)
(* slots tile the page, and the bytes of each are those of one tuple.      *)

SlotEntry == [offset : Nat, size : Nat, deleted : BOOLEAN]

InBounds(f, s) ==
    \A n \in 1 .. Len(s) : s[n].size > 0 =>
        f <= s[n].offset /\ s[n].offset + s[n].size <= PageSize

Disjoint(s) ==
    \A m, n \in 1 .. Len(s) : m # n /\ s[m].size > 0 /\ s[n].size > 0 =>
        \/ s[m].offset + s[m].size <= s[n].offset
        \/ s[n].offset + s[n].size <= s[m].offset

Covered(f, s) ==
    \A a \in f .. PageSize - 1 :
        \E n \in 1 .. Len(s) : s[n].offset <= a /\ a < s[n].offset + s[n].size

Tiles(f, s) == InBounds(f, s) /\ Disjoint(s) /\ Covered(f, s)

\* The bytes of the slot are those of tuple v.
Holds(mem, e, v) ==
    /\ v \in Tuples /\ TupleSize[v] = e.size
    /\ \A i \in 0 .. e.size - 1 : mem[e.offset + i] = <<v, i>>

Readable(mem, s) == \A n \in 1 .. Len(s) : s[n].size > 0 => \E v : Holds(mem, s[n], v)

GoodPage(mem, f, s) ==
    /\ s \in Seq(SlotEntry) /\ f \in Nat /\ f <= PageSize
    /\ HeaderSize + SlotSize * Len(s) <= f
    /\ Tiles(f, s) /\ Readable(mem, s)

PageInv == GoodPage(data, free_space_pointer, slots)

\* The space for one more slot.
LEMMA SlotWords == \A k \in Nat : SlotSize * k \in Nat /\ SlotSize * (k + 1) = SlotSize * k + SlotSize
  BY PageAssumption

\* What is known of a tuple's size.
LEMMA Sizes == \A v \in Tuples : TupleSize[v] \in Nat /\ TupleSize[v] > 0
  BY PageAssumption

\* The fields of a slot.
LEMMA SlotFields ==
    ASSUME NEW s \in Seq(SlotEntry), NEW m \in 1 .. Len(s)
    PROVE  s[m].offset \in Nat /\ s[m].size \in Nat /\ s[m].deleted \in BOOLEAN /\ s[m] \in SlotEntry
  <1>1. s[m] \in SlotEntry
    OBVIOUS
  <1> QED  BY <1>1 DEF SlotEntry

\* Slot k, which was empty or is new, gets tuple v at g, right below the others.
Inserts(s, t, f, g, v, k) ==
    /\ t \in Seq(SlotEntry) /\ g \in Nat /\ v \in Tuples /\ k \in 1 .. Len(t)
    /\ g + TupleSize[v] = f
    /\ t[k].offset = g /\ t[k].size = TupleSize[v] /\ t[k].deleted = FALSE
    /\ Len(s) <= Len(t) /\ (k <= Len(s) => s[k].size = 0)
    /\ \A m \in 1 .. Len(t) : m # k => m \in 1 .. Len(s) /\ t[m] = s[m]
    /\ \A m \in 1 .. Len(s) : m # k => t[m] = s[m]

Inserted(mem, mem2, s, t, g, v, k) ==
    /\ Tiles(g, t) /\ Holds(mem2, t[k], v)
    /\ \A m \in 1 .. Len(t) : m # k => \A u : Holds(mem, s[m], u) => Holds(mem2, t[m], u)

\* A new tuple goes below the others, in a slot that was empty or is new.
LEMMA InsertTiles ==
    ASSUME NEW mem, NEW mem2, NEW s, NEW t, NEW f, NEW g, NEW v, NEW k,
           GoodPage(mem, f, s), Inserts(s, t, f, g, v, k), mem2 = Write(mem, g, v)
    PROVE  Inserted(mem, mem2, s, t, g, v, k)
  <1>0. /\ s \in Seq(SlotEntry) /\ f \in Nat /\ f <= PageSize /\ Tiles(f, s)
        /\ t \in Seq(SlotEntry) /\ g \in Nat /\ v \in Tuples /\ k \in 1 .. Len(t)
        /\ g + TupleSize[v] = f
        /\ t[k].offset = g /\ t[k].size = TupleSize[v]
        /\ Len(s) <= Len(t) /\ (k <= Len(s) => s[k].size = 0)
        /\ \A m \in 1 .. Len(t) : m # k => m \in 1 .. Len(s) /\ t[m] = s[m]
        /\ \A m \in 1 .. Len(s) : m # k => t[m] = s[m]
    BY DEF GoodPage, Inserts
  <1> USE <1>0
  <1>1. TupleSize[v] \in Nat /\ TupleSize[v] > 0 /\ PageSize \in Nat
    BY Sizes, PageAssumption
  <1>2. \A m \in 1 .. Len(s) : s[m].offset \in Nat /\ s[m].size \in Nat
    BY SlotFields
  <1>3. InBounds(g, t)
    <2>1. ASSUME NEW n \in 1 .. Len(t), t[n].size > 0
          PROVE  g <= t[n].offset /\ t[n].offset + t[n].size <= PageSize
      <3>1. CASE n = k
        BY <1>1, <3>1
      <3>2. CASE n # k
        <4>1. n \in 1 .. Len(s) /\ t[n] = s[n]
          BY <3>2
        <4>2. f <= t[n].offset /\ t[n].offset + t[n].size <= PageSize
          BY <2>1, <4>1 DEF Tiles, InBounds
        <4> QED  BY <1>1, <1>2, <4>1, <4>2
      <3> QED  BY <3>1, <3>2
    <2> QED  BY <2>1 DEF InBounds
  <1>4. Disjoint(t)
    <2>1. ASSUME NEW m \in 1 .. Len(t), NEW n \in 1 .. Len(t),
                 m # n, t[m].size > 0, t[n].size > 0
          PROVE  \/ t[m].offset + t[m].size <= t[n].offset
                 \/ t[n].offset + t[n].size <= t[m].offset
      <3>1. ASSUME NEW j \in 1 .. Len(t), j # k, t[j].size > 0
            PROVE  j \in 1 .. Len(s) /\ t[j] = s[j] /\ t[k].offset + t[k].size <= t[j].offset
        BY <1>1, <1>2, <3>1 DEF Tiles, InBounds
      <3>2. CASE m = k \/ n = k
        BY <2>1, <3>1, <3>2
      <3>3. CASE m # k /\ n # k
        BY <2>1, <3>1, <3>3 DEF Tiles, Disjoint
      <3> QED  BY <3>2, <3>3
    <2> QED  BY <2>1 DEF Disjoint
  <1>5. Covered(g, t)
    <2>1. ASSUME NEW a \in g .. PageSize - 1
          PROVE  \E n \in 1 .. Len(t) : t[n].offset <= a /\ a < t[n].offset + t[n].size
      <3>1. CASE a < f
        BY <1>1, <3>1
      <3>2. CASE ~(a < f)
        <4>1. a \in f .. PageSize - 1
          BY <1>1, <3>2
        <4>2. PICK n \in 1 .. Len(s) : s[n].offset <= a /\ a < s[n].offset + s[n].size
          BY <4>1 DEF Tiles, Covered
        <4>3. n # k /\ n \in 1 .. Len(t)
          BY <1>2, <4>2
        <4> QED  BY <4>2, <4>3
      <3> QED  BY <3>1, <3>2
    <2> QED  BY <2>1 DEF Covered
  <1>6. Holds(mem2, t[k], v)
    <2>1. ASSUME NEW i \in 0 .. TupleSize[v] - 1 PROVE mem2[g + i] = <<v, i>>
      <3>1. g + i \in Addresses /\ g + i \in g .. g + TupleSize[v] - 1 /\ (g + i) - g = i
        BY <1>1 DEF Addresses
      <3> QED  BY <3>1 DEF Write
    <2> QED  BY <2>1 DEF Holds
  <1>7. ASSUME NEW m \in 1 .. Len(t), m # k, NEW u, Holds(mem, s[m], u)
        PROVE  Holds(mem2, t[m], u)
    <2>1. /\ m \in 1 .. Len(s) /\ t[m] = s[m] /\ s[m].size > 0
          /\ f <= s[m].offset /\ s[m].offset + s[m].size <= PageSize
      BY <1>2, <1>7, Sizes DEF Holds, Tiles, InBounds
    <2>2. ASSUME NEW i \in 0 .. s[m].size - 1 PROVE mem2[s[m].offset + i] = <<u, i>>
      <3>1. PICK o \in Nat, z \in Nat : o = s[m].offset /\ z = s[m].size
        BY <1>2, <2>1
      <3>2. i \in 0 .. z - 1 /\ f <= o /\ o + z <= PageSize
        BY <2>1, <3>1
      <3>3. o + i \in Addresses /\ ~(o + i < g + TupleSize[v])
        BY <1>1, <3>2, SMTT(30) DEF Addresses
      <3>4. mem2[o + i] = mem[o + i]
        BY <1>1, <3>3 DEF Write
      <3> QED  BY <1>7, <3>1, <3>4 DEF Holds
    <2> QED  BY <1>7, <2>1, <2>2 DEF Holds
  <1> QED  BY <1>3, <1>4, <1>5, <1>6, <1>7 DEF Tiles, Inserted

\* Slot n of s, at o with size z, gets the size "new", and the free space pointer
\* moves from f to g.
Layout(f, g, o, z, new) ==
    /\ f \in Nat /\ g \in Nat /\ o \in Nat /\ z \in Nat /\ new \in Nat
    /\ z > 0 /\ f <= o /\ o + z <= PageSize /\ g + new = f + z

\* The tuple at p with size q is then at r: it moves by the difference if it is
\* below slot n, and stays if it is above.
Moves(p, q, r, f, o, z, new) ==
    /\ p \in Nat /\ q \in Nat /\ r \in Nat /\ q > 0 /\ f <= p /\ p + q <= PageSize
    /\ \/ p + q <= o /\ r + new = p + z
       \/ o + z <= p /\ r = p

\* So the entries of slot m say.
EntryMoves(s, t, m, p, q, r) ==
    s[m].offset = p /\ s[m].size = q /\ t[m].offset = r /\ t[m].size = q

Resizes(s, t, n, f, g, o, z, new) ==
    /\ s \in Seq(SlotEntry) /\ t \in Seq(SlotEntry) /\ Len(t) = Len(s) /\ n \in 1 .. Len(s)
    /\ Tiles(f, s) /\ Layout(f, g, o, z, new)
    /\ o = s[n].offset /\ z = s[n].size
    /\ t[n].size = new /\ (new > 0 => t[n].offset + new = o + z)
    /\ \A m \in 1 .. Len(s) : m # n =>
          /\ t[m].size = s[m].size
          /\ s[m].size > 0 /\ s[m].offset < o => t[m].offset + new = s[m].offset + z
          /\ s[m].size > 0 /\ ~(s[m].offset < o) => t[m].offset = s[m].offset

\* The bytes move with the entries.
Shifted(mem, mem2, f, o, z, new) ==
    /\ \A a \in Addresses : a >= o + z => mem2[a] = mem[a]
    /\ \A a \in f .. o - 1 : mem2[(a + z) - new] = mem[a]

\* Where the entries of a resized page are.
LEMMA ResizedEntries ==
    ASSUME NEW s, NEW t, NEW n, NEW f, NEW g, NEW o, NEW z, NEW new,
           Resizes(s, t, n, f, g, o, z, new)
    PROVE  /\ \A m \in 1 .. Len(s) : m # n /\ s[m].size > 0 =>
                 \E p, q, r : EntryMoves(s, t, m, p, q, r) /\ Moves(p, q, r, f, o, z, new)
           /\ \A m \in 1 .. Len(t) : m # n /\ t[m].size > 0 =>
                 \E p, q, r : EntryMoves(s, t, m, p, q, r) /\ Moves(p, q, r, f, o, z, new)
  <1>1. /\ s \in Seq(SlotEntry) /\ t \in Seq(SlotEntry) /\ Len(t) = Len(s) /\ n \in 1 .. Len(s)
        /\ Tiles(f, s) /\ Layout(f, g, o, z, new)
    BY DEF Resizes
  <1>2. ASSUME NEW m \in 1 .. Len(s), m # n, s[m].size > 0
        PROVE  \E p, q, r : EntryMoves(s, t, m, p, q, r) /\ Moves(p, q, r, f, o, z, new)
    <2>1. PICK p \in Nat, q \in Nat, r \in Nat :
              p = s[m].offset /\ q = s[m].size /\ r = t[m].offset
      BY <1>1, SlotFields
    <2>2. f <= p /\ p + q <= PageSize /\ q > 0
      BY <1>1, <1>2, <2>1 DEF Tiles, InBounds
    <2>3. p + q <= o \/ o + z <= p
      <3>1. s[n].size > 0 /\ s[n].size = z /\ s[n].offset = o
        BY DEF Resizes, Layout
      <3> QED  BY <1>1, <1>2, <2>1, <3>1 DEF Tiles, Disjoint
    <2>4. /\ t[m].size = q
          /\ p < o => r + new = p + z
          /\ ~(p < o) => r = p
      BY <1>2, <2>1 DEF Resizes
    <2>5. o \in Nat /\ z \in Nat
      BY <1>1 DEF Layout
    <2>6. (p + q <= o /\ p < o) \/ (o + z <= p /\ ~(p < o))
      BY <2>2, <2>3, <2>5
    <2>7. Moves(p, q, r, f, o, z, new)
      BY <2>2, <2>4, <2>6 DEF Moves
    <2>8. EntryMoves(s, t, m, p, q, r)
      BY <2>1, <2>4 DEF EntryMoves
    <2> QED  BY <2>7, <2>8
  <1>3. ASSUME NEW m \in 1 .. Len(t), m # n, t[m].size > 0
        PROVE  m \in 1 .. Len(s) /\ s[m].size > 0
    BY <1>3 DEF Resizes
  <1> QED  BY <1>2, <1>3

\* The arithmetic of a resized page: bounds, disjointness and coverage.
LEMMA MovedBounds ==
    ASSUME NEW f, NEW g, NEW o, NEW z, NEW new, Layout(f, g, o, z, new),
           NEW p, NEW q, NEW r, Moves(p, q, r, f, o, z, new)
    PROVE  g <= r /\ r + q <= PageSize
  BY PageAssumption DEF Layout, Moves

\* A tuple that moves does not meet the one that was resized.
LEMMA MovedAround ==
    ASSUME NEW f, NEW g, NEW o, NEW z, NEW new, Layout(f, g, o, z, new),
           NEW p, NEW q, NEW r, Moves(p, q, r, f, o, z, new),
           NEW e \in Nat, e + new = o + z
    PROVE  r + q <= e \/ e + new <= r
  BY PageAssumption DEF Layout, Moves

\* Two tuples that were apart stay apart.
LEMMA MovedApart ==
    ASSUME NEW f, NEW g, NEW o, NEW z, NEW new, Layout(f, g, o, z, new),
           NEW p, NEW q, NEW r, Moves(p, q, r, f, o, z, new),
           NEW p2, NEW q2, NEW r2, Moves(p2, q2, r2, f, o, z, new),
           p + q <= p2 \/ p2 + q2 <= p
    PROVE  r + q <= r2 \/ r2 + q2 <= r
  BY PageAssumption DEF Layout, Moves

\* A byte of a tuple moves with its tuple.
LEMMA MovedOver ==
    ASSUME NEW f, NEW g, NEW o, NEW z, NEW new, Layout(f, g, o, z, new),
           NEW p, NEW q, NEW r, Moves(p, q, r, f, o, z, new), NEW a \in Nat, NEW b \in Nat,
           p <= b, b < p + q,
           (a >= o + z /\ b = a) \/ (a + new < o + z /\ b + z = a + new)
    PROVE  r <= a /\ a < r + q
  BY PageAssumption DEF Layout, Moves

\* A byte of the resized page belongs to the resized tuple, or came from somewhere.
LEMMA AddressBefore ==
    ASSUME NEW f, NEW g, NEW o, NEW z, NEW new, Layout(f, g, o, z, new),
           NEW a \in g .. PageSize - 1
    PROVE  \/ o + z <= a + new /\ a < o + z /\ new > 0
           \/ \E b \in f .. PageSize - 1 :
                 /\ ~(o <= b /\ b < o + z)
                 /\ (a >= o + z /\ b = a) \/ (a + new < o + z /\ b + z = a + new)
  <1>1. /\ f \in Nat /\ g \in Nat /\ o \in Nat /\ z \in Nat /\ new \in Nat /\ PageSize \in Nat
        /\ z > 0 /\ f <= o /\ o + z <= PageSize /\ g + new = f + z
    BY PageAssumption DEF Layout
  <1>2. CASE a >= o + z
    BY <1>1, <1>2
  <1>3. CASE a + new < o + z
    <2>1. (a + new) - z \in f .. PageSize - 1 /\ ~(o <= (a + new) - z) /\ ((a + new) - z) + z = a + new
      BY <1>1, <1>3
    <2> QED  BY <1>3, <2>1
  <1>4. CASE o + z <= a + new /\ a < o + z
    BY <1>1, <1>4
  <1> QED  BY <1>1, <1>2, <1>3, <1>4

\* The full slots tile the page again.
LEMMA CompactTiles ==
    ASSUME NEW s, NEW t, NEW n, NEW f, NEW g, NEW o, NEW z, NEW new,
           Resizes(s, t, n, f, g, o, z, new)
    PROVE  Tiles(g, t)
  <1>1. /\ s \in Seq(SlotEntry) /\ t \in Seq(SlotEntry) /\ Len(t) = Len(s) /\ n \in 1 .. Len(s)
        /\ Tiles(f, s) /\ Layout(f, g, o, z, new) /\ o = s[n].offset /\ z = s[n].size
        /\ t[n].size = new
    BY DEF Resizes
  <1>2. ASSUME NEW m \in 1 .. Len(t), m # n, t[m].size > 0
        PROVE  \E p, q, r : EntryMoves(s, t, m, p, q, r) /\ Moves(p, q, r, f, o, z, new)
    BY <1>2, ResizedEntries, Zenon
  <1>3. ASSUME new > 0
        PROVE  \E e \in Nat : e = t[n].offset /\ e + new = o + z
    BY <1>1, <1>3, SlotFields DEF Resizes
  <1>4. InBounds(g, t)
    <2>1. ASSUME NEW m \in 1 .. Len(t), t[m].size > 0
          PROVE  g <= t[m].offset /\ t[m].offset + t[m].size <= PageSize
      <3>1. CASE m = n
        <4>1. PICK e \in Nat : e = t[n].offset /\ e + new = o + z
          BY <1>1, <1>3, <2>1, <3>1
        <4>2. g <= e /\ e + new <= PageSize
          <5>1. Layout(f, g, o, z, new)
            BY <1>1
          <5> QED  BY <4>1, <5>1, PageAssumption, SMTT(30) DEF Layout
        <4> QED  BY <1>1, <3>1, <4>1, <4>2
      <3>2. CASE m # n
        <4>1. PICK p, q, r : EntryMoves(s, t, m, p, q, r) /\ Moves(p, q, r, f, o, z, new)
          BY <1>2, <2>1, <3>2, Zenon
        <4>2. g <= r /\ r + q <= PageSize
          BY <1>1, <4>1, MovedBounds, Zenon
        <4> QED  BY <4>1, <4>2 DEF EntryMoves
      <3> QED  BY <3>1, <3>2
    <2> QED  BY <2>1 DEF InBounds
  <1>5. Disjoint(t)
    <2>1. ASSUME NEW j \in 1 .. Len(t), j # n, t[j].size > 0, t[n].size > 0
          PROVE  \/ t[j].offset + t[j].size <= t[n].offset
                 \/ t[n].offset + t[n].size <= t[j].offset
      <3>1. PICK e \in Nat : e = t[n].offset /\ e + new = o + z
        BY <1>1, <1>3, <2>1
      <3>2. PICK p, q, r : EntryMoves(s, t, j, p, q, r) /\ Moves(p, q, r, f, o, z, new)
        BY <1>2, <2>1, Zenon
      <3>3. r + q <= e \/ e + new <= r
        BY <1>1, <3>1, <3>2, MovedAround, Zenon
      <3> QED  BY <1>1, <3>1, <3>2, <3>3 DEF EntryMoves
    <2>2. ASSUME NEW k \in 1 .. Len(t), NEW m \in 1 .. Len(t), k # n, m # n,
                 k # m, t[k].size > 0, t[m].size > 0
          PROVE  \/ t[k].offset + t[k].size <= t[m].offset
                 \/ t[m].offset + t[m].size <= t[k].offset
      <3>1. PICK p, q, r : EntryMoves(s, t, k, p, q, r) /\ Moves(p, q, r, f, o, z, new)
        BY <1>2, <2>2, Zenon
      <3>2. PICK p2, q2, r2 : EntryMoves(s, t, m, p2, q2, r2) /\ Moves(p2, q2, r2, f, o, z, new)
        BY <1>2, <2>2, Zenon
      <3>3. s[k].size > 0 /\ s[m].size > 0
        BY <3>1, <3>2 DEF EntryMoves, Moves
      <3>4. p + q <= p2 \/ p2 + q2 <= p
        BY <1>1, <2>2, <3>1, <3>2, <3>3 DEF EntryMoves, Tiles, Disjoint
      <3>5. r + q <= r2 \/ r2 + q2 <= r
        BY <1>1, <3>1, <3>2, <3>4, MovedApart
      <3> QED  BY <3>1, <3>2, <3>5 DEF EntryMoves
    <2> QED  BY <2>1, <2>2 DEF Disjoint
  <1>6. Covered(g, t)
    <2>1. ASSUME NEW a \in g .. PageSize - 1
          PROVE  \E m \in 1 .. Len(t) : t[m].offset <= a /\ a < t[m].offset + t[m].size
      <3>1. CASE o + z <= a + new /\ a < o + z /\ new > 0
        <4>1. PICK e \in Nat : e = t[n].offset /\ e + new = o + z
          BY <1>3, <3>1
        <4>2. e <= a /\ a < e + new
          <5>1. g \in Nat /\ new \in Nat /\ PageSize \in Nat
            BY <1>1, PageAssumption DEF Layout
          <5> QED  BY <3>1, <4>1, <5>1
        <4> QED  BY <1>1, <4>1, <4>2
      <3>2. ASSUME NEW b \in f .. PageSize - 1, ~(o <= b /\ b < o + z),
                   (a >= o + z /\ b = a) \/ (a + new < o + z /\ b + z = a + new)
            PROVE  \E m \in 1 .. Len(t) : t[m].offset <= a /\ a < t[m].offset + t[m].size
        <4>1. PICK m \in 1 .. Len(s) : s[m].offset <= b /\ b < s[m].offset + s[m].size
          BY <1>1 DEF Tiles, Covered
        <4>2. m # n
          BY <1>1, <3>2, <4>1
        <4>3. a \in Nat /\ b \in Nat
          BY <1>1, PageAssumption DEF Layout
        <4>4. s[m].size > 0
          <5>1. PICK p \in Nat, q \in Nat : p = s[m].offset /\ q = s[m].size
            BY <1>1, SlotFields
          <5>2. p <= b /\ b < p + q
            BY <4>1, <5>1
          <5>3. q > 0
            BY <4>3, <5>2
          <5> QED  BY <5>1, <5>3
        <4>5. PICK p, q, r : EntryMoves(s, t, m, p, q, r) /\ Moves(p, q, r, f, o, z, new)
          BY <4>2, <4>4, ResizedEntries, Zenon
        <4>6. p <= b /\ b < p + q
          BY <4>1, <4>5 DEF EntryMoves
        <4>7. r <= a /\ a < r + q
          BY <1>1, <3>2, <4>3, <4>5, <4>6, MovedOver
        <4> QED  BY <1>1, <4>5, <4>7 DEF EntryMoves
      <3> QED  BY <1>1, <3>1, <3>2, AddressBefore
    <2> QED  BY <2>1 DEF Covered
  <1> QED  BY <1>4, <1>5, <1>6 DEF Tiles

\* Where the byte of a tuple is found again.
LEMMA ByteMoves ==
    ASSUME NEW f, NEW g, NEW o, NEW z, NEW new, Layout(f, g, o, z, new),
           NEW p, NEW q, NEW r, Moves(p, q, r, f, o, z, new), NEW i \in 0 .. q - 1
    PROVE  \/ p + i \in f .. o - 1 /\ ((p + i) + z) - new = r + i
           \/ p + i \in Addresses /\ p + i >= o + z /\ r = p
  BY PageAssumption DEF Layout, Moves, Addresses

\* The other tuples keep their bytes.
BytesKept(mem, mem2, s, t, n) ==
    \A m \in 1 .. Len(s) : m # n => \A u : Holds(mem, s[m], u) => Holds(mem2, t[m], u)

\* The bytes of every other tuple are the ones it had.
LEMMA CompactKeeps ==
    ASSUME NEW s, NEW t, NEW n, NEW f, NEW g, NEW o, NEW z, NEW new,
           Resizes(s, t, n, f, g, o, z, new), NEW mem, NEW mem2,
           Shifted(mem, mem2, f, o, z, new)
    PROVE  BytesKept(mem, mem2, s, t, n)
  <1> SUFFICES ASSUME NEW m \in 1 .. Len(s), m # n, NEW u, Holds(mem, s[m], u)
               PROVE  Holds(mem2, t[m], u)
    BY DEF BytesKept
  <1>1. s[m].size > 0
    BY Sizes DEF Holds
  <1>2. PICK p, q, r : EntryMoves(s, t, m, p, q, r) /\ Moves(p, q, r, f, o, z, new)
    BY <1>1, ResizedEntries, Zenon
  <1>3. Layout(f, g, o, z, new)
    BY DEF Resizes
  <1>4. ASSUME NEW i \in 0 .. q - 1 PROVE mem2[r + i] = <<u, i>>
    <2>1. mem[p + i] = <<u, i>>
      BY <1>2 DEF Holds, EntryMoves
    <2>2. \/ p + i \in f .. o - 1 /\ ((p + i) + z) - new = r + i
          \/ p + i \in Addresses /\ p + i >= o + z /\ r = p
      BY <1>2, <1>3, ByteMoves
    <2> QED  BY <2>1, <2>2 DEF Shifted
  <1> QED  BY <1>2, <1>4 DEF Holds, EntryMoves

----------------------------------------------------------------------------
(* What a slot gives back.                                                 *)

SlotViewOf(mem, e) ==
    CASE e.size = 0 -> [kind |-> "empty"]
      [] e.size > 0 /\ e.deleted ->
             [kind |-> "marked", tuple |-> CHOOSE v \in Tuples : \A i \in 0 .. e.size - 1 :
                  TupleSize[v] = e.size /\ mem[e.offset + i] = <<v, i>>]
      [] e.size > 0 /\ ~e.deleted ->
             [kind |-> "live", tuple |-> CHOOSE v \in Tuples : \A i \in 0 .. e.size - 1 :
                  TupleSize[v] = e.size /\ mem[e.offset + i] = <<v, i>>]

PageViewOf(mem, f, s) ==
    [free |-> f - HeaderSize - SlotSize * Len(s), slots |-> [n \in 1 .. Len(s) |-> SlotViewOf(mem, s[n])]]

\* The view of the page before and after a step.
LEMMA Views ==
    /\ PageView = PageViewOf(data, free_space_pointer, slots)
    /\ PageView' = PageViewOf(data', free_space_pointer', slots')
  BY DEF PageView, PageViewOf, SlotView, SlotViewOf, StoredTuple, getFreeSpaceRemaining

\* A slot gives back the tuple whose bytes it holds.
LEMMA SlotGivesBack ==
    ASSUME NEW mem, NEW e \in SlotEntry
    PROVE  /\ e.size = 0 => SlotViewOf(mem, e) = AbstractPage!EmptySlot
           /\ \A v : Holds(mem, e, v) =>
                  SlotViewOf(mem, e) = IF e.deleted THEN AbstractPage!MarkedSlot(v)
                                                    ELSE AbstractPage!LiveSlot(v)
  <1>1. e.size = 0 => SlotViewOf(mem, e) = AbstractPage!EmptySlot
    BY DEF SlotViewOf, AbstractPage!EmptySlot, SlotEntry
  <1>2. ASSUME NEW v, Holds(mem, e, v)
        PROVE  SlotViewOf(mem, e) = IF e.deleted THEN AbstractPage!MarkedSlot(v)
                                                 ELSE AbstractPage!LiveSlot(v)
    <2>1. e.size \in Nat /\ e.offset \in Nat /\ e.size > 0 /\ 0 \in 0 .. e.size - 1
          /\ e.deleted \in BOOLEAN
      BY <1>2, Sizes DEF Holds, SlotEntry
    <2>2. \A u \in Tuples : (\A i \in 0 .. e.size - 1 :
               TupleSize[u] = e.size /\ mem[e.offset + i] = <<u, i>>) <=> u = v
      BY <1>2, <2>1 DEF Holds
    <2>3. (CHOOSE u \in Tuples : \A i \in 0 .. e.size - 1 :
               TupleSize[u] = e.size /\ mem[e.offset + i] = <<u, i>>) = v
      BY <1>2, <2>2 DEF Holds
    <2>4. ~(e.size = 0)
      BY <2>1
    <2>5. CASE e.deleted
      <3>1. SlotViewOf(mem, e) = [kind |-> "marked", tuple |-> v]
        BY <2>1, <2>3, <2>4, <2>5, Zenon DEF SlotViewOf
      <3> QED  BY <2>5, <3>1 DEF AbstractPage!MarkedSlot
    <2>6. CASE ~e.deleted
      <3>1. SlotViewOf(mem, e) = [kind |-> "live", tuple |-> v]
        BY <2>1, <2>3, <2>4, <2>6, Zenon DEF SlotViewOf
      <3> QED  BY <2>6, <3>1 DEF AbstractPage!LiveSlot
    <2> QED  BY <2>5, <2>6
  <1> QED  BY <1>1, <1>2

\* What the view of a slot says of its entry.
LEMMA SlotSays ==
    ASSUME NEW mem, NEW s \in Seq(SlotEntry), Readable(mem, s), NEW m \in 1 .. Len(s),
           NEW w, w = SlotViewOf(mem, s[m])
    PROVE  /\ AbstractPage!IsFull(w) <=> s[m].size > 0
           /\ AbstractPage!IsDeleted(w) <=> s[m].size = 0 \/ s[m].deleted
           /\ s[m].size = 0 => w = AbstractPage!EmptySlot
           /\ s[m].size > 0 => /\ Holds(mem, s[m], w.tuple) /\ TupleSize[w.tuple] = s[m].size
                               /\ w = IF s[m].deleted THEN AbstractPage!MarkedSlot(w.tuple)
                                                      ELSE AbstractPage!LiveSlot(w.tuple)
  <1>1. s[m] \in SlotEntry /\ s[m].size \in Nat /\ s[m].deleted \in BOOLEAN
    BY SlotFields
  <1>2. CASE s[m].size = 0
    <2>1. w = AbstractPage!EmptySlot
      BY <1>1, <1>2, SlotGivesBack
    <2> QED  BY <1>2, <2>1 DEF AbstractPage!EmptySlot, AbstractPage!IsFull, AbstractPage!IsDeleted
  <1>3. CASE s[m].size > 0
    <2>1. PICK u : Holds(mem, s[m], u)
      BY <1>3 DEF Readable
    <2>2. w = IF s[m].deleted THEN AbstractPage!MarkedSlot(u) ELSE AbstractPage!LiveSlot(u)
      BY <1>1, <2>1, SlotGivesBack
    <2>3. w.tuple = u /\ w.kind = IF s[m].deleted THEN "marked" ELSE "live"
      BY <2>2 DEF AbstractPage!MarkedSlot, AbstractPage!LiveSlot
    <2>4. AbstractPage!IsFull(w) /\ (AbstractPage!IsDeleted(w) <=> s[m].deleted)
      BY <1>1, <2>3 DEF AbstractPage!IsFull, AbstractPage!IsDeleted
    <2>5. TupleSize[u] = s[m].size
      BY <2>1 DEF Holds
    <2> QED  BY <1>1, <1>3, <2>1, <2>2, <2>3, <2>4, <2>5
  <1> QED  BY <1>1, <1>2, <1>3

\* A slot whose tuple is where its entry says has the same view.
SameTuple(mem, mem2, s, t, m) ==
    /\ s \in Seq(SlotEntry) /\ t \in Seq(SlotEntry) /\ Readable(mem, s)
    /\ m \in 1 .. Len(s) /\ m \in 1 .. Len(t)
    /\ t[m].size = s[m].size /\ t[m].deleted = s[m].deleted
    /\ \A u : Holds(mem, s[m], u) => Holds(mem2, t[m], u)

\* A slot with the same bytes is read as the same slot.
LEMMA SlotViewKept ==
    ASSUME NEW mem, NEW mem2, NEW s, NEW t, NEW m, SameTuple(mem, mem2, s, t, m)
    PROVE  SlotViewOf(mem2, t[m]) = SlotViewOf(mem, s[m])
  <1> USE DEF SameTuple
  <1>1. /\ s[m] \in SlotEntry /\ t[m] \in SlotEntry /\ s[m].size \in Nat
    BY SlotFields
  <1>2. CASE s[m].size = 0
    BY <1>1, <1>2, SlotGivesBack
  <1>3. CASE s[m].size > 0
    <2>1. PICK u : Holds(mem, s[m], u)
      BY <1>3 DEF Readable
    <2>2. Holds(mem2, t[m], u)
      BY <2>1
    <2> QED  BY <1>1, <2>1, <2>2, SlotGivesBack
  <1> QED  BY <1>1, <1>2, <1>3

\* The view of a page of which one slot changed.
OthersKept(mem, mem2, s, t, n) ==
    /\ n \in 1 .. Len(s) /\ Len(t) = Len(s)
    /\ \A m \in 1 .. Len(s) : m # n => SlotViewOf(mem2, t[m]) = SlotViewOf(mem, s[m])

ViewChanges(mem, f, s, mem2, g, t, n) ==
    PageViewOf(mem2, g, t) =
        [free  |-> g - HeaderSize - SlotSize * Len(s),
         slots |-> [PageViewOf(mem, f, s).slots EXCEPT ![n] = SlotViewOf(mem2, t[n])]]

\* When the other tuples are kept, one slot of the abstract page changes.
LEMMA OneSlotChanges ==
    ASSUME NEW mem, NEW mem2, NEW f, NEW g, NEW s, NEW t, NEW n, OthersKept(mem, mem2, s, t, n)
    PROVE  ViewChanges(mem, f, s, mem2, g, t, n)
  <1>1. PageViewOf(mem, f, s).slots = [m \in 1 .. Len(s) |-> SlotViewOf(mem, s[m])]
    BY DEF PageViewOf
  <1>2. [m \in 1 .. Len(t) |-> SlotViewOf(mem2, t[m])] =
            [PageViewOf(mem, f, s).slots EXCEPT ![n] = SlotViewOf(mem2, t[n])]
    BY <1>1 DEF OthersKept
  <1> QED  BY <1>2 DEF PageViewOf, OthersKept, ViewChanges

\* What the view of a page says of the page.
LEMMA PageSays ==
    ASSUME NEW mem, NEW f, NEW s \in Seq(SlotEntry), NEW pg, pg = PageViewOf(mem, f, s)
    PROVE  /\ Len(pg.slots) = Len(s) /\ pg.free = f - HeaderSize - SlotSize * Len(s)
           /\ \A m \in 1 .. Len(s) : pg.slots[m] = SlotViewOf(mem, s[m])
           /\ pg = [free |-> pg.free, slots |-> pg.slots]
  BY DEF PageViewOf

\* Only the delete mark of slot n changes, to b.
Marks(s, t, n, b) ==
    /\ t \in Seq(SlotEntry) /\ Len(t) = Len(s) /\ t[n].deleted = b
    /\ \A m \in 1 .. Len(s) : t[m].offset = s[m].offset /\ t[m].size = s[m].size
    /\ \A m \in 1 .. Len(s) : m # n => t[m] = s[m]

\* MarkDelete and RollbackDelete change the mark of one slot.
LEMMA MarkedEntries ==
    ASSUME NEW s \in Seq(SlotEntry), NEW n \in 1 .. Len(s), NEW b \in BOOLEAN,
           NEW t, t = [s EXCEPT ![n].deleted = b]
    PROVE  Marks(s, t, n, b)
  <1>1. PICK e : e = [s[n] EXCEPT !.deleted = b]
    OBVIOUS
  <1>2. s[n] \in SlotEntry
    BY SlotFields
  <1>3. e \in SlotEntry /\ e.offset = s[n].offset /\ e.size = s[n].size /\ e.deleted = b
    BY <1>1, <1>2 DEF SlotEntry
  <1>4. t = [s EXCEPT ![n] = e]
    BY <1>1
  <1>5. t \in Seq(SlotEntry) /\ Len(t) = Len(s)
    BY <1>3, <1>4
  <1>6. t[n] = e /\ \A m \in 1 .. Len(s) : m # n => t[m] = s[m]
    BY <1>4
  <1> QED  BY <1>3, <1>5, <1>6 DEF Marks

\* A mark changes neither the extents of the tuples nor their bytes.
LEMMA MarksKeepPage ==
    ASSUME NEW mem, NEW f, NEW s, GoodPage(mem, f, s), NEW t, NEW n, NEW b, Marks(s, t, n, b)
    PROVE  /\ GoodPage(mem, f, t)
           /\ \A m \in 1 .. Len(s) : \A u : Holds(mem, s[m], u) => Holds(mem, t[m], u)
  <1>1. Tiles(f, t)
    BY DEF GoodPage, Tiles, InBounds, Disjoint, Covered, Marks
  <1>2. ASSUME NEW m \in 1 .. Len(s), NEW u, Holds(mem, s[m], u) PROVE Holds(mem, t[m], u)
    BY <1>2 DEF Holds, Marks
  <1>3. Readable(mem, t)
    BY <1>2 DEF GoodPage, Readable, Marks
  <1> QED  BY <1>1, <1>2, <1>3 DEF GoodPage, Marks

----------------------------------------------------------------------------
(* The operations of the page.                                             *)

\* MarkDelete is the abstract page's Mark.
LEMMA MarkDeleteStep ==
    ASSUME PageInv, NEW n \in 1 .. Len(slots), MarkDelete(n)
    PROVE  PageInv' /\ AbstractPage!Mark(n)
  <1>1. PICK s, t, f, mem : s = slots /\ t = slots' /\ f = free_space_pointer /\ mem = data
    OBVIOUS
  <1>2. /\ GoodPage(mem, f, s) /\ s \in Seq(SlotEntry) /\ Readable(mem, s) /\ n \in 1 .. Len(s)
        /\ free_space_pointer' = f /\ data' = mem /\ t = [s EXCEPT ![n].deleted = TRUE]
        /\ ~s[n].deleted /\ ~(s[n].size = 0)
    BY <1>1 DEF PageInv, GoodPage, MarkDelete, IsDeleted
  <1>3. /\ t \in Seq(SlotEntry) /\ Len(t) = Len(s)
        /\ \A m \in 1 .. Len(s) : t[m].offset = s[m].offset /\ t[m].size = s[m].size
        /\ \A m \in 1 .. Len(s) : m # n => t[m] = s[m]
        /\ t[n].deleted = TRUE /\ Marks(s, t, n, TRUE)
    <2>1. Marks(s, t, n, TRUE)
      BY <1>2, MarkedEntries
    <2> QED  BY <2>1 DEF Marks
  <1>4. /\ GoodPage(mem, f, t)
        /\ \A m \in 1 .. Len(s) : \A u : Holds(mem, s[m], u) => Holds(mem, t[m], u)
    <2>1. Marks(s, t, n, TRUE) /\ GoodPage(mem, f, s)
      BY <1>2, <1>3
    <2> QED  BY <2>1, MarksKeepPage, Zenon
  <1>5. PICK w : w = SlotViewOf(mem, s[n])
    OBVIOUS
  <1>6. /\ ~AbstractPage!IsDeleted(w) /\ Holds(mem, s[n], w.tuple)
    <2>1. s[n].size > 0
      BY <1>2, SlotFields
    <2> QED  BY <1>2, <1>5, <2>1, SlotSays
  <1>7. SlotViewOf(mem, t[n]) = AbstractPage!MarkedSlot(w.tuple)
    <2>1. Holds(mem, t[n], w.tuple) /\ t[n] \in SlotEntry
      BY <1>2, <1>3, <1>4, <1>6, SlotFields
    <2> QED  BY <1>3, <2>1, SlotGivesBack
  <1>8. PICK pg, pg2 : pg = PageViewOf(mem, f, s) /\ pg2 = PageViewOf(mem, f, t)
    OBVIOUS
  <1>9. /\ Len(pg.slots) = Len(s) /\ pg.slots[n] = w
        /\ pg.free = f - HeaderSize - SlotSize * Len(s)
        /\ pg = [free |-> pg.free, slots |-> pg.slots]
    BY <1>2, <1>5, <1>8, PageSays
  <1>10. pg2 = [free  |-> pg.free, slots |-> [pg.slots EXCEPT ![n] = AbstractPage!MarkedSlot(w.tuple)]]
    <2>1. OthersKept(mem, mem, s, t, n)
      BY <1>2, <1>3 DEF OthersKept
    <2>2. ViewChanges(mem, f, s, mem, f, t, n)
      BY <2>1, OneSlotChanges, Zenon
    <2> QED  BY <1>7, <1>8, <1>9, <2>2 DEF ViewChanges
  <1>11. pg2 = AbstractPage!MarkTuple(pg, n)
    BY <1>9, <1>10 DEF AbstractPage!MarkTuple
  <1>12. ~AbstractPage!NoTuple(pg, n)
    BY <1>2, <1>6, <1>9 DEF AbstractPage!NoTuple
  <1>13. PageView = pg /\ PageView' = pg2
    BY <1>1, <1>2, <1>8, Views
  <1>14. AbstractPage!Mark(n)
    BY <1>11, <1>12, <1>13 DEF AbstractPage!Mark
  <1> QED  BY <1>1, <1>2, <1>4, <1>14 DEF PageInv

\* RollbackDelete is its Unmark.
LEMMA RollbackDeleteStep ==
    ASSUME PageInv, NEW n \in 1 .. Len(slots), RollbackDelete(n)
    PROVE  PageInv' /\ AbstractPage!Unmark(n)
  <1>1. PICK s, t, f, mem : s = slots /\ t = slots' /\ f = free_space_pointer /\ mem = data
    OBVIOUS
  <1>2. /\ GoodPage(mem, f, s) /\ s \in Seq(SlotEntry) /\ Readable(mem, s) /\ n \in 1 .. Len(s)
        /\ free_space_pointer' = f /\ data' = mem /\ t = [s EXCEPT ![n].deleted = FALSE]
    BY <1>1 DEF PageInv, GoodPage, RollbackDelete
  <1>3. /\ t \in Seq(SlotEntry) /\ Len(t) = Len(s)
        /\ \A m \in 1 .. Len(s) : t[m].offset = s[m].offset /\ t[m].size = s[m].size
        /\ \A m \in 1 .. Len(s) : m # n => t[m] = s[m]
        /\ t[n].deleted = FALSE /\ Marks(s, t, n, FALSE)
    <2>1. Marks(s, t, n, FALSE)
      BY <1>2, MarkedEntries
    <2> QED  BY <2>1 DEF Marks
  <1>4. /\ GoodPage(mem, f, t)
        /\ \A m \in 1 .. Len(s) : \A u : Holds(mem, s[m], u) => Holds(mem, t[m], u)
    <2>1. Marks(s, t, n, FALSE) /\ GoodPage(mem, f, s)
      BY <1>2, <1>3
    <2> QED  BY <2>1, MarksKeepPage, Zenon
  <1>5. PICK w : w = SlotViewOf(mem, s[n])
    OBVIOUS
  <1>6. PICK pg, pg2 : pg = PageViewOf(mem, f, s) /\ pg2 = PageViewOf(mem, f, t)
    OBVIOUS
  <1>7. /\ Len(pg.slots) = Len(s) /\ pg.slots[n] = w
        /\ pg.free = f - HeaderSize - SlotSize * Len(s)
        /\ pg = [free |-> pg.free, slots |-> pg.slots]
        /\ pg.slots = [m \in 1 .. Len(s) |-> SlotViewOf(mem, s[m])]
    BY <1>2, <1>5, <1>6, PageSays DEF PageViewOf
  <1>8. pg2 = [free |-> pg.free, slots |-> [pg.slots EXCEPT ![n] = SlotViewOf(mem, t[n])]]
    <2>1. OthersKept(mem, mem, s, t, n)
      BY <1>2, <1>3 DEF OthersKept
    <2>2. ViewChanges(mem, f, s, mem, f, t, n)
      BY <2>1, OneSlotChanges, Zenon
    <2> QED  BY <1>6, <1>7, <2>2 DEF ViewChanges
  <1>9. pg2 = AbstractPage!UnmarkTuple(pg, n)
    <2>1. t[n] \in SlotEntry /\ s[n] \in SlotEntry /\ s[n].size \in Nat
      BY <1>2, <1>3, SlotFields
    <2>2. CASE s[n].size = 0
      <3>1. w = AbstractPage!EmptySlot /\ ~AbstractPage!IsFull(w)
        BY <1>2, <1>5, <2>1, <2>2, SlotSays
      <3>2. SlotViewOf(mem, t[n]) = w
        BY <1>2, <1>3, <2>1, <2>2, <3>1, SlotGivesBack
      <3>3. pg2 = pg
        BY <1>2, <1>5, <1>7, <1>8, <3>2
      <3> QED  BY <1>7, <3>1, <3>3 DEF AbstractPage!UnmarkTuple
    <2>3. CASE s[n].size > 0
      <3>1. AbstractPage!IsFull(w) /\ Holds(mem, s[n], w.tuple)
        BY <1>2, <1>5, <2>3, SlotSays
      <3>2. SlotViewOf(mem, t[n]) = AbstractPage!LiveSlot(w.tuple)
        <4>1. Holds(mem, t[n], w.tuple)
          BY <1>2, <1>4, <3>1
        <4> QED  BY <1>3, <2>1, <4>1, SlotGivesBack
      <3> QED  BY <1>7, <1>8, <3>1, <3>2 DEF AbstractPage!UnmarkTuple
    <2> QED  BY <2>1, <2>2, <2>3
  <1>10. PageView = pg /\ PageView' = pg2
    BY <1>1, <1>2, <1>6, Views
  <1>11. AbstractPage!Unmark(n)
    BY <1>9, <1>10 DEF AbstractPage!Unmark
  <1> QED  BY <1>1, <1>2, <1>4, <1>11 DEF PageInv

\* UpdateTuple and ApplyDelete keep a good page: all that is left to show is
\* what becomes of slot n.
MarksKept(s, t, n) == \A m \in 1 .. Len(s) : m # n => t[m].deleted = s[m].deleted

\* UpdateTuple and ApplyDelete leave a good page and the other tuples.
LEMMA ResizedPage ==
    ASSUME NEW mem, NEW mem2, NEW s, NEW t, NEW n, NEW f, NEW g, NEW o, NEW z, NEW new,
           GoodPage(mem, f, s), Resizes(s, t, n, f, g, o, z, new),
           Shifted(mem, mem2, f, o, z, new), MarksKept(s, t, n),
           HeaderSize + SlotSize * Len(s) <= g,
           new > 0 => \E v : Holds(mem2, t[n], v)
    PROVE  GoodPage(mem2, g, t) /\ OthersKept(mem, mem2, s, t, n)
  <1>1. /\ s \in Seq(SlotEntry) /\ t \in Seq(SlotEntry) /\ Len(t) = Len(s) /\ n \in 1 .. Len(s)
        /\ Layout(f, g, o, z, new) /\ t[n].size = new
        /\ \A m \in 1 .. Len(s) : m # n => t[m].size = s[m].size
    BY DEF Resizes
  <1>2. g \in Nat /\ g <= PageSize
    BY <1>1, PageAssumption DEF Layout
  <1>3. Tiles(g, t)
    BY CompactTiles, Zenon
  <1>4. ASSUME NEW m \in 1 .. Len(s), m # n, NEW u, Holds(mem, s[m], u) PROVE Holds(mem2, t[m], u)
    <2>1. BytesKept(mem, mem2, s, t, n)
      BY CompactKeeps, Zenon
    <2> QED  BY <1>4, <2>1, Zenon DEF BytesKept
  <1>5. Readable(mem, s)
    BY DEF GoodPage
  <1>6. Readable(mem2, t)
    <2>1. ASSUME NEW m \in 1 .. Len(t), t[m].size > 0 PROVE \E u : Holds(mem2, t[m], u)
      <3>1. CASE m = n
        BY <1>1, <2>1, <3>1
      <3>2. CASE m # n
        <4>1. m \in 1 .. Len(s) /\ s[m].size > 0
          BY <1>1, <2>1, <3>2
        <4>2. PICK u : Holds(mem, s[m], u)
          BY <1>5, <4>1 DEF Readable
        <4> QED  BY <1>4, <3>2, <4>1, <4>2
      <3> QED  BY <3>1, <3>2
    <2> QED  BY <2>1 DEF Readable
  <1>7. GoodPage(mem2, g, t)
    BY <1>1, <1>2, <1>3, <1>6 DEF GoodPage
  <1>8. ASSUME NEW m \in 1 .. Len(s), m # n
        PROVE  SlotViewOf(mem2, t[m]) = SlotViewOf(mem, s[m])
    <2>1. m \in 1 .. Len(t) /\ t[m].size = s[m].size /\ t[m].deleted = s[m].deleted
      BY <1>1, <1>8 DEF MarksKept
    <2>2. \A u : Holds(mem, s[m], u) => Holds(mem2, t[m], u)
      BY <1>4, <1>8
    <2>3. SameTuple(mem, mem2, s, t, m)
      BY <1>1, <1>5, <2>1, <2>2 DEF SameTuple
    <2> QED  BY <2>3, SlotViewKept
  <1> QED  BY <1>1, <1>7, <1>8 DEF OthersKept

\* Slot n and the pointers, as UpdateTuple and ApplyDelete find them.
LEMMA SlotLayout ==
    ASSUME NEW mem, NEW f, NEW s, GoodPage(mem, f, s), NEW n \in 1 .. Len(s), s[n].size > 0,
           NEW new \in Nat, NEW g \in Nat, g + new = f + s[n].size
    PROVE  Layout(f, g, s[n].offset, s[n].size, new)
  <1>1. s[n].offset \in Nat /\ s[n].size \in Nat /\ f \in Nat
    BY SlotFields DEF GoodPage
  <1>2. f <= s[n].offset /\ s[n].offset + s[n].size <= PageSize
    BY DEF GoodPage, Tiles, InBounds
  <1> QED  BY <1>1, <1>2 DEF Layout

\* The bytes that UpdateTuple writes.
Rewritten(mem, mem2, f, o, z, new, v) ==
    /\ Shifted(mem, mem2, f, o, z, new)
    /\ \A i \in 0 .. new - 1 : mem2[((o + z) - new) + i] = <<v, i>>

\* What UpdateTuple does to the memory of the page.
LEMMA UpdatedBytes ==
    ASSUME NEW f, NEW g, NEW o, NEW z, NEW new, Layout(f, g, o, z, new),
           NEW v, TupleSize[v] = new, NEW mem, NEW mem2,
           mem2 = Write(Move(mem, g, f, o - f), (o + z) - new, v)
    PROVE  Rewritten(mem, mem2, f, o, z, new, v)
  <1>1. /\ f \in Nat /\ g \in Nat /\ o \in Nat /\ z \in Nat /\ new \in Nat /\ PageSize \in Nat
        /\ z > 0 /\ f <= o /\ o + z <= PageSize /\ g + new = f + z
    BY PageAssumption DEF Layout
  <1>2. PICK e \in Nat : e = (o + z) - new
    BY <1>1
  <1>3. PICK mv : mv = Move(mem, g, f, o - f)
    OBVIOUS
  <1>4. \A a \in Addresses :
            mem2[a] = IF a \in e .. e + new - 1 THEN <<v, a - e>> ELSE mv[a]
    BY <1>2, <1>3 DEF Write
  <1>5. \A a \in Addresses :
            mv[a] = IF a \in g .. g + (o - f) - 1 THEN mem[f + (a - g)] ELSE mem[a]
    BY <1>3 DEF Move
  <1>6. ASSUME NEW a \in Addresses, a >= o + z PROVE mem2[a] = mem[a]
    <2>1. a \notin e .. e + new - 1 /\ a \notin g .. g + (o - f) - 1
      BY <1>1, <1>2, <1>6 DEF Addresses
    <2> QED  BY <1>4, <1>5, <2>1
  <1>7. ASSUME NEW a \in f .. o - 1 PROVE mem2[(a + z) - new] = mem[a]
    <2>1. PICK b : b = (a + z) - new
      OBVIOUS
    <2>2. /\ b \in Addresses /\ b \notin e .. e + new - 1 /\ b \in g .. g + (o - f) - 1
          /\ f + (b - g) = a
      BY <1>1, <1>2, <2>1 DEF Addresses
    <2> QED  BY <1>4, <1>5, <2>1, <2>2
  <1>8. ASSUME NEW i \in 0 .. new - 1 PROVE mem2[e + i] = <<v, i>>
    <2>1. e + i \in Addresses /\ e + i \in e .. e + new - 1 /\ (e + i) - e = i
      BY <1>1, <1>2 DEF Addresses
    <2> QED  BY <1>4, <2>1
  <1> QED  BY <1>2, <1>6, <1>7, <1>8 DEF Shifted, Rewritten

\* The bytes that ApplyDelete moves.
LEMMA DroppedBytes ==
    ASSUME NEW f, NEW g, NEW o, NEW z, Layout(f, g, o, z, 0), NEW mem, NEW mem2,
           mem2 = Move(mem, g, f, o - f)
    PROVE  Shifted(mem, mem2, f, o, z, 0)
  <1>1. /\ f \in Nat /\ g \in Nat /\ o \in Nat /\ z \in Nat /\ PageSize \in Nat
        /\ z > 0 /\ f <= o /\ o + z <= PageSize /\ g = f + z
    BY PageAssumption DEF Layout
  <1>2. \A a \in Addresses :
            mem2[a] = IF a \in g .. g + (o - f) - 1 THEN mem[f + (a - g)] ELSE mem[a]
    BY DEF Move
  <1>3. ASSUME NEW a \in Addresses, a >= o + z PROVE mem2[a] = mem[a]
    <2>1. a \notin g .. g + (o - f) - 1
      BY <1>1, <1>3 DEF Addresses
    <2> QED  BY <1>2, <2>1
  <1>4. ASSUME NEW a \in f .. o - 1 PROVE mem2[(a + z) - 0] = mem[a]
    <2>1. PICK b : b = (a + z) - 0
      OBVIOUS
    <2>2. b \in Addresses /\ b \in g .. g + (o - f) - 1 /\ f + (b - g) = a
      BY <1>1, <2>1 DEF Addresses
    <2> QED  BY <1>2, <2>1, <2>2
  <1> QED  BY <1>3, <1>4 DEF Shifted

\* UpdateTuple is the abstract page's Update.
LEMMA UpdateTupleStep ==
    ASSUME PageInv, NEW n \in 1 .. Len(slots), NEW v \in Tuples, UpdateTuple(n, v)
    PROVE  PageInv' /\ AbstractPage!Update(n, v)
  <1>1. PICK s, t, f, g, mem, mem2 :
            /\ s = slots /\ t = slots' /\ f = free_space_pointer /\ g = free_space_pointer'
            /\ mem = data /\ mem2 = data'
    OBVIOUS
  <1>2. PICK new \in Nat, o \in Nat, z \in Nat, h \in Nat :
            /\ new = TupleSize[v] /\ o = s[n].offset /\ z = s[n].size
            /\ h = HeaderSize + SlotSize * Len(s)
    <2>1. s[n].offset \in Nat /\ s[n].size \in Nat
      BY <1>1, SlotFields DEF PageInv, GoodPage
    <2>2. HeaderSize + SlotSize * Len(s) \in Nat
      <3>1. SlotSize * Len(s) \in Nat /\ HeaderSize \in Nat
        BY <1>1, SlotWords, PageAssumption DEF PageInv, GoodPage
      <3> QED  BY <3>1
    <2> QED  BY <2>1, <2>2, Sizes
  <1>3. /\ GoodPage(mem, f, s) /\ s \in Seq(SlotEntry) /\ Readable(mem, s) /\ n \in 1 .. Len(s)
        /\ f \in Nat /\ h <= f
        /\ ~s[n].deleted /\ ~(s[n].size = 0)
    BY <1>1, <1>2 DEF PageInv, GoodPage, UpdateTuple, IsDeleted
  <1>4. g = (f + z) - new /\ mem2 = Write(Move(mem, g, f, o - f), (o + z) - new, v)
    <2>1. g = f + s[n].size - TupleSize[v]
      BY <1>1 DEF UpdateTuple
    <2>2. mem2 = Write(Move(mem, f + s[n].size - TupleSize[v], f, s[n].offset - f),
                       s[n].offset + s[n].size - TupleSize[v], v)
      BY <1>1, Zenon DEF UpdateTuple
    <2>3. f + z - new = (f + z) - new /\ o + z - new = (o + z) - new
      BY <1>3
    <2>4. g = f + z - new
      BY <1>2, <2>1, Zenon
    <2>5. mem2 = Write(Move(mem, f + z - new, f, o - f), o + z - new, v)
      BY <1>2, <2>2, Zenon
    <2> QED  BY <2>3, <2>4, <2>5, Zenon
  <1>5. (f - HeaderSize - SlotSize * Len(s)) + z >= new
    BY <1>1, <1>2 DEF UpdateTuple, getFreeSpaceRemaining
  <1>6. new > 0 /\ z > 0 /\ g \in Nat /\ g + new = f + z /\ h <= g
    <2>1. f - HeaderSize - SlotSize * Len(s) = f - h
      <3>1. SlotSize * Len(s) \in Nat /\ HeaderSize \in Nat
        BY <1>3, SlotWords, PageAssumption
      <3>2. PICK k \in Nat : k = SlotSize * Len(s)
        BY <3>1
      <3>3. (f - HeaderSize) - k = f - (HeaderSize + k)
        BY <1>3, <3>1, <3>2
      <3> QED  BY <1>2, <3>2, <3>3
    <2>2. new > 0 /\ z > 0
      BY <1>2, <1>3, Sizes
    <2>3. (f - h) + z >= new
      BY <1>5, <2>1
    <2>4. (f + z) - new \in Nat /\ ((f + z) - new) + new = f + z /\ h <= (f + z) - new
      BY <1>3, <2>3
    <2> QED  BY <1>4, <2>2, <2>4
  <1>7. Layout(f, g, o, z, new)
    BY <1>2, <1>3, <1>6, SlotLayout
  <1> DEFINE entry(m) == [slots[m] EXCEPT
                             !.offset = IF OffsetMoves(n, m) THEN @ + slots[n].size - TupleSize[v] ELSE @,
                             !.size   = IF m = n THEN TupleSize[v] ELSE @]
  <1>81. t = [m \in 1 .. Len(s) |-> entry(m)]
    BY <1>1, Zenon DEF UpdateTuple
  <1>82. ASSUME NEW m \in 1 .. Len(s)
         PROVE  /\ entry(m) \in SlotEntry /\ entry(m).deleted = s[m].deleted
                /\ entry(m).size = IF m = n THEN new ELSE s[m].size
                /\ entry(m).offset = IF s[m].size > 0 /\ s[m].offset < o + z
                                       THEN (s[m].offset + z) - new ELSE s[m].offset
    <2>1. PICK p \in Nat, q \in Nat : p = s[m].offset /\ q = s[m].size
      BY <1>3, SlotFields
    <2>2. s[m] \in SlotEntry
      BY <1>3, SlotFields
    <2>3. q > 0 => (p + z) - new \in Nat
      <3>1. q > 0 => f <= p
        BY <1>3, <2>1 DEF GoodPage, Tiles, InBounds
      <3>2. g \in Nat /\ g + new = f + z
        BY <1>6
      <3> QED  BY <1>3, <3>1, <3>2
    <2>4. PICK x : x = IF q > 0 /\ p < o + z THEN (p + z) - new ELSE p
      OBVIOUS
    <2>5. x \in Nat
      BY <2>3, <2>4
    <2>6. PICK y \in Nat : y = IF m = n THEN new ELSE q
      OBVIOUS
    <2>7. OffsetMoves(n, m) <=> q > 0 /\ p < o + z
      BY <1>1, <1>2, <2>1 DEF OffsetMoves
    <2>8. entry(m) = [s[m] EXCEPT !.offset = x, !.size = y]
      <3>1. x = IF OffsetMoves(n, m) THEN s[m].offset + s[n].size - TupleSize[v] ELSE s[m].offset
        <4>1. x = IF OffsetMoves(n, m) THEN p + (z - new) ELSE p
          <5>1. (p + z) - new = p + (z - new)
            BY <1>3
          <5> QED  BY <2>4, <2>7, <5>1, Zenon
        <4>2. s[m].offset = p /\ s[n].size = z /\ TupleSize[v] = new
          BY <1>2, <2>1
        <4> QED  BY <4>1, <4>2, Zenon
      <3>2. y = IF m = n THEN TupleSize[v] ELSE s[m].size
        BY <1>2, <2>1, <2>6
      <3>3. entry(m) = [s[m] EXCEPT
                !.offset = IF OffsetMoves(n, m) THEN s[m].offset + s[n].size - TupleSize[v] ELSE s[m].offset,
                !.size = IF m = n THEN TupleSize[v] ELSE s[m].size]
        BY <1>1, <2>2, Zenon DEF SlotEntry
      <3> QED  BY <3>1, <3>2, <3>3, Zenon
    <2>9. /\ entry(m) \in SlotEntry /\ entry(m).deleted = s[m].deleted
          /\ entry(m).size = y /\ entry(m).offset = x
      BY <2>2, <2>5, <2>8 DEF SlotEntry
    <2> QED  BY <2>1, <2>4, <2>6, <2>9
  <1> HIDE DEF entry
  <1>8. ASSUME NEW m \in 1 .. Len(s)
        PROVE  /\ t[m] \in SlotEntry /\ t[m].deleted = s[m].deleted
               /\ t[m].size = IF m = n THEN new ELSE s[m].size
               /\ t[m].offset = IF s[m].size > 0 /\ s[m].offset < o + z
                                  THEN (s[m].offset + z) - new ELSE s[m].offset
    <2>1. t[m] = entry(m)
      BY <1>81
    <2> QED  BY <1>82, <2>1
  <1>9. t \in Seq(SlotEntry) /\ Len(t) = Len(s)
    <2>1. Len(s) \in Nat /\ \A m \in 1 .. Len(s) : entry(m) \in SlotEntry
      BY <1>3, <1>82
    <2> QED  BY <1>81, <2>1
  <1>10. t[n].size = new /\ t[n].offset = (o + z) - new /\ ~t[n].deleted /\ t[n] \in SlotEntry
    <2>1. o < o + z
      BY <1>6
    <2> QED  BY <1>2, <1>3, <1>6, <1>8, <2>1
  <1>11. Resizes(s, t, n, f, g, o, z, new)
    <2>1. ASSUME NEW m \in 1 .. Len(s), m # n
          PROVE  /\ t[m].size = s[m].size
                 /\ s[m].size > 0 /\ s[m].offset < o => t[m].offset + new = s[m].offset + z
                 /\ s[m].size > 0 /\ ~(s[m].offset < o) => t[m].offset = s[m].offset
      <3>1. PICK p \in Nat, q \in Nat : p = s[m].offset /\ q = s[m].size
        BY <1>3, SlotFields
      <3>2. q > 0 => p + q <= o \/ o + z <= p
        BY <1>2, <1>3, <1>6, <2>1, <3>1 DEF GoodPage, Tiles, Disjoint
      <3>3. q > 0 /\ p < o => p < o + z /\ ((p + z) - new) + new = p + z
        BY <1>6
      <3>4. q > 0 /\ ~(p < o) => ~(p < o + z)
        BY <1>6, <3>2
      <3> QED  BY <1>8, <2>1, <3>1, <3>3, <3>4
    <2>2. t[n].offset + new = o + z
      BY <1>10
    <2>3. Tiles(f, s)
      BY <1>3 DEF GoodPage
    <2> QED  BY <1>2, <1>3, <1>7, <1>9, <1>10, <2>1, <2>2, <2>3 DEF Resizes
  <1>12. /\ Shifted(mem, mem2, f, o, z, new)
         /\ \A i \in 0 .. new - 1 : mem2[((o + z) - new) + i] = <<v, i>>
    <2>1. TupleSize[v] = new /\ mem2 = Write(Move(mem, g, f, o - f), (o + z) - new, v)
      BY <1>2, <1>4
    <2>2. Rewritten(mem, mem2, f, o, z, new, v)
      BY <1>7, <2>1, UpdatedBytes, ZenonT(30)
    <2> QED  BY <2>2 DEF Rewritten
  <1>13. Holds(mem2, t[n], v)
    BY <1>2, <1>10, <1>12 DEF Holds
  <1>14. GoodPage(mem2, g, t) /\ OthersKept(mem, mem2, s, t, n)
    <2>1. MarksKept(s, t, n)
      BY <1>8 DEF MarksKept
    <2>2. HeaderSize + SlotSize * Len(s) <= g /\ (new > 0 => \E u : Holds(mem2, t[n], u))
      BY <1>2, <1>6, <1>13
    <2> QED  BY <1>3, <1>11, <1>12, <2>1, <2>2, ResizedPage, Zenon
  <1>15. PICK w : w = SlotViewOf(mem, s[n])
    OBVIOUS
  <1>16. ~AbstractPage!IsDeleted(w) /\ TupleSize[w.tuple] = z
    BY <1>2, <1>3, <1>6, <1>15, SlotSays
  <1>17. SlotViewOf(mem2, t[n]) = AbstractPage!LiveSlot(v)
    <2>1. t[n] \in SlotEntry /\ ~t[n].deleted
      BY <1>10
    <2> QED  BY <1>13, <2>1, SlotGivesBack
  <1>18. PICK pg, pg2 : pg = PageViewOf(mem, f, s) /\ pg2 = PageViewOf(mem2, g, t)
    OBVIOUS
  <1>19. Len(pg.slots) = Len(s) /\ pg.slots[n] = w /\ pg.free = f - HeaderSize - SlotSize * Len(s)
    BY <1>3, <1>15, <1>18, PageSays
  <1>20. g - HeaderSize - SlotSize * Len(s) = (pg.free + z) - new
    <2>1. PICK k \in Nat : k = SlotSize * Len(s)
      BY <1>3, SlotWords
    <2>2. HeaderSize \in Nat
      BY PageAssumption
    <2>3. ((f + z) - new) - HeaderSize - k = ((f - HeaderSize - k) + z) - new
      BY <1>3, <2>1, <2>2
    <2> QED  BY <1>4, <1>19, <2>1, <2>3
  <1>21. pg2 = AbstractPage!ReplaceTuple(pg, n, v)
    <2>1. ViewChanges(mem, f, s, mem2, g, t, n)
      BY <1>14, OneSlotChanges, Zenon
    <2>2. pg2 = [free |-> (pg.free + z) - new, slots |-> [pg.slots EXCEPT ![n] = AbstractPage!LiveSlot(v)]]
      BY <1>17, <1>18, <1>20, <2>1 DEF ViewChanges
    <2> QED  BY <1>2, <1>16, <1>19, <2>2 DEF AbstractPage!ReplaceTuple
  <1>22. ~AbstractPage!NoTuple(pg, n)
    BY <1>3, <1>16, <1>19 DEF AbstractPage!NoTuple
  <1>23. AbstractPage!RoomToUpdate(pg, n, v)
    BY <1>2, <1>5, <1>16, <1>19 DEF AbstractPage!RoomToUpdate
  <1>24. PageView = pg /\ PageView' = pg2
    BY <1>1, <1>18, Views
  <1>25. AbstractPage!Update(n, v)
    BY <1>21, <1>22, <1>23, <1>24 DEF AbstractPage!Update
  <1> QED  BY <1>1, <1>14, <1>25 DEF PageInv

\* ApplyDelete is its Drop.
LEMMA ApplyDeleteStep ==
    ASSUME PageInv, NEW n \in 1 .. Len(slots), ApplyDelete(n)
    PROVE  PageInv' /\ AbstractPage!Drop(n)
  <1>1. PICK s, t, f, g, mem, mem2 :
            /\ s = slots /\ t = slots' /\ f = free_space_pointer /\ g = free_space_pointer'
            /\ mem = data /\ mem2 = data'
    OBVIOUS
  <1>2. PICK o \in Nat, z \in Nat : o = s[n].offset /\ z = s[n].size
    BY <1>1, SlotFields DEF PageInv, GoodPage
  <1>3. /\ GoodPage(mem, f, s) /\ s \in Seq(SlotEntry) /\ Readable(mem, s) /\ n \in 1 .. Len(s)
        /\ f \in Nat /\ s[n].size > 0
    BY <1>1 DEF PageInv, GoodPage, ApplyDelete
  <1>4. g = f + z /\ mem2 = Move(mem, g, f, o - f)
    <2>1. g = f + s[n].size /\ mem2 = Move(mem, f + s[n].size, f, s[n].offset - f)
      BY <1>1, Zenon DEF ApplyDelete
    <2> QED  BY <1>2, <2>1, Zenon
  <1>5. z > 0 /\ g \in Nat /\ g + 0 = f + z
    BY <1>2, <1>3, <1>4
  <1>6. Layout(f, g, o, z, 0)
    BY <1>2, <1>3, <1>5, SlotLayout
  <1> DEFINE entry(m) == IF m = n THEN [offset |-> 0, size |-> 0, deleted |-> FALSE]
                         ELSE IF slots[m].size # 0 /\ slots[m].offset < slots[n].offset
                           THEN [slots[m] EXCEPT !.offset = @ + slots[n].size]
                           ELSE slots[m]
  <1>7. t = [m \in 1 .. Len(s) |-> entry(m)]
    BY <1>1, Zenon DEF ApplyDelete
  <1>8. entry(n) = [offset |-> 0, size |-> 0, deleted |-> FALSE]
    OBVIOUS
  <1>9. ASSUME NEW m \in 1 .. Len(s), m # n
        PROVE  /\ entry(m) \in SlotEntry /\ entry(m).deleted = s[m].deleted /\ entry(m).size = s[m].size
               /\ s[m].size > 0 /\ s[m].offset < o => entry(m).offset = s[m].offset + z
               /\ s[m].size > 0 /\ ~(s[m].offset < o) => entry(m).offset = s[m].offset
    <2>1. PICK p \in Nat, q \in Nat : p = s[m].offset /\ q = s[m].size
      BY <1>3, SlotFields
    <2>2. s[m] \in SlotEntry
      BY <1>3, SlotFields
    <2>3. CASE q # 0 /\ p < o
      <3>1. entry(m) = [s[m] EXCEPT !.offset = p + z]
        <4>1. slots[m].size # 0 /\ slots[m].offset < slots[n].offset
          BY <1>1, <1>2, <2>1, <2>3
        <4>2. entry(m) = [slots[m] EXCEPT !.offset = slots[m].offset + slots[n].size]
          BY <1>9, <4>1, Zenon
        <4> QED  BY <1>1, <1>2, <2>1, <4>2, Zenon
      <3>2. /\ entry(m) \in SlotEntry /\ entry(m).deleted = s[m].deleted /\ entry(m).size = s[m].size
            /\ entry(m).offset = p + z
        <4>1. PICK x \in Nat : x = p + z
          OBVIOUS
        <4>2. PICK e : e = [s[m] EXCEPT !.offset = x]
          OBVIOUS
        <4>3. e \in SlotEntry /\ e.deleted = s[m].deleted /\ e.size = s[m].size /\ e.offset = x
          BY <2>2, <4>2 DEF SlotEntry
        <4>4. entry(m) = e
          BY <3>1, <4>1, <4>2, Zenon
        <4> QED  BY <4>1, <4>3, <4>4
      <3> QED  BY <2>1, <2>3, <3>2
    <2>4. CASE ~(q # 0 /\ p < o)
      <3>1. ~(slots[m].size # 0 /\ slots[m].offset < slots[n].offset)
        BY <1>1, <1>2, <2>1, <2>4
      <3>2. entry(m) = s[m]
        BY <1>1, <1>9, <3>1, Zenon
      <3>3. s[m].size > 0 => ~(s[m].offset < o)
        BY <2>1, <2>4
      <3> QED  BY <2>2, <3>2, <3>3
    <2> QED  BY <2>3, <2>4
  <1> HIDE DEF entry
  <1>10. t \in Seq(SlotEntry) /\ Len(t) = Len(s)
    <2>1. ASSUME NEW m \in 1 .. Len(s) PROVE entry(m) \in SlotEntry
      <3>1. entry(n) \in SlotEntry
        BY <1>8 DEF SlotEntry
      <3> QED  BY <1>9, <3>1
    <2>2. Len(s) \in Nat
      BY <1>3
    <2> QED  BY <1>7, <2>1, <2>2
  <1>11. t[n].size = 0 /\ t[n] \in SlotEntry
    <2>1. t[n] = entry(n)
      BY <1>3, <1>7
    <2> QED  BY <1>8, <2>1 DEF SlotEntry
  <1>12. ASSUME NEW m \in 1 .. Len(s), m # n
         PROVE  /\ t[m].deleted = s[m].deleted /\ t[m].size = s[m].size
                /\ s[m].size > 0 /\ s[m].offset < o => t[m].offset + 0 = s[m].offset + z
                /\ s[m].size > 0 /\ ~(s[m].offset < o) => t[m].offset = s[m].offset
    <2>1. t[m] = entry(m)
      BY <1>7
    <2>2. t[m].offset \in Nat /\ t[m].offset + 0 = t[m].offset
      BY <1>10, SlotFields
    <2> QED  BY <1>9, <1>12, <2>1, <2>2
  <1>13. Resizes(s, t, n, f, g, o, z, 0)
    <2>1. Tiles(f, s)
      BY <1>3 DEF GoodPage
    <2> QED  BY <1>2, <1>3, <1>6, <1>10, <1>11, <1>12, <2>1 DEF Resizes
  <1>14. Shifted(mem, mem2, f, o, z, 0)
    BY <1>4, <1>6, DroppedBytes, Zenon
  <1>15. GoodPage(mem2, g, t) /\ OthersKept(mem, mem2, s, t, n)
    <2>1. MarksKept(s, t, n)
      BY <1>12 DEF MarksKept
    <2>2. HeaderSize + SlotSize * Len(s) <= g
      <3>1. PICK h \in Nat : h = HeaderSize + SlotSize * Len(s)
        <4>1. SlotSize * Len(s) \in Nat /\ HeaderSize \in Nat
          BY <1>3, SlotWords, PageAssumption
        <4> QED  BY <4>1
      <3>2. h <= f
        BY <1>3, <3>1 DEF GoodPage
      <3>3. h <= f + z
        BY <1>3, <3>2
      <3> QED  BY <1>4, <3>1, <3>3
    <2>3. 0 > 0 => \E u : Holds(mem2, t[n], u)
      OBVIOUS
    <2> QED  BY <1>3, <1>13, <1>14, <2>1, <2>2, <2>3, ResizedPage, Zenon
  <1>16. PICK w : w = SlotViewOf(mem, s[n])
    OBVIOUS
  <1>17. AbstractPage!IsFull(w) /\ TupleSize[w.tuple] = z
    BY <1>2, <1>3, <1>16, SlotSays
  <1>18. SlotViewOf(mem2, t[n]) = AbstractPage!EmptySlot
    BY <1>11, SlotGivesBack
  <1>19. PICK pg, pg2 : pg = PageViewOf(mem, f, s) /\ pg2 = PageViewOf(mem2, g, t)
    OBVIOUS
  <1>20. Len(pg.slots) = Len(s) /\ pg.slots[n] = w /\ pg.free = f - HeaderSize - SlotSize * Len(s)
    BY <1>3, <1>16, <1>19, PageSays
  <1>21. g - HeaderSize - SlotSize * Len(s) = pg.free + z
    <2>1. PICK k \in Nat : k = SlotSize * Len(s)
      BY <1>3, SlotWords
    <2>2. HeaderSize \in Nat
      BY PageAssumption
    <2>3. (f + z) - HeaderSize - k = (f - HeaderSize - k) + z
      BY <1>3, <2>1, <2>2
    <2> QED  BY <1>4, <1>20, <2>1, <2>3
  <1>22. pg2 = AbstractPage!DropTuple(pg, n)
    <2>1. ViewChanges(mem, f, s, mem2, g, t, n)
      BY <1>15, OneSlotChanges, Zenon
    <2>2. pg2 = [free |-> pg.free + z, slots |-> [pg.slots EXCEPT ![n] = AbstractPage!EmptySlot]]
      BY <1>18, <1>19, <1>21, <2>1 DEF ViewChanges
    <2> QED  BY <1>17, <1>20, <2>2 DEF AbstractPage!DropTuple
  <1>23. PageView = pg /\ PageView' = pg2
    BY <1>1, <1>19, Views
  <1>24. AbstractPage!Drop(n)
    BY <1>17, <1>20, <1>22, <1>23 DEF AbstractPage!Drop
  <1> QED  BY <1>1, <1>15, <1>24 DEF PageInv

NewTuple(mem, mem2, s, t, g, v, k) ==
    /\ GoodPage(mem2, g, t)
    /\ SlotViewOf(mem2, t[k]) = AbstractPage!LiveSlot(v)
    /\ \A m \in 1 .. Len(t) : m # k => SlotViewOf(mem2, t[m]) = SlotViewOf(mem, s[m])

\* InsertTuple leaves a good page, with the new tuple and the others.
LEMMA InsertedPage ==
    ASSUME NEW mem, NEW mem2, NEW s, NEW t, NEW f, NEW g, NEW v, NEW k,
           GoodPage(mem, f, s), Inserts(s, t, f, g, v, k), mem2 = Write(mem, g, v),
           HeaderSize + SlotSize * Len(t) <= g
    PROVE  NewTuple(mem, mem2, s, t, g, v, k)
  <1>1. /\ s \in Seq(SlotEntry) /\ f \in Nat /\ f <= PageSize /\ Tiles(f, s) /\ Readable(mem, s)
    BY DEF GoodPage
  <1>2. /\ t \in Seq(SlotEntry) /\ g \in Nat /\ v \in Tuples /\ k \in 1 .. Len(t)
        /\ g + TupleSize[v] = f
        /\ t[k].offset = g /\ t[k].size = TupleSize[v] /\ t[k].deleted = FALSE
        /\ Len(s) <= Len(t) /\ (k <= Len(s) => s[k].size = 0)
        /\ \A m \in 1 .. Len(t) : m # k => m \in 1 .. Len(s) /\ t[m] = s[m]
        /\ \A m \in 1 .. Len(s) : m # k => t[m] = s[m]
    BY DEF Inserts
  <1>3. /\ Tiles(g, t) /\ Holds(mem2, t[k], v)
        /\ \A m \in 1 .. Len(t) : m # k => \A u : Holds(mem, s[m], u) => Holds(mem2, t[m], u)
    <2>1. Inserted(mem, mem2, s, t, g, v, k)
      BY InsertTiles, Zenon
    <2> QED  BY <2>1 DEF Inserted
  <1>4. Readable(mem2, t)
    <2>1. ASSUME NEW m \in 1 .. Len(t), t[m].size > 0 PROVE \E u : Holds(mem2, t[m], u)
      <3>1. CASE m = k
        BY <1>3, <3>1
      <3>2. CASE m # k
        <4>1. m \in 1 .. Len(s) /\ s[m].size > 0
          BY <1>2, <2>1, <3>2
        <4>2. PICK u : Holds(mem, s[m], u)
          BY <1>1, <4>1 DEF Readable
        <4> QED  BY <1>3, <3>2, <4>2
      <3> QED  BY <3>1, <3>2
    <2> QED  BY <2>1 DEF Readable
  <1>5. GoodPage(mem2, g, t)
    <2>1. TupleSize[v] \in Nat
      BY <1>2, Sizes
    <2>2. g <= PageSize
      BY <1>1, <1>2, <2>1, PageAssumption
    <2> QED  BY <1>2, <1>3, <1>4, <2>2 DEF GoodPage
  <1>6. SlotViewOf(mem2, t[k]) = AbstractPage!LiveSlot(v)
    <2>1. t[k] \in SlotEntry /\ ~t[k].deleted
      BY <1>2, SlotFields
    <2> QED  BY <1>3, <2>1, SlotGivesBack
  <1>7. ASSUME NEW m \in 1 .. Len(t), m # k
        PROVE  SlotViewOf(mem2, t[m]) = SlotViewOf(mem, s[m])
    <2>1. m \in 1 .. Len(s) /\ t[m] = s[m]
      BY <1>2, <1>7
    <2>2. SameTuple(mem, mem2, s, t, m)
      BY <1>1, <1>2, <1>3, <1>7, <2>1 DEF SameTuple
    <2> QED  BY <2>2, SlotViewKept
  <1> QED  BY <1>5, <1>6, <1>7 DEF NewTuple

\* The slot that InsertTuple takes.
FirstFree(s, k) ==
    /\ k \in 1 .. Len(s) + 1 /\ (k <= Len(s) => s[k].size = 0)
    /\ \A m \in 1 .. k - 1 : s[m].size > 0

\* InsertTuple takes the first slot that is free.
LEMMA FreeSlotFound == slots \in Seq(SlotEntry) => FirstFree(slots, FreeSlot)
  <1> SUFFICES ASSUME slots \in Seq(SlotEntry) PROVE FirstFree(slots, FreeSlot)
    OBVIOUS
  <1>1. PICK zero : zero = {n \in 1 .. Len(slots) : slots[n].size = 0}
    OBVIOUS
  <1>2. FreeSlot = IF zero = {} THEN Len(slots) + 1 ELSE Min(zero)
    BY <1>1 DEF FreeSlot
  <1>3. \A m \in 1 .. Len(slots) : m \notin zero => slots[m].size > 0
    BY <1>1, SlotFields
  <1>4. Len(slots) \in Nat
    OBVIOUS
  <1>5. CASE zero = {}
    <2>1. FreeSlot = Len(slots) + 1
      BY <1>2, <1>5
    <2>2. \A m \in 1 .. FreeSlot - 1 : m \in 1 .. Len(slots)
      BY <1>4, <2>1
    <2> QED  BY <1>3, <1>4, <1>5, <2>1, <2>2 DEF FirstFree
  <1>6. CASE zero # {}
    <2>1. zero \in SUBSET Nat
      BY <1>1
    <2>2. \E x \in zero : \A y \in zero : x <= y
      BY <1>6, <2>1, LeastElement
    <2>3. Min(zero) \in zero /\ \A y \in zero : Min(zero) <= y
      BY <2>2 DEF Min
    <2>4. PICK k \in zero : k = FreeSlot /\ \A y \in zero : k <= y
      BY <1>2, <1>6, <2>3
    <2>5. k \in 1 .. Len(slots) /\ slots[k].size = 0
      BY <1>1
    <2>6. \A m \in 1 .. k - 1 : m \in 1 .. Len(slots) /\ m \notin zero
      BY <1>4, <2>4, <2>5
    <2> QED  BY <1>3, <1>4, <2>4, <2>5, <2>6 DEF FirstFree
  <1> QED  BY <1>5, <1>6

\* The abstract page takes the same one.
LEMMA SameSlotTaken ==
    ASSUME NEW s \in Seq(SlotEntry), NEW k, FirstFree(s, k), NEW pg, Len(pg.slots) = Len(s),
           \A m \in 1 .. Len(s) : AbstractPage!IsFull(pg.slots[m]) <=> s[m].size > 0
    PROVE  AbstractPage!InsertSlot(pg) = k
  <1> DEFINE first(j) == /\ j <= Len(pg.slots) => ~AbstractPage!IsFull(pg.slots[j])
                         /\ \A m \in 1 .. j - 1 : AbstractPage!IsFull(pg.slots[m])
  <1>1. Len(s) \in Nat /\ k \in 1 .. Len(s) + 1 /\ k \in Nat /\ k - 1 <= Len(s)
    BY DEF FirstFree
  <1>2. first(k)
    <2>1. k <= Len(s) => ~AbstractPage!IsFull(pg.slots[k])
      BY <1>1 DEF FirstFree
    <2>2. ASSUME NEW m \in 1 .. k - 1 PROVE AbstractPage!IsFull(pg.slots[m])
      BY <1>1 DEF FirstFree
    <2> QED  BY <2>1, <2>2
  <1>3. ASSUME NEW j \in 1 .. Len(s) + 1, first(j) PROVE j = k
    <2>1. ~(j < k)
      <3> SUFFICES ASSUME j < k PROVE FALSE
        OBVIOUS
      <3>1. j \in 1 .. k - 1 /\ j <= Len(s)
        BY <1>1
      <3> QED  BY <1>2, <1>3, <3>1
    <2>2. ~(k < j)
      <3> SUFFICES ASSUME k < j PROVE FALSE
        OBVIOUS
      <3>1. k \in 1 .. j - 1 /\ k <= Len(s)
        BY <1>1
      <3> QED  BY <1>2, <1>3, <3>1
    <2> QED  BY <1>1, <2>1, <2>2
  <1> HIDE DEF first
  <1>4. AbstractPage!InsertSlot(pg) = CHOOSE j \in 1 .. Len(s) + 1 : first(j)
    BY DEF AbstractPage!InsertSlot, first
  <1> QED  BY <1>1, <1>2, <1>3, <1>4

\* InsertTuple is its Insert.
LEMMA InsertTupleStep ==
    ASSUME PageInv, NEW v \in Tuples, InsertTuple(v)
    PROVE  PageInv' /\ AbstractPage!Insert(v)
  <1>1. PICK s, t, f, g, mem, mem2 :
            /\ s = slots /\ t = slots' /\ f = free_space_pointer /\ g = free_space_pointer'
            /\ mem = data /\ mem2 = data'
    OBVIOUS
  <1>0. PICK k : k = FreeSlot
    OBVIOUS
  <1>2. PICK z \in Nat : z = TupleSize[v] /\ k = FreeSlot
    BY <1>0, Sizes
  <1>3. GoodPage(mem, f, s) /\ s \in Seq(SlotEntry) /\ Readable(mem, s) /\ f \in Nat /\ FirstFree(s, k)
    BY <1>1, <1>2, FreeSlotFound DEF PageInv, GoodPage
  <1>4. Len(s) \in Nat /\ k \in 1 .. Len(s) + 1 /\ (k <= Len(s) => s[k].size = 0)
    BY <1>3 DEF FirstFree
  <1>5. PICK b \in Nat, w \in Nat, h \in Nat : b = SlotSize * Len(s) /\ w = SlotSize /\ h = HeaderSize
    BY <1>4, SlotWords, PageAssumption
  <1>6. SlotSize * (Len(s) + 1) = b + w
    BY <1>4, <1>5, SlotWords
  <1>7. (f - h) - b >= z + w
    BY <1>1, <1>2, <1>5 DEF InsertTuple, InsertFits, getFreeSpaceRemaining
  <1>8. f - z \in Nat /\ (f - z) + z = f /\ h + b <= f - z /\ h + (b + w) <= f - z
    BY <1>3, <1>7
  <1>9. g = f - z /\ mem2 = Write(mem, g, v)
    BY <1>1, <1>2 DEF InsertTuple
  <1>10. g \in Nat /\ g + z = f /\ h + b <= g /\ h + (b + w) <= g
    BY <1>8, <1>9
  <1>11. PICK e : e = [offset |-> g, size |-> z, deleted |-> FALSE]
    OBVIOUS
  <1>12. e \in SlotEntry /\ e.offset = g /\ e.size = z /\ e.deleted = FALSE
    BY <1>10, <1>11 DEF SlotEntry
  <1>13. t = IF k > Len(s) THEN Append(s, e) ELSE [s EXCEPT ![k] = e]
    BY <1>1, <1>2, <1>9, <1>11 DEF InsertTuple
  <1>14. PICK pg, pg2 : pg = PageViewOf(mem, f, s) /\ pg2 = PageViewOf(mem2, g, t)
    OBVIOUS
  <1>15. /\ Len(pg.slots) = Len(s) /\ pg.free = (f - h) - b
         /\ \A m \in 1 .. Len(s) : pg.slots[m] = SlotViewOf(mem, s[m])
         /\ pg.slots = [m \in 1 .. Len(s) |-> SlotViewOf(mem, s[m])]
    BY <1>3, <1>5, <1>14, PageSays DEF PageViewOf
  <1>16. AbstractPage!InsertSlot(pg) = k
    <2>1. \A m \in 1 .. Len(s) : AbstractPage!IsFull(pg.slots[m]) <=> s[m].size > 0
      BY <1>3, <1>15, SlotSays
    <2> QED  BY <1>3, <1>15, <2>1, SameSlotTaken
  <1>17. GoodPage(mem2, g, t) /\ pg2 = AbstractPage!PutTuple(pg, v)
    <2>1. CASE k <= Len(s)
      <3>1. k \in 1 .. Len(s) /\ t = [s EXCEPT ![k] = e]
        BY <1>4, <1>13, <2>1
      <3>2. t \in Seq(SlotEntry) /\ Len(t) = Len(s) /\ t[k] = e
        BY <1>3, <1>12, <3>1
      <3>3. \A m \in 1 .. Len(s) : m # k => t[m] = s[m]
        BY <1>3, <3>1
      <3>4. Inserts(s, t, f, g, v, k)
        BY <1>2, <1>4, <1>10, <1>12, <3>1, <3>2, <3>3 DEF Inserts
      <3>5. HeaderSize + SlotSize * Len(t) <= g
        BY <1>5, <1>10, <3>2
      <3>6. NewTuple(mem, mem2, s, t, g, v, k)
        BY <1>3, <1>9, <3>4, <3>5, InsertedPage, Zenon
      <3>7. OthersKept(mem, mem2, s, t, k)
        BY <3>1, <3>2, <3>6 DEF NewTuple, OthersKept
      <3>8. ViewChanges(mem, f, s, mem2, g, t, k)
        BY <3>7, OneSlotChanges, Zenon
      <3>9. g - HeaderSize - SlotSize * Len(s) = pg.free - z
        <4>1. ((f - z) - h) - b = ((f - h) - b) - z
          BY <1>3
        <4> QED  BY <1>5, <1>9, <1>15, <4>1
      <3>10. pg2 = [free |-> pg.free - z, slots |-> [pg.slots EXCEPT ![k] = AbstractPage!LiveSlot(v)]]
        BY <1>14, <3>6, <3>8, <3>9 DEF ViewChanges, NewTuple
      <3>11. pg2 = AbstractPage!PutTuple(pg, v)
        BY <1>2, <1>15, <1>16, <2>1, <3>10 DEF AbstractPage!PutTuple
      <3> QED  BY <3>6, <3>11 DEF NewTuple
    <2>2. CASE ~(k <= Len(s))
      <3>1. k = Len(s) + 1 /\ k > Len(s)
        BY <1>4, <2>2
      <3>2. t = Append(s, e)
        BY <1>13, <3>1
      <3>3. t \in Seq(SlotEntry) /\ Len(t) = Len(s) + 1 /\ t[Len(s) + 1] = e
        BY <1>3, <1>12, <3>2
      <3>4. \A m \in 1 .. Len(s) : t[m] = s[m]
        BY <1>3, <3>2
      <3>5. \A m \in 1 .. Len(t) : m # k => m \in 1 .. Len(s)
        BY <1>4, <3>1, <3>3
      <3>6. Inserts(s, t, f, g, v, k)
        <4>1. k \in 1 .. Len(t) /\ Len(s) <= Len(t) /\ t[k] = e
          BY <1>4, <3>1, <3>3
        <4> QED  BY <1>2, <1>4, <1>10, <1>12, <3>3, <3>4, <3>5, <4>1 DEF Inserts
      <3>7. HeaderSize + SlotSize * Len(t) <= g
        BY <1>5, <1>6, <1>10, <3>3
      <3>8. NewTuple(mem, mem2, s, t, g, v, k)
        BY <1>3, <1>9, <3>6, <3>7, InsertedPage, Zenon
      <3>9. g - HeaderSize - SlotSize * Len(t) = (pg.free - z) - SlotSize
        <4>1. ((f - z) - h) - (b + w) = (((f - h) - b) - z) - w
          BY <1>3
        <4> QED  BY <1>5, <1>6, <1>9, <1>15, <3>3, <4>1
      <3>10. [m \in 1 .. Len(t) |-> SlotViewOf(mem2, t[m])] = Append(pg.slots, AbstractPage!LiveSlot(v))
        <4>1. PICK q : q = pg.slots
          OBVIOUS
        <4>2. PICK L : L = AbstractPage!LiveSlot(v)
          OBVIOUS
        <4>3. Len(q) = Len(s) /\ q \in Seq({SlotViewOf(mem, s[m]) : m \in 1 .. Len(s)})
          BY <1>4, <1>15, <4>1
        <4>4. /\ SlotViewOf(mem2, t[Len(s) + 1]) = L
              /\ \A m \in 1 .. Len(s) : SlotViewOf(mem2, t[m]) = q[m]
          <5>1. SlotViewOf(mem2, t[Len(s) + 1]) = L
            BY <3>1, <3>8, <4>2 DEF NewTuple
          <5>2. ASSUME NEW m \in 1 .. Len(s) PROVE SlotViewOf(mem2, t[m]) = q[m]
            <6>1. m \in 1 .. Len(t) /\ m # k
              BY <1>4, <3>1, <3>3
            <6>2. SlotViewOf(mem2, t[m]) = SlotViewOf(mem, s[m])
              BY <3>8, <6>1 DEF NewTuple
            <6> QED  BY <1>15, <4>1, <6>2
          <5> QED  BY <5>1, <5>2
        <4>5. Append(q, L) = [m \in 1 .. Len(s) + 1 |-> IF m = Len(s) + 1 THEN L ELSE q[m]]
          <5>1. PICK T : q \in Seq(T) /\ L \in T
            <6>1. PICK S : q \in Seq(S)
              BY <4>3
            <6>2. q \in Seq(S \cup {L})
              BY <6>1
            <6> QED  BY <6>2
          <5>2. PICK A : A = Append(q, L)
            OBVIOUS
          <5>3. A \in Seq(T) /\ Len(A) = Len(s) + 1
            BY <4>3, <5>1, <5>2
          <5>4. \A m \in 1 .. Len(s) + 1 : A[m] = IF m = Len(s) + 1 THEN L ELSE q[m]
            BY <1>4, <4>3, <5>1, <5>2
          <5>5. A = [m \in 1 .. Len(s) + 1 |-> A[m]]
            BY <5>3
          <5> QED  BY <5>2, <5>4, <5>5
        <4>6. \A m \in 1 .. Len(s) + 1 : SlotViewOf(mem2, t[m]) = IF m = Len(s) + 1 THEN L ELSE q[m]
          <5>1. \A m \in 1 .. Len(s) + 1 : m # Len(s) + 1 => m \in 1 .. Len(s)
            BY <1>4
          <5> QED  BY <4>4, <5>1
        <4> QED  BY <3>3, <4>1, <4>2, <4>5, <4>6
      <3>11. pg2 = [free |-> (pg.free - z) - SlotSize, slots |-> Append(pg.slots, AbstractPage!LiveSlot(v))]
        BY <1>14, <3>9, <3>10 DEF PageViewOf
      <3>12. pg2 = AbstractPage!PutTuple(pg, v)
        BY <1>2, <1>15, <1>16, <2>2, <3>11 DEF AbstractPage!PutTuple
      <3> QED  BY <3>8, <3>12 DEF NewTuple
    <2> QED  BY <2>1, <2>2
  <1>18. AbstractPage!RoomToInsert(pg, v)
    BY <1>2, <1>5, <1>7, <1>15 DEF AbstractPage!RoomToInsert
  <1>19. PageView = pg /\ PageView' = pg2
    BY <1>1, <1>14, Views
  <1>20. AbstractPage!Insert(v)
    BY <1>17, <1>18, <1>19 DEF AbstractPage!Insert
  <1> QED  BY <1>1, <1>17, <1>20 DEF PageInv

\* An empty page.
LEMMA EmptyPageIsGood == TablePageInit => PageInv /\ AbstractPage!PageInit
  <1> SUFFICES ASSUME TablePageInit PROVE PageInv /\ AbstractPage!PageInit
    OBVIOUS
  <1>1. slots = << >> /\ free_space_pointer = PageSize /\ Len(slots) = 0 /\ slots \in Seq(SlotEntry)
    BY DEF TablePageInit
  <1>2. SlotSize * Len(slots) = 0 /\ PageSize \in Nat /\ HeaderSize \in Nat /\ HeaderSize <= PageSize
    BY <1>1, PageAssumption
  <1>3. Tiles(PageSize, slots)
    BY <1>1, <1>2 DEF Tiles, InBounds, Disjoint, Covered
  <1>4. PageInv
    BY <1>1, <1>2, <1>3 DEF PageInv, GoodPage, Readable
  <1>5. PageViewOf(data, PageSize, slots) = [free |-> PageSize - HeaderSize, slots |-> << >>]
    <2>1. [n \in 1 .. Len(slots) |-> SlotViewOf(data, slots[n])] = << >>
      BY <1>1
    <2>2. PageSize - HeaderSize - SlotSize * Len(slots) = PageSize - HeaderSize
      BY <1>2
    <2> QED  BY <2>1, <2>2 DEF PageViewOf
  <1> QED  BY <1>1, <1>4, <1>5, Views DEF AbstractPage!PageInit, AbstractPage!EmptyPage

\* One step of the page.
LEMMA PageStep ==
    ASSUME PageInv, [TablePageNext]_tablePageVars
    PROVE  PageInv' /\ [AbstractPage!PageNext]_PageView
  <1>1. AbstractPage!SlotNums = 1 .. Len(slots)
    <2>1. slots \in Seq(SlotEntry)
      BY DEF PageInv, GoodPage
    <2>2. PICK pg : pg = PageView
      OBVIOUS
    <2>3. Len(pg.slots) = Len(slots)
      BY <2>1, <2>2, Views, PageSays
    <2> QED  BY <2>2, <2>3 DEF AbstractPage!SlotNums
  <1>2. CASE UNCHANGED tablePageVars
    <2>1. data' = data /\ free_space_pointer' = free_space_pointer /\ slots' = slots
      BY <1>2 DEF tablePageVars
    <2>2. PageView' = PageView
      BY <2>1, Views
    <2> QED  BY <2>1, <2>2 DEF PageInv
  <1>3. ASSUME NEW v \in Tuples, InsertTuple(v) PROVE PageInv' /\ AbstractPage!PageNext
    <2>1. PageInv' /\ AbstractPage!Insert(v)
      BY <1>3, InsertTupleStep
    <2> QED  BY <2>1 DEF AbstractPage!PageNext
  <1>4. ASSUME NEW n \in 1 .. Len(slots), MarkDelete(n) PROVE PageInv' /\ AbstractPage!PageNext
    <2>1. PageInv' /\ AbstractPage!Mark(n)
      BY <1>4, MarkDeleteStep
    <2> QED  BY <1>1, <2>1 DEF AbstractPage!PageNext
  <1>5. ASSUME NEW n \in 1 .. Len(slots), ApplyDelete(n) PROVE PageInv' /\ AbstractPage!PageNext
    <2>1. PageInv' /\ AbstractPage!Drop(n)
      BY <1>5, ApplyDeleteStep
    <2> QED  BY <1>1, <2>1 DEF AbstractPage!PageNext
  <1>6. ASSUME NEW n \in 1 .. Len(slots), RollbackDelete(n) PROVE PageInv' /\ AbstractPage!PageNext
    <2>1. PageInv' /\ AbstractPage!Unmark(n)
      BY <1>6, RollbackDeleteStep
    <2> QED  BY <1>1, <2>1 DEF AbstractPage!PageNext
  <1>7. ASSUME NEW n \in 1 .. Len(slots), NEW v \in Tuples, UpdateTuple(n, v)
        PROVE  PageInv' /\ AbstractPage!PageNext
    <2>1. PageInv' /\ AbstractPage!Update(n, v)
      BY <1>7, UpdateTupleStep
    <2> QED  BY <1>1, <2>1 DEF AbstractPage!PageNext
  <1> QED  BY <1>2, <1>3, <1>4, <1>5, <1>6, <1>7 DEF TablePageNext

\* PageInv holds of every page that the operations of table_page.go produce.
LEMMA PageInvariance == TablePageSpec => []PageInv
  BY EmptyPageIsGood, PageStep, PTL DEF TablePageSpec

\* The tuples fill the page from the free space pointer to its end, without
\* overlap and without a hole, and never reach the slot array: the arithmetic of
\* InsertTuple, UpdateTuple and ApplyDelete keeps offsets and bytes together.
THEOREM TuplesTile == TablePageSpec => []TuplesTilePage
  <1>1. PageInv => TuplesTilePage
    <2> SUFFICES ASSUME PageInv PROVE TuplesTilePage
      OBVIOUS
    <2>1. /\ slots \in Seq(SlotEntry) /\ free_space_pointer \in Nat /\ PageSize \in Nat
          /\ HeaderSize + SlotSize * Len(slots) <= free_space_pointer
          /\ Tiles(free_space_pointer, slots)
      BY PageAssumption DEF PageInv, GoodPage
    <2>2. \A n \in 1 .. Len(slots) : slots[n].offset \in Nat /\ slots[n].size \in Nat
      BY <2>1, SlotFields
    <2>3. ASSUME NEW m \in FullSlots, NEW n \in FullSlots, m # n
          PROVE  Extent(m) \intersect Extent(n) = {}
      <3>1. PICK p \in Nat, q \in Nat, r \in Nat, w \in Nat :
                p = slots[m].offset /\ q = slots[m].size /\ r = slots[n].offset /\ w = slots[n].size
        BY <2>2 DEF FullSlots
      <3>2. p + q <= r \/ r + w <= p
        BY <2>1, <2>3, <3>1 DEF Tiles, Disjoint, FullSlots
      <3>3. ASSUME NEW a \in p .. p + q - 1, a \in r .. r + w - 1 PROVE FALSE
        BY <3>2, <3>3
      <3> QED  BY <3>1, <3>3 DEF Extent
    <2>4. ASSUME NEW n \in FullSlots, NEW a \in Extent(n)
          PROVE  a \in free_space_pointer .. PageSize - 1
      BY <2>1, <2>2, SMTT(30) DEF Tiles, InBounds, FullSlots, Extent
    <2>5. ASSUME NEW a \in free_space_pointer .. PageSize - 1
          PROVE  \E n \in FullSlots : a \in Extent(n)
      <3>1. PICK n \in 1 .. Len(slots) : slots[n].offset <= a /\ a < slots[n].offset + slots[n].size
        BY <2>1 DEF Tiles, Covered
      <3>2. slots[n].size > 0
        BY <2>2, <3>1
      <3>3. a \in Extent(n)
        BY <2>1, <2>2, <3>1 DEF Extent
      <3> QED  BY <3>2, <3>3 DEF FullSlots
    <2>6. UNION {Extent(n) : n \in FullSlots} = free_space_pointer .. PageSize - 1
      BY <2>4, <2>5
    <2> QED  BY <2>1, <2>3, <2>6 DEF TuplesTilePage
  <1> QED  BY <1>1, PageInvariance, PTL

\* The bytes implement the abstract page: GetTuple gives back the tuple that was
\* stored last in the slot, and the free space is accounted for as SlotPage says,
\* for every page size, tuple sizes and sequence of operations.
THEOREM BytesImplementPage == TablePageSpec => ImplementsSlotPage
  BY EmptyPageIsGood, PageInvariance, PageStep, PTL
     DEF TablePageSpec, ImplementsSlotPage, AbstractPage!PageSpec

----------------------------------------------------------------------------
(* The catalog.                                                            *)

\* A row of the tables catalog and of the columns catalog, and a call of CreateTable.
TableRow  == [oid : Nat, name : CatalogNames, first : Nat]
ColumnRow == [oid : Nat, column : Nat]
Call      == [oid : Nat \ {0}, name : Names, cols : 1 .. MaxColumns, first : Nat, done : BOOLEAN]

DiskState == [tables : Seq(TableRow), columns : Seq(ColumnRow), pages : Nat \ {0}, start : Nat \ {0}]

Steps == {"idle", "add", "heap", "table_row", "column_rows", "flush_columns"}

CatalogTypeOK ==
    /\ nextTableId \in Nat \ {0} /\ nextPageID \in Nat
    /\ tables \in Seq(TableRow) /\ columns \in Seq(ColumnRow)
    /\ disk \in DiskState /\ disk.start <= disk.pages + 1
    /\ asked \in Seq(Call) /\ pc \in [Creators -> Steps]
    /\ reg = [c \in Creators |-> reg[c]] /\ crashed \in BOOLEAN

\* The calls that are going on are different ones, and their variables are those
\* they were called with.
CallSays(l, r, calls) ==
    /\ r.call \in 1 .. Len(calls) /\ r.oid = calls[r.call].oid /\ ~calls[r.call].done
    /\ l \in {"add", "heap", "table_row"} =>
          r.name = calls[r.call].name /\ r.cols = calls[r.call].cols
    /\ l \in {"column_rows", "flush_columns"} =>
          r = [oid |-> r.oid, left |-> r.left, call |-> r.call] /\ r.left \in Seq(Nat)

Creating(c) == pc[c] # "idle"
CallsApart ==
    \A c \in Creators : Creating(c) =>
        /\ CallSays(pc[c], reg[c], asked)
        /\ \A d \in Creators : d # c /\ Creating(d) => reg[d].call # reg[c].call

\* No more oids are given out than there were calls.
Adders == {c \in Creators : pc[c] = "add"}
OidsBounded ==
    /\ IsFiniteSet(Adders) /\ nextTableId + Cardinality(Adders) <= Len(asked) + 1
    /\ Len(asked) <= MaxTables /\ \A i \in 1 .. Len(asked) : asked[i].oid <= MaxTables

\* The first pages of the tables are below nextPageID, the one of a table whose
\* row is still to be written included.
PagesApart ==
    /\ \A i \in 1 .. Len(tables) : tables[i].first < nextPageID
    /\ \A i, j \in 1 .. Len(tables) : i # j => tables[i].first # tables[j].first
    /\ \A c \in Creators : pc[c] = "table_row" =>
          /\ asked[reg[c].call].first < nextPageID
          /\ \A i \in 1 .. Len(tables) : tables[i].first # asked[reg[c].call].first
          /\ \A d \in Creators : pc[d] = "table_row" /\ d # c =>
                asked[reg[d].call].first # asked[reg[c].call].first

\* Rows of a table.
HasRow(entries, oid) == \E k \in 1 .. Len(entries) : entries[k].oid = oid
RowsSay(entries, call) ==
    \A k \in 1 .. Len(entries) : entries[k].oid = call.oid =>
        entries[k].name = call.name /\ entries[k].first = call.first

\* Columns m + 1 .. n.
From(m, n) == [k \in 1 .. n - m |-> m + k]

\* An oid that nobody has been given has left no trace.
Unused(oid) == \A j \in 1 .. Len(asked) : asked[j].oid # oid
NoTrace ==
    \A oid \in Nat \ {0} : Unused(oid) =>
        /\ ~HasRow(tables, oid) /\ ~HasRow(disk.tables, oid)
        /\ ColumnsOf(columns, oid) = << >> /\ ColumnsOf(disk.columns, oid) = << >>

\* The row of a table is written first, then flushed.
RowsWritten ==
    /\ \A i \in 1 .. Len(asked) : asked[i].done =>
          HasRow(tables, asked[i].oid) /\ HasRow(disk.tables, asked[i].oid)
    /\ \A c \in Creators :
          /\ pc[c] \in {"column_rows", "flush_columns"} => HasRow(tables, reg[c].oid)
          /\ pc[c] = "flush_columns" => HasRow(disk.tables, reg[c].oid)

\* Those of a table with an oid of its own say what CreateTable was asked for.
OwnOid(calls, i) == \A j \in 1 .. Len(calls) : j # i => calls[j].oid # calls[i].oid
Rowless(oid) == ~HasRow(tables, oid) /\ ~HasRow(disk.tables, oid)
RowTrue(i) ==
    OwnOid(asked, i) =>
        /\ RowsSay(tables, asked[i]) /\ RowsSay(disk.tables, asked[i])
        /\ \A c \in Creators : pc[c] \in {"add", "heap", "table_row"} /\ reg[c].call = i =>
              Rowless(asked[i].oid)
RowsTrue == \A i \in 1 .. Len(asked) : RowTrue(i)

\* Its columns are written in order: m of n on disk, l in the page.
Written(m, l, n, oid) ==
    /\ m \in Nat /\ l \in Nat /\ m <= l /\ l <= n
    /\ ColumnsOf(disk.columns, oid) = From(0, m)
    /\ ColumnsOf(columns, oid) = From(0, l)
StageSays(c, l, n) ==
    /\ pc[c] \in {"add", "heap", "table_row"} => l = 0
    /\ pc[c] = "column_rows" => reg[c].left = From(l, n)
    /\ pc[c] = "flush_columns" => l = n
Progress(i, m, l, n) ==
    /\ Written(m, l, n, asked[i].oid)
    /\ asked[i].done => m = n
    /\ \A c \in Creators : Creating(c) /\ reg[c].call = i => StageSays(c, l, n)
ColumnTrue(i) == OwnOid(asked, i) => \E m, l \in Nat : Progress(i, m, l, asked[i].cols)
ColumnsTrue == \A i \in 1 .. Len(asked) : ColumnTrue(i)

CatalogInv ==
    /\ CatalogTypeOK /\ CallsApart /\ OidsBounded /\ NoTrace
    /\ RowsWritten /\ RowsTrue /\ ColumnsTrue
PagesInv == CatalogTypeOK /\ CallsApart /\ (~crashed => PagesApart)

----------------------------------------------------------------------------
(* What ColumnsOf computes.                                                *)

\* g collects the columns of oid in the first m rows.
Pick(old, row, oid) == IF row.oid = oid THEN Append(old, row.column) ELSE old
Collects(g, cols, oid, m) ==
    g = [i \in 0 .. m |-> IF i = 0 THEN << >> ELSE Pick(g[i - 1], cols[i], oid)]

\* The steps of a collection.
LEMMA CollectedValues ==
    ASSUME NEW g, NEW cols, NEW oid, NEW m \in Nat, Collects(g, cols, oid, m)
    PROVE  g[0] = << >> /\ \A i \in 1 .. m : g[i] = Pick(g[i - 1], cols[i], oid)
  <1>1. \A i \in 0 .. m : g[i] = IF i = 0 THEN << >> ELSE Pick(g[i - 1], cols[i], oid)
    BY DEF Collects
  <1>2. 0 \in 0 .. m /\ \A i \in 1 .. m : i \in 0 .. m /\ i # 0
    OBVIOUS
  <1> QED  BY <1>1, <1>2

\* Equal rows give equal columns.
LEMMA CollectedAlike ==
    ASSUME NEW g, NEW h, NEW cols, NEW cols2, NEW oid, NEW m \in Nat, NEW n \in Nat, m <= n,
           Collects(g, cols, oid, m), Collects(h, cols2, oid, n),
           \A i \in 1 .. m : cols2[i] = cols[i]
    PROVE  \A i \in 0 .. m : g[i] = h[i]
  <1> DEFINE Bad == {i \in 0 .. m : g[i] # h[i]}
  <1> SUFFICES ASSUME Bad # {} PROVE FALSE
    OBVIOUS
  <1>1. PICK k \in Bad : \A i \in Bad : k <= i
    <2>1. Bad \in SUBSET Nat
      OBVIOUS
    <2> QED  BY <2>1, LeastElement
  <1>2. /\ g[0] = << >> /\ \A i \in 1 .. m : g[i] = Pick(g[i - 1], cols[i], oid)
        /\ h[0] = << >> /\ \A i \in 1 .. n : h[i] = Pick(h[i - 1], cols2[i], oid)
    BY CollectedValues
  <1>3. k \in 1 .. m /\ k \in 1 .. n /\ k - 1 \in 0 .. m /\ ~(k <= k - 1)
    BY <1>1, <1>2
  <1>4. g[k - 1] = h[k - 1]
    BY <1>1, <1>3
  <1>5. g[k] = h[k]
    BY <1>2, <1>3, <1>4
  <1> QED  BY <1>1, <1>5

\* There is a collection for every list of rows.
LEMMA SomethingCollects ==
    ASSUME NEW cols, NEW oid, NEW n \in Nat
    PROVE  \E g : Collects(g, cols, oid, n)
  <1> DEFINE Bad == {m \in Nat : ~ \E g : Collects(g, cols, oid, m)}
  <1> SUFFICES ASSUME Bad # {} PROVE FALSE
    OBVIOUS
  <1>1. PICK k \in Bad : \A m \in Bad : k <= m
    BY LeastElement
  <1>2. Collects([i \in 0 .. 0 |-> << >>], cols, oid, 0)
    BY DEF Collects
  <1>3. k \in Nat \ {0}
    BY <1>1, <1>2
  <1>4. PICK g : Collects(g, cols, oid, k - 1)
    <2>1. k - 1 \in Nat /\ ~(k <= k - 1)
      BY <1>3
    <2> QED  BY <1>1, <2>1
  <1>5. PICK h : h = [i \in 0 .. k |-> IF i = k THEN Pick(g[k - 1], cols[k], oid) ELSE g[i]]
    OBVIOUS
  <1>6. g[0] = << >> /\ \A i \in 1 .. k - 1 : g[i] = Pick(g[i - 1], cols[i], oid)
    BY <1>3, <1>4, CollectedValues
  <1>7. \A i \in 0 .. k : h[i] = IF i = 0 THEN << >> ELSE Pick(h[i - 1], cols[i], oid)
    <2>1. h[0] = << >>
      BY <1>3, <1>5, <1>6
    <2>2. ASSUME NEW i \in 1 .. k PROVE h[i] = Pick(h[i - 1], cols[i], oid)
      <3>1. i - 1 \in 0 .. k /\ i - 1 # k /\ i \in 0 .. k
        BY <1>3
      <3>2. h[i - 1] = g[i - 1]
        BY <1>5, <3>1
      <3>3. CASE i = k
        BY <1>5, <3>1, <3>2, <3>3
      <3>4. CASE i # k
        <4>1. i \in 1 .. k - 1
          BY <1>3, <3>4
        <4> QED  BY <1>5, <1>6, <3>1, <3>2, <3>4, <4>1
      <3> QED  BY <3>3, <3>4
    <2>3. \A i \in 0 .. k : i # 0 => i \in 1 .. k
      BY <1>3
    <2> QED  BY <2>1, <2>2, <2>3
  <1>8. Collects(h, cols, oid, k)
    BY <1>5, <1>7 DEF Collects
  <1> QED  BY <1>1, <1>8

\* ColumnsOf is the last value of such a function.
LEMMA ColumnsCollected ==
    ASSUME NEW cols, NEW oid, Len(cols) \in Nat
    PROVE  \E g : Collects(g, cols, oid, Len(cols)) /\ ColumnsOf(cols, oid) = g[Len(cols)]
  <1> DEFINE upTo == CHOOSE g : Collects(g, cols, oid, Len(cols))
  <1>1. Collects(upTo, cols, oid, Len(cols))
    BY SomethingCollects
  <1>2. ColumnsOf(cols, oid) = upTo[Len(cols)]
    BY DEF ColumnsOf, Collects, Pick
  <1> QED  BY <1>1, <1>2

\* One more row.
LEMMA ColumnsAppended ==
    ASSUME NEW cols \in Seq(ColumnRow), NEW row \in ColumnRow, NEW oid
    PROVE  ColumnsOf(Append(cols, row), oid) = Pick(ColumnsOf(cols, oid), row, oid)
  <1>1. PICK cols2 : cols2 = Append(cols, row)
    OBVIOUS
  <1>2. /\ Len(cols) \in Nat /\ Len(cols2) = Len(cols) + 1 /\ cols2[Len(cols) + 1] = row
        /\ \A i \in 1 .. Len(cols) : cols2[i] = cols[i]
    BY <1>1
  <1>3. PICK n \in Nat : n = Len(cols)
    BY <1>2
  <1>4. PICK g : Collects(g, cols, oid, n) /\ ColumnsOf(cols, oid) = g[n]
    BY <1>3, ColumnsCollected
  <1>5. PICK h : Collects(h, cols2, oid, n + 1) /\ ColumnsOf(cols2, oid) = h[n + 1]
    BY <1>2, <1>3, ColumnsCollected
  <1>6. h[n + 1] = Pick(h[n], cols2[n + 1], oid)
    <2>1. n + 1 \in 1 .. n + 1 /\ (n + 1) - 1 = n /\ n + 1 \in Nat
      OBVIOUS
    <2>2. \A i \in 1 .. n + 1 : h[i] = Pick(h[i - 1], cols2[i], oid)
      BY <1>5, <2>1, CollectedValues
    <2> QED  BY <2>1, <2>2
  <1>7. g[n] = h[n]
    <2>1. \A i \in 0 .. n : g[i] = h[i]
      BY <1>2, <1>3, <1>4, <1>5, CollectedAlike
    <2> QED  BY <2>1
  <1> QED  BY <1>1, <1>2, <1>3, <1>4, <1>5, <1>6, <1>7

\* A table with one row, of another oid.
LEMMA ColumnsOfOne ==
    ASSUME NEW row \in ColumnRow, NEW oid, row.oid # oid
    PROVE  ColumnsOf(<<row>>, oid) = << >>
  <1>1. PICK cols : cols = <<row>>
    OBVIOUS
  <1>2. Len(cols) = 1 /\ cols[1] = row
    BY <1>1
  <1>3. PICK g : Collects(g, cols, oid, 1) /\ ColumnsOf(cols, oid) = g[1]
    <2>1. Len(cols) \in Nat
      BY <1>2
    <2>2. \E g : Collects(g, cols, oid, Len(cols)) /\ ColumnsOf(cols, oid) = g[Len(cols)]
      BY <2>1, ColumnsCollected
    <2> QED  BY <1>2, <2>2
  <1>4. g[0] = << >> /\ g[1] = Pick(g[0], cols[1], oid)
    <2>1. g[0] = << >> /\ \A i \in 1 .. 1 : g[i] = Pick(g[i - 1], cols[i], oid)
      BY <1>3, CollectedValues
    <2>2. 1 \in 1 .. 1 /\ 1 - 1 = 0
      OBVIOUS
    <2> QED  BY <2>1, <2>2
  <1> QED  BY <1>1, <1>2, <1>3, <1>4 DEF Pick

----------------------------------------------------------------------------
(* The types, and the calls that are going on.                             *)

\* The history changes in one call.
LEMMA FirstPageSet ==
    ASSUME NEW a \in Seq(Call), NEW i \in 1 .. Len(a), NEW x \in Nat,
           NEW b, b = [a EXCEPT ![i].first = x]
    PROVE  /\ b \in Seq(Call) /\ Len(b) = Len(a) /\ b[i].first = x
           /\ b[i].oid = a[i].oid /\ b[i].name = a[i].name /\ b[i].cols = a[i].cols
           /\ b[i].done = a[i].done
           /\ \A j \in 1 .. Len(a) : j # i => b[j] = a[j]
  <1>1. PICK e : e = [a[i] EXCEPT !.first = x]
    OBVIOUS
  <1>2. a[i] \in Call
    OBVIOUS
  <1>3. /\ e \in Call /\ e.first = x
        /\ e.oid = a[i].oid /\ e.name = a[i].name /\ e.cols = a[i].cols /\ e.done = a[i].done
    BY <1>1, <1>2 DEF Call
  <1>4. b = [a EXCEPT ![i] = e]
    BY <1>1
  <1>5. b \in Seq(Call) /\ Len(b) = Len(a)
    <2>1. e \in Call
      BY <1>3
    <2> QED  BY <1>4, <2>1, ExceptSeq
  <1>6. b[i] = e /\ \A j \in 1 .. Len(a) : j # i => b[j] = a[j]
    BY <1>4
  <1> QED  BY <1>3, <1>5, <1>6

WithDone(a, i) == [a EXCEPT ![i].done = TRUE]

\* A call returns.
LEMMA DoneSet ==
    ASSUME NEW a \in Seq(Call), NEW i \in 1 .. Len(a), NEW b, b = WithDone(a, i)
    PROVE  /\ b \in Seq(Call) /\ Len(b) = Len(a) /\ b[i].done
           /\ b[i].oid = a[i].oid /\ b[i].name = a[i].name /\ b[i].cols = a[i].cols
           /\ b[i].first = a[i].first
           /\ \A j \in 1 .. Len(a) : j # i => b[j] = a[j]
  <1>1. PICK e : e = [a[i] EXCEPT !.done = TRUE]
    OBVIOUS
  <1>2. a[i] \in Call
    OBVIOUS
  <1>3. /\ e \in Call /\ e.done /\ e.first = a[i].first
        /\ e.oid = a[i].oid /\ e.name = a[i].name /\ e.cols = a[i].cols
    BY <1>1, <1>2 DEF Call
  <1>4. b = [a EXCEPT ![i] = e]
    BY <1>1 DEF WithDone
  <1>5. b \in Seq(Call) /\ Len(b) = Len(a)
    <2>1. e \in Call
      BY <1>3
    <2> QED  BY <1>4, <2>1, ExceptSeq
  <1>6. b[i] = e /\ \A j \in 1 .. Len(a) : j # i => b[j] = a[j]
    BY <1>4
  <1> QED  BY <1>3, <1>5, <1>6

\* The fields of a call, of a row and of the disk.
LEMMA CallFields ==
    ASSUME CatalogTypeOK
    PROVE  /\ Len(asked) \in Nat /\ Len(tables) \in Nat /\ Len(columns) \in Nat
           /\ \A i \in 1 .. Len(asked) :
                /\ asked[i] \in Call /\ asked[i].oid \in Nat \ {0} /\ asked[i].name \in Names
                /\ asked[i].cols \in 1 .. MaxColumns /\ asked[i].first \in Nat
                /\ asked[i].done \in BOOLEAN
           /\ disk.tables \in Seq(TableRow) /\ disk.columns \in Seq(ColumnRow)
           /\ disk.pages \in Nat \ {0} /\ disk.start \in Nat \ {0} /\ disk.start <= disk.pages + 1
  <1>1. Len(asked) \in Nat /\ Len(tables) \in Nat /\ Len(columns) \in Nat
    BY DEF CatalogTypeOK
  <1>2. \A i \in 1 .. Len(asked) : asked[i] \in Call
    BY DEF CatalogTypeOK
  <1>3. disk.tables \in Seq(TableRow) /\ disk.columns \in Seq(ColumnRow) /\ disk.pages \in Nat \ {0}
        /\ disk.start \in Nat \ {0} /\ disk.start <= disk.pages + 1
    BY DEF CatalogTypeOK, DiskState
  <1> QED  BY <1>1, <1>2, <1>3 DEF Call

\* The number of columns asked for.
LEMMA ColumnCounts ==
    ASSUME CatalogTypeOK
    PROVE  \A i \in 1 .. Len(asked) : \E n \in Nat : n = asked[i].cols
  <1> SUFFICES ASSUME NEW i \in 1 .. Len(asked) PROVE asked[i].cols \in Nat
    OBVIOUS
  <1>1. asked[i].cols \in 1 .. MaxColumns
    BY CallFields
  <1> QED  BY <1>1, CatalogAssumption

\* A step of creator c in pc and in reg.
LEMMA Stepped ==
    ASSUME NEW c \in Creators, NEW p \in [Creators -> Steps], NEW l \in Steps,
           NEW p2, p2 = [p EXCEPT ![c] = l]
    PROVE  /\ p2 \in [Creators -> Steps] /\ p2[c] = l
           /\ \A d \in Creators : d # c => p2[d] = p[d]
  OBVIOUS

\* The registers of one goroutine change.
LEMMA RegSet ==
    ASSUME NEW c \in Creators, NEW r, r = [d \in Creators |-> r[d]], NEW x,
           NEW r2, r2 = [r EXCEPT ![c] = x]
    PROVE  /\ r2 = [d \in Creators |-> r2[d]] /\ r2[c] = x
           /\ \A d \in Creators : d # c => r2[d] = r[d]
  <1>1. DOMAIN r = Creators
    OBVIOUS
  <1> QED  BY <1>1

\* One column less is left to write.
LEMMA LeftSet ==
    \A x, y, z, w : [[oid |-> x, left |-> y, call |-> z] EXCEPT !.left = w] = [oid |-> x, left |-> w, call |-> z]
  OBVIOUS

\* What the disk is after a page was written.
LEMMA DiskSet ==
    ASSUME CatalogTypeOK
    PROVE  /\ \A x \in Seq(TableRow) : LET d == [disk EXCEPT !.tables = x] IN
                /\ d \in DiskState
                /\ d.tables = x /\ d.columns = disk.columns /\ d.pages = disk.pages /\ d.start = disk.start
           /\ \A x \in Seq(ColumnRow) : LET d == [disk EXCEPT !.columns = x] IN
                /\ d \in DiskState
                /\ d.tables = disk.tables /\ d.columns = x /\ d.pages = disk.pages /\ d.start = disk.start
           /\ \A x \in Nat \ {0} : LET d == [disk EXCEPT !.pages = x] IN
                /\ d \in DiskState
                /\ d.tables = disk.tables /\ d.columns = disk.columns /\ d.pages = x /\ d.start = disk.start
  <1>1. disk \in DiskState
    BY DEF CatalogTypeOK
  <1> QED  BY <1>1 DEF DiskState

\* The other calls go on as they were: those of "calls" are still in calls2, and only
\* the one of creator c may have become done.
OthersStay(c) == \A d \in Creators : d # c => pc'[d] = pc[d] /\ reg'[d] = reg[d]

CallsStay(c) ==
    /\ Len(asked) <= Len(asked')
    /\ \A i \in 1 .. Len(asked) :
          /\ asked'[i].oid = asked[i].oid /\ asked'[i].name = asked[i].name
          /\ asked'[i].cols = asked[i].cols
          /\ asked'[i].done = asked[i].done \/ (Creating(c) /\ i = reg[c].call)

CallsGoOn(c) ==
    /\ CatalogTypeOK /\ CallsApart /\ asked' \in Seq(Call) /\ OthersStay(c) /\ CallsStay(c)
    /\ pc'[c] # "idle" =>
          /\ CallSays(pc'[c], reg'[c], asked')
          /\ \/ Creating(c) /\ reg'[c].call = reg[c].call
             \/ reg'[c].call > Len(asked)

\* The calls of different goroutines stay different.
LEMMA CallsKept ==
    ASSUME NEW c \in Creators, CallsGoOn(c)
    PROVE  CallsApart'
  <1>1. CatalogTypeOK /\ CallsApart /\ Len(asked) \in Nat /\ Len(asked') \in Nat
    BY CallFields DEF CallsGoOn
  <1>2. ASSUME NEW d \in Creators, d # c, pc'[d] # "idle"
        PROVE  /\ Creating(d) /\ reg'[d] = reg[d]
               /\ reg[d].call \in 1 .. Len(asked) /\ CallSays(pc'[d], reg'[d], asked')
               /\ Creating(c) => reg[d].call # reg[c].call
    <2>1. Creating(d) /\ reg'[d] = reg[d] /\ pc'[d] = pc[d]
      BY <1>2 DEF CallsGoOn, OthersStay, Creating
    <2>2. CallSays(pc[d], reg[d], asked) /\ (Creating(c) => reg[d].call # reg[c].call)
      BY <1>1, <1>2, <2>1 DEF CallsApart
    <2>3. PICK i \in 1 .. Len(asked) : i = reg[d].call
      BY <2>2 DEF CallSays
    <2>4. /\ i \in 1 .. Len(asked') /\ asked'[i].oid = asked[i].oid /\ asked'[i].name = asked[i].name
          /\ asked'[i].cols = asked[i].cols /\ asked'[i].done = asked[i].done
      BY <1>1, <2>2, <2>3 DEF CallsGoOn, CallsStay
    <2> QED  BY <2>1, <2>2, <2>3, <2>4 DEF CallSays
  <1>3. ASSUME NEW d \in Creators, d # c, pc'[d] # "idle", pc'[c] # "idle"
        PROVE  reg'[d].call # reg'[c].call
    BY <1>1, <1>2, <1>3 DEF CallsGoOn
  <1>4. ASSUME NEW d \in Creators, NEW e \in Creators, d # e, d # c, e # c, pc'[d] # "idle", pc'[e] # "idle"
        PROVE  reg'[d].call # reg'[e].call
    BY <1>1, <1>2, <1>4 DEF CallsApart
  <1>5. \A d \in Creators : pc'[d] # "idle" => CallSays(pc'[d], reg'[d], asked')
    BY <1>2 DEF CallsGoOn
  <1> QED  BY <1>3, <1>4, <1>5 DEF CallsApart, Creating

\* What the actions do.
CreateTableDoes(c, name, n) ==
    /\ pc[c] = "idle" /\ Len(asked) < MaxTables
    /\ pc'[c] = "add"
    /\ reg'[c] = [oid |-> nextTableId, name |-> name, cols |-> n, call |-> Len(asked) + 1]
    /\ Len(asked') = Len(asked) + 1
    /\ asked'[Len(asked) + 1] =
          [oid |-> nextTableId, name |-> name, cols |-> n, first |-> 0, done |-> FALSE]
    /\ \A i \in 1 .. Len(asked) : asked'[i] = asked[i]
    /\ UNCHANGED <<memory, tables, columns, disk, nextPageID, restarts, crashed>>

\* What CreateTable does, and that it keeps the types and the calls apart.
LEMMA CreateTableFacts ==
    ASSUME CatalogTypeOK, CallsApart, NEW c \in Creators, NEW name \in Names,
           NEW n \in 1 .. MaxColumns, CreateTable(c, name, n)
    PROVE  /\ CreateTableDoes(c, name, n) /\ OthersStay(c) /\ CallsStay(c)
           /\ CatalogTypeOK' /\ CallsApart'
  <1>1. Len(asked) \in Nat /\ nextTableId \in Nat \ {0}
    BY DEF CatalogTypeOK
  <1>2. PICK e : e = [oid |-> nextTableId, name |-> name, cols |-> n, first |-> 0, done |-> FALSE]
    OBVIOUS
  <1>3. e \in Call
    BY <1>1, <1>2 DEF Call
  <1>4. /\ asked' = Append(asked, e) /\ asked \in Seq(Call)
        /\ asked' \in Seq(Call) /\ Len(asked') = Len(asked) + 1 /\ asked'[Len(asked) + 1] = e
        /\ \A i \in 1 .. Len(asked) : asked'[i] = asked[i]
    BY <1>2, <1>3 DEF CreateTable, CatalogTypeOK
  <1>5. pc' \in [Creators -> Steps] /\ pc'[c] = "add" /\ \A d \in Creators : d # c => pc'[d] = pc[d]
    BY DEF CreateTable, GoTo, CatalogTypeOK, Steps
  <1>6. PICK r : r = [oid |-> nextTableId, name |-> name, cols |-> n, call |-> Len(asked) + 1]
    OBVIOUS
  <1>7. /\ reg' = [d \in Creators |-> reg'[d]] /\ reg'[c] = r
        /\ \A d \in Creators : d # c => reg'[d] = reg[d]
    <2>1. reg = [d \in Creators |-> reg[d]] /\ reg' = [reg EXCEPT ![c] = r]
      BY <1>6 DEF CreateTable, CatalogTypeOK
    <2> QED  BY <2>1, RegSet
  <1>8. OthersStay(c) /\ CallsStay(c)
    BY <1>1, <1>4, <1>5, <1>7 DEF OthersStay, CallsStay
  <1>9. CallSays(pc'[c], reg'[c], asked') /\ reg'[c].call > Len(asked)
    BY <1>1, <1>2, <1>4, <1>5, <1>6, <1>7 DEF CallSays
  <1>10. CallsApart'
    <2>1. CallsGoOn(c)
      BY <1>4, <1>8, <1>9 DEF CallsGoOn
    <2> QED  BY <2>1, CallsKept
  <1>11. CatalogTypeOK'
    BY <1>4, <1>5, <1>7 DEF CatalogTypeOK, CreateTable, memory
  <1> QED  BY <1>2, <1>4, <1>5, <1>6, <1>7, <1>8, <1>10, <1>11 DEF CreateTableDoes, CreateTable

AddTableIdDoes(c) ==
    /\ pc[c] = "add" /\ pc'[c] = "heap" /\ nextTableId' = nextTableId + 1
    /\ UNCHANGED <<tableIds, tableNames, tables, columns, disk, nextPageID, reg, asked, restarts, crashed>>

\* The same for the increment of NextTableId.
LEMMA AddTableIdFacts ==
    ASSUME CatalogTypeOK, CallsApart, NEW c \in Creators, AddTableId(c)
    PROVE  /\ AddTableIdDoes(c) /\ OthersStay(c) /\ CallsStay(c)
           /\ CatalogTypeOK' /\ CallsApart'
  <1>1. Len(asked) \in Nat /\ nextTableId \in Nat \ {0}
    BY DEF CatalogTypeOK
  <1>2. pc' \in [Creators -> Steps] /\ pc'[c] = "heap" /\ \A d \in Creators : d # c => pc'[d] = pc[d]
    BY DEF AddTableId, GoTo, CatalogTypeOK, Steps
  <1>3. pc[c] = "add" /\ reg' = reg /\ asked' = asked
    BY DEF AddTableId
  <1>4. OthersStay(c) /\ CallsStay(c)
    BY <1>1, <1>2, <1>3 DEF OthersStay, CallsStay
  <1>5. CallSays(pc'[c], reg'[c], asked') /\ Creating(c)
    BY <1>2, <1>3 DEF CallsApart, CallSays, Creating
  <1>6. CallsApart'
    <2>1. CallsGoOn(c)
      BY <1>3, <1>4, <1>5 DEF CallsGoOn, CatalogTypeOK
    <2> QED  BY <2>1, CallsKept
  <1>7. CatalogTypeOK'
    BY <1>1, <1>2, <1>3 DEF CatalogTypeOK, AddTableId
  <1> QED  BY <1>2, <1>4, <1>6, <1>7 DEF AddTableIdDoes, AddTableId

NewTableDoes(c, i) ==
    /\ pc[c] = "heap" /\ pc'[c] = "table_row" /\ nextPageID' = nextPageID + 1
    /\ i = reg[c].call /\ i \in 1 .. Len(asked)
    /\ Len(asked') = Len(asked) /\ asked'[i].first = nextPageID /\ asked'[i].done = asked[i].done
    /\ \A j \in 1 .. Len(asked) : j # i => asked'[j] = asked[j]
    /\ UNCHANGED <<nextTableId, tables, columns, disk, reg, restarts, crashed>>

\* The same for the first page of the new table.
LEMMA NewTableFacts ==
    ASSUME CatalogTypeOK, CallsApart, NEW c \in Creators, NewTable(c)
    PROVE  /\ NewTableDoes(c, reg[c].call) /\ OthersStay(c) /\ CallsStay(c)
           /\ CatalogTypeOK' /\ CallsApart'
  <1>1. Len(asked) \in Nat /\ nextPageID \in Nat /\ asked \in Seq(Call)
    BY DEF CatalogTypeOK
  <1>2. pc' \in [Creators -> Steps] /\ pc'[c] = "table_row" /\ \A d \in Creators : d # c => pc'[d] = pc[d]
    BY DEF NewTable, GoTo, CatalogTypeOK, Steps
  <1>3. /\ pc[c] = "heap" /\ reg' = reg /\ Creating(c)
        /\ asked' = [asked EXCEPT ![reg[c].call].first = nextPageID]
    BY DEF NewTable, Creating
  <1>4. CallSays(pc[c], reg[c], asked)
    BY <1>3 DEF CallsApart
  <1>5. PICK i \in 1 .. Len(asked) : i = reg[c].call
    BY <1>4 DEF CallSays
  <1>6. /\ asked' \in Seq(Call) /\ Len(asked') = Len(asked) /\ asked'[i].first = nextPageID
        /\ asked'[i].oid = asked[i].oid /\ asked'[i].name = asked[i].name /\ asked'[i].cols = asked[i].cols
        /\ asked'[i].done = asked[i].done
        /\ \A j \in 1 .. Len(asked) : j # i => asked'[j] = asked[j]
    BY <1>1, <1>3, <1>5, FirstPageSet, SMTT(30)
  <1>7. OthersStay(c) /\ CallsStay(c)
    BY <1>1, <1>2, <1>3, <1>5, <1>6 DEF OthersStay, CallsStay
  <1>8. CallSays(pc'[c], reg'[c], asked')
    BY <1>2, <1>3, <1>4, <1>5, <1>6 DEF CallSays
  <1>9. CallsApart'
    <2>1. CallsGoOn(c)
      BY <1>3, <1>6, <1>7, <1>8 DEF CallsGoOn
    <2> QED  BY <2>1, CallsKept
  <1>10. CatalogTypeOK'
    BY <1>1, <1>2, <1>3, <1>6 DEF CatalogTypeOK, NewTable
  <1> QED  BY <1>2, <1>5, <1>6, <1>7, <1>9, <1>10 DEF NewTableDoes, NewTable

InsertTableRowDoes(c, i) ==
    /\ pc[c] = "table_row" /\ pc'[c] = "column_rows"
    /\ i = reg[c].call /\ i \in 1 .. Len(asked)
    /\ reg'[c] = [oid |-> asked[i].oid, left |-> [k \in 1 .. asked[i].cols |-> k], call |-> i]
    /\ Len(tables') = Len(tables) + 1
    /\ tables'[Len(tables) + 1] = [oid |-> asked[i].oid, name |-> asked[i].name, first |-> asked[i].first]
    /\ \A k \in 1 .. Len(tables) : tables'[k] = tables[k]
    /\ UNCHANGED <<memory, columns, disk, nextPageID, asked, restarts, crashed>>

\* The same for the row in the table of tables.
LEMMA InsertTableRowFacts ==
    ASSUME CatalogTypeOK, CallsApart, NEW c \in Creators, InsertTableRow(c)
    PROVE  /\ InsertTableRowDoes(c, reg[c].call) /\ OthersStay(c) /\ CallsStay(c)
           /\ CatalogTypeOK' /\ CallsApart'
  <1>1. Len(asked) \in Nat /\ asked \in Seq(Call) /\ tables \in Seq(TableRow)
    BY DEF CatalogTypeOK
  <1>2. /\ pc' \in [Creators -> Steps] /\ pc'[c] = "column_rows"
        /\ \A d \in Creators : d # c => pc'[d] = pc[d]
    BY DEF InsertTableRow, GoTo, CatalogTypeOK, Steps
  <1>3. pc[c] = "table_row" /\ Creating(c) /\ asked' = asked
    BY DEF InsertTableRow, Creating
  <1>4. CallSays(pc[c], reg[c], asked)
    BY <1>3 DEF CallsApart
  <1>5. PICK i \in 1 .. Len(asked) : i = reg[c].call
    BY <1>4 DEF CallSays
  <1>6. /\ asked[i].oid \in Nat \ {0} /\ asked[i].name \in Names /\ asked[i].cols \in 1 .. MaxColumns
        /\ asked[i].first \in Nat
    BY CallFields
  <1>7. reg[c].oid = asked[i].oid /\ reg[c].name = asked[i].name /\ reg[c].cols = asked[i].cols
    BY <1>3, <1>4, <1>5 DEF CallSays
  <1>8. PICK l : l = [k \in 1 .. asked[i].cols |-> k]
    OBVIOUS
  <1>9. l \in Seq(Nat)
    BY <1>6, <1>8
  <1>10. PICK r : r = [oid |-> asked[i].oid, left |-> l, call |-> i]
    OBVIOUS
  <1>11. /\ reg' = [d \in Creators |-> reg'[d]] /\ reg'[c] = r
         /\ \A d \in Creators : d # c => reg'[d] = reg[d]
    <2>1. reg = [d \in Creators |-> reg[d]] /\ reg' = [reg EXCEPT ![c] = r]
      BY <1>5, <1>7, <1>8, <1>10 DEF InsertTableRow, CatalogTypeOK
    <2> QED  BY <2>1, RegSet
  <1>12. PICK e : e = [oid |-> asked[i].oid, name |-> asked[i].name, first |-> asked[i].first]
    OBVIOUS
  <1>13. e \in TableRow
    BY <1>6, <1>12 DEF TableRow, CatalogNames
  <1>14. tables' = Append(tables, e)
    BY <1>5, <1>7, <1>12 DEF InsertTableRow
  <1>15. /\ tables' \in Seq(TableRow) /\ Len(tables') = Len(tables) + 1 /\ tables'[Len(tables) + 1] = e
         /\ \A k \in 1 .. Len(tables) : tables'[k] = tables[k]
    BY <1>1, <1>13, <1>14
  <1>16. OthersStay(c) /\ CallsStay(c)
    BY <1>1, <1>2, <1>3, <1>11 DEF OthersStay, CallsStay
  <1>17. CallSays(pc'[c], reg'[c], asked') /\ reg'[c].call = reg[c].call
    BY <1>2, <1>3, <1>4, <1>5, <1>9, <1>10, <1>11 DEF CallSays
  <1>18. CallsApart'
    <2>1. CallsGoOn(c)
      BY <1>1, <1>3, <1>16, <1>17 DEF CallsGoOn
    <2> QED  BY <2>1, CallsKept
  <1>19. CatalogTypeOK'
    BY <1>2, <1>3, <1>11, <1>15 DEF CatalogTypeOK, InsertTableRow, memory
  <1>20. InsertTableRowDoes(c, i)
    BY <1>2, <1>5, <1>8, <1>10, <1>11, <1>12, <1>15 DEF InsertTableRowDoes, InsertTableRow
  <1> QED  BY <1>5, <1>16, <1>18, <1>19, <1>20

InsertColumnRowDoes(c, i) ==
    /\ pc[c] = "column_rows" /\ pc' = pc
    /\ i = reg[c].call /\ i \in 1 .. Len(asked) /\ reg[c].left # << >> /\ reg[c].left \in Seq(Nat)
    /\ reg'[c] = [oid |-> asked[i].oid, left |-> Tail(reg[c].left), call |-> i]
    /\ columns' = Append(columns, [oid |-> asked[i].oid, column |-> Head(reg[c].left)])
    /\ UNCHANGED <<memory, tables, disk, nextPageID, asked, restarts, crashed>>

\* The same for a row in the table of columns.
LEMMA InsertColumnRowFacts ==
    ASSUME CatalogTypeOK, CallsApart, NEW c \in Creators, InsertColumnRow(c)
    PROVE  /\ InsertColumnRowDoes(c, reg[c].call) /\ OthersStay(c) /\ CallsStay(c)
           /\ CatalogTypeOK' /\ CallsApart'
  <1>1. Len(asked) \in Nat /\ asked \in Seq(Call) /\ columns \in Seq(ColumnRow)
    BY DEF CatalogTypeOK
  <1>3. pc[c] = "column_rows" /\ Creating(c) /\ asked' = asked /\ pc' = pc /\ reg[c].left # << >>
    BY DEF InsertColumnRow, Creating
  <1>4. CallSays(pc[c], reg[c], asked)
    BY <1>3 DEF CallsApart
  <1>5. PICK i \in 1 .. Len(asked) : i = reg[c].call
    BY <1>4 DEF CallSays
  <1>6. asked[i].oid \in Nat
    BY CallFields
  <1>7. PICK l \in Seq(Nat) : l = reg[c].left
    BY <1>3, <1>4 DEF CallSays
  <1>8. reg[c] = [oid |-> asked[i].oid, left |-> l, call |-> i]
    BY <1>3, <1>4, <1>5, <1>7 DEF CallSays
  <1>9. Head(l) \in Nat /\ Tail(l) \in Seq(Nat)
    BY <1>3, <1>7
  <1>10. PICK r : r = [oid |-> asked[i].oid, left |-> Tail(l), call |-> i]
    OBVIOUS
  <1>11. /\ reg' = [d \in Creators |-> reg'[d]] /\ reg'[c] = r
         /\ \A d \in Creators : d # c => reg'[d] = reg[d]
    <2>1. reg = [d \in Creators |-> reg[d]]
      BY DEF CatalogTypeOK
    <2>2. [reg[c] EXCEPT !.left = Tail(l)] = r
      <3>1. PICK q : q = reg[c]
        OBVIOUS
      <3>2. [q EXCEPT !.left = Tail(l)] = [[oid |-> asked[i].oid, left |-> l, call |-> i] EXCEPT !.left = Tail(l)]
        BY <1>8, <3>1
      <3>3. [[oid |-> asked[i].oid, left |-> l, call |-> i] EXCEPT !.left = Tail(l)]
                = [oid |-> asked[i].oid, left |-> Tail(l), call |-> i]
        BY LeftSet, ZenonT(30)
      <3>4. [q EXCEPT !.left = Tail(l)] = r
        BY <1>10, <3>2, <3>3, Zenon
      <3> QED  BY <3>1, <3>4, Zenon
    <2>3. reg' = [reg EXCEPT ![c] = [reg[c] EXCEPT !.left = Tail(l)]]
      BY <1>7 DEF InsertColumnRow
    <2>4. reg' = [reg EXCEPT ![c] = r]
      BY <2>2, <2>3
    <2> QED  BY <2>1, <2>4, RegSet
  <1>12. PICK e : e = [oid |-> asked[i].oid, column |-> Head(l)]
    OBVIOUS
  <1>13. e \in ColumnRow
    BY <1>6, <1>9, <1>12 DEF ColumnRow
  <1>14. columns' = Append(columns, e)
    BY <1>7, <1>8, <1>12 DEF InsertColumnRow
  <1>15. columns' \in Seq(ColumnRow)
    BY <1>1, <1>13, <1>14
  <1>16. OthersStay(c) /\ CallsStay(c)
    BY <1>1, <1>3, <1>11 DEF OthersStay, CallsStay
  <1>17. CallSays(pc'[c], reg'[c], asked') /\ reg'[c].call = reg[c].call
    BY <1>3, <1>4, <1>5, <1>9, <1>10, <1>11 DEF CallSays
  <1>18. CallsApart'
    <2>1. CallsGoOn(c)
      BY <1>1, <1>3, <1>16, <1>17 DEF CallsGoOn
    <2> QED  BY <2>1, CallsKept
  <1>19. CatalogTypeOK'
    BY <1>3, <1>11, <1>15 DEF CatalogTypeOK, InsertColumnRow, memory
  <1>20. InsertColumnRowDoes(c, i)
    BY <1>3, <1>5, <1>7, <1>10, <1>11, <1>12, <1>14 DEF InsertColumnRowDoes, InsertColumnRow
  <1> QED  BY <1>5, <1>16, <1>18, <1>19, <1>20

FlushTablesDoes(c, i) ==
    /\ pc[c] = "column_rows" /\ pc'[c] = "flush_columns"
    /\ i = reg[c].call /\ i \in 1 .. Len(asked) /\ reg[c].left = << >>
    /\ disk'.tables = tables /\ disk'.columns = disk.columns /\ disk'.pages = disk.pages
    /\ UNCHANGED <<memory, tables, columns, nextPageID, reg, asked, restarts, crashed>>

\* The same for the flush of the table of tables.
LEMMA FlushTablesFacts ==
    ASSUME CatalogTypeOK, CallsApart, NEW c \in Creators, FlushTables(c)
    PROVE  /\ FlushTablesDoes(c, reg[c].call) /\ OthersStay(c) /\ CallsStay(c)
           /\ CatalogTypeOK' /\ CallsApart'
  <1>1. Len(asked) \in Nat /\ asked \in Seq(Call) /\ tables \in Seq(TableRow)
    BY DEF CatalogTypeOK
  <1>2. /\ pc' \in [Creators -> Steps] /\ pc'[c] = "flush_columns"
        /\ \A d \in Creators : d # c => pc'[d] = pc[d]
    BY DEF FlushTables, GoTo, CatalogTypeOK, Steps
  <1>3. pc[c] = "column_rows" /\ Creating(c) /\ asked' = asked /\ reg' = reg /\ reg[c].left = << >>
    BY DEF FlushTables, Creating
  <1>4. CallSays(pc[c], reg[c], asked)
    BY <1>3 DEF CallsApart
  <1>5. reg[c].call \in 1 .. Len(asked)
    BY <1>4 DEF CallSays
  <1>6. /\ disk' \in DiskState
        /\ disk'.tables = tables /\ disk'.columns = disk.columns /\ disk'.pages = disk.pages
        /\ disk'.start = disk.start
    BY <1>1, DiskSet DEF FlushTables
  <1>7. OthersStay(c) /\ CallsStay(c)
    BY <1>1, <1>2, <1>3 DEF OthersStay, CallsStay
  <1>8. CallSays(pc'[c], reg'[c], asked')
    BY <1>2, <1>3, <1>4 DEF CallSays
  <1>9. CallsApart'
    <2>1. CallsGoOn(c)
      BY <1>1, <1>3, <1>7, <1>8 DEF CallsGoOn
    <2> QED  BY <2>1, CallsKept
  <1>10. CatalogTypeOK'
    BY <1>2, <1>3, <1>6 DEF CatalogTypeOK, FlushTables, memory
  <1> QED  BY <1>2, <1>3, <1>5, <1>6, <1>7, <1>9, <1>10 DEF FlushTablesDoes, FlushTables

FlushColumnsDoes(c, i) ==
    /\ pc[c] = "flush_columns" /\ pc'[c] = "idle"
    /\ i = reg[c].call /\ i \in 1 .. Len(asked)
    /\ disk'.tables = disk.tables /\ disk'.columns = columns /\ disk'.pages = disk.pages
    /\ Len(asked') = Len(asked) /\ asked'[i].first = asked[i].first
    /\ \A j \in 1 .. Len(asked) : j # i => asked'[j] = asked[j]
    /\ UNCHANGED <<memory, tables, columns, nextPageID, restarts, crashed>>

\* The same for the flush of the table of columns.
LEMMA FlushColumnsFacts ==
    ASSUME CatalogTypeOK, CallsApart, NEW c \in Creators, FlushColumns(c)
    PROVE  /\ FlushColumnsDoes(c, reg[c].call) /\ OthersStay(c) /\ CallsStay(c)
           /\ CatalogTypeOK' /\ CallsApart'
  <1>1. Len(asked) \in Nat /\ asked \in Seq(Call) /\ columns \in Seq(ColumnRow)
    BY DEF CatalogTypeOK
  <1>2. /\ pc' \in [Creators -> Steps] /\ pc'[c] = "idle"
        /\ \A d \in Creators : d # c => pc'[d] = pc[d]
    BY DEF FlushColumns, GoTo, CatalogTypeOK, Steps
  <1>3. pc[c] = "flush_columns" /\ Creating(c) /\ asked' = WithDone(asked, reg[c].call)
    BY DEF FlushColumns, Creating, WithDone
  <1>4. CallSays(pc[c], reg[c], asked)
    BY <1>3 DEF CallsApart
  <1>5. PICK i \in 1 .. Len(asked) : i = reg[c].call
    BY <1>4 DEF CallSays
  <1>6. /\ disk' \in DiskState
        /\ disk'.tables = disk.tables /\ disk'.columns = columns /\ disk'.pages = disk.pages
        /\ disk'.start = disk.start
    BY <1>1, DiskSet DEF FlushColumns
  <1>7. /\ reg' = [d \in Creators |-> reg'[d]]
        /\ \A d \in Creators : d # c => reg'[d] = reg[d]
    <2>1. reg = [d \in Creators |-> reg[d]] /\ reg' = [reg EXCEPT ![c] = NoTable]
      BY DEF FlushColumns, CatalogTypeOK
    <2> QED  BY <2>1, RegSet
  <1>8. /\ asked' \in Seq(Call) /\ Len(asked') = Len(asked) /\ asked'[i].first = asked[i].first
        /\ asked'[i].oid = asked[i].oid /\ asked'[i].name = asked[i].name /\ asked'[i].cols = asked[i].cols
        /\ \A j \in 1 .. Len(asked) : j # i => asked'[j] = asked[j]
    BY <1>1, <1>3, <1>5, DoneSet, ZenonT(30)
  <1>9. OthersStay(c) /\ CallsStay(c)
    BY <1>1, <1>2, <1>3, <1>5, <1>7, <1>8 DEF OthersStay, CallsStay
  <1>10. CallsApart'
    <2>1. CallsGoOn(c)
      BY <1>2, <1>8, <1>9 DEF CallsGoOn
    <2> QED  BY <2>1, CallsKept
  <1>11. CatalogTypeOK'
    BY <1>2, <1>6, <1>7, <1>8 DEF CatalogTypeOK, FlushColumns, memory
  <1> QED  BY <1>2, <1>3, <1>5, <1>6, <1>8, <1>9, <1>10, <1>11 DEF FlushColumnsDoes, FlushColumns

\* The page and the number of pages that an eviction writes.
EvictPageDoes ==
    /\ \/ disk'.tables = tables /\ disk'.columns = disk.columns
       \/ disk'.tables = disk.tables /\ disk'.columns = columns
       \/ disk'.tables = disk.tables /\ disk'.columns = disk.columns
    /\ UNCHANGED <<memory, tables, columns, nextPageID, pc, reg, asked, restarts, crashed>>

\* The same for the eviction of a catalog page.
LEMMA EvictPageFacts ==
    ASSUME CatalogTypeOK, CallsApart, EvictPage
    PROVE  EvictPageDoes /\ CatalogTypeOK' /\ CallsApart'
  <1>1. /\ tables \in Seq(TableRow) /\ columns \in Seq(ColumnRow) /\ nextPageID \in Nat
        /\ disk.pages \in Nat /\ disk.start \in Nat /\ disk.start <= disk.pages + 1
    BY CallFields DEF CatalogTypeOK
  <1>2. UNCHANGED <<memory, tables, columns, nextPageID, pc, reg, asked, restarts, crashed>>
    BY DEF EvictPage
  <1>3. /\ disk' \in DiskState /\ disk'.start <= disk'.pages + 1
        /\ \/ disk'.tables = tables /\ disk'.columns = disk.columns
           \/ disk'.tables = disk.tables /\ disk'.columns = columns
           \/ disk'.tables = disk.tables /\ disk'.columns = disk.columns
    <2>1. CASE disk' = [disk EXCEPT !.tables = tables]
      BY <1>1, <2>1, DiskSet
    <2>2. CASE disk' = [disk EXCEPT !.columns = columns]
      BY <1>1, <2>2, DiskSet
    <2>3. ASSUME NEW p \in disk.start .. nextPageID - 1, p >= disk.pages,
                 disk' = [disk EXCEPT !.pages = p + 1]
          PROVE  /\ disk' \in DiskState /\ disk'.start <= disk'.pages + 1
                 /\ disk'.tables = disk.tables /\ disk'.columns = disk.columns
      <3>1. p + 1 \in Nat \ {0} /\ disk.start <= p + 1 + 1
        BY <1>1, <2>3
      <3>2. /\ disk' \in DiskState /\ disk'.pages = p + 1 /\ disk'.start = disk.start
            /\ disk'.tables = disk.tables /\ disk'.columns = disk.columns
        BY <2>3, <3>1, DiskSet
      <3> QED  BY <3>1, <3>2
    <2> QED  BY <2>1, <2>2, <2>3 DEF EvictPage
  <1>4. CatalogTypeOK'
    BY <1>2, <1>3 DEF CatalogTypeOK, memory
  <1>5. CallsApart'
    BY <1>2 DEF CallsApart, Creating
  <1> QED  BY <1>2, <1>3, <1>4, <1>5 DEF EvictPageDoes

\* A restart with the rows t and k and p pages in the file.
RestartDoes(t, k, p) ==
    /\ tables' = t /\ columns' = k /\ disk'.tables = t /\ disk'.columns = k
    /\ nextPageID' = p + 1 /\ nextTableId' = 1 /\ asked' = asked
    /\ \A c \in Creators : pc'[c] = "idle"

\* The same for a restart from what the file has.
LEMMA RestartFacts ==
    ASSUME CatalogTypeOK, NEW t \in Seq(TableRow), NEW k \in Seq(ColumnRow), NEW n \in Nat \ {0},
           Restart(t, k, n), crashed' \in BOOLEAN
    PROVE  RestartDoes(t, k, n) /\ CatalogTypeOK' /\ CallsApart'
  <1>1. NextPageOf(n) = n + 1 /\ n + 1 \in Nat \ {0}
    BY DEF NextPageOf
  <1>2. /\ pc' = [c \in Creators |-> "idle"] /\ reg' = [c \in Creators |-> NoTable]
        /\ disk' = [tables |-> t, columns |-> k, pages |-> n, start |-> NextPageOf(n)]
        /\ tables' = t /\ columns' = k /\ nextTableId' = 1
        /\ nextPageID' = NextPageOf(n) /\ asked' = asked
    BY DEF Restart
  <1>3. /\ disk' \in DiskState /\ disk'.start <= disk'.pages + 1
        /\ disk'.tables = t /\ disk'.columns = k
    BY <1>1, <1>2 DEF DiskState
  <1>4. pc' \in [Creators -> Steps] /\ \A c \in Creators : pc'[c] = "idle"
    BY <1>2 DEF Steps
  <1>5. reg' = [c \in Creators |-> reg'[c]]
    BY <1>2
  <1>6. CatalogTypeOK'
    BY <1>1, <1>2, <1>3, <1>4, <1>5 DEF CatalogTypeOK
  <1>7. CallsApart'
    BY <1>4 DEF CallsApart, Creating
  <1> QED  BY <1>1, <1>2, <1>3, <1>4, <1>6, <1>7 DEF RestartDoes

\* Shutdown has every page written, so that the counter goes on above them; if
\* none was given out, it goes on above the one that a restart skipped before.
LEMMA ShutdownFacts ==
    ASSUME CatalogTypeOK, Shutdown
    PROVE  /\ \E p \in Nat \ {0} : p + 1 >= nextPageID /\ RestartDoes(tables, columns, p)
           /\ CatalogTypeOK' /\ CallsApart' /\ crashed' = crashed
           /\ \A c \in Creators : pc[c] = "idle"
  <1>1. PICK p : p = IF nextPageID > disk.start THEN nextPageID ELSE disk.pages
    OBVIOUS
  <1>2. p \in Nat \ {0} /\ p + 1 >= nextPageID
    BY <1>1, CallFields DEF CatalogTypeOK
  <1>3. tables \in Seq(TableRow) /\ columns \in Seq(ColumnRow) /\ crashed \in BOOLEAN
    BY DEF CatalogTypeOK
  <1>4. Restart(tables, columns, p) /\ crashed' = crashed
    BY <1>1 DEF Shutdown
  <1>5. RestartDoes(tables, columns, p) /\ CatalogTypeOK' /\ CallsApart'
    BY <1>2, <1>3, <1>4, RestartFacts
  <1> QED  BY <1>2, <1>4, <1>5 DEF Shutdown

\* A crash is a restart from what is on disk.
LEMMA CrashFacts ==
    ASSUME CatalogTypeOK, Crash
    PROVE  /\ RestartDoes(disk.tables, disk.columns, disk.pages)
           /\ CatalogTypeOK' /\ CallsApart' /\ crashed' = TRUE
  <1>1. Restart(disk.tables, disk.columns, disk.pages) /\ crashed' = TRUE
    BY DEF Crash
  <1> QED  BY <1>1, CallFields, RestartFacts

----------------------------------------------------------------------------
(* The first pages of the tables.                                          *)

\* The page of the table that creator c is about to write the row of.
PageOf(c) == asked[reg[c].call].first

\* The types that the proof about first pages needs.
LEMMA PagesFacts ==
    ASSUME CatalogTypeOK, CallsApart
    PROVE  /\ nextPageID \in Nat /\ Len(tables) \in Nat
           /\ \A i \in 1 .. Len(tables) : tables[i] \in TableRow /\ tables[i].first \in Nat
           /\ \A c \in Creators : Creating(c) => reg[c].call \in 1 .. Len(asked) /\ PageOf(c) \in Nat
  <1>1. nextPageID \in Nat /\ Len(tables) \in Nat
    BY DEF CatalogTypeOK
  <1>2. \A i \in 1 .. Len(tables) : tables[i] \in TableRow
    BY DEF CatalogTypeOK
  <1>3. \A i \in 1 .. Len(tables) : tables[i].first \in Nat
    BY <1>2 DEF TableRow
  <1>4. ASSUME NEW c \in Creators, Creating(c)
        PROVE  reg[c].call \in 1 .. Len(asked) /\ PageOf(c) \in Nat
    BY <1>4, CallFields DEF CallsApart, CallSays, PageOf
  <1> QED  BY <1>1, <1>2, <1>3, <1>4

\* PagesApart in terms of PageOf.
LEMMA PagesSay ==
    PagesApart <=>
        /\ \A i \in 1 .. Len(tables) : tables[i].first < nextPageID
        /\ \A i, j \in 1 .. Len(tables) : i # j => tables[i].first # tables[j].first
        /\ \A c \in Creators : pc[c] = "table_row" => PageOf(c) < nextPageID
        /\ \A c \in Creators : pc[c] = "table_row" => \A i \in 1 .. Len(tables) : tables[i].first # PageOf(c)
        /\ \A c, d \in Creators : pc[c] = "table_row" /\ pc[d] = "table_row" /\ d # c => PageOf(d) # PageOf(c)
  BY DEF PagesApart, PageOf

\* Nothing happens to the pages when no creator comes to write a row and the rows,
\* the counter and the pages found by those who do stay.
LEMMA PagesUntouched ==
    ASSUME PagesApart, UNCHANGED <<tables, nextPageID>>,
           \A c \in Creators : pc'[c] = "table_row" => pc[c] = "table_row" /\ PageOf(c)' = PageOf(c)
    PROVE  PagesApart'
  BY PagesSay DEF PagesApart, PageOf

\* Without a crash, no step gives two tables one first page.
LEMMA PagesStep ==
    ASSUME PagesInv, [CatalogNext]_catalogVars
    PROVE  PagesInv'
  <1>1. CatalogTypeOK /\ CallsApart /\ (~crashed => PagesApart)
    BY DEF PagesInv
  <1>2. CASE UNCHANGED catalogVars
    BY <1>1, <1>2 DEF catalogVars, memory, PagesInv, CatalogTypeOK, CallsApart, Creating, PagesApart
  <1>3. ASSUME NEW c \in Creators, NEW name \in Names, NEW n \in 1 .. MaxColumns, CreateTable(c, name, n)
        PROVE  PagesInv'
    <2>1. /\ CreateTableDoes(c, name, n) /\ OthersStay(c) /\ CatalogTypeOK' /\ CallsApart'
      BY <1>1, <1>3, CreateTableFacts
    <2>2. ASSUME NEW d \in Creators, pc'[d] = "table_row"
          PROVE  pc[d] = "table_row" /\ PageOf(d)' = PageOf(d)
      <3>1. d # c /\ pc[d] = "table_row" /\ reg'[d] = reg[d]
        BY <2>1, <2>2 DEF CreateTableDoes, OthersStay
      <3>2. reg[d].call \in 1 .. Len(asked)
        BY <1>1, <3>1, PagesFacts DEF Creating
      <3> QED  BY <2>1, <3>1, <3>2 DEF CreateTableDoes, PageOf
    <2>3. tables' = tables /\ nextPageID' = nextPageID /\ crashed' = crashed
      BY <2>1 DEF CreateTableDoes
    <2>4. ~crashed' => PagesApart'
      BY <1>1, <2>2, <2>3, PagesUntouched
    <2> QED  BY <2>1, <2>4 DEF PagesInv
  <1>4. ASSUME NEW c \in Creators, AddTableId(c) PROVE PagesInv'
    <2>1. /\ AddTableIdDoes(c) /\ OthersStay(c) /\ CatalogTypeOK' /\ CallsApart'
      BY <1>1, <1>4, AddTableIdFacts
    <2>2. ASSUME NEW d \in Creators, pc'[d] = "table_row"
          PROVE  pc[d] = "table_row" /\ PageOf(d)' = PageOf(d)
      BY <2>1, <2>2 DEF AddTableIdDoes, OthersStay, PageOf
    <2>3. tables' = tables /\ nextPageID' = nextPageID /\ crashed' = crashed
      BY <2>1 DEF AddTableIdDoes
    <2>4. ~crashed' => PagesApart'
      BY <1>1, <2>2, <2>3, PagesUntouched
    <2> QED  BY <2>1, <2>4 DEF PagesInv
  <1>5. ASSUME NEW c \in Creators, NewTable(c) PROVE PagesInv'
    <2>1. /\ NewTableDoes(c, reg[c].call) /\ OthersStay(c) /\ CatalogTypeOK' /\ CallsApart'
      BY <1>1, <1>5, NewTableFacts
    <2>2. tables' = tables /\ nextPageID' = nextPageID + 1 /\ crashed' = crashed /\ reg' = reg
      BY <2>1 DEF NewTableDoes
    <2>3. PageOf(c)' = nextPageID /\ Creating(c)
      BY <2>1 DEF NewTableDoes, PageOf, Creating
    <2>4. ASSUME NEW d \in Creators, d # c, pc'[d] = "table_row"
          PROVE  pc[d] = "table_row" /\ PageOf(d)' = PageOf(d)
      <3>1. pc[d] = "table_row" /\ reg'[d] = reg[d] /\ Creating(d)
        BY <2>1, <2>4 DEF OthersStay, Creating
      <3>2. reg[d].call \in 1 .. Len(asked) /\ reg[d].call # reg[c].call
        BY <1>1, <2>3, <2>4, <3>1, PagesFacts DEF CallsApart
      <3> QED  BY <2>1, <3>1, <3>2 DEF NewTableDoes, PageOf
    <2>5. ASSUME ~crashed PROVE PagesApart'
      <3>1. PagesApart
        BY <1>1, <2>5
      <3>2. \A i \in 1 .. Len(tables) : tables[i].first < nextPageID /\ tables[i].first \in Nat
        BY <1>1, <3>1, PagesFacts, PagesSay
      <3>3. \A d \in Creators : pc[d] = "table_row" => PageOf(d) < nextPageID /\ PageOf(d) \in Nat
        BY <1>1, <3>1, PagesFacts, PagesSay DEF Creating
      <3>4. nextPageID \in Nat
        BY <1>1, PagesFacts
      <3>5. \A i \in 1 .. Len(tables') : tables'[i].first < nextPageID' /\ tables'[i].first # PageOf(c)'
        BY <2>2, <2>3, <3>2, <3>4
      <3>6. \A d \in Creators : d # c /\ pc'[d] = "table_row" =>
                /\ PageOf(d)' < nextPageID' /\ PageOf(d)' # PageOf(c)'
                /\ \A i \in 1 .. Len(tables') : tables'[i].first # PageOf(d)'
        BY <2>2, <2>3, <2>4, <3>1, <3>3, <3>4, PagesSay
      <3>7. \A d, e \in Creators : d # c /\ e # c /\ pc'[d] = "table_row" /\ pc'[e] = "table_row" /\ e # d =>
                PageOf(e)' # PageOf(d)'
        BY <2>4, <3>1, PagesSay
      <3>8. PageOf(c)' < nextPageID'
        BY <2>2, <2>3, <3>4
      <3>9. \A i, j \in 1 .. Len(tables') : i # j => tables'[i].first # tables'[j].first
        BY <2>2, <3>1, PagesSay
      <3>10. \A d, e \in Creators : pc'[d] = "table_row" /\ pc'[e] = "table_row" /\ e # d =>
                PageOf(e)' # PageOf(d)'
        BY <3>6, <3>7
      <3>11. \A d \in Creators : pc'[d] = "table_row" =>
                /\ PageOf(d)' < nextPageID'
                /\ \A i \in 1 .. Len(tables') : tables'[i].first # PageOf(d)'
        BY <3>5, <3>6, <3>8
      <3> QED  BY <3>5, <3>9, <3>10, <3>11 DEF PagesApart, PageOf
    <2> QED  BY <2>1, <2>2, <2>5 DEF PagesInv
  <1>6. ASSUME NEW c \in Creators, InsertTableRow(c) PROVE PagesInv'
    <2>1. /\ InsertTableRowDoes(c, reg[c].call) /\ OthersStay(c) /\ CatalogTypeOK' /\ CallsApart'
      BY <1>1, <1>6, InsertTableRowFacts
    <2>2. nextPageID' = nextPageID /\ crashed' = crashed /\ asked' = asked /\ pc[c] = "table_row"
      BY <2>1 DEF InsertTableRowDoes
    <2>3. /\ Len(tables') = Len(tables) + 1 /\ tables'[Len(tables) + 1].first = PageOf(c)
          /\ \A k \in 1 .. Len(tables) : tables'[k] = tables[k]
      BY <2>1 DEF InsertTableRowDoes, PageOf
    <2>4. ASSUME NEW d \in Creators, pc'[d] = "table_row"
          PROVE  d # c /\ pc[d] = "table_row" /\ PageOf(d)' = PageOf(d)
      BY <2>1, <2>2, <2>4 DEF InsertTableRowDoes, OthersStay, PageOf
    <2>5. ASSUME ~crashed PROVE PagesApart'
      <3>1. PagesApart /\ Len(tables) \in Nat
        BY <1>1, <2>5, PagesFacts
      <3>2. \A k \in 1 .. Len(tables') : k = Len(tables) + 1 \/ k \in 1 .. Len(tables)
        BY <2>3, <3>1
      <3>3. \A k \in 1 .. Len(tables') : tables'[k].first < nextPageID'
        BY <2>2, <2>3, <3>1, <3>2, PagesSay
      <3>4. \A i, j \in 1 .. Len(tables') : i # j => tables'[i].first # tables'[j].first
        BY <2>2, <2>3, <3>1, <3>2, PagesSay
      <3>5. \A d \in Creators : pc'[d] = "table_row" =>
                /\ PageOf(d)' < nextPageID'
                /\ \A i \in 1 .. Len(tables') : tables'[i].first # PageOf(d)'
        BY <2>2, <2>3, <2>4, <3>1, <3>2, PagesSay
      <3>6. \A d, e \in Creators : pc'[d] = "table_row" /\ pc'[e] = "table_row" /\ e # d =>
                PageOf(e)' # PageOf(d)'
        BY <2>4, <3>1, PagesSay
      <3> QED  BY <3>3, <3>4, <3>5, <3>6 DEF PagesApart, PageOf
    <2> QED  BY <2>1, <2>2, <2>5 DEF PagesInv
  <1>7. ASSUME NEW c \in Creators, InsertColumnRow(c) PROVE PagesInv'
    <2>1. /\ InsertColumnRowDoes(c, reg[c].call) /\ OthersStay(c) /\ CatalogTypeOK' /\ CallsApart'
      BY <1>1, <1>7, InsertColumnRowFacts
    <2>2. ASSUME NEW d \in Creators, pc'[d] = "table_row"
          PROVE  pc[d] = "table_row" /\ PageOf(d)' = PageOf(d)
      BY <2>1, <2>2 DEF InsertColumnRowDoes, OthersStay, PageOf
    <2>3. tables' = tables /\ nextPageID' = nextPageID /\ crashed' = crashed
      BY <2>1 DEF InsertColumnRowDoes
    <2>4. ~crashed' => PagesApart'
      BY <1>1, <2>2, <2>3, PagesUntouched
    <2> QED  BY <2>1, <2>4 DEF PagesInv
  <1>8. ASSUME NEW c \in Creators, FlushTables(c) PROVE PagesInv'
    <2>1. /\ FlushTablesDoes(c, reg[c].call) /\ OthersStay(c) /\ CatalogTypeOK' /\ CallsApart'
      BY <1>1, <1>8, FlushTablesFacts
    <2>2. ASSUME NEW d \in Creators, pc'[d] = "table_row"
          PROVE  pc[d] = "table_row" /\ PageOf(d)' = PageOf(d)
      BY <2>1, <2>2 DEF FlushTablesDoes, OthersStay, PageOf
    <2>3. tables' = tables /\ nextPageID' = nextPageID /\ crashed' = crashed
      BY <2>1 DEF FlushTablesDoes
    <2>4. ~crashed' => PagesApart'
      BY <1>1, <2>2, <2>3, PagesUntouched
    <2> QED  BY <2>1, <2>4 DEF PagesInv
  <1>9. ASSUME NEW c \in Creators, FlushColumns(c) PROVE PagesInv'
    <2>1. /\ FlushColumnsDoes(c, reg[c].call) /\ OthersStay(c) /\ CatalogTypeOK' /\ CallsApart'
      BY <1>1, <1>9, FlushColumnsFacts
    <2>2. ASSUME NEW d \in Creators, pc'[d] = "table_row"
          PROVE  pc[d] = "table_row" /\ PageOf(d)' = PageOf(d)
      <3>1. pc[d] = "table_row" /\ reg'[d] = reg[d] /\ Creating(d)
        BY <2>1, <2>2 DEF FlushColumnsDoes, OthersStay, Creating
      <3>2. reg[d].call \in 1 .. Len(asked)
        BY <1>1, <3>1, PagesFacts
      <3> QED  BY <2>1, <3>1, <3>2 DEF FlushColumnsDoes, PageOf
    <2>3. tables' = tables /\ nextPageID' = nextPageID /\ crashed' = crashed
      BY <2>1 DEF FlushColumnsDoes
    <2>4. ~crashed' => PagesApart'
      BY <1>1, <2>2, <2>3, PagesUntouched
    <2> QED  BY <2>1, <2>4 DEF PagesInv
  <1>10. CASE EvictPage
    <2>1. EvictPageDoes /\ CatalogTypeOK' /\ CallsApart'
      BY <1>1, <1>10, EvictPageFacts
    <2>2. ~crashed' => PagesApart'
      BY <1>1, <2>1 DEF EvictPageDoes, PagesApart
    <2> QED  BY <2>1, <2>2 DEF PagesInv
  <1>11. CASE Shutdown
    <2>1. CatalogTypeOK' /\ CallsApart' /\ crashed' = crashed
      BY <1>1, <1>11, ShutdownFacts
    <2>2. PICK p \in Nat \ {0} : p + 1 >= nextPageID /\ RestartDoes(tables, columns, p)
      BY <1>1, <1>11, ShutdownFacts
    <2>3. tables' = tables /\ nextPageID' = p + 1 /\ \A c \in Creators : pc'[c] = "idle"
      BY <2>2 DEF RestartDoes
    <2>4. ASSUME ~crashed PROVE PagesApart'
      <3>1. PagesApart /\ nextPageID \in Nat /\ \A i \in 1 .. Len(tables) : tables[i].first \in Nat
        BY <1>1, <2>4, PagesFacts
      <3>2. \A i \in 1 .. Len(tables) : tables[i].first < p + 1
        BY <2>2, <3>1, PagesSay
      <3> QED  BY <2>3, <3>1, <3>2 DEF PagesApart
    <2> QED  BY <2>1, <2>4 DEF PagesInv
  <1>12. CASE Crash
    BY <1>1, <1>12, CrashFacts DEF PagesInv
  <1> QED  BY <1>2, <1>3, <1>4, <1>5, <1>6, <1>7, <1>8, <1>9, <1>10, <1>11, <1>12 DEF CatalogNext

\* The catalog that BootstrapCatalog makes.
LEMMA BootTypes == CatalogInit => CatalogTypeOK /\ CallsApart
  <1> SUFFICES ASSUME CatalogInit PROVE CatalogTypeOK /\ CallsApart
    OBVIOUS
  <1>1. BootRow \in TableRow /\ BootColumn \in ColumnRow
    BY DEF BootRow, BootColumn, TableRow, ColumnRow, ColumnsCatalogOID, CatalogNames
  <1>2. tables \in Seq(TableRow) /\ columns \in Seq(ColumnRow)
    BY <1>1 DEF CatalogInit
  <1>3. disk \in DiskState /\ disk.start <= disk.pages + 1
    BY <1>2 DEF CatalogInit, DiskState
  <1>4. pc \in [Creators -> Steps] /\ \A c \in Creators : pc[c] = "idle"
    BY DEF CatalogInit, Steps
  <1>5. reg = [c \in Creators |-> reg[c]] /\ asked \in Seq(Call)
    BY DEF CatalogInit
  <1>6. nextTableId = 1 /\ nextPageID = 2 /\ crashed = FALSE
    BY DEF CatalogInit
  <1>7. CatalogTypeOK
    <2>1. nextTableId \in Nat \ {0} /\ nextPageID \in Nat
      BY <1>6
    <2>2. crashed \in BOOLEAN
      BY <1>6, Zenon
    <2> QED  BY <1>2, <1>3, <1>4, <1>5, <2>1, <2>2, Zenon DEF CatalogTypeOK
  <1> QED  BY <1>4, <1>7 DEF CallsApart, Creating

\* The catalog begins with its own tables on their own pages.
LEMMA PagesInitially == CatalogInit => PagesInv
  <1> SUFFICES ASSUME CatalogInit PROVE PagesInv
    OBVIOUS
  <1>1. Len(tables) = 1 /\ tables[1].first = 1 /\ nextPageID = 2
    BY DEF CatalogInit, BootRow
  <1>2. \A c \in Creators : pc[c] = "idle"
    BY DEF CatalogInit
  <1>3. PagesApart
    BY <1>1, <1>2 DEF PagesApart
  <1> QED  BY <1>3, BootTypes DEF PagesInv

\* No two tables begin on the same page as long as nobody crashes, for any number of
\* tables, goroutines and restarts: the counter of a new instance begins above the
\* pages of the file, which Shutdown has made to hold every page given out.
THEOREM OwnPages == CatalogSpec => []TablesHaveTheirOwnPages
  <1>1. PagesInv => TablesHaveTheirOwnPages
    <2> SUFFICES ASSUME PagesInv, ~crashed,
                        NEW i \in DOMAIN tables, NEW j \in DOMAIN tables, i # j
                 PROVE  tables[i].first # tables[j].first
      BY DEF TablesHaveTheirOwnPages
    <2>1. i \in 1 .. Len(tables) /\ j \in 1 .. Len(tables)
      BY DEF PagesInv, CatalogTypeOK
    <2> QED  BY <2>1 DEF PagesInv, PagesApart
  <1> QED  BY <1>1, PagesInitially, PagesStep, PTL DEF CatalogSpec

----------------------------------------------------------------------------
(* What is on the disk.                                                    *)

\* A step that changes the rows nowhere but by writing a catalog page to the disk.
CopyStep(c) ==
    /\ tables' = tables /\ columns' = columns
    /\ disk'.tables = tables \/ disk'.tables = disk.tables
    /\ disk'.columns = columns \/ disk'.columns = disk.columns
    /\ OthersStay(c) /\ CallsStay(c)

\* A step that gives out no oid leaves the unused unused and the unique unique.
LEMMA OidsStay ==
    ASSUME CatalogTypeOK, CatalogTypeOK', NEW c, CallsStay(c)
    PROVE  /\ \A oid : Unused(oid)' => Unused(oid)
           /\ \A i \in 1 .. Len(asked) : OwnOid(asked', i) => OwnOid(asked, i)
  <1>1. Len(asked) \in Nat /\ Len(asked') \in Nat
    BY DEF CatalogTypeOK
  <1>2. /\ Len(asked) <= Len(asked')
        /\ \A i \in 1 .. Len(asked) : i \in 1 .. Len(asked') /\ asked'[i].oid = asked[i].oid
    BY <1>1 DEF CallsStay
  <1> QED  BY <1>2 DEF Unused, OwnOid

\* An unused oid has no row after rows went from memory to disk or back.
LEMMA NoTraceCopied ==
    ASSUME NoTrace, \A oid : Unused(oid)' => Unused(oid),
           tables' = tables \/ tables' = disk.tables, columns' = columns \/ columns' = disk.columns,
           disk'.tables = tables \/ disk'.tables = disk.tables,
           disk'.columns = columns \/ disk'.columns = disk.columns
    PROVE  NoTrace'
  <1> SUFFICES ASSUME NEW oid \in Nat \ {0}, Unused(oid)'
               PROVE  /\ ~HasRow(tables', oid) /\ ~HasRow(disk'.tables, oid)
                      /\ ColumnsOf(columns', oid) = << >> /\ ColumnsOf(disk'.columns, oid) = << >>
    BY DEF NoTrace, HasRow, ColumnsOf
  <1>1. /\ ~HasRow(tables, oid) /\ ~HasRow(disk.tables, oid)
        /\ ColumnsOf(columns, oid) = << >> /\ ColumnsOf(disk.columns, oid) = << >>
    BY DEF NoTrace
  <1> QED  BY <1>1

\* The row of a table says what was asked, after such a step too.
LEMMA RowTrueCopied ==
    ASSUME CatalogTypeOK, CatalogTypeOK', NEW c, CopyStep(c), NEW i \in 1 .. Len(asked), RowTrue(i),
           OwnOid(asked, i) => asked'[i].first = asked[i].first \/ Rowless(asked[i].oid),
           c \in Creators /\ pc'[c] \in {"add", "heap", "table_row"} /\ reg'[c].call = i =>
               pc[c] \in {"add", "heap", "table_row"} /\ reg[c].call = i
    PROVE  RowTrue(i)'
  <1> SUFFICES ASSUME OwnOid(asked', i)
               PROVE  /\ RowsSay(tables', asked'[i]) /\ RowsSay(disk'.tables, asked'[i])
                      /\ \A d \in Creators : pc'[d] \in {"add", "heap", "table_row"} /\ reg'[d].call = i =>
                            ~HasRow(tables', asked'[i].oid) /\ ~HasRow(disk'.tables, asked'[i].oid)
    BY DEF RowTrue, Rowless, HasRow, RowsSay, OwnOid
  <1>1. OwnOid(asked, i)
    BY OidsStay DEF CopyStep
  <1>2. /\ tables' = tables
        /\ disk'.tables = tables \/ disk'.tables = disk.tables
        /\ asked'[i].oid = asked[i].oid /\ asked'[i].name = asked[i].name
    BY DEF CopyStep, CallsStay
  <1>3. RowsSay(tables, asked[i]) /\ RowsSay(disk.tables, asked[i])
    BY <1>1 DEF RowTrue
  <1>4. RowsSay(tables, asked'[i]) /\ RowsSay(disk.tables, asked'[i])
    <2>1. CASE asked'[i].first = asked[i].first
      BY <1>2, <1>3, <2>1 DEF RowsSay
    <2>2. CASE Rowless(asked[i].oid)
      BY <1>2, <2>2 DEF RowsSay, Rowless, HasRow
    <2> QED  BY <1>1, <2>1, <2>2
  <1>5. RowsSay(tables', asked'[i]) /\ RowsSay(disk'.tables, asked'[i])
    BY <1>2, <1>4
  <1>6. ASSUME NEW d \in Creators, pc'[d] \in {"add", "heap", "table_row"}, reg'[d].call = i
        PROVE  ~HasRow(tables', asked'[i].oid) /\ ~HasRow(disk'.tables, asked'[i].oid)
    <2>1. pc[d] \in {"add", "heap", "table_row"} /\ reg[d].call = i
      BY <1>6 DEF CopyStep, OthersStay
    <2>2. Rowless(asked[i].oid)
      BY <1>1, <2>1 DEF RowTrue
    <2> QED  BY <1>2, <2>2 DEF Rowless
  <1> QED  BY <1>5, <1>6

\* Of the columns, what is on disk may become as much as there is in the page.
LEMMA ColumnTrueCopied ==
    ASSUME CatalogTypeOK, CatalogTypeOK', NEW c, CopyStep(c), NEW i \in 1 .. Len(asked), ColumnTrue(i),
           \A m, l \in Nat : Progress(i, m, l, asked[i].cols) =>
              /\ asked'[i].done => asked[i].done \/ (l = asked[i].cols /\ disk'.columns = columns)
              /\ c \in Creators /\ pc'[c] # "idle" /\ reg'[c].call = i => StageSays(c, l, asked[i].cols)'
    PROVE  ColumnTrue(i)'
  <1> SUFFICES ASSUME OwnOid(asked, i)' PROVE (\E m, l \in Nat : Progress(i, m, l, asked[i].cols))'
    BY DEF ColumnTrue
  <1>1. OwnOid(asked, i)
    <2>1. OwnOid(asked', i)
      BY DEF OwnOid
    <2> QED  BY <2>1, OidsStay DEF CopyStep
  <1>2. /\ columns' = columns
        /\ disk'.columns = columns \/ disk'.columns = disk.columns
        /\ asked'[i].oid = asked[i].oid /\ asked'[i].cols = asked[i].cols
    BY DEF CopyStep, CallsStay
  <1>3. PICK m \in Nat, l \in Nat : Progress(i, m, l, asked[i].cols)
    BY <1>1 DEF ColumnTrue
  <1>4. PICK n \in Nat, oid \in Nat : n = asked[i].cols /\ oid = asked[i].oid
    <2>1. asked[i].cols \in 1 .. MaxColumns /\ asked[i].oid \in Nat
      BY CallFields
    <2>2. asked[i].cols \in Nat
      BY <2>1, CatalogAssumption
    <2> QED  BY <2>1, <2>2
  <1>5. /\ m <= l /\ l <= n /\ ColumnsOf(disk.columns, oid) = From(0, m)
        /\ ColumnsOf(columns, oid) = From(0, l) /\ (asked[i].done => m = n)
    BY <1>3, <1>4 DEF Progress, Written
  <1>6. PICK m2 \in Nat : /\ m2 = IF disk'.columns = columns THEN l ELSE m
    OBVIOUS
  <1>7. m2 <= l /\ ColumnsOf(disk'.columns, oid) = From(0, m2) /\ ColumnsOf(columns', oid) = From(0, l)
    BY <1>2, <1>5, <1>6
  <1>8. asked'[i].done => m2 = n
    <2>1. asked'[i].done => asked[i].done \/ (l = n /\ disk'.columns = columns)
      BY <1>3, <1>4
    <2> QED  BY <1>5, <1>6, <2>1
  <1>9. Written(m2, l, n, asked[i].oid)'
    BY <1>2, <1>4, <1>5, <1>7 DEF Written, ColumnsOf
  <1>10. ASSUME NEW d \in Creators, pc'[d] # "idle", reg'[d].call = i
         PROVE  StageSays(d, l, n)'
    <2>1. CASE d = c
      <3>1. StageSays(c, l, asked[i].cols)'
        BY <1>3, <1>10, <2>1
      <3> QED  BY <1>2, <1>4, <2>1, <3>1 DEF StageSays
    <2>2. CASE d # c
      <3>1. pc'[d] = pc[d] /\ reg'[d] = reg[d]
        BY <2>2 DEF CopyStep, OthersStay
      <3>2. StageSays(d, l, n)
        BY <1>3, <1>4, <1>10, <3>1 DEF Progress, Creating
      <3> QED  BY <3>1, <3>2 DEF StageSays
    <2> QED  BY <2>1, <2>2
  <1>11. Progress(i, m2, l, n)'
    BY <1>8, <1>9, <1>10 DEF Progress, Creating
  <1> QED  BY <1>2, <1>4, <1>11

\* What is written stays written.
LEMMA RowsWrittenCopied ==
    ASSUME CatalogTypeOK, CatalogTypeOK', NEW c, CopyStep(c), RowsWritten,
           \A i \in 1 .. Len(asked') : asked'[i].done =>
              /\ i \in 1 .. Len(asked)
              /\ asked[i].done \/ (HasRow(tables, asked[i].oid) /\ HasRow(disk.tables, asked[i].oid)),
           c \in Creators /\ pc'[c] \in {"column_rows", "flush_columns"} =>
              /\ HasRow(tables, reg'[c].oid)
              /\ pc'[c] = "flush_columns" => disk'.tables = tables
    PROVE  RowsWritten'
  <1>1. tables' = tables /\ (disk'.tables = tables \/ disk'.tables = disk.tables)
    BY DEF CopyStep
  <1>2. ASSUME NEW i \in 1 .. Len(asked'), asked'[i].done
        PROVE  HasRow(tables', asked'[i].oid) /\ HasRow(disk'.tables, asked'[i].oid)
    <2>1. i \in 1 .. Len(asked) /\ asked'[i].oid = asked[i].oid
      BY <1>2 DEF CopyStep, CallsStay
    <2>2. HasRow(tables, asked[i].oid) /\ HasRow(disk.tables, asked[i].oid)
      BY <1>2, <2>1 DEF RowsWritten
    <2> QED  BY <1>1, <2>1, <2>2
  <1>3. ASSUME NEW d \in Creators, pc'[d] \in {"column_rows", "flush_columns"}
        PROVE  /\ HasRow(tables', reg'[d].oid)
               /\ pc'[d] = "flush_columns" => HasRow(disk'.tables, reg'[d].oid)
    <2>1. CASE d = c
      BY <1>1, <1>3, <2>1
    <2>2. CASE d # c
      <3>1. pc'[d] = pc[d] /\ reg'[d] = reg[d]
        BY <2>2 DEF CopyStep, OthersStay
      <3>2. HasRow(tables, reg[d].oid) /\ (pc[d] = "flush_columns" => HasRow(disk.tables, reg[d].oid))
        BY <1>3, <3>1 DEF RowsWritten
      <3> QED  BY <1>1, <3>1, <3>2
    <2> QED  BY <2>1, <2>2
  <1> QED  BY <1>2, <1>3 DEF RowsWritten, HasRow

\* Steps that no oid is given out in.
LEMMA OidsUntouched ==
    ASSUME CatalogTypeOK, OidsBounded, NEW c, CallsStay(c), Len(asked') = Len(asked),
           nextTableId' = nextTableId, Adders' = Adders
    PROVE  OidsBounded'
  BY DEF OidsBounded, CallsStay

\* The goroutines between reading and raising NextTableId are the same.
LEMMA SameAdders ==
    ASSUME NEW c, OthersStay(c), c \in Creators => pc[c] # "add" /\ pc'[c] # "add"
    PROVE  Adders' = Adders
  <1>1. \A d \in Creators : pc'[d] = "add" <=> pc[d] = "add"
    BY DEF OthersStay
  <1> QED  BY <1>1 DEF Adders

\* The call of a creator.
LEMMA MyCall ==
    ASSUME CatalogTypeOK, CallsApart, NEW c \in Creators, Creating(c)
    PROVE  /\ reg[c].call \in 1 .. Len(asked) /\ reg[c].oid = asked[reg[c].call].oid
           /\ CallSays(pc[c], reg[c], asked)
           /\ \A d \in Creators : d # c /\ Creating(d) => reg[d].call # reg[c].call
  BY DEF CallsApart, CallSays

\* CatalogInv is kept when NextTableId is raised.
LEMMA AddTableIdInv ==
    ASSUME CatalogInv, NEW c \in Creators, AddTableId(c)
    PROVE  CatalogInv'
  <1>1. /\ CatalogTypeOK /\ CallsApart /\ OidsBounded /\ NoTrace /\ RowsWritten /\ RowsTrue /\ ColumnsTrue
    BY DEF CatalogInv
  <1>2. AddTableIdDoes(c) /\ OthersStay(c) /\ CallsStay(c) /\ CatalogTypeOK' /\ CallsApart'
    BY <1>1, AddTableIdFacts
  <1>3. /\ pc[c] = "add" /\ pc'[c] = "heap" /\ reg' = reg /\ asked' = asked
        /\ nextTableId' = nextTableId + 1 /\ tables' = tables /\ columns' = columns /\ disk' = disk
    BY <1>2 DEF AddTableIdDoes
  <1>4. CopyStep(c)
    BY <1>2, <1>3 DEF CopyStep
  <1>5. OidsBounded'
    <2>1. Adders' = Adders \ {c} /\ c \in Adders
      BY <1>2, <1>3 DEF Adders, OthersStay
    <2>2. IsFiniteSet(Adders') /\ Cardinality(Adders') = Cardinality(Adders) - 1 /\ Cardinality(Adders) \in Nat
      BY <1>1, <2>1, FS_RemoveElement, FS_CardinalityType DEF OidsBounded
    <2>3. nextTableId' + Cardinality(Adders') <= Len(asked') + 1
      BY <1>1, <1>3, <2>2 DEF OidsBounded, CatalogTypeOK
    <2> QED  BY <1>1, <1>3, <2>2, <2>3 DEF OidsBounded
  <1>6. NoTrace'
    BY <1>1, <1>2, <1>3, OidsStay, NoTraceCopied
  <1>7. RowsWritten'
    BY <1>1, <1>2, <1>3, <1>4, RowsWrittenCopied
  <1>8. RowsTrue'
    <2>1. ASSUME NEW i \in 1 .. Len(asked) PROVE RowTrue(i)'
      <3>1. RowTrue(i)
        BY <1>1 DEF RowsTrue
      <3> QED  BY <1>1, <1>2, <1>3, <1>4, <3>1, RowTrueCopied
    <2> QED  BY <1>3, <2>1 DEF RowsTrue
  <1>9. ColumnsTrue'
    <2>1. ASSUME NEW i \in 1 .. Len(asked) PROVE ColumnTrue(i)'
      <3>1. ColumnTrue(i)
        BY <1>1 DEF ColumnsTrue
      <3>2. ASSUME NEW m \in Nat, NEW l \in Nat, Progress(i, m, l, asked[i].cols), reg'[c].call = i
            PROVE  StageSays(c, l, asked[i].cols)'
        <4>1. l = 0
          BY <1>3, <3>2 DEF Progress, StageSays, Creating
        <4> QED  BY <1>3, <4>1 DEF StageSays
      <3> QED  BY <1>1, <1>2, <1>3, <1>4, <3>1, <3>2, ColumnTrueCopied
    <2> QED  BY <1>3, <2>1 DEF ColumnsTrue
  <1> QED  BY <1>2, <1>5, <1>6, <1>7, <1>8, <1>9 DEF CatalogInv

\* CatalogInv is kept when the heap of a table is made.
LEMMA NewTableInv ==
    ASSUME CatalogInv, NEW c \in Creators, NewTable(c)
    PROVE  CatalogInv'
  <1>1. /\ CatalogTypeOK /\ CallsApart /\ OidsBounded /\ NoTrace /\ RowsWritten /\ RowsTrue /\ ColumnsTrue
    BY DEF CatalogInv
  <1>2. NewTableDoes(c, reg[c].call) /\ OthersStay(c) /\ CallsStay(c) /\ CatalogTypeOK' /\ CallsApart'
    BY <1>1, NewTableFacts
  <1>3. /\ pc[c] = "heap" /\ pc'[c] = "table_row" /\ reg' = reg /\ Len(asked') = Len(asked)
        /\ nextTableId' = nextTableId /\ tables' = tables /\ columns' = columns /\ disk' = disk
    BY <1>2 DEF NewTableDoes
  <1>4. CopyStep(c)
    BY <1>2, <1>3 DEF CopyStep
  <1>5. OidsBounded'
    <2>1. Adders' = Adders
      BY <1>2, <1>3, SameAdders
    <2> QED  BY <1>1, <1>2, <1>3, <2>1, OidsUntouched
  <1>6. NoTrace'
    BY <1>1, <1>2, <1>3, OidsStay, NoTraceCopied
  <1>7. \A i \in 1 .. Len(asked) : asked'[i].done = asked[i].done /\ (i # reg[c].call => asked'[i] = asked[i])
    BY <1>2 DEF NewTableDoes
  <1>8. RowsWritten'
    BY <1>1, <1>2, <1>3, <1>4, <1>7, RowsWrittenCopied
  <1>9. RowsTrue'
    <2>1. ASSUME NEW i \in 1 .. Len(asked) PROVE RowTrue(i)'
      <3>1. RowTrue(i)
        BY <1>1 DEF RowsTrue
      <3>2. OwnOid(asked, i) => asked'[i].first = asked[i].first \/ Rowless(asked[i].oid)
        BY <1>3, <1>7, <3>1 DEF RowTrue
      <3> QED  BY <1>1, <1>2, <1>3, <1>4, <3>1, <3>2, RowTrueCopied
    <2> QED  BY <1>3, <2>1 DEF RowsTrue
  <1>10. ColumnsTrue'
    <2>1. ASSUME NEW i \in 1 .. Len(asked) PROVE ColumnTrue(i)'
      <3>1. ColumnTrue(i)
        BY <1>1 DEF ColumnsTrue
      <3>2. ASSUME NEW m \in Nat, NEW l \in Nat, Progress(i, m, l, asked[i].cols), reg'[c].call = i
            PROVE  StageSays(c, l, asked[i].cols)'
        <4>1. l = 0
          BY <1>3, <3>2 DEF Progress, StageSays, Creating
        <4> QED  BY <1>3, <4>1 DEF StageSays
      <3> QED  BY <1>1, <1>2, <1>4, <1>7, <3>1, <3>2, ColumnTrueCopied
    <2> QED  BY <1>3, <2>1 DEF ColumnsTrue
  <1> QED  BY <1>2, <1>5, <1>6, <1>8, <1>9, <1>10 DEF CatalogInv

\* CatalogInv is kept when the table of tables is flushed.
LEMMA FlushTablesInv ==
    ASSUME CatalogInv, NEW c \in Creators, FlushTables(c)
    PROVE  CatalogInv'
  <1>1. /\ CatalogTypeOK /\ CallsApart /\ OidsBounded /\ NoTrace /\ RowsWritten /\ RowsTrue /\ ColumnsTrue
    BY DEF CatalogInv
  <1>2. FlushTablesDoes(c, reg[c].call) /\ OthersStay(c) /\ CallsStay(c) /\ CatalogTypeOK' /\ CallsApart'
    BY <1>1, FlushTablesFacts
  <1>3. /\ pc[c] = "column_rows" /\ pc'[c] = "flush_columns" /\ reg' = reg /\ asked' = asked
        /\ nextTableId' = nextTableId /\ tables' = tables /\ columns' = columns
        /\ disk'.tables = tables /\ disk'.columns = disk.columns /\ reg[c].left = << >>
    BY <1>2 DEF FlushTablesDoes, memory
  <1>4. CopyStep(c)
    BY <1>2, <1>3 DEF CopyStep
  <1>5. OidsBounded'
    <2>1. Adders' = Adders
      BY <1>2, <1>3, SameAdders
    <2> QED  BY <1>1, <1>2, <1>3, <2>1, OidsUntouched
  <1>6. NoTrace'
    BY <1>1, <1>2, <1>3, OidsStay, NoTraceCopied
  <1>7. RowsWritten'
    <2>1. HasRow(tables, reg'[c].oid)
      BY <1>1, <1>3 DEF RowsWritten
    <2> QED  BY <1>1, <1>2, <1>3, <1>4, <2>1, RowsWrittenCopied
  <1>8. RowsTrue'
    <2>1. ASSUME NEW i \in 1 .. Len(asked) PROVE RowTrue(i)'
      <3>1. RowTrue(i)
        BY <1>1 DEF RowsTrue
      <3> QED  BY <1>1, <1>2, <1>3, <1>4, <3>1, RowTrueCopied
    <2> QED  BY <1>3, <2>1 DEF RowsTrue
  <1>9. ColumnsTrue'
    <2>1. ASSUME NEW i \in 1 .. Len(asked) PROVE ColumnTrue(i)'
      <3>1. ColumnTrue(i)
        BY <1>1 DEF ColumnsTrue
      <3>2. ASSUME NEW m \in Nat, NEW l \in Nat, Progress(i, m, l, asked[i].cols), reg'[c].call = i
            PROVE  StageSays(c, l, asked[i].cols)'
        <4>1. PICK n \in Nat : n = asked[i].cols
          BY <1>1, ColumnCounts
        <4>2. From(l, n) = << >> /\ l <= n
          BY <1>3, <3>2, <4>1 DEF Progress, StageSays, Creating, Written
        <4>3. l = n
          <5>1. Len(From(l, n)) = n - l
            BY <4>2 DEF From
          <5> QED  BY <4>2, <5>1
        <4> QED  BY <1>3, <4>1, <4>3 DEF StageSays
      <3> QED  BY <1>1, <1>2, <1>3, <1>4, <3>1, <3>2, ColumnTrueCopied
    <2> QED  BY <1>3, <2>1 DEF ColumnsTrue
  <1> QED  BY <1>2, <1>5, <1>6, <1>7, <1>8, <1>9 DEF CatalogInv

\* CatalogInv is kept when the table of columns is flushed and the call returns.
LEMMA FlushColumnsInv ==
    ASSUME CatalogInv, NEW c \in Creators, FlushColumns(c)
    PROVE  CatalogInv'
  <1>1. /\ CatalogTypeOK /\ CallsApart /\ OidsBounded /\ NoTrace /\ RowsWritten /\ RowsTrue /\ ColumnsTrue
    BY DEF CatalogInv
  <1>2. FlushColumnsDoes(c, reg[c].call) /\ OthersStay(c) /\ CallsStay(c) /\ CatalogTypeOK' /\ CallsApart'
    BY <1>1, FlushColumnsFacts
  <1>3. /\ pc[c] = "flush_columns" /\ pc'[c] = "idle" /\ Len(asked') = Len(asked)
        /\ nextTableId' = nextTableId /\ tables' = tables /\ columns' = columns
        /\ disk'.tables = disk.tables /\ disk'.columns = columns
    BY <1>2 DEF FlushColumnsDoes, memory
  <1>4. CopyStep(c)
    BY <1>2, <1>3 DEF CopyStep
  <1>5. OidsBounded'
    <2>1. Adders' = Adders
      BY <1>2, <1>3, SameAdders
    <2> QED  BY <1>1, <1>2, <1>3, <2>1, OidsUntouched
  <1>6. NoTrace'
    BY <1>1, <1>2, <1>3, OidsStay, NoTraceCopied
  <1>7. /\ \A i \in 1 .. Len(asked) : i # reg[c].call => asked'[i] = asked[i]
        /\ asked'[reg[c].call].first = asked[reg[c].call].first
    BY <1>2 DEF FlushColumnsDoes
  <1>8. RowsWritten'
    <2>1. /\ reg[c].oid = asked[reg[c].call].oid
      BY <1>1, <1>3, MyCall DEF Creating
    <2>2. HasRow(tables, asked[reg[c].call].oid) /\ HasRow(disk.tables, asked[reg[c].call].oid)
      BY <1>1, <1>3, <2>1 DEF RowsWritten
    <2> QED  BY <1>1, <1>2, <1>3, <1>4, <1>7, <2>2, RowsWrittenCopied
  <1>9. RowsTrue'
    <2>1. ASSUME NEW i \in 1 .. Len(asked) PROVE RowTrue(i)'
      <3>1. RowTrue(i)
        BY <1>1 DEF RowsTrue
      <3>2. asked'[i].first = asked[i].first
        BY <1>7
      <3> QED  BY <1>1, <1>2, <1>3, <1>4, <3>1, <3>2, RowTrueCopied
    <2> QED  BY <1>3, <2>1 DEF RowsTrue
  <1>10. ColumnsTrue'
    <2>1. ASSUME NEW i \in 1 .. Len(asked) PROVE ColumnTrue(i)'
      <3>1. ColumnTrue(i)
        BY <1>1 DEF ColumnsTrue
      <3>2. ASSUME NEW m \in Nat, NEW l \in Nat, Progress(i, m, l, asked[i].cols)
            PROVE  asked'[i].done => asked[i].done \/ (l = asked[i].cols /\ disk'.columns = columns)
        BY <1>3, <1>7, <3>2 DEF Progress, StageSays, Creating
      <3> QED  BY <1>1, <1>2, <1>3, <1>4, <3>1, <3>2, ColumnTrueCopied
    <2> QED  BY <1>3, <2>1 DEF ColumnsTrue
  <1> QED  BY <1>2, <1>5, <1>6, <1>8, <1>9, <1>10 DEF CatalogInv

\* An eviction, or nothing.
LEMMA EvictPageInv ==
    ASSUME CatalogInv, EvictPageDoes, CatalogTypeOK', CallsApart'
    PROVE  CatalogInv'
  <1>1. /\ CatalogTypeOK /\ CallsApart /\ OidsBounded /\ NoTrace /\ RowsWritten /\ RowsTrue /\ ColumnsTrue
    BY DEF CatalogInv
  <1>2. EvictPageDoes /\ CatalogTypeOK' /\ CallsApart'
    OBVIOUS
  <1>3. /\ pc' = pc /\ reg' = reg /\ asked' = asked
        /\ nextTableId' = nextTableId /\ tables' = tables /\ columns' = columns
    BY <1>2 DEF EvictPageDoes, memory
  <1>4. /\ disk'.tables = tables \/ disk'.tables = disk.tables
        /\ disk'.columns = columns \/ disk'.columns = disk.columns
    BY <1>2 DEF EvictPageDoes
  <1>5. PICK c : c = NoTable
    OBVIOUS
  <1>6. OthersStay(c) /\ CallsStay(c) /\ Len(asked) \in Nat
    BY <1>1, <1>3 DEF OthersStay, CallsStay, CatalogTypeOK
  <1>7. CopyStep(c)
    BY <1>3, <1>4, <1>6 DEF CopyStep
  <1>8. OidsBounded'
    <2>1. Adders' = Adders
      BY <1>3 DEF Adders
    <2> QED  BY <1>1, <1>3, <1>6, <2>1, OidsUntouched
  <1>9. NoTrace'
    BY <1>1, <1>2, <1>3, <1>4, <1>6, OidsStay, NoTraceCopied
  <1>10. RowsWritten'
    BY <1>1, <1>3, <1>4 DEF RowsWritten
  <1>11. RowsTrue'
    <2>1. ASSUME NEW i \in 1 .. Len(asked) PROVE RowTrue(i)'
      <3>1. RowTrue(i)
        BY <1>1 DEF RowsTrue
      <3> QED  BY <1>1, <1>2, <1>3, <1>7, <3>1, RowTrueCopied
    <2> QED  BY <1>3, <2>1 DEF RowsTrue
  <1>12. ColumnsTrue'
    <2>1. ASSUME NEW i \in 1 .. Len(asked) PROVE ColumnTrue(i)'
      <3>1. ColumnTrue(i)
        BY <1>1 DEF ColumnsTrue
      <3>2. ASSUME NEW m \in Nat, NEW l \in Nat, Progress(i, m, l, asked[i].cols),
                   c \in Creators, pc'[c] # "idle", reg'[c].call = i
            PROVE  StageSays(c, l, asked[i].cols)'
        BY <1>3, <3>2 DEF Progress, StageSays, Creating
      <3> QED  BY <1>1, <1>2, <1>3, <1>7, <3>1, <3>2, ColumnTrueCopied
    <2> QED  BY <1>3, <2>1 DEF ColumnsTrue
  <1> QED  BY <1>2, <1>8, <1>9, <1>10, <1>11, <1>12 DEF CatalogInv

\* CatalogInv is kept when a call begins and reads its oid.
LEMMA CreateTableInv ==
    ASSUME CatalogInv, NEW c \in Creators, NEW name \in Names, NEW n \in 1 .. MaxColumns,
           CreateTable(c, name, n)
    PROVE  CatalogInv'
  <1>1. /\ CatalogTypeOK /\ CallsApart /\ OidsBounded /\ NoTrace /\ RowsWritten /\ RowsTrue /\ ColumnsTrue
    BY DEF CatalogInv
  <1>2. CreateTableDoes(c, name, n) /\ OthersStay(c) /\ CallsStay(c) /\ CatalogTypeOK' /\ CallsApart'
    BY <1>1, CreateTableFacts
  <1>3. /\ pc[c] = "idle" /\ pc'[c] = "add" /\ Len(asked) < MaxTables
        /\ nextTableId' = nextTableId /\ tables' = tables /\ columns' = columns /\ disk' = disk
    BY <1>2 DEF CreateTableDoes, memory
  <1>4. CopyStep(c)
    BY <1>2, <1>3 DEF CopyStep
  <1>5. PICK k \in Nat : k = Len(asked) + 1
    BY <1>1 DEF CatalogTypeOK
  <1>6. /\ Len(asked') = k /\ reg'[c].call = k /\ k = Len(asked) + 1 /\ Len(asked) \in Nat
        /\ asked'[k].oid = nextTableId /\ asked'[k].done = FALSE /\ asked'[k].cols = n
        /\ \A i \in 1 .. Len(asked) : asked'[i] = asked[i]
    BY <1>1, <1>2, <1>5 DEF CreateTableDoes, CatalogTypeOK
  <1>7. \A i \in 1 .. Len(asked') : i = k \/ (i # k /\ i \in 1 .. Len(asked))
    BY <1>6
  <1>8. nextTableId \in Nat \ {0}
    BY <1>1 DEF CatalogTypeOK
  <1>9. OidsBounded'
    <2>1. Adders' = Adders \cup {c} /\ c \notin Adders
      BY <1>2, <1>3 DEF Adders, OthersStay
    <2>2. IsFiniteSet(Adders') /\ Cardinality(Adders') = Cardinality(Adders) + 1 /\ Cardinality(Adders) \in Nat
      BY <1>1, <2>1, FS_AddElement, FS_CardinalityType DEF OidsBounded
    <2>3. nextTableId + Cardinality(Adders) <= Len(asked) + 1
      BY <1>1 DEF OidsBounded
    <2>4. nextTableId' + Cardinality(Adders') <= Len(asked') + 1
      BY <1>3, <1>6, <1>8, <2>2, <2>3
    <2>5. k <= MaxTables /\ nextTableId <= MaxTables
      BY <1>3, <1>6, <1>8, <2>2, <2>3, CatalogAssumption
    <2>6. \A i \in 1 .. Len(asked') : asked'[i].oid <= MaxTables
      BY <1>1, <1>6, <1>7, <2>5 DEF OidsBounded
    <2> QED  BY <1>6, <2>2, <2>4, <2>5, <2>6 DEF OidsBounded
  <1>10. NoTrace'
    BY <1>1, <1>2, <1>3, OidsStay, NoTraceCopied
  <1>11. RowsWritten'
    <2>1. \A i \in 1 .. Len(asked') : asked'[i].done => i \in 1 .. Len(asked) /\ asked[i].done
      BY <1>6, <1>7
    <2> QED  BY <1>1, <1>2, <1>3, <1>4, <2>1, RowsWrittenCopied
  \* Nobody works on the new call but c, and its oid is new if it is its own.
  <1>12. ASSUME NEW d \in Creators, pc'[d] # "idle", reg'[d].call = k
         PROVE  d = c
    <2> SUFFICES ASSUME d # c PROVE FALSE
      OBVIOUS
    <2>1. Creating(d) /\ reg[d].call = k
      BY <1>2, <1>12 DEF OthersStay, Creating
    <2>2. reg[d].call \in 1 .. Len(asked)
      BY <1>1, <2>1, MyCall
    <2> QED  BY <1>6, <2>1, <2>2
  <1>13. ASSUME OwnOid(asked', k)
         PROVE  /\ ~HasRow(tables, nextTableId) /\ ~HasRow(disk.tables, nextTableId)
                /\ ColumnsOf(columns, nextTableId) = << >> /\ ColumnsOf(disk.columns, nextTableId) = << >>
    <2>1. ASSUME NEW j \in 1 .. Len(asked) PROVE asked[j].oid # nextTableId
      <3>1. j \in 1 .. Len(asked') /\ j # k /\ asked'[j] = asked[j]
        BY <1>6
      <3> QED  BY <1>6, <1>13, <3>1 DEF OwnOid
    <2>2. Unused(nextTableId)
      BY <2>1 DEF Unused
    <2> QED  BY <1>1, <1>8, <2>2 DEF NoTrace
  <1>14. RowsTrue'
    <2>1. ASSUME NEW i \in 1 .. Len(asked) PROVE RowTrue(i)'
      <3>1. RowTrue(i) /\ asked'[i] = asked[i] /\ reg'[c].call # i
        BY <1>1, <1>6 DEF RowsTrue
      <3> QED  BY <1>1, <1>2, <1>4, <3>1, RowTrueCopied
    <2>2. RowTrue(k)'
      <3> SUFFICES ASSUME OwnOid(asked, k)'
                   PROVE  /\ RowsSay(tables, asked[k])' /\ RowsSay(disk.tables, asked[k])'
                          /\ Rowless(asked[k].oid)'
        BY DEF RowTrue
      <3>1. OwnOid(asked', k)
        BY DEF OwnOid
      <3>2. ~HasRow(tables, nextTableId) /\ ~HasRow(disk.tables, nextTableId)
        BY <1>13, <3>1
      <3> QED  BY <1>3, <1>6, <3>2 DEF RowsSay, HasRow, Rowless
    <2> QED  BY <1>7, <2>1, <2>2 DEF RowsTrue
  <1>15. ColumnsTrue'
    <2>1. ASSUME NEW i \in 1 .. Len(asked) PROVE ColumnTrue(i)'
      <3>1. ColumnTrue(i) /\ asked'[i] = asked[i] /\ reg'[c].call # i
        BY <1>1, <1>6 DEF ColumnsTrue
      <3> QED  BY <1>1, <1>2, <1>4, <3>1, ColumnTrueCopied
    <2>2. ColumnTrue(k)'
      <3> SUFFICES ASSUME OwnOid(asked, k)' PROVE Progress(k, 0, 0, asked[k].cols)'
        BY DEF ColumnTrue
      <3>1. OwnOid(asked', k)
        BY DEF OwnOid
      <3>2. ColumnsOf(columns, nextTableId) = << >> /\ ColumnsOf(disk.columns, nextTableId) = << >>
        BY <1>13, <3>1
      <3>3. From(0, 0) = << >>
        BY DEF From
      <3>4. n \in Nat /\ 0 <= n
        BY CatalogAssumption
      <3>5. Written(0, 0, asked[k].cols, asked[k].oid)'
        BY <1>3, <1>6, <3>2, <3>3, <3>4 DEF Written, ColumnsOf
      <3>6. StageSays(c, 0, asked[k].cols)'
        BY <1>3 DEF StageSays
      <3> QED  BY <1>6, <1>12, <3>5, <3>6 DEF Progress, Creating
    <2> QED  BY <1>7, <2>1, <2>2 DEF ColumnsTrue
  <1> QED  BY <1>2, <1>9, <1>10, <1>11, <1>14, <1>15 DEF CatalogInv

\* CatalogInv is kept when the row of a table is written.
LEMMA InsertTableRowInv ==
    ASSUME CatalogInv, NEW c \in Creators, InsertTableRow(c)
    PROVE  CatalogInv'
  <1>1. /\ CatalogTypeOK /\ CallsApart /\ OidsBounded /\ NoTrace /\ RowsWritten /\ RowsTrue /\ ColumnsTrue
    BY DEF CatalogInv
  <1>2. InsertTableRowDoes(c, reg[c].call) /\ OthersStay(c) /\ CallsStay(c) /\ CatalogTypeOK' /\ CallsApart'
    BY <1>1, InsertTableRowFacts
  <1>3. PICK k \in 1 .. Len(asked) : k = reg[c].call
    BY <1>2 DEF InsertTableRowDoes
  <1>4. /\ pc[c] = "table_row" /\ pc'[c] = "column_rows" /\ asked' = asked
        /\ nextTableId' = nextTableId /\ columns' = columns /\ disk' = disk
        /\ reg'[c] = [oid |-> asked[k].oid, left |-> [i \in 1 .. asked[k].cols |-> i], call |-> k]
    BY <1>2, <1>3 DEF InsertTableRowDoes, memory
  <1>5. /\ Len(tables) \in Nat /\ Len(tables') = Len(tables) + 1
        /\ tables'[Len(tables) + 1] = [oid |-> asked[k].oid, name |-> asked[k].name, first |-> asked[k].first]
        /\ \A j \in 1 .. Len(tables) : tables'[j] = tables[j]
    BY <1>1, <1>2, <1>3 DEF InsertTableRowDoes, CatalogTypeOK
  <1>6. /\ \A j \in 1 .. Len(tables') : j = Len(tables) + 1 \/ j \in 1 .. Len(tables)
        /\ \A j \in 1 .. Len(tables) : j \in 1 .. Len(tables')
        /\ Len(tables) + 1 \in 1 .. Len(tables')
    BY <1>5
  <1>7. \A oid : HasRow(tables', oid) <=> HasRow(tables, oid) \/ oid = asked[k].oid
    BY <1>5, <1>6 DEF HasRow
  <1>8. OidsBounded'
    <2>1. Adders' = Adders
      BY <1>2, <1>4, SameAdders
    <2> QED  BY <1>1, <1>2, <1>4, <2>1, OidsUntouched
  <1>9. NoTrace'
    <2> SUFFICES ASSUME NEW oid \in Nat \ {0}, Unused(oid)'
                 PROVE  /\ ~HasRow(tables', oid) /\ ~HasRow(disk'.tables, oid)
                        /\ ColumnsOf(columns', oid) = << >> /\ ColumnsOf(disk'.columns, oid) = << >>
      BY DEF NoTrace, HasRow, ColumnsOf
    <2>1. Unused(oid)
      BY <1>4 DEF Unused
    <2>2. oid # asked[k].oid
      BY <2>1 DEF Unused
    <2> QED  BY <1>1, <1>4, <1>7, <2>1, <2>2 DEF NoTrace
  <1>10. RowsWritten'
    <2>1. ASSUME NEW i \in 1 .. Len(asked'), asked'[i].done
          PROVE  HasRow(tables', asked'[i].oid) /\ HasRow(disk'.tables, asked'[i].oid)
      BY <1>1, <1>4, <1>7, <2>1 DEF RowsWritten
    <2>2. ASSUME NEW d \in Creators, pc'[d] \in {"column_rows", "flush_columns"}
          PROVE  /\ HasRow(tables', reg'[d].oid)
                 /\ pc'[d] = "flush_columns" => HasRow(disk'.tables, reg'[d].oid)
      <3>1. CASE d = c
        BY <1>4, <1>7, <3>1
      <3>2. CASE d # c
        BY <1>1, <1>2, <1>4, <1>7, <2>2, <3>2 DEF RowsWritten, OthersStay
      <3> QED  BY <3>1, <3>2
    <2> QED  BY <2>1, <2>2 DEF RowsWritten, HasRow
  \* The early calls are those of the others.
  <1>11. ASSUME NEW d \in Creators, pc'[d] # "idle", d # c
         PROVE  pc'[d] = pc[d] /\ reg'[d] = reg[d] /\ reg[d].call # k /\ Creating(d)
    <2>1. pc'[d] = pc[d] /\ reg'[d] = reg[d] /\ Creating(d) /\ Creating(c)
      BY <1>2, <1>4, <1>11 DEF OthersStay, Creating
    <2> QED  BY <1>1, <1>3, <1>11, <2>1, MyCall
  <1>12. RowsTrue'
    <2>1. ASSUME NEW i \in 1 .. Len(asked) PROVE RowTrue(i)'
      <3> SUFFICES ASSUME OwnOid(asked, i)'
                   PROVE  /\ RowsSay(tables, asked[i])' /\ RowsSay(disk.tables, asked[i])'
                          /\ \A d \in Creators : pc'[d] \in {"add", "heap", "table_row"} /\ reg'[d].call = i =>
                                Rowless(asked[i].oid)'
        BY DEF RowTrue
      <3>0. OwnOid(asked, i)
        BY <1>4 DEF OwnOid
      <3>1. RowTrue(i) /\ RowsSay(tables, asked[i]) /\ RowsSay(disk.tables, asked[i])
        BY <1>1, <3>0 DEF RowsTrue, RowTrue
      <3>2. i # k => asked[k].oid # asked[i].oid
        BY <3>0 DEF OwnOid
      <3>3. RowsSay(tables', asked[i])
        <4>1. ASSUME NEW j \in 1 .. Len(tables'), tables'[j].oid = asked[i].oid
              PROVE  tables'[j].name = asked[i].name /\ tables'[j].first = asked[i].first
          <5>1. CASE j = Len(tables) + 1
            BY <1>5, <3>2, <4>1, <5>1
          <5>2. CASE j \in 1 .. Len(tables)
            BY <1>5, <3>1, <4>1, <5>2 DEF RowsSay
          <5> QED  BY <1>6, <5>1, <5>2
        <4> QED  BY <4>1 DEF RowsSay
      <3>4. ASSUME NEW d \in Creators, pc'[d] \in {"add", "heap", "table_row"}, reg'[d].call = i
            PROVE  ~HasRow(tables', asked[i].oid) /\ ~HasRow(disk.tables, asked[i].oid)
        <4>1. d # c
          BY <1>4, <3>4
        <4>2. pc[d] \in {"add", "heap", "table_row"} /\ reg[d].call = i /\ i # k
          BY <1>11, <3>4, <4>1
        <4>3. Rowless(asked[i].oid)
          BY <3>0, <3>1, <4>2 DEF RowTrue
        <4> QED  BY <1>7, <3>2, <4>2, <4>3 DEF Rowless
      <3> QED  BY <1>4, <3>1, <3>3, <3>4 DEF RowsSay, Rowless, HasRow
    <2> QED  BY <1>4, <2>1 DEF RowsTrue
  <1>13. ColumnsTrue'
    <2>1. ASSUME NEW i \in 1 .. Len(asked), OwnOid(asked, i)
          PROVE  (\E m, l \in Nat : Progress(i, m, l, asked[i].cols))'
      <3>1. PICK m \in Nat, l \in Nat : Progress(i, m, l, asked[i].cols)
        BY <1>1, <2>1 DEF ColumnsTrue, ColumnTrue
      <3>2. PICK n \in Nat : n = asked[i].cols
        BY <1>1, ColumnCounts
      <3>3. Written(m, l, n, asked[i].oid)' /\ (asked'[i].done => m = n)
        BY <1>4, <3>1, <3>2 DEF Progress, Written, ColumnsOf
      <3>4. ASSUME NEW d \in Creators, pc'[d] # "idle", reg'[d].call = i
            PROVE  StageSays(d, l, n)'
        <4>1. CASE d = c
          <5>1. i = k /\ l = 0 /\ reg'[c].left = [j \in 1 .. n |-> j]
            BY <1>3, <1>4, <3>1, <3>2, <3>4, <4>1 DEF Progress, StageSays, Creating
          <5>2. From(0, n) = [j \in 1 .. n |-> j]
            <6>1. n - 0 = n /\ \A j \in 1 .. n : 0 + j = j
              OBVIOUS
            <6> QED  BY <6>1 DEF From
          <5> QED  BY <1>4, <4>1, <5>1, <5>2 DEF StageSays
        <4>2. CASE d # c
          <5>1. pc'[d] = pc[d] /\ reg'[d] = reg[d] /\ Creating(d)
            BY <1>11, <3>4, <4>2
          <5>2. StageSays(d, l, n)
            BY <3>1, <3>2, <3>4, <5>1 DEF Progress
          <5> QED  BY <5>1, <5>2 DEF StageSays
        <4> QED  BY <4>1, <4>2
      <3>5. Progress(i, m, l, n)'
        BY <3>3, <3>4 DEF Progress, Creating
      <3> QED  BY <1>4, <3>2, <3>5
    <2> QED  BY <1>4, <2>1 DEF ColumnsTrue, ColumnTrue, OwnOid
  <1> QED  BY <1>2, <1>8, <1>9, <1>10, <1>12, <1>13 DEF CatalogInv

\* The columns that are left, one by one.
LEMMA FromStep ==
    ASSUME NEW l \in Nat, NEW n \in Nat, l <= n, From(l, n) # << >>
    PROVE  /\ l < n /\ Head(From(l, n)) = l + 1 /\ Tail(From(l, n)) = From(l + 1, n)
           /\ Append(From(0, l), l + 1) = From(0, l + 1)
  <1>1. PICK r \in Nat : r = n - l
    OBVIOUS
  <1>2. From(l, n) = [k \in 1 .. r |-> l + k]
    BY <1>1 DEF From
  <1>3. r # 0
    BY <1>2
  <1>4. l < n /\ r - 1 \in Nat /\ r - 1 = n - (l + 1) /\ 1 \in 1 .. r
    BY <1>1, <1>3
  <1>5. Len(From(l, n)) = r /\ From(l, n) \in Seq(Nat)
    BY <1>2
  <1>6. Head(From(l, n)) = l + 1
    BY <1>2, <1>4, <1>5
  <1>7. Tail(From(l, n)) = From(l + 1, n)
    <2>1. PICK s \in Seq(Nat) : s = From(l, n)
      BY <1>5
    <2>2. s # << >> /\ Len(s) = r
      BY <1>5, <2>1
    <2>3. Tail(s) \in Seq(Nat) /\ Len(Tail(s)) = r - 1 /\ \A k \in 1 .. r - 1 : Tail(s)[k] = s[k + 1]
      BY <2>1, <2>2
    <2>4. ASSUME NEW k \in 1 .. r - 1 PROVE s[k + 1] = (l + 1) + k
      <3>1. k + 1 \in 1 .. r /\ l + (k + 1) = (l + 1) + k
        BY <1>4
      <3> QED  BY <1>2, <2>1, <3>1
    <2>5. PICK q \in Nat, l1 \in Nat : q = r - 1 /\ l1 = l + 1
      BY <1>4
    <2>6. PICK t : t = [k \in 1 .. q |-> l1 + k]
      OBVIOUS
    <2>7. From(l + 1, n) = t
      BY <1>4, <2>5, <2>6 DEF From
    <2>8. t \in Seq(Nat) /\ Len(t) = q /\ \A k \in 1 .. q : t[k] = l1 + k
      BY <2>6
    <2>9. Len(Tail(s)) = Len(t) /\ \A k \in 1 .. Len(Tail(s)) : Tail(s)[k] = t[k]
      BY <2>3, <2>4, <2>5, <2>8
    <2>10. Tail(s) = From(l + 1, n)
      BY <2>3, <2>7, <2>8, <2>9, SeqEqual
    <2> QED  BY <2>1, <2>10
  <1>8. Append(From(0, l), l + 1) = From(0, l + 1)
    <2>1. PICK s : s = [k \in 1 .. l |-> k]
      OBVIOUS
    <2>2. From(0, l) = s /\ From(0, l + 1) = [k \in 1 .. l + 1 |-> k]
      <3>1. /\ l - 0 = l /\ (l + 1) - 0 = l + 1
            /\ \A k \in 1 .. l : 0 + k = k
            /\ \A k \in 1 .. l + 1 : 0 + k = k
        OBVIOUS
      <3> QED  BY <2>1, <3>1 DEF From
    <2>3. s \in Seq(Nat) /\ Len(s) = l /\ \A k \in 1 .. l : s[k] = k
      BY <2>1
    <2>4. Append(s, l + 1) = [k \in 1 .. l + 1 |-> IF k = l + 1 THEN l + 1 ELSE s[k]]
      BY <2>3
    <2>5. \A k \in 1 .. l + 1 : (IF k = l + 1 THEN l + 1 ELSE s[k]) = k
      BY <2>3
    <2> QED  BY <2>2, <2>4, <2>5
  <1> QED  BY <1>4, <1>6, <1>7, <1>8

\* CatalogInv is kept when a row of a column is written.
LEMMA InsertColumnRowInv ==
    ASSUME CatalogInv, NEW c \in Creators, InsertColumnRow(c)
    PROVE  CatalogInv'
  <1>1. /\ CatalogTypeOK /\ CallsApart /\ OidsBounded /\ NoTrace /\ RowsWritten /\ RowsTrue /\ ColumnsTrue
    BY DEF CatalogInv
  <1>2. InsertColumnRowDoes(c, reg[c].call) /\ OthersStay(c) /\ CallsStay(c) /\ CatalogTypeOK' /\ CallsApart'
    BY <1>1, InsertColumnRowFacts
  <1>3. PICK k \in 1 .. Len(asked) : k = reg[c].call
    BY <1>2 DEF InsertColumnRowDoes
  <1>4. /\ pc[c] = "column_rows" /\ pc' = pc /\ asked' = asked
        /\ nextTableId' = nextTableId /\ tables' = tables /\ disk' = disk
        /\ reg'[c] = [oid |-> asked[k].oid, left |-> Tail(reg[c].left), call |-> k]
        /\ reg[c].left # << >> /\ reg[c].left \in Seq(Nat)
        /\ columns' = Append(columns, [oid |-> asked[k].oid, column |-> Head(reg[c].left)])
    BY <1>2, <1>3 DEF InsertColumnRowDoes, memory
  <1>5. Creating(c) /\ reg[c].oid = asked[k].oid
    <2>1. Creating(c)
      BY <1>4 DEF Creating
    <2> QED  BY <1>1, <1>3, <2>1, MyCall
  <1>6. PICK h \in Nat : h = Head(reg[c].left)
    BY <1>4
  <1>7. \A oid : ColumnsOf(columns', oid) =
                    IF asked[k].oid = oid THEN Append(ColumnsOf(columns, oid), h) ELSE ColumnsOf(columns, oid)
    <2>1. PICK row : row = [oid |-> asked[k].oid, column |-> h]
      OBVIOUS
    <2>2. row \in ColumnRow /\ row.oid = asked[k].oid /\ row.column = h
      BY <1>1, <2>1, CallFields DEF ColumnRow
    <2>3. columns \in Seq(ColumnRow) /\ columns' = Append(columns, row)
      BY <1>1, <1>4, <1>6, <2>1 DEF CatalogTypeOK
    <2>4. \A oid : ColumnsOf(Append(columns, row), oid) = Pick(ColumnsOf(columns, oid), row, oid)
      BY <2>2, <2>3, ColumnsAppended
    <2> QED  BY <2>2, <2>3, <2>4 DEF Pick
  <1>8. OidsBounded'
    <2>1. Adders' = Adders
      BY <1>4 DEF Adders
    <2> QED  BY <1>1, <1>2, <1>4, <2>1, OidsUntouched
  <1>9. NoTrace'
    <2> SUFFICES ASSUME NEW oid \in Nat \ {0}, Unused(oid)'
                 PROVE  /\ ~HasRow(tables', oid) /\ ~HasRow(disk'.tables, oid)
                        /\ ColumnsOf(columns', oid) = << >> /\ ColumnsOf(disk'.columns, oid) = << >>
      BY DEF NoTrace, HasRow, ColumnsOf
    <2>1. Unused(oid)
      BY <1>4 DEF Unused
    <2>2. oid # asked[k].oid
      BY <2>1 DEF Unused
    <2> QED  BY <1>1, <1>4, <1>7, <2>1, <2>2 DEF NoTrace
  <1>10. \A d \in Creators : reg'[d].oid = reg[d].oid /\ reg'[d].call = reg[d].call
    <2>1. reg'[c].oid = reg[c].oid /\ reg'[c].call = reg[c].call
      BY <1>3, <1>4, <1>5
    <2>2. \A d \in Creators : d # c => reg'[d] = reg[d]
      BY <1>2 DEF OthersStay
    <2> QED  BY <2>1, <2>2
  <1>11. RowsWritten'
    BY <1>1, <1>4, <1>10 DEF RowsWritten
  <1>12. RowsTrue'
    <2>1. ASSUME NEW i \in 1 .. Len(asked) PROVE RowTrue(i)'
      <3> SUFFICES ASSUME OwnOid(asked, i)'
                   PROVE  /\ RowsSay(tables, asked[i])' /\ RowsSay(disk.tables, asked[i])'
                          /\ \A d \in Creators : pc'[d] \in {"add", "heap", "table_row"} /\ reg'[d].call = i =>
                                Rowless(asked[i].oid)'
        BY DEF RowTrue
      <3>1. OwnOid(asked, i)
        BY <1>4 DEF OwnOid
      <3>2. /\ RowTrue(i) /\ RowsSay(tables, asked[i]) /\ RowsSay(disk.tables, asked[i])
            /\ \A d \in Creators : pc[d] \in {"add", "heap", "table_row"} /\ reg[d].call = i =>
                  Rowless(asked[i].oid)
        BY <1>1, <3>1 DEF RowsTrue, RowTrue
      <3> QED  BY <1>4, <1>10, <3>2 DEF RowsSay, Rowless, HasRow
    <2> QED  BY <1>4, <2>1 DEF RowsTrue
  <1>13. ColumnsTrue'
    <2>1. ASSUME NEW i \in 1 .. Len(asked), OwnOid(asked, i)
          PROVE  (\E m, l \in Nat : Progress(i, m, l, asked[i].cols))'
      <3>1. PICK m \in Nat, l \in Nat : Progress(i, m, l, asked[i].cols)
        BY <1>1, <2>1 DEF ColumnsTrue, ColumnTrue
      <3>2. PICK n \in Nat : n = asked[i].cols
        BY <1>1, ColumnCounts
      <3>3. /\ m <= l /\ l <= n /\ ColumnsOf(disk.columns, asked[i].oid) = From(0, m)
            /\ ColumnsOf(columns, asked[i].oid) = From(0, l) /\ (asked[i].done => m = n)
        BY <3>1, <3>2 DEF Progress, Written
      <3>4. CASE i # k
        <4>1. asked[k].oid # asked[i].oid
          BY <2>1, <3>4 DEF OwnOid
        <4>2. ColumnsOf(columns', asked[i].oid) = From(0, l)
          BY <1>7, <3>3, <4>1
        <4>3. Written(m, l, n, asked[i].oid)'
          <5>1. ColumnsOf(disk'.columns, asked'[i].oid) = From(0, m) /\ ColumnsOf(columns', asked'[i].oid) = From(0, l)
            BY <1>4, <3>3, <4>2
          <5> QED  BY <3>3, <5>1 DEF Written, ColumnsOf
        <4>4. ASSUME NEW d \in Creators, pc'[d] # "idle", reg'[d].call = i
              PROVE  StageSays(d, l, n)'
          <5>1. d # c /\ pc'[d] = pc[d] /\ reg'[d] = reg[d]
            BY <1>2, <1>4, <3>4, <4>4 DEF OthersStay
          <5>2. StageSays(d, l, n)
            BY <3>1, <3>2, <4>4, <5>1 DEF Progress, Creating
          <5> QED  BY <5>1, <5>2 DEF StageSays
        <4>5. Progress(i, m, l, n)'
          BY <1>4, <3>3, <4>3, <4>4 DEF Progress, Creating
        <4> QED  BY <1>4, <3>2, <4>5
      <3>5. CASE i = k
        <4>1. reg[c].left = From(l, n)
          BY <1>3, <1>4, <1>5, <3>1, <3>2, <3>5 DEF Progress, StageSays
        <4>2. /\ l < n /\ h = l + 1 /\ Tail(reg[c].left) = From(l + 1, n)
              /\ Append(From(0, l), l + 1) = From(0, l + 1)
          BY <1>4, <1>6, <3>3, <4>1, FromStep
        <4>3. ColumnsOf(columns', asked[i].oid) = From(0, l + 1)
          BY <1>7, <3>3, <3>5, <4>2
        <4>4. l + 1 \in Nat /\ m <= l + 1 /\ l + 1 <= n
          BY <3>3, <4>2
        <4>5. Written(m, l + 1, n, asked[i].oid)'
          <5>1. /\ ColumnsOf(disk'.columns, asked'[i].oid) = From(0, m)
                /\ ColumnsOf(columns', asked'[i].oid) = From(0, l + 1)
            BY <1>4, <3>3, <4>3
          <5> QED  BY <4>4, <5>1 DEF Written, ColumnsOf
        <4>6. ASSUME NEW d \in Creators, pc'[d] # "idle", reg'[d].call = i
              PROVE  StageSays(d, l + 1, n)'
          <5>1. d = c
            <6>1. Creating(d) /\ reg[d].call = reg[c].call
              BY <1>3, <1>4, <1>10, <3>5, <4>6 DEF Creating
            <6> QED  BY <1>1, <1>5, <6>1, MyCall
          <5>2. pc'[d] = "column_rows" /\ reg'[d].left = From(l + 1, n)
            <6>1. reg'[c].left = Tail(reg[c].left)
              BY <1>4
            <6> QED  BY <1>4, <4>2, <5>1, <6>1, Zenon
          <5> QED  BY <5>2 DEF StageSays
        <4>7. Progress(i, m, l + 1, n)'
          BY <1>4, <3>3, <4>5, <4>6 DEF Progress, Creating
        <4> QED  BY <1>4, <3>2, <4>4, <4>7
      <3> QED  BY <3>4, <3>5
    <2> QED  BY <1>4, <2>1 DEF ColumnsTrue, ColumnTrue, OwnOid
  <1> QED  BY <1>2, <1>8, <1>9, <1>11, <1>12, <1>13 DEF CatalogInv

\* A restart forgets who is creating what, and finds the rows of the disk.
LEMMA RestartInv ==
    ASSUME CatalogInv, NEW t, NEW k, NEW p, RestartDoes(t, k, p), CatalogTypeOK', CallsApart',
           t = tables \/ t = disk.tables, k = columns \/ k = disk.columns
    PROVE  CatalogInv'
  <1>1. /\ CatalogTypeOK /\ CallsApart /\ OidsBounded /\ NoTrace /\ RowsWritten /\ RowsTrue /\ ColumnsTrue
    BY DEF CatalogInv
  <1>2. /\ tables' = t /\ columns' = k /\ disk'.tables = t /\ disk'.columns = k
        /\ nextTableId' = 1 /\ asked' = asked /\ \A c \in Creators : pc'[c] = "idle"
    BY DEF RestartDoes
  <1>3. OidsBounded'
    <2>1. Adders' = {}
      BY <1>2 DEF Adders
    <2>2. IsFiniteSet({}) /\ Cardinality({}) = 0
      BY FS_EmptySet
    <2>3. Len(asked) \in Nat /\ 1 + 0 <= Len(asked) + 1
      BY <1>1, SMTT(30) DEF CatalogTypeOK
    <2>4. Len(asked) <= MaxTables /\ \A i \in 1 .. Len(asked) : asked[i].oid <= MaxTables
      BY <1>1 DEF OidsBounded
    <2> QED  BY <1>2, <2>1, <2>2, <2>3, <2>4 DEF OidsBounded
  <1>4. NoTrace'
    <2>1. \A oid : Unused(oid)' => Unused(oid)
      BY <1>2 DEF Unused
    <2> QED  BY <1>1, <1>2, <2>1, NoTraceCopied
  <1>5. RowsWritten'
    BY <1>1, <1>2 DEF RowsWritten
  <1>6. RowsTrue'
    <2>1. ASSUME NEW i \in 1 .. Len(asked) PROVE RowTrue(i)'
      <3> SUFFICES ASSUME OwnOid(asked, i)'
                   PROVE  RowsSay(tables, asked[i])' /\ RowsSay(disk.tables, asked[i])'
        BY <1>2 DEF RowTrue
      <3>1. OwnOid(asked, i)
        BY <1>2 DEF OwnOid
      <3>2. RowsSay(tables, asked[i]) /\ RowsSay(disk.tables, asked[i])
        BY <1>1, <3>1 DEF RowsTrue, RowTrue
      <3>3. RowsSay(t, asked[i])
        BY <3>2
      <3> QED  BY <1>2, <3>3 DEF RowsSay
    <2> QED  BY <1>2, <2>1 DEF RowsTrue
  <1>7. ColumnsTrue'
    <2>1. ASSUME NEW i \in 1 .. Len(asked), OwnOid(asked, i)
          PROVE  (\E m, l \in Nat : Progress(i, m, l, asked[i].cols))'
      <3>1. PICK m \in Nat, l \in Nat : Progress(i, m, l, asked[i].cols)
        BY <1>1, <2>1 DEF ColumnsTrue, ColumnTrue
      <3>2. PICK n \in Nat : n = asked[i].cols
        BY <1>1, ColumnCounts
      <3>3. /\ m <= l /\ l <= n /\ ColumnsOf(disk.columns, asked[i].oid) = From(0, m)
            /\ ColumnsOf(columns, asked[i].oid) = From(0, l) /\ (asked[i].done => m = n)
        BY <3>1, <3>2 DEF Progress, Written
      <3>4. PICK q \in Nat : q <= n /\ ColumnsOf(k, asked[i].oid) = From(0, q) /\ (asked[i].done => q = n)
        <4>1. CASE k = columns
          BY <3>3, <4>1
        <4>2. CASE k = disk.columns
          BY <3>3, <4>2
        <4> QED  BY <4>1, <4>2
      <3>5. Written(q, q, n, asked[i].oid)'
        <4>1. ColumnsOf(disk'.columns, asked'[i].oid) = From(0, q) /\ ColumnsOf(columns', asked'[i].oid) = From(0, q)
          BY <1>2, <3>4
        <4> QED  BY <3>4, <4>1 DEF Written, ColumnsOf
      <3>6. Progress(i, q, q, n)'
        BY <1>2, <3>4, <3>5 DEF Progress, Creating
      <3> QED  BY <1>2, <3>2, <3>6
    <2> QED  BY <1>2, <2>1 DEF ColumnsTrue, ColumnTrue, OwnOid
  <1> QED  BY <1>3, <1>4, <1>5, <1>6, <1>7 DEF CatalogInv

\* CatalogInv holds of a new database.
LEMMA CatalogInitially == CatalogInit => CatalogInv
  <1> SUFFICES ASSUME CatalogInit PROVE CatalogInv
    OBVIOUS
  <1>1. CatalogTypeOK /\ CallsApart
    BY BootTypes
  <1>2. /\ tables = <<BootRow>> /\ columns = <<BootColumn>> /\ disk.tables = tables /\ disk.columns = columns
        /\ nextTableId = 1 /\ asked = << >> /\ \A c \in Creators : pc[c] = "idle"
    BY DEF CatalogInit
  <1>3. Len(asked) = 0 /\ \A i : i \notin 1 .. Len(asked)
    BY <1>2
  <1>4. OidsBounded
    <2>1. Adders = {}
      BY <1>2 DEF Adders
    <2>2. IsFiniteSet({}) /\ Cardinality({}) = 0
      BY FS_EmptySet
    <2> QED  BY <1>2, <1>3, <2>1, <2>2, CatalogAssumption DEF OidsBounded
  <1>5. NoTrace
    <2>1. BootRow.oid = 0 /\ BootColumn \in ColumnRow /\ BootColumn.oid = 0
      BY DEF BootRow, BootColumn, ColumnRow, ColumnsCatalogOID
    <2>2. ASSUME NEW oid \in Nat \ {0}
          PROVE  ~HasRow(tables, oid) /\ ColumnsOf(columns, oid) = << >>
      <3>1. Len(tables) = 1 /\ tables[1].oid = 0
        BY <1>2, <2>1
      <3>2. ~HasRow(tables, oid)
        BY <3>1 DEF HasRow
      <3>3. ColumnsOf(<<BootColumn>>, oid) = << >>
        BY <2>1, ColumnsOfOne
      <3> QED  BY <1>2, <3>2, <3>3
    <2> QED  BY <1>2, <2>2 DEF NoTrace
  <1>6. RowsWritten
    BY <1>2, <1>3 DEF RowsWritten
  <1>7. RowsTrue /\ ColumnsTrue
    BY <1>3 DEF RowsTrue, ColumnsTrue
  <1> QED  BY <1>1, <1>4, <1>5, <1>6, <1>7 DEF CatalogInv

\* CatalogInv is kept by every step.
LEMMA CatalogStep == CatalogInv /\ [CatalogNext]_catalogVars => CatalogInv'
  <1> SUFFICES ASSUME CatalogInv, [CatalogNext]_catalogVars PROVE CatalogInv'
    OBVIOUS
  <1>0. CatalogTypeOK /\ CallsApart
    BY DEF CatalogInv
  <1>1. ASSUME NEW c \in Creators, NEW name \in Names, NEW n \in 1 .. MaxColumns, CreateTable(c, name, n)
        PROVE  CatalogInv'
    BY <1>1, CreateTableInv
  <1>2. ASSUME NEW c \in Creators, \/ AddTableId(c) \/ NewTable(c) \/ InsertTableRow(c)
                                   \/ InsertColumnRow(c) \/ FlushTables(c) \/ FlushColumns(c)
        PROVE  CatalogInv'
    BY <1>2, AddTableIdInv, NewTableInv, InsertTableRowInv, InsertColumnRowInv, FlushTablesInv, FlushColumnsInv
  <1>3. CASE EvictPage
    BY <1>0, <1>3, EvictPageFacts, EvictPageInv
  <1>4. CASE Shutdown
    <2>1. PICK p \in Nat \ {0} : RestartDoes(tables, columns, p)
      BY <1>0, <1>4, ShutdownFacts
    <2>2. CatalogTypeOK' /\ CallsApart'
      BY <1>0, <1>4, ShutdownFacts
    <2> QED  BY <2>1, <2>2, RestartInv
  <1>5. CASE Crash
    <2>1. RestartDoes(disk.tables, disk.columns, disk.pages) /\ CatalogTypeOK' /\ CallsApart'
      BY <1>0, <1>5, CrashFacts
    <2> QED  BY <2>1, RestartInv
  <1>6. CASE UNCHANGED catalogVars
    <2>1. /\ UNCHANGED <<memory, tables, columns, nextPageID, pc, reg, asked, restarts, crashed>>
          /\ disk' = disk
      BY <1>6 DEF catalogVars
    <2>2. EvictPageDoes
      BY <2>1 DEF EvictPageDoes
    <2>3. CatalogTypeOK' /\ CallsApart'
      BY <1>0, <2>1 DEF CatalogTypeOK, CallsApart, Creating, memory
    <2> QED  BY <2>2, <2>3, EvictPageInv
  <1> QED  BY <1>1, <1>2, <1>3, <1>4, <1>5, <1>6 DEF CatalogNext

\* The greatest of some rows is one of them.
LEMMA LastOne ==
    ASSUME NEW n \in Nat, NEW mine \in SUBSET (1 .. n), mine # {}
    PROVE  Max(mine) \in mine
  <1> DEFINE T == {x \in Nat : n - x \in mine}
  <1>1. T # {}
    <2>1. PICK j \in mine : TRUE
      OBVIOUS
    <2>2. n - j \in Nat /\ n - (n - j) = j
      OBVIOUS
    <2> QED  BY <2>1, <2>2
  <1>2. PICK x \in T : \A y \in T : x <= y
    BY <1>1, LeastElement
  <1>3. ASSUME NEW j \in mine PROVE n - x >= j
    <2>1. n - j \in Nat /\ n - (n - j) = j /\ j \in Nat
      OBVIOUS
    <2>2. x <= n - j
      BY <1>2, <2>1
    <2> QED  BY <2>1, <2>2
  <1>4. \E z \in mine : \A j \in mine : z >= j
    BY <1>2, <1>3
  <1> QED  BY <1>4 DEF Max

\* The first m columns are a prefix of the n.
LEMMA FromPrefix ==
    ASSUME NEW m \in Nat, NEW n \in Nat, m <= n
    PROVE  From(0, n) = [k \in 1 .. n |-> k] /\ From(0, m) \in Seq(Nat) /\ IsPrefix(From(0, m), From(0, n))
  <1>1. /\ n - 0 = n /\ m - 0 = m /\ \A k \in 1 .. n : 0 + k = k
        /\ \A k \in 1 .. m : 0 + k = k
    OBVIOUS
  <1>2. From(0, n) = [k \in 1 .. n |-> k] /\ From(0, m) = [k \in 1 .. m |-> k]
    BY <1>1 DEF From
  <1>3. PICK s \in Seq(Nat), t \in Seq(Nat) : s = From(0, m) /\ t = From(0, n)
    BY <1>2
  <1>4. /\ Len(s) = m /\ Len(t) = n /\ \A k \in 1 .. m : s[k] = k /\ t[k] = k
    BY <1>2, <1>3
  <1>5. SubSeq(s, 1, m) = SubSeq(t, 1, m)
    BY <1>4
  <1>6. IsPrefix(s, t)
    BY <1>4, <1>5 DEF IsPrefix
  <1> QED  BY <1>2, <1>3, <1>6

\* What a restart would find of a table: nothing, or one of its rows with the
\* columns on disk.
FindsTable(found, oid) ==
    /\ HasRow(disk.tables, oid) =>
         /\ found # NoTable /\ found.cols = ColumnsOf(disk.columns, oid)
         /\ \E k \in 1 .. Len(disk.tables) :
               /\ disk.tables[k].oid = oid
               /\ found.name = disk.tables[k].name /\ found.first = disk.tables[k].first
    /\ ~HasRow(disk.tables, oid) => found = NoTable

\* What a restart finds is one of the rows on disk.
LEMMA FoundRow ==
    ASSUME CatalogTypeOK, NEW oid \in Oids, ColumnsOf(disk.columns, oid) \in Seq(Nat), NEW found,
           found = ReloadedById(disk.tables, disk.columns)[oid]
    PROVE  FindsTable(found, oid)
  <1> DEFINE entries == disk.tables
             mine == {i \in DOMAIN entries : entries[i].oid = oid}
  <1>1. entries \in Seq(TableRow) /\ Len(entries) \in Nat /\ DOMAIN entries = 1 .. Len(entries)
    BY CallFields
  <1>2. found = IF mine = {} THEN NoTable ELSE Metadata(entries[Max(mine)], disk.columns)
    BY DEF ReloadedById, LastRow
  <1>3. HasRow(entries, oid) <=> mine # {}
    BY <1>1 DEF HasRow
  <1>4. ASSUME mine # {}
        PROVE  /\ found # NoTable /\ found.cols = ColumnsOf(disk.columns, oid)
               /\ \E k \in 1 .. Len(entries) :
                      /\ entries[k].oid = oid
                      /\ found.name = entries[k].name /\ found.first = entries[k].first
    <2>1. PICK k \in mine : k = Max(mine)
      BY <1>1, <1>4, LastOne
    <2>2. k \in 1 .. Len(entries) /\ entries[k].oid = oid /\ entries[k] \in TableRow
      <3>1. k \in DOMAIN entries /\ entries[k].oid = oid
        BY <2>1
      <3>2. k \in 1 .. Len(entries)
        BY <1>1, <3>1
      <3>3. entries[k] \in TableRow
        BY <1>1, <3>2
      <3> QED  BY <3>1, <3>2, <3>3
    <2>3. entries[k].oid \in Nat /\ entries[k].name \in CatalogNames /\ entries[k].first \in Nat
      BY <2>2 DEF TableRow
    <2>4. found = [oid |-> oid, name |-> entries[k].name, first |-> entries[k].first,
                   cols |-> ColumnsOf(disk.columns, oid)]
      BY <1>2, <1>4, <2>1, <2>2 DEF Metadata
    <2>5. found \in TableMetadata
      BY <2>2, <2>3, <2>4 DEF TableMetadata
    <2> QED  BY <2>2, <2>4, <2>5, CatalogAssumption
  <1> QED  BY <1>2, <1>3, <1>4 DEF FindsTable

\* Whatever goroutines create tables at once, whatever pages the buffer pool evicts
\* and whenever a crash comes: a restart finds every table whose CreateTable has
\* returned, and of no table anything but what was asked for, as long as its oid is its
\* own; for any number of tables, columns, goroutines and restarts.
THEOREM ReloadFaithful == CatalogSpec => []ReloadIsFaithful
  <1>1. ASSUME CatalogInv PROVE ReloadIsFaithful
    <2>1. /\ CatalogTypeOK /\ OidsBounded /\ RowsWritten /\ RowsTrue /\ ColumnsTrue
      BY <1>1 DEF CatalogInv
    <2>2. DOMAIN asked = 1 .. Len(asked) /\ Len(asked) \in Nat
      BY <2>1 DEF CatalogTypeOK
    <2>3. ASSUME NEW i \in DOMAIN asked, HasOwnOid(i), NEW found, NEW cols,
                 found = ReloadedById(disk.tables, disk.columns)[asked[i].oid],
                 cols = [k \in 1 .. asked[i].cols |-> k]
          PROVE  /\ asked[i].done => found # NoTable /\ found.cols = cols
                 /\ found # NoTable => /\ found.name = asked[i].name
                                       /\ found.first = asked[i].first
                                       /\ IsPrefix(found.cols, cols)
      <3>1. i \in 1 .. Len(asked) /\ OwnOid(asked, i)
        BY <2>2, <2>3 DEF HasOwnOid, OwnOid
      <3>2. PICK oid \in Oids : oid = asked[i].oid
        <4>1. asked[i].oid \in Nat /\ asked[i].oid <= MaxTables
          BY <2>1, <3>1, CallFields DEF OidsBounded
        <4> QED  BY <4>1, CatalogAssumption DEF Oids
      <3>3. PICK n \in Nat : n = asked[i].cols
        BY <2>1, <3>1, ColumnCounts
      <3>4. PICK m \in Nat : /\ m <= n /\ ColumnsOf(disk.columns, oid) = From(0, m)
                             /\ asked[i].done => m = n
        <4>1. PICK m \in Nat, l \in Nat : Progress(i, m, l, asked[i].cols)
          BY <2>1, <3>1 DEF ColumnsTrue, ColumnTrue
        <4>2. m <= l /\ l <= n /\ ColumnsOf(disk.columns, oid) = From(0, m) /\ (asked[i].done => m = n)
          BY <3>2, <3>3, <4>1 DEF Progress, Written
        <4>3. m <= n
          BY <4>2
        <4> QED  BY <4>2, <4>3
      <3>5. cols = From(0, n) /\ From(0, m) \in Seq(Nat) /\ IsPrefix(From(0, m), From(0, n))
        BY <2>3, <3>3, <3>4, FromPrefix
      <3>6. FindsTable(found, oid)
        <4>1. ColumnsOf(disk.columns, oid) \in Seq(Nat) /\ found = ReloadedById(disk.tables, disk.columns)[oid]
          BY <2>3, <3>2, <3>4, <3>5
        <4> QED  BY <2>1, <4>1, FoundRow
      <3>7. asked[i].done => HasRow(disk.tables, oid)
        BY <2>1, <3>1, <3>2 DEF RowsWritten
      <3>8. RowsSay(disk.tables, asked[i])
        BY <2>1, <3>1 DEF RowsTrue, RowTrue
      <3>9. found # NoTable => found.name = asked[i].name /\ found.first = asked[i].first
        BY <3>2, <3>6, <3>8 DEF RowsSay, FindsTable
      <3>10. asked[i].done => found # NoTable /\ found.cols = cols
        BY <3>4, <3>5, <3>6, <3>7 DEF FindsTable
      <3>11. found # NoTable => IsPrefix(found.cols, cols)
        BY <3>4, <3>5, <3>6 DEF FindsTable
      <3> QED  BY <3>9, <3>10, <3>11
    <2> QED  BY <2>3 DEF ReloadIsFaithful
  <1> QED  BY <1>1, CatalogInitially, CatalogStep, PTL DEF CatalogSpec

----------------------------------------------------------------------------
(* The hash index and its linear probe hash table.                         *)

TableSlot == {NeverUsed} \union [kind : {"full", "removed"}, hash : Nat, value : Values]
Table     == [Positions -> TableSlot]

----------------------------------------------------------------------------
(* The probe sequence.                                                     *)

\* The table has slots.
LEMMA SizePositive == Size \in Nat /\ Size > 0
<1>1. \A m, n \in Nat : m > 0 /\ n > 0 => m * n \in Nat /\ m * n > 0
  OBVIOUS
<1> QED
  BY <1>1, HashAssumption DEF Size

\* The probe sequence starts in the table.
LEMMA StartInTable ==
    ASSUME NEW h \in Nat
    PROVE  Start(h) \in Positions
<1>1. PICK m \in Nat : m = NumBlocks /\ m > 0
  BY HashAssumption
<1>2. PICK n \in Nat : n = BlockArraySize /\ n > 0
  BY HashAssumption
<1>3. PICK a \in Nat : a = h % m /\ a < m
  BY <1>1
<1>4. PICK b \in Nat : b = h % n /\ b < n
  BY <1>2
<1>5. a * n + b < a * n + n /\ a * n \in Nat
  BY <1>4
<1>6. a * n + n = (a + 1) * n
  OBVIOUS
<1>7. (a + 1) * n <= m * n
  BY <1>1, <1>2, <1>3
<1>8. a * n + b \in 0 .. m * n - 1
  BY <1>5, <1>6, <1>7
<1> QED
  BY <1>1, <1>2, <1>3, <1>4, <1>8 DEF Start, Positions, Size

\* It never leaves the table.
LEMMA ProbeInTable ==
    ASSUME NEW h \in Nat, NEW i \in Nat
    PROVE  Probe(h, i) \in Positions
<1>1. Start(h) + i \in Nat
  BY StartInTable, SizePositive DEF Positions
<1> QED
  BY <1>1, SizePositive DEF Probe, Positions

\* Division with remainder.
LEMMA Remainders ==
    ASSUME NEW n \in Nat, n > 0, NEW x \in 0 .. n - 1
    PROVE  x % n = x /\ (x + n) % n = x
OBVIOUS

\* And reaches every slot.
LEMMA ProbesReachAll ==
    ASSUME NEW h \in Nat, NEW p \in Positions
    PROVE  \E i \in 0 .. Size - 1 : Probe(h, i) = p
<1>1. PICK n \in Nat, s \in Nat : n = Size /\ s = Start(h) /\ s \in 0 .. n - 1 /\ n > 0
  BY StartInTable, SizePositive DEF Positions
<1>2. p \in 0 .. n - 1
  BY <1>1 DEF Positions
<1>3. CASE p >= s
  <2>1. p - s \in 0 .. n - 1 /\ s + (p - s) = p
    BY <1>1, <1>2, <1>3
  <2>2. Probe(h, p - s) = p
    BY <1>1, <1>2, <2>1, Remainders DEF Probe
  <2> QED
    BY <1>1, <2>1, <2>2
<1>4. CASE p < s
  <2>1. p - s + n \in 0 .. n - 1 /\ s + (p - s + n) = p + n
    BY <1>1, <1>2, <1>4
  <2>2. Probe(h, p - s + n) = p
    BY <1>1, <1>2, <2>1, Remainders DEF Probe
  <2> QED
    BY <1>1, <2>1, <2>2
<1> QED
  BY <1>1, <1>2, <1>3, <1>4

----------------------------------------------------------------------------
(* Chains, Insert and Remove.                                              *)

\* A slot is in the chain of a hash when the probe sequence gets to it over
\* occupied slots.
LEMMA InChain ==
    ASSUME NEW tbl, NEW h, NEW p
    PROVE  p \in Chain(tbl, h) <=>
               \E j \in 0 .. Size - 1 :
                   p = Probe(h, j) /\ \A k \in 0 .. j : IsOccupied(tbl[Probe(h, k)])
<1> DEFINE free == {i \in 0 .. Size - 1 : ~IsOccupied(tbl[Probe(h, i)])}
<1>1. \A j \in 0 .. Size - 1 :
          (\A k \in free : j < k) <=> (\A k \in 0 .. j : IsOccupied(tbl[Probe(h, k)]))
  <2>1. TAKE j \in 0 .. Size - 1
  <2>2. ASSUME \A k \in free : j < k, NEW k \in 0 .. j
        PROVE  IsOccupied(tbl[Probe(h, k)])
    <3>1. k \in 0 .. Size - 1 /\ ~(j < k)
      BY <2>1, SizePositive
    <3> QED
      BY <2>2, <3>1
  <2>3. ASSUME \A k \in 0 .. j : IsOccupied(tbl[Probe(h, k)]), NEW k \in free
        PROVE  j < k
    BY <2>1, <2>3
  <2> QED
    BY <2>2, <2>3
<1> QED
  BY <1>1 DEF Chain

\* The slots of a chain are slots of the table, and occupied.
LEMMA ChainIsOccupied ==
    ASSUME NEW tbl, NEW h \in Nat, NEW p \in Chain(tbl, h)
    PROVE  p \in Positions /\ IsOccupied(tbl[p])
<1>1. PICK j \in 0 .. Size - 1 : p = Probe(h, j)
                                 /\ \A k \in 0 .. j : IsOccupied(tbl[Probe(h, k)])
  BY InChain
<1>2. j \in 0 .. j /\ j \in Nat
  BY <1>1, SizePositive
<1> QED
  BY <1>1, <1>2, ProbeInTable

\* While no slot is freed chains do not get shorter.
LEMMA ChainGrows ==
    ASSUME NEW tbl, NEW new, NEW h \in Nat,
           \A p \in Positions : IsOccupied(tbl[p]) => IsOccupied(new[p])
    PROVE  Chain(tbl, h) \subseteq Chain(new, h)
<1>1. ASSUME NEW p \in Chain(tbl, h) PROVE p \in Chain(new, h)
  <2>1. PICK j \in 0 .. Size - 1 : p = Probe(h, j)
                                   /\ \A k \in 0 .. j : IsOccupied(tbl[Probe(h, k)])
    BY <1>1, InChain
  <2>2. \A k \in 0 .. j : Probe(h, k) \in Positions
    BY ProbeInTable
  <2>3. \A k \in 0 .. j : IsOccupied(new[Probe(h, k)])
    BY <2>1, <2>2
  <2> QED
    BY <2>1, <2>3, InChain
<1> QED
  BY <1>1

\* The kinds of slots.
LEMMA SlotKinds ==
    /\ ~IsOccupied(NeverUsed) /\ ~IsReadable(NeverUsed)
    /\ \A h \in Nat, v \in Values :
          /\ InsertSlot(h, v) \in TableSlot /\ IsReadable(InsertSlot(h, v))
          /\ InsertSlot(h, v).hash = h /\ InsertSlot(h, v).value = v
    /\ \A s \in TableSlot : IsReadable(s) => IsOccupied(s)
    /\ \A s \in TableSlot : IsOccupied(s) =>
          /\ s.hash \in Nat /\ s.value \in Values
          /\ RemoveSlot(s) \in TableSlot
          /\ IsOccupied(RemoveSlot(s)) /\ ~IsReadable(RemoveSlot(s))
          /\ RemoveSlot(s).hash = s.hash /\ RemoveSlot(s).value = s.value
<1> USE DEF IsOccupied, IsReadable, NeverUsed, TableSlot, InsertSlot, RemoveSlot
<1>1. ~IsOccupied(NeverUsed) /\ ~IsReadable(NeverUsed)
  OBVIOUS
<1>2. \A h \in Nat, v \in Values :
          /\ InsertSlot(h, v) \in TableSlot /\ IsReadable(InsertSlot(h, v))
          /\ InsertSlot(h, v).hash = h /\ InsertSlot(h, v).value = v
  OBVIOUS
<1>3. \A s \in TableSlot : IsReadable(s) => IsOccupied(s)
  OBVIOUS
<1>4. ASSUME NEW s \in TableSlot, IsOccupied(s)
      PROVE  /\ s.hash \in Nat /\ s.value \in Values
             /\ RemoveSlot(s) \in TableSlot
             /\ IsOccupied(RemoveSlot(s)) /\ ~IsReadable(RemoveSlot(s))
             /\ RemoveSlot(s).hash = s.hash /\ RemoveSlot(s).value = s.value
  <2>1. s \in [kind : {"full", "removed"}, hash : Nat, value : Values]
    BY <1>4
  <2> QED
    BY <2>1
<1> QED
  BY <1>1, <1>2, <1>3, <1>4

\* Remove takes the readable bit of the pairs with the hash and the value in
\* the chain, and leaves everything else.
LEMMA RemovedTable ==
    ASSUME NEW tbl \in Table, NEW h \in Nat, NEW v, NEW new, new = RemoveFrom(tbl, h, v)
    PROVE  /\ new \in Table
           /\ \A p \in Positions :
                 /\ IsOccupied(new[p]) <=> IsOccupied(tbl[p])
                 /\ IsOccupied(tbl[p]) => new[p].hash = tbl[p].hash /\ new[p].value = tbl[p].value
                 /\ IsReadable(new[p]) => new[p] = tbl[p]
                 /\ ~IsReadable(tbl[p]) => ~IsReadable(new[p])
                 /\ IsReadable(tbl[p]) /\ tbl[p].value # v => new[p] = tbl[p]
                 /\ p \in Chain(tbl, h) /\ tbl[p].hash = h /\ tbl[p].value = v
                        => ~IsReadable(new[p])
<1> DEFINE found == {p \in Chain(tbl, h) : tbl[p].hash = h /\ tbl[p].value = v}
<1>1. \A p \in found : p \in Positions /\ IsOccupied(tbl[p]) /\ tbl[p].value = v
  BY ChainIsOccupied
<1>2. new = [p \in Positions |-> IF p \in found THEN RemoveSlot(tbl[p]) ELSE tbl[p]]
  BY DEF RemoveFrom
<1>3. \A p \in Positions : tbl[p] \in TableSlot
  BY DEF Table
<1>4. \A p \in Positions : p \in found => new[p] = RemoveSlot(tbl[p])
  BY <1>2
<1>5. \A p \in Positions : p \notin found => new[p] = tbl[p]
  BY <1>2
<1>6. new \in Table
  <2>1. \A p \in Positions : (IF p \in found THEN RemoveSlot(tbl[p]) ELSE tbl[p]) \in TableSlot
    BY <1>1, <1>3, SlotKinds
  <2> QED
    BY <1>2, <2>1 DEF Table
<1>7. ASSUME NEW p \in Positions
      PROVE  /\ IsOccupied(new[p]) <=> IsOccupied(tbl[p])
             /\ IsOccupied(tbl[p]) => new[p].hash = tbl[p].hash /\ new[p].value = tbl[p].value
             /\ IsReadable(new[p]) => new[p] = tbl[p]
             /\ ~IsReadable(tbl[p]) => ~IsReadable(new[p])
             /\ IsReadable(tbl[p]) /\ tbl[p].value # v => new[p] = tbl[p]
             /\ p \in Chain(tbl, h) /\ tbl[p].hash = h /\ tbl[p].value = v
                    => ~IsReadable(new[p])
  <2>1. CASE p \in found
    BY <1>1, <1>3, <1>4, <2>1, SlotKinds
  <2>2. CASE p \notin found
    BY <1>5, <2>2
  <2> QED
    BY <2>1, <2>2
<1> QED
  BY <1>6, <1>7

\* Insert fills a free slot that its chain then reaches; or it changes
\* nothing, because the table is full or the chain holds the value.
LEMMA InsertedTable ==
    ASSUME NEW tbl \in Table, NEW h \in Nat, NEW v \in Values,
           NEW new, new = InsertInto(tbl, h, v)
    PROVE  \/ /\ new = tbl
              /\ \/ \A p \in Positions : IsOccupied(tbl[p])
                 \/ \E p \in Chain(tbl, h) : tbl[p].value = v
           \/ \E place \in Positions :
                 /\ ~IsOccupied(tbl[place])
                 /\ new = [tbl EXCEPT ![place] = InsertSlot(h, v)]
                 /\ place \in Chain(new, h)
<1>1. PICK stops : stops = StopsAt(tbl, h, v)
  OBVIOUS
<1>2. \A i \in 0 .. Size - 1 : i \in stops <=> ~IsOccupied(tbl[Probe(h, i)])
                                              \/ tbl[Probe(h, i)].value = v
  BY <1>1 DEF StopsAt, StopsHere
<1>3. stops \subseteq 0 .. Size - 1
  BY <1>1 DEF StopsAt
<1>4. CASE stops = {}
  <2>1. new = tbl
    BY <1>1, <1>4 DEF InsertInto
  <2>2. ASSUME NEW p \in Positions PROVE IsOccupied(tbl[p])
    <3>1. PICK i \in 0 .. Size - 1 : Probe(h, i) = p
      BY ProbesReachAll
    <3> QED
      BY <1>2, <1>4, <3>1
  <2> QED
    BY <2>1, <2>2
<1>5. CASE stops # {}
  <2>1. PICK m \in stops : m = Min(stops) /\ \A i \in stops : m <= i
    <3>1. stops \in SUBSET Nat
      BY <1>3, SizePositive
    <3>2. \E x \in stops : \A y \in stops : x <= y
      BY <1>5, <3>1, LeastElement
    <3> QED
      BY <3>2 DEF Min
  <2>2. m \in 0 .. Size - 1 /\ m \in Nat
    BY <1>3, SizePositive
  <2>3. PICK place : place = Probe(h, m)
    OBVIOUS
  <2>4. place \in Positions
    BY <2>2, <2>3, ProbeInTable
  <2>5. \A k \in 0 .. m : k # m => IsOccupied(tbl[Probe(h, k)])
    <3>1. TAKE k \in 0 .. m
    <3>2. HAVE k # m
    <3>3. k \in 0 .. Size - 1 /\ ~(m <= k)
      BY <2>2, <3>1, <3>2, SizePositive
    <3> QED
      BY <1>2, <2>1, <3>3
  <2>6. CASE IsOccupied(tbl[place])
    <3>1. new = tbl
      BY <1>1, <2>1, <2>3, <2>6 DEF InsertInto
    <3>2. tbl[place].value = v
      BY <1>2, <2>1, <2>2, <2>3, <2>6
    <3>3. place \in Chain(tbl, h)
      BY <2>2, <2>3, <2>5, <2>6, InChain
    <3> QED
      BY <3>1, <3>2, <3>3
  <2>7. CASE ~IsOccupied(tbl[place])
    <3>1. new = [tbl EXCEPT ![place] = InsertSlot(h, v)]
      BY <1>1, <1>5, <2>1, <2>3, <2>7 DEF InsertInto
    <3>2. \A p \in Positions : IsOccupied(tbl[p]) => new[p] = tbl[p]
      BY <2>7, <3>1 DEF Table
    <3>3. IsOccupied(new[place])
      <4>1. new[place] = InsertSlot(h, v)
        BY <2>4, <3>1 DEF Table
      <4> QED
        BY <4>1, SlotKinds
    <3>4. \A k \in 0 .. m : IsOccupied(new[Probe(h, k)])
      <4>1. TAKE k \in 0 .. m
      <4>2. Probe(h, k) \in Positions
        BY <2>2, ProbeInTable
      <4> QED
        BY <2>3, <2>5, <3>2, <3>3, <4>2
    <3>5. place \in Chain(new, h)
      BY <2>2, <2>3, <3>4, InChain
    <3> QED
      BY <2>4, <2>7, <3>1, <3>5
  <2> QED
    BY <2>6, <2>7
<1> QED
  BY <1>4, <1>5

----------------------------------------------------------------------------
(* The index beside the table of rows.                                     *)

Found(tbl, h, v) ==
    \E p \in Chain(tbl, h) : IsReadable(tbl[p]) /\ tbl[p].hash = h /\ tbl[p].value = v

CrowdedOut(tbl, h, v) ==
    \/ \E p \in Chain(tbl, h) : ~IsReadable(tbl[p]) /\ tbl[p].value = v
    \/ \A p \in Positions : IsOccupied(tbl[p])

\* An index that fits the rows, except those that strayed: no chain is cut,
\* every pair is one of a row and stands for it alone, and every row has a
\* pair or was crowded out.
GoodIndex(tbl, rw, str) ==
    /\ tbl \in Table
    /\ rw \in [Values -> Keys \union {NoRow}]
    /\ str \subseteq Values
    /\ \A p \in Positions : IsOccupied(tbl[p]) => p \in Chain(tbl, tbl[p].hash)
    /\ \A p \in Positions : IsReadable(tbl[p]) /\ tbl[p].value \notin str =>
          /\ rw[tbl[p].value] # NoRow
          /\ tbl[p].hash = Hash[rw[tbl[p].value]]
    /\ \A p, q \in Positions :
          IsReadable(tbl[p]) /\ IsReadable(tbl[q]) /\ tbl[p].value = tbl[q].value
              => p = q \/ tbl[p].value \in str
    /\ \A r \in Values \ str : rw[r] # NoRow =>
          Found(tbl, Hash[rw[r]], r) \/ CrowdedOut(tbl, Hash[rw[r]], r)

IndexInv == GoodIndex(table, rows, strayed)

\* The rows that have strayed may be anything.
LEMMA Strays ==
    ASSUME NEW tbl, NEW rw, NEW str, GoodIndex(tbl, rw, str),
           NEW new \in [Values -> Keys \union {NoRow}], NEW more \in SUBSET Values,
           str \subseteq more, \A r \in Values \ more : new[r] = rw[r]
    PROVE  GoodIndex(tbl, new, more)
<1>1. \A p \in Positions : IsReadable(tbl[p]) => tbl[p].value \in Values
  BY SlotKinds DEF GoodIndex, Table
<1> QED
  BY <1>1 DEF GoodIndex

\* A chain that holds a pair of a row holds it as long as it is not removed.
LEMMA FoundStays ==
    ASSUME NEW tbl \in Table, NEW new \in Table, NEW h \in Nat, NEW v,
           \A p \in Positions : IsOccupied(tbl[p]) =>
               /\ IsOccupied(new[p])
               /\ new[p].value = tbl[p].value /\ new[p].hash = tbl[p].hash
               /\ ~IsReadable(tbl[p]) => ~IsReadable(new[p])
    PROVE  /\ CrowdedOut(tbl, h, v) => CrowdedOut(new, h, v)
           /\ (\A p \in Positions : IsReadable(tbl[p]) /\ tbl[p].value = v => IsReadable(new[p]))
                 => (Found(tbl, h, v) => Found(new, h, v))
<1>1. Chain(tbl, h) \subseteq Chain(new, h)
  BY ChainGrows
<1>2. \A p \in Chain(tbl, h) : p \in Positions /\ IsOccupied(tbl[p])
  BY ChainIsOccupied
<1>3. CrowdedOut(tbl, h, v) => CrowdedOut(new, h, v)
  BY <1>1, <1>2 DEF CrowdedOut
<1>4. ASSUME \A p \in Positions : IsReadable(tbl[p]) /\ tbl[p].value = v => IsReadable(new[p]),
             Found(tbl, h, v)
      PROVE  Found(new, h, v)
  BY <1>1, <1>2, <1>4 DEF Found
<1> QED
  BY <1>3, <1>4

\* Remove of the pair of a row goes with the end of the row.
LEMMA RemoveKeepsIndex ==
    ASSUME NEW tbl, NEW rw, NEW str, GoodIndex(tbl, rw, str),
           NEW r \in Values, rw[r] # NoRow,
           NEW new, new = RemoveFrom(tbl, Hash[rw[r]], r),
           NEW nrw, nrw = [rw EXCEPT ![r] = NoRow]
    PROVE  GoodIndex(new, nrw, str)
<1>1. /\ tbl \in Table /\ rw \in [Values -> Keys \union {NoRow}] /\ str \subseteq Values
      /\ rw[r] \in Keys /\ Hash[rw[r]] \in Nat
  BY HashAssumption DEF GoodIndex
<1>2. /\ new \in Table
      /\ \A p \in Positions :
            /\ IsOccupied(new[p]) <=> IsOccupied(tbl[p])
            /\ IsOccupied(tbl[p]) => new[p].hash = tbl[p].hash /\ new[p].value = tbl[p].value
            /\ IsReadable(new[p]) => new[p] = tbl[p]
            /\ ~IsReadable(tbl[p]) => ~IsReadable(new[p])
            /\ IsReadable(tbl[p]) /\ tbl[p].value # r => new[p] = tbl[p]
            /\ p \in Chain(tbl, Hash[rw[r]]) /\ tbl[p].hash = Hash[rw[r]] /\ tbl[p].value = r
                   => ~IsReadable(new[p])
  BY <1>1, RemovedTable
<1>3. nrw \in [Values -> Keys \union {NoRow}] /\ nrw[r] = NoRow
      /\ \A s \in Values : s # r => nrw[s] = rw[s]
  BY <1>1
<1>4. \A p \in Positions : tbl[p] \in TableSlot /\ new[p] \in TableSlot
  BY <1>1, <1>2 DEF Table
<1>5. \A p \in Positions : IsReadable(tbl[p]) => IsOccupied(tbl[p]) /\ tbl[p].value \in Values
  BY <1>4, SlotKinds
<1>6. \A p \in Positions : IsOccupied(new[p]) => p \in Chain(new, new[p].hash)
  <2>1. TAKE p \in Positions
  <2>2. HAVE IsOccupied(new[p])
  <2>3. IsOccupied(tbl[p]) /\ new[p].hash = tbl[p].hash /\ tbl[p].hash \in Nat
    BY <1>2, <1>4, <2>2, SlotKinds
  <2>4. p \in Chain(tbl, tbl[p].hash)
    BY <2>3 DEF GoodIndex
  <2>5. Chain(tbl, tbl[p].hash) \subseteq Chain(new, tbl[p].hash)
    BY <1>2, <2>3, ChainGrows
  <2> QED
    BY <2>3, <2>4, <2>5
<1>7. \A p \in Positions : IsReadable(new[p]) /\ new[p].value \notin str => tbl[p].value # r
  <2>1. TAKE p \in Positions
  <2>2. HAVE IsReadable(new[p]) /\ new[p].value \notin str
  <2>3. new[p] = tbl[p] /\ IsReadable(tbl[p]) /\ tbl[p].value \notin str
    BY <1>2, <2>2
  <2>4. IsOccupied(tbl[p])
    BY <1>5, <2>3
  <2>5. p \in Chain(tbl, tbl[p].hash) /\ tbl[p].hash = Hash[rw[tbl[p].value]]
    BY <2>3, <2>4 DEF GoodIndex
  <2> QED
    BY <1>2, <2>2, <2>5
<1>8. \A p \in Positions : IsReadable(new[p]) /\ new[p].value \notin str =>
          nrw[new[p].value] # NoRow /\ new[p].hash = Hash[nrw[new[p].value]]
  <2>1. TAKE p \in Positions
  <2>2. HAVE IsReadable(new[p]) /\ new[p].value \notin str
  <2>3. new[p] = tbl[p] /\ IsReadable(tbl[p]) /\ tbl[p].value # r /\ tbl[p].value \in Values
    BY <1>2, <1>5, <1>7, <2>2
  <2>4. rw[tbl[p].value] # NoRow /\ tbl[p].hash = Hash[rw[tbl[p].value]]
    BY <2>2, <2>3 DEF GoodIndex
  <2> QED
    BY <1>3, <2>3, <2>4
<1>9. \A p, q \in Positions :
          IsReadable(new[p]) /\ IsReadable(new[q]) /\ new[p].value = new[q].value
              => p = q \/ new[p].value \in str
  BY <1>2 DEF GoodIndex
<1>10. \A s \in Values \ str : nrw[s] # NoRow =>
          Found(new, Hash[nrw[s]], s) \/ CrowdedOut(new, Hash[nrw[s]], s)
  <2>1. TAKE s \in Values \ str
  <2>2. HAVE nrw[s] # NoRow
  <2>3. s # r /\ nrw[s] = rw[s] /\ Hash[rw[s]] \in Nat
    BY <1>1, <1>3, <2>2, HashAssumption
  <2>4. Found(tbl, Hash[rw[s]], s) \/ CrowdedOut(tbl, Hash[rw[s]], s)
    BY <2>2, <2>3 DEF GoodIndex
  <2>5. \A p \in Positions : IsReadable(tbl[p]) /\ tbl[p].value = s => IsReadable(new[p])
    BY <1>2, <2>3
  <2>6. \A p \in Positions : IsOccupied(tbl[p]) =>
            /\ IsOccupied(new[p])
            /\ new[p].value = tbl[p].value /\ new[p].hash = tbl[p].hash
            /\ ~IsReadable(tbl[p]) => ~IsReadable(new[p])
    BY <1>2
  <2>7. /\ CrowdedOut(tbl, Hash[rw[s]], s) => CrowdedOut(new, Hash[rw[s]], s)
        /\ Found(tbl, Hash[rw[s]], s) => Found(new, Hash[rw[s]], s)
    BY <1>1, <1>2, <2>3, <2>5, <2>6, FoundStays
  <2> QED
    BY <2>3, <2>4, <2>7
<1> QED
  BY <1>1, <1>2, <1>3, <1>6, <1>8, <1>9, <1>10 DEF GoodIndex

\* Insert of a pair goes with a new row.
LEMMA InsertKeepsIndex ==
    ASSUME NEW tbl, NEW rw, NEW str, GoodIndex(tbl, rw, str),
           NEW r \in Values, rw[r] = NoRow, NEW k \in Keys,
           NEW new, new = InsertInto(tbl, Hash[k], r),
           NEW nrw, nrw = [rw EXCEPT ![r] = k]
    PROVE  GoodIndex(new, nrw, str)
<1>1. /\ tbl \in Table /\ rw \in [Values -> Keys \union {NoRow}] /\ str \subseteq Values
      /\ Hash[k] \in Nat
  BY HashAssumption DEF GoodIndex
<1>2. nrw \in [Values -> Keys \union {NoRow}] /\ nrw[r] = k
      /\ \A s \in Values : s # r => nrw[s] = rw[s]
  BY <1>1
<1>3. \A p \in Positions : tbl[p] \in TableSlot
  BY <1>1 DEF Table
<1>4. \A p \in Positions : IsReadable(tbl[p]) => IsOccupied(tbl[p]) /\ tbl[p].value \in Values
  BY <1>3, SlotKinds
<1>5. \A p \in Positions : IsReadable(tbl[p]) /\ tbl[p].value \notin str => tbl[p].value # r
  BY DEF GoodIndex
<1>6. \A p \in Positions : IsReadable(tbl[p]) /\ tbl[p].value \notin str =>
          nrw[tbl[p].value] # NoRow /\ tbl[p].hash = Hash[nrw[tbl[p].value]]
  <2>1. TAKE p \in Positions
  <2>2. HAVE IsReadable(tbl[p]) /\ tbl[p].value \notin str
  <2>3. tbl[p].value # r /\ tbl[p].value \in Values
    BY <1>4, <1>5, <2>2
  <2> QED
    BY <1>2, <2>2, <2>3 DEF GoodIndex
<1>7. \A s \in Values \ str : s # r /\ nrw[s] # NoRow =>
          /\ nrw[s] = rw[s] /\ Hash[rw[s]] \in Nat
          /\ Found(tbl, Hash[rw[s]], s) \/ CrowdedOut(tbl, Hash[rw[s]], s)
  <2>1. TAKE s \in Values \ str
  <2>2. HAVE s # r /\ nrw[s] # NoRow
  <2>3. nrw[s] = rw[s] /\ rw[s] \in Keys
    BY <1>1, <1>2, <2>2
  <2> QED
    BY <2>2, <2>3, HashAssumption DEF GoodIndex
<1>8. CASE /\ new = tbl
           /\ \/ \A p \in Positions : IsOccupied(tbl[p])
              \/ \E p \in Chain(tbl, Hash[k]) : tbl[p].value = r
  <2>1. \A s \in Values \ str : nrw[s] # NoRow =>
          Found(new, Hash[nrw[s]], s) \/ CrowdedOut(new, Hash[nrw[s]], s)
    <3>1. TAKE s \in Values \ str
    <3>2. HAVE nrw[s] # NoRow
    <3>3. CASE s # r
      BY <1>7, <1>8, <3>2, <3>3
    <3>4. CASE s = r
      <4>1. CASE \A p \in Positions : IsOccupied(tbl[p])
        BY <1>8, <4>1 DEF CrowdedOut
      <4>2. CASE \E p \in Chain(tbl, Hash[k]) : tbl[p].value = r
        <5>1. PICK p \in Chain(tbl, Hash[k]) : tbl[p].value = r
          BY <4>2
        <5>2. p \in Positions
          BY <1>1, <5>1, ChainIsOccupied
        <5>3. ~IsReadable(tbl[p])
          BY <1>5, <3>1, <3>4, <5>1, <5>2
        <5>4. CrowdedOut(tbl, Hash[k], r)
          BY <5>1, <5>3 DEF CrowdedOut
        <5> QED
          BY <1>2, <1>8, <3>4, <5>4
      <4> QED
        BY <1>8, <4>1, <4>2
    <3> QED
      BY <3>3, <3>4
  <2> QED
    BY <1>1, <1>2, <1>6, <1>8, <2>1 DEF GoodIndex
<1>9. ASSUME NEW place \in Positions, ~IsOccupied(tbl[place]),
             new = [tbl EXCEPT ![place] = InsertSlot(Hash[k], r)],
             place \in Chain(new, Hash[k])
      PROVE  GoodIndex(new, nrw, str)
  <2>0. PICK slot : slot = InsertSlot(Hash[k], r)
    OBVIOUS
  <2>1. slot \in TableSlot /\ IsReadable(slot) /\ IsOccupied(slot)
        /\ slot.hash = Hash[k] /\ slot.value = r
    BY <1>1, <2>0, SlotKinds
  <2>2. /\ new \in Table /\ new[place] = slot
        /\ \A p \in Positions : p # place => new[p] = tbl[p]
    BY <1>1, <1>9, <2>0, <2>1 DEF Table
  <2>3. \A p \in Positions : IsOccupied(tbl[p]) => IsOccupied(new[p]) /\ new[p] = tbl[p]
    BY <1>9, <2>2
  <2>4. \A p \in Positions : IsOccupied(new[p]) => p \in Chain(new, new[p].hash)
    <3>1. TAKE p \in Positions
    <3>2. HAVE IsOccupied(new[p])
    <3>3. CASE p = place
      BY <1>9, <2>1, <2>2, <3>3
    <3>4. CASE p # place
      <4>1. new[p] = tbl[p] /\ IsOccupied(tbl[p]) /\ tbl[p].hash \in Nat
        BY <1>3, <2>2, <3>2, <3>4, SlotKinds
      <4>2. p \in Chain(tbl, tbl[p].hash)
        BY <4>1 DEF GoodIndex
      <4>3. Chain(tbl, tbl[p].hash) \subseteq Chain(new, tbl[p].hash)
        BY <2>3, <4>1, ChainGrows
      <4> QED
        BY <4>1, <4>2, <4>3
    <3> QED
      BY <3>3, <3>4
  <2>5. \A p \in Positions : IsReadable(new[p]) /\ new[p].value \notin str =>
          nrw[new[p].value] # NoRow /\ new[p].hash = Hash[nrw[new[p].value]]
    <3>1. k # NoRow
      BY NoRowAssumption
    <3> QED
      BY <1>2, <1>6, <2>1, <2>2, <3>1
  <2>6. \A p, q \in Positions :
          IsReadable(new[p]) /\ IsReadable(new[q]) /\ new[p].value = new[q].value
              => p = q \/ new[p].value \in str
    <3>1. TAKE p, q \in Positions
    <3>2. HAVE IsReadable(new[p]) /\ IsReadable(new[q]) /\ new[p].value = new[q].value
    <3>3. CASE p # place /\ q # place
      BY <2>2, <3>2, <3>3 DEF GoodIndex
    <3>4. CASE p = place /\ q # place
      BY <1>5, <2>1, <2>2, <3>2, <3>4
    <3>5. CASE p # place /\ q = place
      BY <1>5, <2>1, <2>2, <3>2, <3>5
    <3> QED
      BY <3>3, <3>4, <3>5
  <2>7. \A s \in Values \ str : nrw[s] # NoRow =>
          Found(new, Hash[nrw[s]], s) \/ CrowdedOut(new, Hash[nrw[s]], s)
    <3>1. TAKE s \in Values \ str
    <3>2. HAVE nrw[s] # NoRow
    <3>3. CASE s = r
      <4>1. Found(new, Hash[k], r)
        BY <1>9, <2>1, <2>2 DEF Found
      <4> QED
        BY <1>2, <3>3, <4>1
    <3>4. CASE s # r
      <4>1. \A p \in Positions : IsOccupied(tbl[p]) =>
                /\ IsOccupied(new[p])
                /\ new[p].value = tbl[p].value /\ new[p].hash = tbl[p].hash
                /\ ~IsReadable(tbl[p]) => ~IsReadable(new[p])
        BY <2>3
      <4>2. \A p \in Positions : IsReadable(tbl[p]) /\ tbl[p].value = s => IsReadable(new[p])
        BY <1>4, <2>3
      <4>3. /\ CrowdedOut(tbl, Hash[rw[s]], s) => CrowdedOut(new, Hash[rw[s]], s)
            /\ Found(tbl, Hash[rw[s]], s) => Found(new, Hash[rw[s]], s)
        BY <1>1, <1>7, <2>2, <3>2, <3>4, <4>1, <4>2, FoundStays
      <4> QED
        BY <1>7, <3>2, <3>4, <4>3
    <3> QED
      BY <3>3, <3>4
  <2> QED
    BY <1>1, <1>2, <2>2, <2>4, <2>5, <2>6, <2>7 DEF GoodIndex
<1> QED
  BY <1>1, <1>8, <1>9, InsertedTable

----------------------------------------------------------------------------
(* The statements.                                                         *)

\* A statement that gives the rids their new rows and does to the index what
\* they need keeps the index good, whether it commits or is rolled back.
LEMMA EndsKeepsIndex ==
    ASSUME IndexInv, NEW rids \in SUBSET Values, NEW new, Ends(rids, new),
           GoodIndex(table', new, strayed),
           \A s \in Values \ rids : new[s] = rows[s]
    PROVE  IndexInv'
<1>1. CASE rows' = new /\ UNCHANGED strayed
  BY <1>1 DEF IndexInv
<1>2. CASE UNCHANGED rows /\ strayed' = strayed \union rids
  <2>1. /\ rows \in [Values -> Keys \union {NoRow}] /\ strayed \subseteq Values
        /\ new \in [Values -> Keys \union {NoRow}]
    BY DEF IndexInv, GoodIndex
  <2>2. PICK more : more = strayed \union rids
    OBVIOUS
  <2>3. more \in SUBSET Values /\ strayed \subseteq more
        /\ \A s \in Values \ more : rows[s] = new[s]
    BY <2>1, <2>2
  <2>4. GoodIndex(table', rows, more)
    BY <2>1, <2>3, Strays
  <2> QED
    BY <1>2, <2>2, <2>4 DEF IndexInv
<1> QED
  BY <1>1, <1>2 DEF Ends

\* An update that stays or moves: the pair of the old row goes, that of the
\* new one comes.
LEMMA ReplaceKeepsIndex ==
    ASSUME IndexInv, NEW r \in Values, NEW k \in Keys, NEW s \in Values,
           rows[r] # NoRow, s = r \/ rows[s] = NoRow, ReplaceEntry(rows[r], r, k, s)
    PROVE  GoodIndex(table', Moved(r, s, k), strayed)
<1>1. PICK tbl : tbl = RemoveFrom(table, Hash[rows[r]], r)
  OBVIOUS
<1>2. PICK rw : rw = [rows EXCEPT ![r] = NoRow]
  OBVIOUS
<1>3. GoodIndex(tbl, rw, strayed)
  BY <1>1, <1>2, RemoveKeepsIndex DEF IndexInv
<1>4. rows \in [Values -> Keys \union {NoRow}]
  BY DEF IndexInv, GoodIndex
<1>5. rw[s] = NoRow
  BY <1>2, <1>4
<1>6. PICK new : new = InsertInto(tbl, Hash[k], s)
  OBVIOUS
<1>7. PICK nrw : nrw = [rw EXCEPT ![s] = k]
  OBVIOUS
<1>8. GoodIndex(new, nrw, strayed)
  BY <1>3, <1>5, <1>6, <1>7, InsertKeepsIndex
<1>9. new = table' /\ nrw = Moved(r, s, k)
  BY <1>1, <1>2, <1>6, <1>7 DEF ReplaceEntry, Moved
<1> QED
  BY <1>8, <1>9

\* What the move changes.
LEMMA MovedRows ==
    ASSUME IndexInv, NEW r \in Values, NEW k \in Keys, NEW s \in Values
    PROVE  /\ Moved(r, s, k) \in [Values -> Keys \union {NoRow}]
           /\ Moved(r, s, k)[s] = k
           /\ r # s => Moved(r, s, k)[r] = NoRow
           /\ \A v \in Values \ {r, s} : Moved(r, s, k)[v] = rows[v]
<1>1. rows \in [Values -> Keys \union {NoRow}]
  BY DEF IndexInv, GoodIndex
<1> QED
  BY <1>1 DEF Moved

\* The index fits the rows outside the strayed ones in every state.
THEOREM IndexInvariance == Spec => []IndexInv
<1>1. Init => IndexInv
  <2>1. SUFFICES ASSUME Init PROVE IndexInv
    OBVIOUS
  <2>2. \A p \in Positions : table[p] = NeverUsed
    BY <2>1 DEF Init, EmptyTable
  <2>3. \A p \in Positions : ~IsOccupied(table[p]) /\ ~IsReadable(table[p])
    BY <2>2, SlotKinds
  <2>4. table \in Table
    BY <2>1 DEF Init, EmptyTable, Table, TableSlot
  <2>5. \A r \in Values : rows[r] = NoRow
    BY <2>1 DEF Init
  <2>6. rows \in [Values -> Keys \union {NoRow}] /\ strayed = {}
    BY <2>1 DEF Init
  <2> QED
    BY <2>3, <2>4, <2>5, <2>6 DEF IndexInv, GoodIndex
<1>2. IndexInv /\ [Next]_vars => IndexInv'
  <2>1. SUFFICES ASSUME IndexInv, [Next]_vars PROVE IndexInv'
    OBVIOUS
  <2>0. rows \in [Values -> Keys \union {NoRow}] /\ strayed \subseteq Values
    BY <2>1 DEF IndexInv, GoodIndex
  <2>2. ASSUME NEW r \in Values, DeleteExecutor(r) PROVE IndexInv'
    <3>1. PICK new : new = [rows EXCEPT ![r] = NoRow]
      OBVIOUS
    <3>2. PICK tbl : tbl = RemoveFrom(table, Hash[rows[r]], r)
      OBVIOUS
    <3>3. GoodIndex(tbl, new, strayed)
      BY <2>1, <2>2, <3>1, <3>2, RemoveKeepsIndex DEF IndexInv, DeleteExecutor
    <3>4. Ends({r}, new) /\ table' = tbl
      BY <2>2, <3>1, <3>2 DEF DeleteExecutor
    <3>5. \A s \in Values \ {r} : new[s] = rows[s]
      BY <2>0, <3>1
    <3> QED
      BY <2>1, <3>3, <3>4, <3>5, EndsKeepsIndex
  <2>3. ASSUME NEW r \in Values, NEW k \in Keys, InsertExecutor(r, k) PROVE IndexInv'
    <3>1. PICK new : new = [rows EXCEPT ![r] = k]
      OBVIOUS
    <3>2. PICK tbl : tbl = InsertInto(table, Hash[k], r)
      OBVIOUS
    <3>3. GoodIndex(tbl, new, strayed)
      BY <2>1, <2>3, <3>1, <3>2, InsertKeepsIndex DEF IndexInv, InsertExecutor
    <3>4. Ends({r}, new) /\ table' = tbl
      BY <2>3, <3>1, <3>2 DEF InsertExecutor
    <3>5. \A s \in Values \ {r} : new[s] = rows[s]
      BY <2>0, <3>1
    <3> QED
      BY <2>1, <3>3, <3>4, <3>5, EndsKeepsIndex
  <2>4. ASSUME NEW r \in Values, NEW k \in Keys, NEW s \in Values, UpdateExecutor(r, k, s)
        PROVE  IndexInv'
    <3>1. PICK new : new = Moved(r, s, k)
      OBVIOUS
    <3>2. GoodIndex(table', new, strayed)
      BY <2>1, <2>4, <3>1, ReplaceKeepsIndex DEF UpdateExecutor
    <3>3. Ends({r, s}, new)
      BY <2>4, <3>1 DEF UpdateExecutor
    <3>4. \A v \in Values \ {r, s} : new[v] = rows[v]
      BY <2>1, <3>1, MovedRows
    <3> QED
      BY <2>1, <3>2, <3>3, <3>4, EndsKeepsIndex
  <2>5. ASSUME NEW r \in Values, NEW k \in Keys, NEW s \in Values, UpdateOtherColumns(r, k, s)
        PROVE  IndexInv'
    <3>1. PICK new : new = Moved(r, s, k)
      OBVIOUS
    <3>2. GoodIndex(table', new, strayed)
      BY <2>1, <2>5, <3>1, ReplaceKeepsIndex DEF UpdateOtherColumns
    <3>3. rows[r] \in Keys
      BY <2>0, <2>5 DEF UpdateOtherColumns
    <3>4. PICK nrw : nrw = Moved(r, s, rows[r])
      OBVIOUS
    <3>5. rows' = nrw /\ strayed' = strayed \union (IF k = rows[r] THEN {} ELSE {s})
      BY <2>5, <3>4 DEF UpdateOtherColumns
    <3>6. CASE k = rows[r]
      BY <3>1, <3>2, <3>4, <3>5, <3>6 DEF IndexInv
    <3>7. CASE k # rows[r]
      <4>1. PICK more : more = strayed \union {s}
        OBVIOUS
      <4>2. nrw \in [Values -> Keys \union {NoRow}]
        BY <2>1, <3>3, <3>4, MovedRows
      <4>3. \A v \in Values \ {s} : nrw[v] = new[v]
        <5>1. TAKE v \in Values \ {s}
        <5>2. CASE v = r
          BY <2>1, <3>1, <3>3, <3>4, <5>2, MovedRows
        <5>3. CASE v # r
          BY <2>1, <3>1, <3>3, <3>4, <5>3, MovedRows
        <5> QED
          BY <5>2, <5>3
      <4>4. more \in SUBSET Values /\ strayed \subseteq more
            /\ \A v \in Values \ more : nrw[v] = new[v]
        BY <2>0, <4>1, <4>3
      <4>5. GoodIndex(table', nrw, more)
        BY <3>2, <4>2, <4>4, Strays
      <4> QED
        BY <3>5, <3>7, <4>1, <4>5 DEF IndexInv
    <3> QED
      BY <3>6, <3>7
  <2>6. CASE UNCHANGED vars
    BY <2>1, <2>6 DEF vars, IndexInv
  <2> QED
    BY <2>1, <2>2, <2>3, <2>4, <2>5, <2>6 DEF Next
<1> QED
  BY <1>1, <1>2, PTL DEF Spec

\* What ScanKey finds, and what it does not.
LEMMA ScanKeyFinds ==
    ASSUME IndexInv, NEW k \in Keys, NEW r
    PROVE  r \in ScanKey(k) <=> Found(table, Hash[k], r)
BY DEF ScanKey, GetValue, Found

\* For any hash function, collisions included: every row the index names is
\* there and its key has the hash that was asked for, but for the rows that a
\* rollback or an update of other columns left the index wrong about.
THEOREM HitsAreTheRows == Spec => []HitsAreRows
<1>1. IndexInv => HitsAreRows
  <2>1. SUFFICES ASSUME IndexInv, NEW k \in Keys, NEW r \in ScanKey(k) \ strayed
                 PROVE  rows[r] # NoRow /\ Hash[rows[r]] = Hash[k]
    BY DEF HitsAreRows
  <2>2. PICK p \in Chain(table, Hash[k]) :
            IsReadable(table[p]) /\ table[p].hash = Hash[k] /\ table[p].value = r
    BY <2>1, ScanKeyFinds DEF Found
  <2>3. p \in Positions /\ Hash[k] \in Nat
    BY <2>2, ChainIsOccupied, HashAssumption
  <2>4. table[p] \in TableSlot /\ rows \in [Values -> Keys \union {NoRow}]
    BY <2>1, <2>3 DEF IndexInv, GoodIndex, Table
  <2>5. r \in Values
    BY <2>2, <2>4, SlotKinds
  <2> QED
    BY <2>1, <2>2, <2>3, <2>4, <2>5 DEF IndexInv, GoodIndex
<1> QED
  BY <1>1, IndexInvariance, PTL

\* A row the index does not find was crowded out when it was inserted: by a
\* removed slot with its record id in its chain, or by a full table.
THEOREM RowsAreFound == Spec => []MissingOnlyIfCrowdedOut
<1>1. IndexInv => MissingOnlyIfCrowdedOut
  <2>1. SUFFICES ASSUME IndexInv, NEW r \in Values \ strayed, rows[r] # NoRow,
                        r \notin ScanKey(rows[r])
                 PROVE  \/ \E p \in Chain(table, Hash[rows[r]]) :
                               ~IsReadable(table[p]) /\ table[p].value = r
                        \/ \A p \in Positions : IsOccupied(table[p])
    BY DEF MissingOnlyIfCrowdedOut
  <2>2. rows[r] \in Keys
    BY <2>1 DEF IndexInv, GoodIndex
  <2>3. ~Found(table, Hash[rows[r]], r)
    BY <2>1, <2>2, ScanKeyFinds
  <2>4. CrowdedOut(table, Hash[rows[r]], r)
    BY <2>1, <2>3 DEF IndexInv, GoodIndex
  <2> QED
    BY <2>4 DEF CrowdedOut
<1> QED
  BY <1>1, IndexInvariance, PTL

\* No row is filed twice, so that a removed one never comes back.
THEOREM RowsAreFiledOnce == Spec => []FiledOnce
<1>1. IndexInv => FiledOnce
  BY DEF IndexInv, GoodIndex, FiledOnce
<1> QED
  BY <1>1, IndexInvariance, PTL

============================================================================
