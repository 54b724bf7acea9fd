---------------------- MODULE BufferPoolManagerProofs ----------------------
(***************************************************************************)
(* The buffer pool, proved for any number of goroutines, frames and pages, *)
(* up to the first clash: pages in use stay, no write is lost, frames are  *)
(* accounted for, and pins are counted.                                    *)
(***************************************************************************)
EXTENDS BufferPoolManager, FiniteSetTheorems, SequenceTheorems, TLAPS

----------------------------------------------------------------------------
(* The inductive invariant.                                                *)

Labels == {"idle", "fetch", "install", "new", "flush"}

PageObject == [id : Nat, pinCount : Nat, isDirty : BOOLEAN, data : Nat]

Registers == [page : Nat, frame : Frames \union {None}, victim : BOOLEAN, looked : BOOLEAN,
              data : Nat, todo : SUBSET PageIDs, object : Objects \union {None}]

Hold == [object : Objects, wrote : BOOLEAN]

PoolTypes ==
    /\ object \in [Objects -> PageObject]
    /\ pages \in [Frames -> Objects \union {None}]
    /\ pageTable \in [PageIDs -> Frames \union {None}]
    /\ freeList \in Seq(Frames) /\ replacer \in Seq(Frames)
    /\ disk \in [PageIDs -> Nat \union {None}]
    /\ nextPageID \in 0 .. NumPages
    /\ pc \in [Threads -> Labels]
    /\ reg \in [Threads -> Registers]
    /\ held \in [Threads -> Seq(Hold)]
    /\ writes \in Nat /\ latest \in [PageIDs -> Nat] /\ deleted \in SUBSET PageIDs

Fetching(th) == pc[th] \in {"fetch", "install"}

\* The local variables of each call at each of its places.
LocalOK(th) ==
    /\ pc[th] \in {"idle", "flush"} => reg[th].frame = None
    /\ pc[th] # "flush" => reg[th].todo = {} /\ reg[th].object = None
    /\ reg[th].victim => reg[th].frame # None
    /\ pc[th] = "install" => reg[th].frame # None /\ ~reg[th].victim
    /\ Len(held[th]) <= MaxHeld
    /\ pc[th] \in {"fetch", "install", "new"} => Len(held[th]) < MaxHeld

Locals == \A th \in Threads : LocalOK(th)

\* A page that is fetched is one that exists and is not there, and is fetched
\* by one goroutine; what it has read of it is what was last written.
FetchOK(th) ==
    /\ reg[th].page \in PageIDs /\ reg[th].page < nextPageID
    /\ reg[th].page \notin deleted /\ pageTable[reg[th].page] = None
    /\ \A u \in Threads : Fetching(u) /\ reg[u].page = reg[th].page => u = th
    /\ pc[th] = "install" => reg[th].data = latest[reg[th].page]

Fetches == \A th \in Threads : Fetching(th) => FetchOK(th)

\* The page table leads to frames with the page.
TableLeads ==
    \A p \in PageIDs : pageTable[p] # None =>
        /\ p < nextPageID /\ p \notin deleted
        /\ pages[pageTable[p]] \in Objects
        /\ object[pages[pageTable[p]]].id = p

\* A page somebody uses is where the page table says.
UsedStay ==
    \A th \in Threads : \A i \in 1 .. Len(held[th]) :
        LET o == held[th][i].object IN
        /\ object[o].id \in PageIDs /\ pageTable[object[o].id] # None
        /\ pages[pageTable[object[o].id]] = o

PinsCount ==
    \A p \in PageIDs : pageTable[p] # None =>
        object[pages[pageTable[p]]].pinCount = Cardinality(HoldsIn(held, pages[pageTable[p]]))

\* No page is in the frame, and a page without users is.
Vacant(f) == \A p \in PageIDs : pageTable[p] # f
Idle(f)   == \E p \in PageIDs : pageTable[p] = f /\ object[pages[f]].pinCount = 0

FrameOK(f) ==
    /\ Contains(freeList, f) => Vacant(f) /\ ~Busy(f)
    /\ Contains(replacer, f) => Idle(f) /\ ~Busy(f)
    /\ Vacant(f) => Contains(freeList, f) \/ Busy(f)
    /\ Idle(f) => Contains(replacer, f) \/ Busy(f)

\* The frame a call has taken.
TakenOK(th) ==
    /\ reg[th].victim => Idle(reg[th].frame)
    /\ ~reg[th].victim => Vacant(reg[th].frame)
    /\ \A u \in Threads : reg[u].frame = reg[th].frame => u = th

FramesGood ==
    /\ IsInjective(freeList) /\ IsInjective(replacer)
    /\ \A f \in Frames : FrameOK(f)
    /\ \A th \in Threads : reg[th].frame # None => TakenOK(th)

\* The pages a goroutine has still to flush: nobody has them pinned or is
\* fetching them, and what is written is the last write.
ToFlush(th, p) ==
    \/ p \in reg[th].todo
    \/ reg[th].object # None /\ object[reg[th].object].id = p

Untouched(p) ==
    /\ p < nextPageID
    /\ \A u \in Threads : ~(Fetching(u) /\ reg[u].page = p)
    /\ \A u \in Threads : \A i \in 1 .. Len(held[u]) : object[held[u][i].object].id # p

FlushedObject(o) ==
    /\ object[o].id \in PageIDs
    /\ object[o].id \notin deleted => object[o].data = latest[object[o].id]
    /\ pageTable[object[o].id] # None => pages[pageTable[object[o].id]] = o

FlushOK(th) ==
    /\ \A p \in PageIDs : ToFlush(th, p) => Untouched(p)
    /\ reg[th].object # None => FlushedObject(reg[th].object)

FlushesGood == \A th \in Threads : FlushOK(th)

\* Somebody has written on the object and not yet said so.
Unsaid(o) == \E th \in Threads : \E i \in 1 .. Len(held[th]) :
                 held[th][i].wrote /\ held[th][i].object = o

StoredOK(p) ==
    /\ p >= nextPageID => latest[p] = 0 /\ p \notin deleted
    /\ p < nextPageID /\ p \notin deleted /\ pageTable[p] = None => disk[p] = latest[p]
    /\ pageTable[p] # None =>
         /\ object[pages[pageTable[p]]].data = latest[p]
         /\ \/ object[pages[pageTable[p]]].isDirty
            \/ disk[p] = latest[p]
            \/ Unsaid(pages[pageTable[p]])

Stored == \A p \in PageIDs : StoredOK(p)

PoolInv ==
    /\ PoolTypes /\ Locals /\ Fetches
    /\ TableLeads /\ UsedStay /\ PinsCount
    /\ FramesGood /\ FlushesGood /\ Stored

----------------------------------------------------------------------------
(* Lists of frames.                                                        *)

\* A sequence without one of its elements.
LEMMA RemoveAtSeq ==
    ASSUME NEW S, NEW s \in Seq(S), NEW i \in 1 .. Len(s)
    PROVE  /\ RemoveAt(s, i) \in Seq(S)
           /\ Len(RemoveAt(s, i)) = Len(s) - 1
           /\ \A j \in 1 .. Len(s) - 1 : RemoveAt(s, i)[j] = IF j < i THEN s[j] ELSE s[j + 1]
<1>1. PICK a, b : a = SubSeq(s, 1, i - 1) /\ b = SubSeq(s, i + 1, Len(s))
  OBVIOUS
<1>2. a \in Seq(S) /\ Len(a) = i - 1 /\ \A j \in 1 .. i - 1 : a[j] = s[j]
  BY <1>1, SubSeqProperties
<1>3. b \in Seq(S) /\ Len(b) = Len(s) - i /\ \A j \in 1 .. Len(s) - i : b[j] = s[i + j]
  BY <1>1
<1>4. RemoveAt(s, i) = a \o b
  BY <1>1 DEF RemoveAt
<1>5. /\ a \o b \in Seq(S)
      /\ Len(a \o b) = Len(a) + Len(b)
      /\ \A j \in 1 .. Len(a) + Len(b) : (a \o b)[j] = IF j <= Len(a) THEN a[j] ELSE b[j - Len(a)]
  BY <1>2, <1>3, ConcatProperties
<1>6. PICK c : c = a \o b
  OBVIOUS
<1>7. \A j \in 1 .. Len(s) - 1 : c[j] = IF j < i THEN s[j] ELSE s[j + 1]
  <2> SUFFICES ASSUME NEW j \in 1 .. Len(s) - 1
               PROVE  c[j] = IF j < i THEN s[j] ELSE s[j + 1]
    OBVIOUS
  <2>1. c[j] = IF j <= i - 1 THEN a[j] ELSE b[j - (i - 1)]
    BY <1>2, <1>3, <1>5, <1>6
  <2>2. CASE j < i
    BY <1>2, <2>1, <2>2
  <2>3. CASE ~(j < i)
    <3>1. j - (i - 1) \in 1 .. Len(s) - i /\ i + (j - (i - 1)) = j + 1
      BY <2>3
    <3> QED
      BY <1>3, <2>1, <2>3, <3>1
  <2> QED
    BY <2>2, <2>3
<1> QED
  BY <1>2, <1>3, <1>4, <1>5, <1>6, <1>7

\* Taking a frame out of a list that has it once.
LEMMA RemoveFirstList ==
    ASSUME NEW S, NEW s \in Seq(S), IsInjective(s), NEW e
    PROVE  /\ RemoveFirst(s, e) \in Seq(S) /\ IsInjective(RemoveFirst(s, e))
           /\ \A x : Contains(RemoveFirst(s, e), x) <=> Contains(s, x) /\ x # e
<1>1. CASE ~Contains(s, e)
  BY <1>1 DEF RemoveFirst, Contains
<1>2. CASE Contains(s, e)
  <2>1. PICK i \in 1 .. Len(s) : s[i] = e
    BY <1>2 DEF Contains
  <2>2. {j \in 1 .. Len(s) : s[j] = e} = {i}
    BY <2>1 DEF IsInjective
  <2>3. SelectInSeq(s, LAMBDA v : v = e) = i
    <3>1. Min({i}) = i
      BY DEF Min
    <3> QED
      BY <2>2, <3>1 DEF SelectInSeq
  <2>4. RemoveFirst(s, e) = RemoveAt(s, i)
    BY <1>2, <2>3 DEF RemoveFirst, Contains
  <2>5. PICK r : r = RemoveAt(s, i)
    OBVIOUS
  <2>6. /\ r \in Seq(S) /\ Len(r) = Len(s) - 1
        /\ \A j \in 1 .. Len(s) - 1 : r[j] = IF j < i THEN s[j] ELSE s[j + 1]
    BY <2>5, RemoveAtSeq
  <2>7. IsInjective(r)
    <3>1. ASSUME NEW a \in 1 .. Len(r)
          PROVE  \/ a < i /\ a \in 1 .. Len(s) /\ r[a] = s[a]
                 \/ ~(a < i) /\ a + 1 \in 1 .. Len(s) /\ r[a] = s[a + 1]
      <4>1. a \in 1 .. Len(s) - 1 /\ a \in 1 .. Len(s) /\ a + 1 \in 1 .. Len(s)
        BY <2>6
      <4>2. r[a] = IF a < i THEN s[a] ELSE s[a + 1]
        BY <2>6, <4>1
      <4> QED
        BY <4>1, <4>2
    <3>2. ASSUME NEW k \in 1 .. Len(s), NEW l \in 1 .. Len(s), s[k] = s[l] PROVE k = l
      BY <3>2 DEF IsInjective
    <3>3. ASSUME NEW a \in 1 .. Len(r), NEW b \in 1 .. Len(r), r[a] = r[b] PROVE a = b
      <4>1. CASE a < i /\ b < i
        BY <3>1, <3>2, <3>3, <4>1
      <4>2. CASE a < i /\ ~(b < i)
        <5>1. a = b + 1
          BY <3>1, <3>2, <3>3, <4>2
        <5> QED
          BY <4>2, <5>1
      <4>3. CASE ~(a < i) /\ b < i
        <5>1. a + 1 = b
          BY <3>1, <3>2, <3>3, <4>3
        <5> QED
          BY <4>3, <5>1
      <4>4. CASE ~(a < i) /\ ~(b < i)
        <5>1. a + 1 = b + 1
          BY <3>1, <3>2, <3>3, <4>4
        <5> QED
          BY <5>1
      <4> QED
        BY <4>1, <4>2, <4>3, <4>4
    <3>4. DOMAIN r = 1 .. Len(r)
      BY <2>6
    <3> QED
      BY <3>3, <3>4 DEF IsInjective
  <2>8. ASSUME NEW x PROVE Contains(r, x) <=> Contains(s, x) /\ x # e
    <3>1. ASSUME Contains(r, x) PROVE Contains(s, x) /\ x # e
      <4>1. PICK j \in 1 .. Len(s) - 1 : r[j] = x
        BY <2>6, <3>1 DEF Contains
      <4>2. PICK k \in 1 .. Len(s) : s[k] = x /\ k # i
        BY <2>6, <4>1
      <4> QED
        BY <2>1, <4>2 DEF Contains, IsInjective
    <3>2. ASSUME Contains(s, x), x # e PROVE Contains(r, x)
      <4>1. PICK k \in 1 .. Len(s) : s[k] = x /\ k # i
        BY <2>1, <3>2 DEF Contains
      <4>2. CASE k < i
        BY <2>6, <4>1, <4>2 DEF Contains
      <4>3. CASE k > i
        <5>1. k - 1 \in 1 .. Len(r) /\ r[k - 1] = x
          BY <2>6, <4>1, <4>3
        <5> QED
          BY <5>1 DEF Contains
      <4> QED
        BY <4>1, <4>2, <4>3
    <3> QED
      BY <3>1, <3>2
  <2> QED
    BY <2>4, <2>5, <2>6, <2>7, <2>8
<1> QED
  BY <1>1, <1>2

\* A frame at the end of a list that does not have it.
LEMMA AppendList ==
    ASSUME NEW S, NEW s \in Seq(S), IsInjective(s), NEW e \in S, ~Contains(s, e)
    PROVE  /\ Append(s, e) \in Seq(S) /\ IsInjective(Append(s, e))
           /\ \A x : Contains(Append(s, e), x) <=> Contains(s, x) \/ x = e
<1>1. PICK r : r = Append(s, e)
  OBVIOUS
<1>2. /\ r \in Seq(S) /\ Len(r) = Len(s) + 1
      /\ \A i \in 1 .. Len(s) : r[i] = s[i]
      /\ r[Len(s) + 1] = e
  BY <1>1, AppendProperties
<1>3. IsInjective(r)
  BY <1>2 DEF IsInjective, Contains
<1>4. \A x : Contains(r, x) <=> Contains(s, x) \/ x = e
  BY <1>2 DEF Contains
<1> QED
  BY <1>1, <1>2, <1>3, <1>4

\* The first frame of a list and the rest.
LEMMA TailList ==
    ASSUME NEW S, NEW s \in Seq(S), IsInjective(s), s # << >>
    PROVE  /\ Head(s) \in S /\ Contains(s, Head(s))
           /\ Tail(s) \in Seq(S) /\ IsInjective(Tail(s))
           /\ \A x : Contains(Tail(s), x) <=> Contains(s, x) /\ x # Head(s)
<1>1. PICK r : r = Tail(s)
  OBVIOUS
<1>2. /\ r \in Seq(S) /\ Len(r) = Len(s) - 1 /\ Len(s) \in Nat /\ Len(s) > 0
      /\ \A i \in 1 .. Len(r) : r[i] = s[i + 1]
      /\ Head(s) \in S /\ Head(s) = s[1]
  BY <1>1, HeadTailProperties, EmptySeq
<1>3. IsInjective(r)
  <2> SUFFICES ASSUME NEW a \in 1 .. Len(r), NEW b \in 1 .. Len(r), r[a] = r[b]
               PROVE  a = b
    BY <1>2 DEF IsInjective
  <2>1. s[a + 1] = s[b + 1] /\ a + 1 \in 1 .. Len(s) /\ b + 1 \in 1 .. Len(s)
    BY <1>2
  <2> QED
    BY <2>1 DEF IsInjective
<1>4. ASSUME NEW x PROVE Contains(r, x) <=> Contains(s, x) /\ x # Head(s)
  <2>1. ASSUME Contains(r, x) PROVE Contains(s, x) /\ x # Head(s)
    <3>1. PICK i \in 1 .. Len(r) : r[i] = x
      BY <2>1 DEF Contains
    <3>2. i + 1 \in 1 .. Len(s) /\ s[i + 1] = x /\ 1 \in 1 .. Len(s)
      BY <1>2, <3>1
    <3> QED
      BY <1>2, <3>2 DEF Contains, IsInjective
  <2>2. ASSUME Contains(s, x), x # Head(s) PROVE Contains(r, x)
    <3>1. PICK k \in 1 .. Len(s) : s[k] = x
      BY <2>2 DEF Contains
    <3>2. k - 1 \in 1 .. Len(r) /\ r[k - 1] = x
      BY <1>2, <2>2, <3>1
    <3> QED
      BY <3>2 DEF Contains
  <2> QED
    BY <2>1, <2>2
<1>5. Contains(s, Head(s))
  BY <1>2 DEF Contains
<1> QED
  BY <1>1, <1>2, <1>3, <1>4, <1>5

\* The free list of a new pool.
LEMMA AllFramesList ==
    ASSUME NEW S, IsFiniteSet(S)
    PROVE  /\ SetToSeq(S) \in Seq(S) /\ IsInjective(SetToSeq(S))
           /\ \A x \in S : Contains(SetToSeq(S), x)
<1>0. Cardinality(S) \in Nat
  BY FS_CardinalityType
<1>1. PICK f \in [1 .. Cardinality(S) -> S] : IsInjective(f)
  BY FS_CardinalityType DEF ExistsBijection, Bijection, Injection
<1>2. PICK q : q = SetToSeq(S)
  OBVIOUS
<1>3. q \in [1 .. Cardinality(S) -> S] /\ IsInjective(q)
  BY <1>1, <1>2 DEF SetToSeq
<1>4. q \in Seq(S) /\ Len(q) = Cardinality(S)
  BY <1>0, <1>3
<1>5. q \in Surjection(1 .. Cardinality(S), S)
  <2>1. q \in Injection(1 .. Cardinality(S), S)
    BY <1>3 DEF Injection
  <2>2. Cardinality(1 .. Cardinality(S)) = Cardinality(S)
    BY <1>0, FS_Interval
  <2> QED
    BY <2>1, <2>2, FS_Injection
<1>6. \A x \in S : Contains(q, x)
  BY <1>4, <1>5 DEF Surjection, Contains
<1> QED
  BY <1>2, <1>3, <1>4, <1>6

----------------------------------------------------------------------------
(* Holds of a page, counted.                                               *)

Holding(hd) == hd \in [Threads -> Seq(Hold)] /\ \A th \in Threads : Len(hd[th]) <= MaxHeld

\* Holds are finitely many, and none if the count is zero.
LEMMA HoldsFinite ==
    ASSUME NEW hd, Holding(hd), NEW o
    PROVE  /\ IsFiniteSet(HoldsIn(hd, o)) /\ Cardinality(HoldsIn(hd, o)) \in Nat
           /\ Cardinality(HoldsIn(hd, o)) = 0 <=>
                \A th \in Threads : \A i \in 1 .. Len(hd[th]) : hd[th][i].object # o
<1> USE DEF Holding
<1>1. IsFiniteSet(Threads \X (1 .. MaxHeld))
  <2>1. IsFiniteSet(1 .. MaxHeld)
    BY PoolAssumption, FS_Interval
  <2> QED
    BY <2>1, PoolAssumption, FS_Product
<1>2. PICK H : H = HoldsIn(hd, o)
  OBVIOUS
<1>3. IsFiniteSet(H) /\ Cardinality(H) \in Nat
  <2>1. H \in SUBSET (Threads \X (1 .. MaxHeld))
    BY <1>2 DEF HoldsIn
  <2> QED
    BY <1>1, <2>1, FS_Subset, FS_CardinalityType
<1>4. Cardinality(H) = 0 <=> H = {}
  BY <1>3, FS_EmptySet
<1>5. H = {} <=> \A th \in Threads : \A i \in 1 .. Len(hd[th]) : hd[th][i].object # o
  <2>1. ASSUME NEW th \in Threads, NEW i \in 1 .. Len(hd[th]), hd[th][i].object = o
        PROVE  <<th, i>> \in H
    <3>1. i \in 1 .. MaxHeld
      BY PoolAssumption
    <3> QED
      BY <1>2, <2>1, <3>1 DEF HoldsIn
  <2>2. ASSUME NEW h \in H
        PROVE  \E th \in Threads : \E i \in 1 .. Len(hd[th]) : hd[th][i].object = o
    BY <1>2 DEF HoldsIn
  <2> QED
    BY <2>1, <2>2
<1> QED
  BY <1>2, <1>3, <1>4, <1>5

\* From hd to hd2, goroutine t has one hold more, rec, or its i-th one less.
Taken(hd, hd2, t, rec) ==
    /\ Len(hd[t]) < MaxHeld /\ hd2[t] = Append(hd[t], rec)
    /\ \A u \in Threads : u # t => hd2[u] = hd[u]

Given(hd, hd2, t, i) ==
    /\ i \in 1 .. Len(hd[t]) /\ hd2[t] = RemoveAt(hd[t], i)
    /\ \A u \in Threads : u # t => hd2[u] = hd[u]

\* One more.
LEMMA HoldsTaken ==
    ASSUME NEW hd, NEW hd2, Holding(hd), NEW t \in Threads, NEW rec \in Hold,
           Taken(hd, hd2, t, rec), NEW o
    PROVE  Cardinality(HoldsIn(hd2, o)) =
             Cardinality(HoldsIn(hd, o)) + (IF rec.object = o THEN 1 ELSE 0)
<1> USE DEF Holding, Taken
<1>1. PICK H, H2, n : H = HoldsIn(hd, o) /\ H2 = HoldsIn(hd2, o) /\ n = Len(hd[t])
  OBVIOUS
<1>2. IsFiniteSet(H) /\ Cardinality(H) \in Nat
  BY <1>1, HoldsFinite
<1>3. /\ n \in Nat /\ n + 1 \in 1 .. MaxHeld
      /\ Len(hd2[t]) = n + 1 /\ hd2[t][n + 1] = rec
      /\ \A i \in 1 .. n : hd2[t][i] = hd[t][i]
      /\ \A u \in Threads : u # t => hd2[u] = hd[u]
  BY <1>1, PoolAssumption
<1>4. <<t, n + 1>> \notin H
  BY <1>1, <1>3 DEF HoldsIn
<1>5. ASSUME NEW h \in Threads \X (1 .. MaxHeld), h # <<t, n + 1>>
      PROVE  h \in H2 <=> h \in H
  <2>1. PICK u \in Threads, i \in 1 .. MaxHeld : h = <<u, i>>
    OBVIOUS
  <2>2. /\ h \in H2 <=> i <= Len(hd2[u]) /\ hd2[u][i].object = o
        /\ h \in H <=> i <= Len(hd[u]) /\ hd[u][i].object = o
    BY <1>1, <2>1 DEF HoldsIn
  <2>3. CASE u = t
    <3>1. i # n + 1
      BY <1>5, <2>1, <2>3
    <3>2. CASE i <= n
      <4>1. i \in 1 .. n /\ i <= n + 1
        BY <1>3, <3>2
      <4> QED
        BY <1>1, <1>3, <2>2, <2>3, <4>1, SMTT(30)
    <3>3. CASE i > n + 1
      BY <1>1, <1>3, <2>2, <2>3, <3>3
    <3> QED
      BY <1>3, <3>1, <3>2, <3>3
  <2>4. CASE u # t
    BY <1>3, <2>2, <2>4
  <2> QED
    BY <2>3, <2>4
<1>6. H \subseteq Threads \X (1 .. MaxHeld) /\ H2 \subseteq Threads \X (1 .. MaxHeld)
  BY <1>1 DEF HoldsIn
<1>7. <<t, n + 1>> \in H2 <=> rec.object = o
  BY <1>1, <1>3 DEF HoldsIn
<1>8. CASE rec.object = o
  <2>1. H2 = H \union {<<t, n + 1>>}
    BY <1>5, <1>6, <1>7, <1>8
  <2>2. Cardinality(H2) = Cardinality(H) + 1
    BY <1>2, <1>4, <2>1, FS_AddElement
  <2> QED
    BY <1>1, <1>8, <2>2
<1>9. CASE rec.object # o
  <2>1. \A h : h \in H2 <=> h \in H
    BY <1>4, <1>5, <1>6, <1>7, <1>9
  <2>2. H2 = H
    BY <2>1
  <2> QED
    BY <1>1, <1>2, <1>9, <2>2
<1> QED
  BY <1>8, <1>9

\* The holds with the i-th of t taken out of the list.
Shifted(H, t, i) == [h \in H |-> IF h[1] = t /\ h[2] > i THEN <<t, h[2] - 1>> ELSE h]

\* One less.
LEMMA HoldsGiven ==
    ASSUME NEW hd, NEW hd2, Holding(hd), NEW t \in Threads, NEW i,
           Given(hd, hd2, t, i), NEW o
    PROVE  Cardinality(HoldsIn(hd, o)) =
             Cardinality(HoldsIn(hd2, o)) + (IF hd[t][i].object = o THEN 1 ELSE 0)
<1> USE DEF Holding, Given
<1>1. PICK H, H2, n, G : /\ H = HoldsIn(hd, o) /\ H2 = HoldsIn(hd2, o) /\ n = Len(hd[t])
                         /\ G = H \ {<<t, i>>}
  OBVIOUS
<1>2. IsFiniteSet(H) /\ Cardinality(H) \in Nat
  BY <1>1, HoldsFinite
<1>3. /\ n \in Nat /\ n <= MaxHeld /\ MaxHeld \in Nat /\ i \in 1 .. n
      /\ Len(hd2[t]) = n - 1
      /\ \A j \in 1 .. n - 1 : hd2[t][j] = IF j < i THEN hd[t][j] ELSE hd[t][j + 1]
      /\ \A u \in Threads : u # t => hd2[u] = hd[u]
  <2>1. hd[t] \in Seq(Hold) /\ hd2[t] = RemoveAt(hd[t], i)
    OBVIOUS
  <2>2. /\ Len(RemoveAt(hd[t], i)) = Len(hd[t]) - 1
        /\ \A j \in 1 .. Len(hd[t]) - 1 :
             RemoveAt(hd[t], i)[j] = IF j < i THEN hd[t][j] ELSE hd[t][j + 1]
    BY <2>1, RemoveAtSeq
  <2>3. \A u \in Threads : u # t => hd2[u] = hd[u]
    OBVIOUS
  <2>4. n \in Nat /\ n <= MaxHeld /\ MaxHeld \in Nat /\ i \in 1 .. n
    BY <1>1, <2>1, PoolAssumption
  <2> QED
    BY <1>1, <2>1, <2>2, <2>3, <2>4
<1>4. ASSUME NEW u \in Threads, NEW j \in 1 .. MaxHeld
      PROVE  /\ <<u, j>> \in H <=> j <= Len(hd[u]) /\ hd[u][j].object = o
             /\ <<u, j>> \in H2 <=> j <= Len(hd2[u]) /\ hd2[u][j].object = o
  BY <1>1 DEF HoldsIn
<1>5. H \subseteq Threads \X (1 .. MaxHeld) /\ H2 \subseteq Threads \X (1 .. MaxHeld)
  BY <1>1 DEF HoldsIn
<1>6. \A h \in Threads \X (1 .. MaxHeld) : h = <<h[1], h[2]>> /\ h[1] \in Threads /\ h[2] \in 1 .. MaxHeld
  OBVIOUS
<1>7. PICK f : f = Shifted(G, t, i)
  OBVIOUS
<1>8. ASSUME NEW h \in G
      PROVE  /\ h[1] = t /\ h[2] > i => f[h] = <<t, h[2] - 1>>
             /\ ~(h[1] = t /\ h[2] > i) => f[h] = h
  BY <1>7 DEF Shifted
<1>9. DOMAIN f = G
  BY <1>7 DEF Shifted
<1>10. ASSUME NEW h \in G PROVE f[h] \in H2
  <2>1. h \in H /\ h # <<t, i>> /\ h = <<h[1], h[2]>> /\ h[1] \in Threads /\ h[2] \in 1 .. MaxHeld
    BY <1>1, <1>5, <1>6
  <2>2. h[2] <= Len(hd[h[1]]) /\ hd[h[1]][h[2]].object = o
    BY <1>4, <2>1
  <2>3. CASE h[1] = t /\ h[2] > i
    <3>1. h[2] - 1 \in 1 .. n - 1 /\ h[2] - 1 \in 1 .. MaxHeld /\ ~(h[2] - 1 < i)
      BY <1>1, <1>3, <2>1, <2>2, <2>3
    <3>2. hd2[t][h[2] - 1] = hd[t][h[2]]
      <4>1. (h[2] - 1) + 1 = h[2]
        BY <2>1
      <4> QED
        BY <1>3, <3>1, <4>1
    <3>3. <<t, h[2] - 1>> \in H2
      BY <1>3, <1>4, <2>2, <2>3, <3>1, <3>2, SMTT(30)
    <3> QED
      BY <1>8, <2>3, <3>3
  <2>4. CASE h[1] = t /\ ~(h[2] > i)
    <3>1. h[2] # i
      BY <2>1, <2>4
    <3>2. h[2] \in 1 .. n - 1 /\ h[2] < i
      BY <1>3, <2>1, <2>4, <3>1
    <3>3. h \in H2
      BY <1>3, <1>4, <2>1, <2>2, <2>4, <3>2
    <3> QED
      BY <1>8, <2>4, <3>3
  <2>5. CASE h[1] # t
    BY <1>3, <1>4, <1>8, <2>1, <2>2, <2>5
  <2> QED
    BY <2>3, <2>4, <2>5
<1>11. ASSUME NEW k \in H2 PROVE \E h \in G : f[h] = k
  <2>1. k = <<k[1], k[2]>> /\ k[1] \in Threads /\ k[2] \in 1 .. MaxHeld
    BY <1>5, <1>6
  <2>2. k[2] <= Len(hd2[k[1]]) /\ hd2[k[1]][k[2]].object = o
    BY <1>4, <2>1
  <2>3. CASE k[1] = t /\ k[2] >= i
    <3>1. k[2] \in 1 .. n - 1 /\ k[2] + 1 \in 1 .. MaxHeld /\ k[2] + 1 <= n
      BY <1>3, <2>1, <2>2, <2>3
    <3>2. hd2[t][k[2]] = hd[t][k[2] + 1]
      BY <1>3, <2>1, <2>3, <3>1
    <3>3. <<t, k[2] + 1>> \in H
      BY <1>1, <1>4, <2>2, <2>3, <3>1, <3>2
    <3>4. PICK h : h = <<t, k[2] + 1>>
      OBVIOUS
    <3>5. h[1] = t /\ h[2] = k[2] + 1 /\ h # <<t, i>>
      BY <1>3, <2>1, <2>3, <3>4
    <3>6. h \in G /\ h[2] > i /\ h[2] - 1 = k[2]
      BY <1>1, <1>3, <2>1, <2>3, <3>3, <3>4, <3>5
    <3>7. f[h] = k
      BY <1>8, <2>1, <2>3, <3>5, <3>6
    <3> QED
      BY <3>6, <3>7
  <2>4. CASE k[1] = t /\ ~(k[2] >= i)
    <3>1. k[2] \in 1 .. n - 1 /\ k[2] < i /\ k[2] <= n
      BY <1>3, <2>1, <2>2, <2>4
    <3>2. hd2[t][k[2]] = hd[t][k[2]]
      BY <1>3, <3>1
    <3>3. k \in H /\ k # <<t, i>>
      <4>1. k \in H
        BY <1>1, <1>4, <2>1, <2>2, <2>4, <3>1, <3>2
      <4> QED
        BY <2>1, <3>1, <4>1, <1>3
    <3>4. k \in G /\ ~(k[2] > i)
      BY <1>1, <1>3, <2>1, <3>1, <3>3
    <3> QED
      BY <1>8, <3>4
  <2>5. CASE k[1] # t
    <3>1. k \in H /\ k # <<t, i>>
      BY <1>3, <1>4, <2>1, <2>2, <2>5
    <3> QED
      BY <1>1, <1>8, <2>5, <3>1
  <2> QED
    BY <2>3, <2>4, <2>5
<1>12. ASSUME NEW g \in G, NEW h \in G, f[g] = f[h] PROVE g = h
  <2>1. /\ g # <<t, i>> /\ g = <<g[1], g[2]>> /\ g[2] \in 1 .. MaxHeld
        /\ h # <<t, i>> /\ h = <<h[1], h[2]>> /\ h[2] \in 1 .. MaxHeld
    BY <1>1, <1>5, <1>6
  <2>2. CASE g[1] = t /\ g[2] > i /\ h[1] = t /\ h[2] > i
    <3>1. g[2] - 1 = h[2] - 1
      BY <1>8, <1>12, <2>2
    <3> QED
      BY <2>1, <2>2, <3>1
  <2>3. CASE ~(g[1] = t /\ g[2] > i) /\ ~(h[1] = t /\ h[2] > i)
    BY <1>8, <1>12, <2>3
  <2>4. CASE g[1] = t /\ g[2] > i /\ ~(h[1] = t /\ h[2] > i)
    <3>1. h = <<t, g[2] - 1>>
      BY <1>8, <1>12, <2>4
    <3>2. h[1] = t /\ h[2] = g[2] - 1 /\ h[2] # i
      BY <2>1, <3>1
    <3> QED
      BY <1>3, <2>1, <2>4, <3>2
  <2>5. CASE ~(g[1] = t /\ g[2] > i) /\ h[1] = t /\ h[2] > i
    <3>1. g = <<t, h[2] - 1>>
      BY <1>8, <1>12, <2>5
    <3>2. g[1] = t /\ g[2] = h[2] - 1 /\ g[2] # i
      BY <2>1, <3>1
    <3> QED
      BY <1>3, <2>1, <2>5, <3>2
  <2> QED
    BY <2>2, <2>3, <2>4, <2>5
<1>13. IsFiniteSet(G) /\ Cardinality(H2) = Cardinality(G)
  <2>1. IsFiniteSet(G)
    BY <1>1, <1>2, FS_RemoveElement
  <2>2. f \in [G -> H2]
    BY <1>7, <1>10 DEF Shifted
  <2>3. f \in Injection(G, H2)
    BY <1>9, <1>12, <2>2 DEF Injection, IsInjective
  <2>4. f \in Surjection(G, H2)
    BY <1>11, <2>2 DEF Surjection
  <2>5. ExistsBijection(G, H2)
    BY <2>3, <2>4 DEF ExistsBijection, Bijection
  <2> QED
    BY <2>1, <2>5, FS_Bijection
<1>14. Cardinality(G) = IF <<t, i>> \in H THEN Cardinality(H) - 1 ELSE Cardinality(H)
  BY <1>1, <1>2, FS_RemoveElement
<1>15. <<t, i>> \in H <=> hd[t][i].object = o
  BY <1>1, <1>3, <1>4
<1> QED
  BY <1>1, <1>2, <1>13, <1>14, <1>15

----------------------------------------------------------------------------
(* The first state, and steps that touch nothing but local variables.      *)

\* There is always a name for a new page object.
LEMMA FreshIsFresh ==
    ASSUME PoolTypes, Locals, UsedStay, NEW th \in Threads, pc[th] \in {"install", "new"}
    PROVE  /\ FreshObject \in Objects
           /\ \A f \in Frames : pages[f] # FreshObject
           /\ \A u \in Threads : reg[u].object # FreshObject
           /\ \A u \in Threads : \A i \in 1 .. Len(held[u]) : held[u][i].object # FreshObject
<1>1. PICK P, Q, rg : /\ P = {pages[f] : f \in Frames} /\ Q = {reg[u].object : u \in Threads}
                      /\ rg = [u \in Threads |-> reg[u].object]
  OBVIOUS
<1>2. IsFiniteSet(Frames) /\ IsFiniteSet(Threads) /\ MaxHeld \in Nat /\ MaxHeld >= 1
  <2>1. Len(held[th]) \in Nat /\ Len(held[th]) < MaxHeld
    BY DEF Locals, LocalOK, PoolTypes
  <2> QED
    BY <2>1, PoolAssumption
<1>3. IsFiniteSet(P) /\ Cardinality(P) <= Cardinality(Frames)
  <2>1. pages \in Surjection(Frames, P)
    BY <1>1 DEF PoolTypes, Surjection
  <2> QED
    BY <1>2, <2>1, FS_Surjection
<1>4. IsFiniteSet(Q) /\ Cardinality(Q) <= Cardinality(Threads)
  <2>1. rg \in Surjection(Threads, Q)
    BY <1>1 DEF Surjection
  <2> QED
    BY <1>2, <2>1, FS_Surjection
<1>5. /\ Cardinality(Frames) \in Nat /\ Cardinality(Threads) \in Nat /\ Cardinality(Threads) >= 1
      /\ Cardinality(P) \in Nat /\ Cardinality(Q) \in Nat
  <2>1. Cardinality(Threads) # 0
    BY <1>2, FS_EmptySet
  <2> QED
    BY <1>2, <1>3, <1>4, <2>1, FS_CardinalityType
<1>6. IsFiniteSet(P \union Q) /\ Cardinality(P \union Q) <= Cardinality(Frames) + Cardinality(Threads)
  <2>1. P \cap Q \in SUBSET P
    OBVIOUS
  <2>2. Cardinality(P \cap Q) \in Nat
    BY <1>3, <2>1, FS_Subset, FS_CardinalityType
  <2> QED
    BY <1>3, <1>4, <1>5, <2>2, FS_Union
<1>7. PICK n : n = Cardinality(Frames) + Cardinality(Threads) * (MaxHeld + 1)
  OBVIOUS
<1>8. n \in Nat /\ n > Cardinality(Frames) + Cardinality(Threads)
  <2>1. PICK c \in Nat : c = Cardinality(Threads) /\ c >= 1
    BY <1>5
  <2>2. c * (MaxHeld + 1) = c * MaxHeld + c
    BY <1>2
  <2>3. c * MaxHeld >= 1 /\ c * MaxHeld \in Nat
    BY <1>2, <2>1
  <2> QED
    BY <1>5, <1>7, <2>1, <2>2, <2>3
<1>9. Objects = 1 .. n /\ Cardinality(Objects) = n
  <2>1. Objects = 1 .. n
    BY <1>7 DEF Objects
  <2> QED
    BY <1>8, <2>1, FS_Interval
<1>10. Reachable \subseteq P \union Q
  <2>1. ASSUME NEW o \in Objects, Users(o) # {} PROVE o \in P
    <3>1. PICK u \in Threads : \E i \in DOMAIN held[u] : held[u][i].object = o
      BY <2>1 DEF Users
    <3>2. PICK i \in 1 .. Len(held[u]) : held[u][i].object = o
      BY <3>1 DEF PoolTypes
    <3>3. pageTable[object[o].id] \in Frames /\ pages[pageTable[object[o].id]] = o
      BY <3>2, ZenonT(30) DEF UsedStay, PoolTypes
    <3> QED
      BY <1>1, <3>3
  <2> QED
    BY <1>1, <2>1 DEF Reachable
<1>11. \E o \in Objects : o \notin Reachable
  <2> SUFFICES ASSUME \A o \in Objects : o \in Reachable PROVE FALSE
    OBVIOUS
  <2>1. Objects \in SUBSET (P \union Q)
    BY <1>10
  <2>2. Cardinality(Objects) <= Cardinality(P \union Q)
    BY <1>6, <2>1, FS_Subset
  <2>3. Cardinality(P \union Q) \in Nat
    BY <1>6, FS_CardinalityType
  <2> QED
    BY <1>5, <1>6, <1>8, <1>9, <2>2, <2>3
<1>12. FreshObject \in Objects /\ FreshObject \notin Reachable
  BY <1>11 DEF FreshObject
<1>13. ASSUME NEW u \in Threads, NEW i \in 1 .. Len(held[u])
       PROVE  held[u][i].object # FreshObject
  <2>1. i \in DOMAIN held[u]
    BY DEF PoolTypes
  <2>2. held[u][i].object = FreshObject => u \in Users(FreshObject)
    BY <2>1 DEF Users
  <2> QED
    BY <1>12, <2>2 DEF Reachable
<1> QED
  BY <1>12, <1>13 DEF Reachable

\* The new pool.
LEMMA PoolInit ==
    ASSUME Init
    PROVE  PoolInv
<1> USE DEF Init
<1>1. NoReg \in Registers /\ Blank \in PageObject
  BY PoolAssumption DEF NoReg, Registers, Blank, PageObject
<1>2. PICK L : L = SetToSeq(Frames)
  OBVIOUS
<1>3. L \in Seq(Frames) /\ IsInjective(L) /\ \A f \in Frames : Contains(L, f)
  BY <1>2, PoolAssumption, AllFramesList
<1>4. PoolTypes
  BY <1>1, <1>2, <1>3, PoolAssumption DEF PoolTypes, Labels
<1>5. \A th \in Threads : held[th] = << >> /\ Len(held[th]) = 0 /\ reg[th] = NoReg /\ pc[th] = "idle"
  OBVIOUS
<1>6. /\ NoReg.frame = None /\ NoReg.todo = {} /\ NoReg.object = None /\ NoReg.victim = FALSE
  BY DEF NoReg
<1>7. Locals
  BY <1>5, <1>6, PoolAssumption DEF Locals, LocalOK
<1>8. Fetches /\ TableLeads /\ UsedStay /\ PinsCount
  BY <1>5 DEF Fetches, Fetching, TableLeads, UsedStay, PinsCount
<1>9. FramesGood
  <2>1. \A f \in Frames : Vacant(f) /\ ~Idle(f) /\ ~Busy(f)
    BY <1>5, <1>6, PoolAssumption DEF Vacant, Idle, Busy
  <2>2. IsInjective(replacer) /\ \A f : ~Contains(replacer, f)
    BY DEF IsInjective, Contains
  <2>3. IsInjective(freeList) /\ \A f \in Frames : Contains(freeList, f)
    BY <1>2, <1>3
  <2>4. \A f \in Frames : FrameOK(f)
    BY <2>1, <2>2, <2>3 DEF FrameOK
  <2> QED
    BY <1>5, <1>6, <2>2, <2>3, <2>4 DEF FramesGood
<1>10. FlushesGood
  BY <1>5, <1>6 DEF FlushesGood, FlushOK, ToFlush
<1>11. Stored
  BY DEF Stored, StoredOK, PageIDs
<1> QED
  BY <1>4, <1>7, <1>8, <1>9, <1>10, <1>11 DEF PoolInv

\* A step of one goroutine on its own variables, its frame apart.
LEMMA LocalStep ==
    ASSUME PoolInv, NEW th \in Threads, NEW l \in Labels, NEW r \in Registers,
           UNCHANGED <<object, pages, pageTable, freeList, replacer, disk, nextPageID, held,
                       writes, latest, deleted>>,
           pc' = [pc EXCEPT ![th] = l], reg' = [reg EXCEPT ![th] = r],
           r.frame = reg[th].frame, r.victim = reg[th].victim,
           LocalOK(th)', Fetching(th)' => FetchOK(th)', FlushOK(th)',
           Fetching(th)' => \A u \in Threads : u # th => ~ToFlush(u, r.page)
    PROVE  PoolInv'
<1>1. /\ PoolTypes /\ Locals /\ Fetches /\ TableLeads /\ UsedStay /\ PinsCount
      /\ FramesGood /\ FlushesGood /\ Stored
  BY DEF PoolInv
<1>2. /\ pc'[th] = l /\ reg'[th] = r
      /\ \A u \in Threads : u # th => pc'[u] = pc[u] /\ reg'[u] = reg[u]
      /\ \A u \in Threads : reg'[u].frame = reg[u].frame /\ reg'[u].victim = reg[u].victim
  BY <1>1 DEF PoolTypes
<1>3. PoolTypes'
  BY <1>1 DEF PoolTypes
<1>4. Locals'
  BY <1>1, <1>2 DEF Locals, LocalOK
<1>5. Fetches'
  <2> SUFFICES ASSUME NEW u \in Threads, Fetching(u)' PROVE FetchOK(u)'
    BY DEF Fetches
  <2>1. CASE u = th
    BY <2>1
  <2>2. CASE u # th
    <3>1. FetchOK(u)
      BY <1>1, <1>2, <2>2 DEF Fetches, Fetching
    <3>2. \A w \in Threads : Fetching(w)' /\ reg'[w].page = reg'[u].page => w = u
      <4> SUFFICES ASSUME NEW w \in Threads, Fetching(w)', reg'[w].page = reg'[u].page
                   PROVE  w = u
        OBVIOUS
      <4>1. CASE w = th
        BY <2>2, <4>1 DEF FetchOK
      <4>2. CASE w # th
        BY <1>2, <2>2, <3>1, <4>2 DEF FetchOK, Fetching
      <4> QED
        BY <4>1, <4>2
    <3> QED
      BY <1>2, <2>2, <3>1, <3>2 DEF FetchOK
  <2> QED
    BY <2>1, <2>2
<1>6. TableLeads' /\ UsedStay' /\ PinsCount'
  BY <1>1 DEF TableLeads, UsedStay, PinsCount
<1>7. FramesGood'
  <2>1. \A f : Busy(f)' <=> Busy(f)
    BY <1>2 DEF Busy
  <2>2. \A f : (Vacant(f)' <=> Vacant(f)) /\ (Idle(f)' <=> Idle(f))
    BY DEF Vacant, Idle
  <2>3. \A f \in Frames : FrameOK(f)'
    BY <1>1, <2>1, <2>2 DEF FramesGood, FrameOK
  <2>4. \A u \in Threads : reg'[u].frame # None => TakenOK(u)'
    BY <1>1, <1>2, <2>2 DEF FramesGood, TakenOK
  <2> QED
    BY <1>1, <2>3, <2>4 DEF FramesGood
<1>8. FlushesGood'
  <2> SUFFICES ASSUME NEW u \in Threads PROVE FlushOK(u)'
    BY DEF FlushesGood
  <2>1. CASE u = th
    BY <2>1
  <2>2. CASE u # th
    <3>1. FlushOK(u) /\ reg'[u] = reg[u]
      BY <1>1, <1>2, <2>2 DEF FlushesGood
    <3>2. ASSUME NEW p \in PageIDs, ToFlush(u, p)' PROVE Untouched(p)'
      <4>1. ToFlush(u, p) /\ Untouched(p)
        BY <3>1, <3>2 DEF ToFlush, FlushOK
      <4>2. ASSUME NEW w \in Threads PROVE ~(Fetching(w)' /\ reg'[w].page = p)
        <5>1. CASE w = th
          BY <1>2, <2>2, <4>1, <5>1
        <5>2. CASE w # th
          BY <1>2, <4>1, <5>2 DEF Untouched, Fetching
        <5> QED
          BY <5>1, <5>2
      <4> QED
        BY <4>1, <4>2 DEF Untouched
    <3>3. ASSUME reg'[u].object # None PROVE FlushedObject(reg[u].object)'
      <4>1. FlushedObject(reg[u].object)
        BY <3>1, <3>3 DEF FlushOK
      <4>2. PICK o : o = reg[u].object /\ o = reg'[u].object
        BY <3>1
      <4>3. FlushedObject(o)
        BY <4>1, <4>2
      <4>4. FlushedObject(o)'
        BY <4>3 DEF FlushedObject
      <4> QED
        BY <4>2, <4>4
    <3> QED
      BY <3>2, <3>3 DEF FlushOK
  <2> QED
    BY <2>1, <2>2
<1>9. Stored'
  BY <1>1 DEF Stored, StoredOK, Unsaid
<1> QED
  BY <1>3, <1>4, <1>5, <1>6, <1>7, <1>8, <1>9 DEF PoolInv

\* No frame, nothing to flush.
LEMMA NoRegFields ==
    /\ NoReg \in Registers
    /\ NoReg.frame = None /\ NoReg.victim = FALSE /\ NoReg.todo = {} /\ NoReg.object = None
BY PoolAssumption DEF NoReg, Registers

\* Where a call has no frame it has no victim.
LEMMA NoFrameNoVictim ==
    ASSUME PoolInv, NEW th \in Threads, pc[th] \in {"idle", "flush"} \/ reg[th].frame = None
    PROVE  reg[th].frame = None /\ reg[th].victim = FALSE
<1>1. reg[th].victim \in BOOLEAN
  BY DEF PoolInv, PoolTypes, Registers
<1> QED
  BY <1>1 DEF PoolInv, Locals, LocalOK

\* A call that ends, or begins, without anything in its hands.
LEMMA EmptyHanded ==
    ASSUME PoolInv, NEW th \in Threads, NEW l \in {"idle", "new"},
           l = "new" => Len(held[th]) < MaxHeld,
           UNCHANGED <<object, pages, pageTable, freeList, replacer, disk, nextPageID, held,
                       writes, latest, deleted>>,
           GoTo(th, l, NoReg),
           pc[th] \in {"idle", "flush"} \/ reg[th].frame = None
    PROVE  PoolInv'
<1>1. pc' = [pc EXCEPT ![th] = l] /\ reg' = [reg EXCEPT ![th] = NoReg]
  BY DEF GoTo
<1>2. pc'[th] = l /\ reg'[th] = NoReg /\ l \in Labels
  BY <1>1 DEF PoolInv, PoolTypes, Labels
<1>3. LocalOK(th)'
  BY <1>2, NoRegFields DEF PoolInv, Locals, LocalOK
<1>4. ~Fetching(th)'
  BY <1>2 DEF Fetching
<1>5. FlushOK(th)'
  BY <1>2, NoRegFields DEF FlushOK, ToFlush
<1>6. NoReg.frame = reg[th].frame /\ NoReg.victim = reg[th].victim
  BY NoRegFields, NoFrameNoVictim
<1> QED
  BY <1>1, <1>2, <1>3, <1>4, <1>5, <1>6, NoRegFields, LocalStep

\* NewPage.
LEMMA NewPageStep ==
    ASSUME PoolInv, NEW th \in Threads, NewPage(th)
    PROVE  PoolInv'
BY EmptyHanded DEF NewPage, poolVars, diskVars, histVars

\* The end of FlushPage and FlushAllPages.
LEMMA FlushReturnStep ==
    ASSUME PoolInv, NEW th \in Threads, FlushReturn(th)
    PROVE  PoolInv'
BY EmptyHanded DEF FlushReturn, Return, poolVars, diskVars, histVars

\* FetchPage does not find the page.
LEMMA FetchMissStep ==
    ASSUME PoolInv, NEW th \in Threads, NEW p \in PageIDs, p \notin Resident, ~clashed',
           FetchPage(th, p)
    PROVE  PoolInv'
<1>1. PICK r : r = [NoReg EXCEPT !.page = p]
  OBVIOUS
<1>2. /\ r \in Registers /\ r.frame = None /\ r.victim = FALSE /\ r.todo = {} /\ r.object = None
      /\ r.page = p
  <2>1. p \in Nat
    BY PoolAssumption DEF PageIDs
  <2> QED
    BY <1>1, <2>1, NoRegFields DEF NoReg, Registers
<1>3. /\ pc[th] = "idle" /\ Len(held[th]) < MaxHeld /\ p < nextPageID /\ p \notin deleted
      /\ pc' = [pc EXCEPT ![th] = "fetch"] /\ reg' = [reg EXCEPT ![th] = r]
      /\ UNCHANGED <<object, pages, pageTable, freeList, replacer, disk, nextPageID, held,
                     writes, latest, deleted>>
      /\ ~BeingFetched(p) /\ ~BeingFlushed(p)
  BY <1>1 DEF FetchPage, GoTo, diskVars
<1>4. pc'[th] = "fetch" /\ reg'[th] = r /\ "fetch" \in Labels
  BY <1>3 DEF PoolInv, PoolTypes, Labels
<1>5. LocalOK(th)'
  BY <1>2, <1>3, <1>4 DEF PoolInv, Locals, LocalOK
<1>6. FetchOK(th)'
  <2>1. pageTable[p] = None
    BY DEF Resident
  <2>2. ASSUME NEW u \in Threads, Fetching(u)', reg'[u].page = p, u # th PROVE FALSE
    <3>1. pc[u] \in {"fetch", "install"} /\ reg[u].page = p
      BY <1>3, <2>2 DEF Fetching, PoolInv, PoolTypes
    <3> QED
      BY <1>3, <3>1 DEF BeingFetched
  <2> QED
    BY <1>2, <1>3, <1>4, <2>1, <2>2 DEF FetchOK
<1>7. FlushOK(th)'
  BY <1>2, <1>4 DEF FlushOK, ToFlush
<1>8. ASSUME NEW u \in Threads, u # th, ToFlush(u, p) PROVE FALSE
  <2>1. pc[u] = "flush"
    BY <1>8 DEF PoolInv, Locals, LocalOK, ToFlush
  <2> QED
    BY <1>3, <1>8, <2>1 DEF BeingFlushed, ToFlush
<1>9. r.frame = reg[th].frame /\ r.victim = reg[th].victim
  BY <1>2, <1>3, NoFrameNoVictim
<1> QED
  BY <1>2, <1>3, <1>4, <1>5, <1>6, <1>7, <1>8, <1>9, LocalStep

\* ReadPage finds what was written last.
LEMMA ReadPageStep ==
    ASSUME PoolInv, NEW th \in Threads, ReadPage(th)
    PROVE  PoolInv'
<1>1. pc[th] = "fetch" /\ reg[th].frame # None /\ ~reg[th].victim
  BY DEF ReadPage
<1>2. PICK p : p = reg[th].page
  OBVIOUS
<1>3. p \in PageIDs /\ p < nextPageID /\ p \notin deleted /\ pageTable[p] = None /\ FetchOK(th)
  BY <1>1, <1>2 DEF PoolInv, Fetches, Fetching, FetchOK
<1>4. disk[p] = latest[p] /\ disk[p] # None /\ disk[p] \in Nat
  <2>1. disk[p] = latest[p] /\ latest[p] \in Nat
    BY <1>3 DEF PoolInv, Stored, StoredOK, PoolTypes
  <2> QED
    BY <2>1, PoolAssumption
<1>5. PICK r : r = [reg[th] EXCEPT !.data = disk[p]]
  OBVIOUS
<1>6. /\ r \in Registers /\ r.frame = reg[th].frame /\ r.victim = reg[th].victim
      /\ r.todo = reg[th].todo /\ r.object = reg[th].object /\ r.page = p /\ r.data = disk[p]
  <2>1. reg[th] \in Registers
    BY DEF PoolInv, PoolTypes
  <2> QED
    BY <1>2, <1>4, <1>5, <2>1 DEF Registers
<1>7. /\ pc' = [pc EXCEPT ![th] = "install"] /\ reg' = [reg EXCEPT ![th] = r]
      /\ UNCHANGED <<object, pages, pageTable, freeList, replacer, disk, nextPageID, held,
                     writes, latest, deleted>>
  BY <1>2, <1>4, <1>5 DEF ReadPage, GoTo, poolVars, diskVars, histVars
<1>8. pc'[th] = "install" /\ reg'[th] = r /\ "install" \in Labels
  BY <1>7 DEF PoolInv, PoolTypes, Labels
<1>9. LocalOK(th)'
  BY <1>1, <1>6, <1>7, <1>8 DEF PoolInv, Locals, LocalOK
<1>10. FetchOK(th)'
  <2>1. ASSUME NEW u \in Threads, Fetching(u)', reg'[u].page = p, u # th PROVE FALSE
    <3>1. Fetching(u) /\ reg[u].page = p
      BY <1>7, <2>1 DEF Fetching, PoolInv, PoolTypes
    <3> QED
      BY <1>2, <1>3, <2>1, <3>1 DEF FetchOK
  <2> QED
    BY <1>3, <1>4, <1>6, <1>7, <1>8, <2>1 DEF FetchOK
<1>11. FlushOK(th)'
  <2>1. reg[th].todo = {} /\ reg[th].object = None
    BY <1>1 DEF PoolInv, Locals, LocalOK
  <2> QED
    BY <1>6, <1>8, <2>1 DEF FlushOK, ToFlush
<1>12. ASSUME NEW u \in Threads, u # th, ToFlush(u, p) PROVE FALSE
  <2>1. Untouched(p)
    BY <1>3, <1>12 DEF PoolInv, FlushesGood, FlushOK
  <2> QED
    BY <1>1, <1>2, <2>1 DEF Untouched, Fetching
<1> QED
  BY <1>6, <1>7, <1>8, <1>9, <1>10, <1>11, <1>12, LocalStep

\* FlushPage and FlushAllPages begin.
LEMMA FlushPagesStep ==
    ASSUME PoolInv, NEW th \in Threads, NEW ids \in SUBSET Resident, ~clashed',
           FlushPages(th, ids)
    PROVE  PoolInv'
<1>1. PICK r : r = [NoReg EXCEPT !.todo = ids]
  OBVIOUS
<1>2. /\ r \in Registers /\ r.frame = None /\ r.victim = FALSE /\ r.todo = ids /\ r.object = None
  BY <1>1, NoRegFields DEF NoReg, Registers, Resident
<1>3. /\ pc[th] = "idle"
      /\ pc' = [pc EXCEPT ![th] = "flush"] /\ reg' = [reg EXCEPT ![th] = r]
      /\ UNCHANGED <<object, pages, pageTable, freeList, replacer, disk, nextPageID, held,
                     writes, latest, deleted>>
      /\ \A p \in ids : ~Pinned(p) /\ ~BeingFetched(p)
  BY <1>1 DEF FlushPages, GoTo, poolVars, diskVars
<1>4. pc'[th] = "flush" /\ reg'[th] = r /\ "flush" \in Labels
  BY <1>3 DEF PoolInv, PoolTypes, Labels
<1>5. LocalOK(th)'
  BY <1>2, <1>3, <1>4 DEF PoolInv, Locals, LocalOK
<1>6. ~Fetching(th)'
  BY <1>4 DEF Fetching
<1>7. FlushOK(th)'
  <2>1. ASSUME NEW p \in PageIDs, ToFlush(th, p)' PROVE Untouched(p)'
    <3>1. p \in ids
      BY <1>2, <1>4, <2>1 DEF ToFlush
    <3>2. p < nextPageID
      BY <3>1 DEF Resident, PoolInv, TableLeads
    <3>3. ASSUME NEW u \in Threads, Fetching(u)', reg'[u].page = p PROVE FALSE
      <4>1. u # th
        BY <1>6, <3>3
      <4>2. pc[u] \in {"fetch", "install"} /\ reg[u].page = p
        BY <1>3, <3>3, <4>1 DEF Fetching, PoolInv, PoolTypes
      <4> QED
        BY <1>3, <3>1, <4>2 DEF BeingFetched
    <3>4. ASSUME NEW u \in Threads, NEW i \in 1 .. Len(held[u]) PROVE object[held[u][i].object].id # p
      <4>1. i \in DOMAIN held[u]
        BY DEF PoolInv, PoolTypes
      <4> QED
        BY <1>3, <3>1, <4>1 DEF Pinned
    <3> QED
      BY <1>3, <3>2, <3>3, <3>4 DEF Untouched
  <2> QED
    BY <1>2, <1>4, <2>1 DEF FlushOK
<1>8. r.frame = reg[th].frame /\ r.victim = reg[th].victim
  BY <1>2, <1>3, NoFrameNoVictim
<1> QED
  BY <1>2, <1>3, <1>4, <1>5, <1>6, <1>7, <1>8, LocalStep

\* FlushPage looks the page up.
LEMMA FlushLookupStep ==
    ASSUME PoolInv, NEW th \in Threads, NEW p \in PageIDs, FlushLookup(th, p)
    PROVE  PoolInv'
<1>1. pc[th] = "flush" /\ reg[th].object = None /\ p \in reg[th].todo
  BY DEF FlushLookup
<1>2. PICK o : o = IF p \in Resident THEN ObjectOf(p) ELSE None
  OBVIOUS
<1>3. /\ o \in Objects \union {None}
      /\ o # None => /\ pageTable[p] # None /\ o = pages[pageTable[p]]
                     /\ object[o].id = p /\ object[o].data = latest[p]
  BY <1>2 DEF PoolInv, TableLeads, Stored, StoredOK, Resident, ObjectOf
<1>4. PICK r : r = [reg[th] EXCEPT !.todo = @ \ {p}, !.object = o]
  OBVIOUS
<1>5. /\ r \in Registers /\ r.frame = reg[th].frame /\ r.victim = reg[th].victim
      /\ r.todo = reg[th].todo \ {p} /\ r.object = o
  <2>1. reg[th] \in Registers
    BY DEF PoolInv, PoolTypes
  <2> QED
    BY <1>3, <1>4, <2>1 DEF Registers
<1>6. /\ pc' = [pc EXCEPT ![th] = "flush"] /\ reg' = [reg EXCEPT ![th] = r]
      /\ UNCHANGED <<object, pages, pageTable, freeList, replacer, disk, nextPageID, held,
                     writes, latest, deleted>>
  <2>1. reg' = [reg EXCEPT ![th] = r]
    BY <1>2, <1>4 DEF FlushLookup, PoolInv, PoolTypes
  <2>2. pc' = [pc EXCEPT ![th] = "flush"]
    BY <1>1 DEF FlushLookup, PoolInv, PoolTypes
  <2> QED
    BY <2>1, <2>2 DEF FlushLookup, poolVars, diskVars, histVars
<1>7. pc'[th] = "flush" /\ reg'[th] = r /\ "flush" \in Labels
  BY <1>6 DEF PoolInv, PoolTypes, Labels
<1>8. LocalOK(th)'
  BY <1>1, <1>5, <1>6, <1>7 DEF PoolInv, Locals, LocalOK
<1>9. ~Fetching(th)'
  BY <1>7 DEF Fetching
<1>10. FlushOK(th)'
  <2>1. ASSUME NEW q \in PageIDs, ToFlush(th, q)' PROVE Untouched(q)'
    <3>1. q \in reg[th].todo
      BY <1>1, <1>3, <1>5, <1>6, <1>7, <2>1 DEF ToFlush
    <3>2. Untouched(q)
      BY <3>1 DEF PoolInv, FlushesGood, FlushOK, ToFlush
    <3>3. \A u \in Threads : Fetching(u)' => Fetching(u) /\ reg'[u] = reg[u]
      BY <1>6, <1>9 DEF Fetching, PoolInv, PoolTypes
    <3> QED
      BY <1>6, <3>2, <3>3 DEF Untouched
  <2>2. ASSUME o # None PROVE FlushedObject(o)'
    BY <1>3, <1>6, <2>2 DEF FlushedObject
  <2> QED
    BY <1>5, <1>7, <2>1, <2>2 DEF FlushOK
<1> QED
  BY <1>5, <1>6, <1>7, <1>8, <1>9, <1>10, LocalStep

----------------------------------------------------------------------------
(* getFrameID.                                                             *)

\* A call takes a frame out of one of the two lists.
LEMMA TakeStep ==
    ASSUME PoolInv, NEW th \in Threads, NEW f \in Frames, NEW r \in Registers,
           pc[th] \in {"fetch", "new"}, reg[th].frame = None,
           UNCHANGED <<object, pages, pageTable, disk, nextPageID, pc, held,
                       writes, latest, deleted>>,
           reg' = [reg EXCEPT ![th] = r],
           r.frame = f, r.page = reg[th].page, r.data = reg[th].data,
           r.todo = reg[th].todo, r.object = reg[th].object,
           r.victim => Contains(replacer, f), ~r.victim => Contains(freeList, f),
           freeList' \in Seq(Frames), replacer' \in Seq(Frames),
           IsInjective(freeList)', IsInjective(replacer)',
           ~Contains(freeList', f), ~Contains(replacer', f),
           \A x \in Frames : x # f => /\ Contains(freeList', x) <=> Contains(freeList, x)
                                      /\ Contains(replacer', x) <=> Contains(replacer, x)
    PROVE  PoolInv'
<1>1. /\ PoolTypes /\ Locals /\ Fetches /\ TableLeads /\ UsedStay /\ PinsCount
      /\ FramesGood /\ FlushesGood /\ Stored
  BY DEF PoolInv
<1>2. /\ reg'[th] = r
      /\ \A u \in Threads : u # th => reg'[u] = reg[u]
      /\ \A u \in Threads : /\ reg'[u].page = reg[u].page /\ reg'[u].data = reg[u].data
                            /\ reg'[u].todo = reg[u].todo /\ reg'[u].object = reg[u].object
  BY <1>1 DEF PoolTypes
<1>3. PoolTypes'
  BY <1>1 DEF PoolTypes
<1>4. Locals'
  <2> SUFFICES ASSUME NEW u \in Threads PROVE LocalOK(u)'
    BY DEF Locals
  <2>1. LocalOK(u)
    BY <1>1 DEF Locals
  <2>2. CASE u = th
    <3>1. f # None
      BY PoolAssumption
    <3> QED
      BY <1>2, <2>1, <2>2, <3>1 DEF LocalOK
  <2>3. CASE u # th
    BY <1>2, <2>1, <2>3 DEF LocalOK
  <2> QED
    BY <2>2, <2>3
<1>5. Fetches'
  BY <1>1, <1>2 DEF Fetches, FetchOK, Fetching
<1>6. TableLeads' /\ UsedStay' /\ PinsCount'
  BY <1>1 DEF TableLeads, UsedStay, PinsCount
<1>7. FramesGood'
  <2>1. FrameOK(f) /\ ~Busy(f)
    BY <1>1 DEF FramesGood, FrameOK
  <2>2. /\ Busy(f)'
        /\ \A x \in Frames : x # f => (Busy(x)' <=> Busy(x))
    BY <1>2, PoolAssumption DEF Busy
  <2>3. \A x : (Vacant(x)' <=> Vacant(x)) /\ (Idle(x)' <=> Idle(x))
    BY DEF Vacant, Idle
  <2>4. ASSUME NEW x \in Frames PROVE FrameOK(x)'
    <3>1. CASE x = f
      BY <2>2, <3>1 DEF FrameOK
    <3>2. CASE x # f
      <4>1. FrameOK(x)
        BY <1>1 DEF FramesGood
      <4> QED
        BY <2>2, <2>3, <3>2, <4>1 DEF FrameOK
    <3> QED
      BY <3>1, <3>2
  <2>5. ASSUME NEW u \in Threads, reg'[u].frame # None PROVE TakenOK(u)'
    <3>1. CASE u = th
      <4>1. (r.victim => Idle(f)) /\ (~r.victim => Vacant(f))
        BY <2>1 DEF FrameOK
      <4>2. \A w \in Threads : reg'[w].frame = f => w = th
        BY <1>2, <2>1 DEF Busy
      <4> QED
        BY <1>2, <2>3, <3>1, <4>1, <4>2 DEF TakenOK
    <3>2. CASE u # th
      <4>1. TakenOK(u) /\ reg'[u] = reg[u] /\ reg[u].frame # f
        BY <1>1, <1>2, <2>1, <2>5, <3>2 DEF FramesGood, Busy
      <4> QED
        BY <1>2, <2>3, <4>1 DEF TakenOK
    <3> QED
      BY <3>1, <3>2
  <2> QED
    BY <2>4, <2>5 DEF FramesGood
<1>8. FlushesGood'
  <2> SUFFICES ASSUME NEW u \in Threads PROVE FlushOK(u)'
    BY DEF FlushesGood
  <2>1. FlushOK(u)
    BY <1>1 DEF FlushesGood
  <2>2. ASSUME NEW p \in PageIDs, ToFlush(u, p)' PROVE Untouched(p)'
    <3>1. ToFlush(u, p) /\ Untouched(p)
      BY <1>2, <2>1, <2>2 DEF ToFlush, FlushOK
    <3> QED
      BY <1>2, <3>1 DEF Untouched, Fetching
  <2>3. ASSUME reg'[u].object # None PROVE FlushedObject(reg[u].object)'
    <3>1. PICK o : o = reg[u].object /\ o = reg'[u].object
      BY <1>2
    <3>2. FlushedObject(o)
      BY <2>1, <2>3, <3>1 DEF FlushOK
    <3>3. FlushedObject(o)'
      BY <3>2 DEF FlushedObject
    <3> QED
      BY <3>1, <3>3
  <2> QED
    BY <2>2, <2>3 DEF FlushOK
<1>9. Stored'
  BY <1>1 DEF Stored, StoredOK, Unsaid
<1> QED
  BY <1>3, <1>4, <1>5, <1>6, <1>7, <1>8, <1>9 DEF PoolInv

\* A free frame.
LEMMA TakeFreeFrameStep ==
    ASSUME PoolInv, NEW th \in Threads, TakeFreeFrame(th)
    PROVE  PoolInv'
<1>1. /\ pc[th] \in {"fetch", "new"} /\ reg[th].frame = None /\ freeList # << >>
      /\ freeList' = Tail(freeList) /\ replacer' = replacer
      /\ UNCHANGED <<object, pages, pageTable, disk, nextPageID, pc, held, writes, latest, deleted>>
  BY DEF TakeFreeFrame, diskVars, histVars
<1>2. PICK f : f = Head(freeList)
  OBVIOUS
<1>3. /\ freeList \in Seq(Frames) /\ IsInjective(freeList)
      /\ replacer \in Seq(Frames) /\ IsInjective(replacer)
  BY DEF PoolInv, PoolTypes, FramesGood
<1>4. /\ f \in Frames /\ Contains(freeList, f)
      /\ freeList' \in Seq(Frames) /\ IsInjective(freeList)'
      /\ \A x : Contains(freeList', x) <=> Contains(freeList, x) /\ x # f
  BY <1>1, <1>2, <1>3, TailList
<1>5. ~Contains(replacer, f)
  BY <1>4 DEF PoolInv, FramesGood, FrameOK, Vacant, Idle
<1>6. reg[th] \in Registers /\ reg[th].victim = FALSE
  BY <1>1, NoFrameNoVictim DEF PoolInv, PoolTypes
<1>7. PICK r : r = [reg[th] EXCEPT !.frame = f]
  OBVIOUS
<1>8. /\ r \in Registers /\ r.frame = f /\ r.page = reg[th].page /\ r.data = reg[th].data
      /\ r.todo = reg[th].todo /\ r.object = reg[th].object /\ r.victim = FALSE
  BY <1>4, <1>6, <1>7 DEF Registers
<1>9. reg' = [reg EXCEPT ![th] = r]
  BY <1>2, <1>7 DEF TakeFreeFrame, PoolInv, PoolTypes
<1>10. IsInjective(replacer)' /\ \A x : Contains(replacer', x) <=> Contains(replacer, x)
  BY <1>1, <1>3
<1> QED
  BY <1>1, <1>3, <1>4, <1>5, <1>8, <1>9, <1>10, TakeStep

\* The free list is empty: the call remembers it and lets the mutex go.
LEMMA NoFreeFrameStep ==
    ASSUME PoolInv, NEW th \in Threads, NoFreeFrame(th)
    PROVE  PoolInv'
<1>1. /\ pc[th] \in {"fetch", "new"} /\ pc[th] \in Labels
      /\ UNCHANGED <<object, pages, pageTable, freeList, replacer, disk, nextPageID, pc, held,
                     writes, latest, deleted>>
  BY DEF NoFreeFrame, Labels, poolVars, diskVars, histVars
<1>2. PICK r : r = [reg[th] EXCEPT !.looked = TRUE]
  OBVIOUS
<1>3. /\ r \in Registers /\ r.frame = reg[th].frame /\ r.victim = reg[th].victim
      /\ r.todo = reg[th].todo /\ r.object = reg[th].object /\ r.page = reg[th].page
  <2>1. reg[th] \in Registers
    BY DEF PoolInv, PoolTypes
  <2> QED
    BY <1>2, <2>1 DEF Registers
<1>4. pc' = [pc EXCEPT ![th] = pc[th]] /\ reg' = [reg EXCEPT ![th] = r]
  BY <1>1, <1>2 DEF NoFreeFrame, PoolInv, PoolTypes
<1>5. /\ pc'[th] = pc[th] /\ reg'[th] = r
      /\ \A u \in Threads : (Fetching(u)' <=> Fetching(u)) /\ reg'[u].page = reg[u].page
  BY <1>1, <1>3, <1>4 DEF PoolInv, PoolTypes, Fetching
<1>6. LocalOK(th)'
  BY <1>1, <1>3, <1>5 DEF PoolInv, Locals, LocalOK
<1>7. ASSUME Fetching(th)' PROVE FetchOK(th)'
  <2>1. FetchOK(th)
    BY <1>5, <1>7 DEF PoolInv, Fetches
  <2> QED
    BY <1>1, <1>3, <1>5, <2>1 DEF FetchOK
<1>8. FlushOK(th)'
  <2>1. reg[th].todo = {} /\ reg[th].object = None
    BY <1>1 DEF PoolInv, Locals, LocalOK
  <2> QED
    BY <1>3, <1>5, <2>1 DEF FlushOK, ToFlush
<1>9. ASSUME Fetching(th)', NEW u \in Threads, u # th, ToFlush(u, r.page) PROVE FALSE
  <2>1. Fetching(th) /\ r.page = reg[th].page /\ r.page \in PageIDs
    BY <1>3, <1>5, <1>9 DEF PoolInv, Fetches, FetchOK
  <2>2. Untouched(r.page)
    BY <1>9, <2>1 DEF PoolInv, FlushesGood, FlushOK
  <2> QED
    BY <2>1, <2>2 DEF Untouched
<1>10. r.frame = reg[th].frame /\ r.victim = reg[th].victim
  BY <1>3
<1> QED
  BY <1>1, <1>3, <1>4, <1>6, <1>7, <1>8, <1>9, <1>10, LocalStep

\* The replacer's choice, or none: then the call returns nil.
LEMMA TakeVictimStep ==
    ASSUME PoolInv, NEW th \in Threads, TakeVictim(th)
    PROVE  PoolInv'
<1>1. /\ pc[th] \in {"fetch", "new"} /\ reg[th].frame = None
      /\ UNCHANGED <<object, pages, pageTable, freeList, disk, nextPageID, held,
                     writes, latest, deleted>>
  BY DEF TakeVictim, diskVars, histVars
<1>2. CASE replacer = << >>
  <2>1. GoTo(th, "idle", NoReg) /\ replacer' = replacer
    BY <1>2 DEF TakeVictim, Return
  <2> QED
    BY <1>1, <2>1, EmptyHanded
<1>3. CASE replacer # << >>
  <2>1. PICK f : f = Head(replacer)
    OBVIOUS
  <2>2. replacer' = Tail(replacer) /\ pc' = pc
    BY <1>3 DEF TakeVictim
  <2>3. /\ freeList \in Seq(Frames) /\ IsInjective(freeList)
        /\ replacer \in Seq(Frames) /\ IsInjective(replacer)
    BY DEF PoolInv, PoolTypes, FramesGood
  <2>4. /\ f \in Frames /\ Contains(replacer, f)
        /\ replacer' \in Seq(Frames) /\ IsInjective(replacer)'
        /\ \A x : Contains(replacer', x) <=> Contains(replacer, x) /\ x # f
    BY <1>3, <2>1, <2>2, <2>3, TailList
  <2>5. ~Contains(freeList, f)
    BY <2>4 DEF PoolInv, FramesGood, FrameOK, Vacant, Idle
  <2>6. reg[th] \in Registers
    BY DEF PoolInv, PoolTypes
  <2>7. PICK r : r = [reg[th] EXCEPT !.frame = f, !.victim = TRUE]
    OBVIOUS
  <2>8. /\ r \in Registers /\ r.frame = f /\ r.page = reg[th].page /\ r.data = reg[th].data
        /\ r.todo = reg[th].todo /\ r.object = reg[th].object /\ r.victim = TRUE
    BY <2>4, <2>6, <2>7 DEF Registers
  <2>9. reg' = [reg EXCEPT ![th] = r]
    BY <1>3, <2>1, <2>7 DEF TakeVictim, PoolInv, PoolTypes
  <2>10. IsInjective(freeList)' /\ \A x : Contains(freeList', x) <=> Contains(freeList, x)
    BY <1>1, <2>3
  <2> QED
    BY <1>1, <2>2, <2>3, <2>4, <2>5, <2>8, <2>9, <2>10, TakeStep
<1> QED
  BY <1>2, <1>3

----------------------------------------------------------------------------
(* The disk, and pages that leave.                                         *)

\* WritePage writes one page, and zeros where the file had nothing.
LEMMA WritePageKeeps ==
    ASSUME PoolTypes, NEW p \in PageIDs, NEW data \in Nat, WritePage(p, data)
    PROVE  /\ disk' \in [PageIDs -> Nat \union {None}] /\ disk'[p] = data
           /\ \A q \in PageIDs : q # p => disk'[q] = disk[q] \/ disk[q] = None
BY DEF PoolTypes, WritePage

\* A page without users is in its frame alone, and is on disk once evicted.
LEMMA EvictKeeps ==
    ASSUME PoolInv, NEW f \in Frames, Idle(f),
           IF object[pages[f]].isDirty THEN WritePage(object[pages[f]].id, object[pages[f]].data)
                                       ELSE UNCHANGED disk
    PROVE  \E p \in PageIDs :
             /\ pageTable[p] = f /\ object[pages[f]].id = p /\ pages[f] \in Objects
             /\ \A q \in PageIDs : pageTable[q] = f => q = p
             /\ \A th \in Threads : \A i \in 1 .. Len(held[th]) : held[th][i].object # pages[f]
             /\ disk' \in [PageIDs -> Nat \union {None}] /\ disk'[p] = latest[p]
             /\ \A q \in PageIDs : q # p => disk'[q] = disk[q] \/ disk[q] = None
<1>0. f # None
  BY PoolAssumption
<1>1. PICK p \in PageIDs : pageTable[p] = f /\ object[pages[f]].pinCount = 0
  BY DEF Idle
<1>2. \A q \in PageIDs : pageTable[q] = f => pages[f] \in Objects /\ object[pages[f]].id = q
  BY <1>0 DEF PoolInv, TableLeads
<1>3. pages[f] \in Objects /\ object[pages[f]].id = p
  BY <1>1, <1>2
<1>4. \A q \in PageIDs : pageTable[q] = f => q = p
  BY <1>2, <1>3
<1>5. \A th \in Threads : \A i \in 1 .. Len(held[th]) : held[th][i].object # pages[f]
  <2>1. Cardinality(HoldsIn(held, pages[f])) = 0
    BY <1>0, <1>1 DEF PoolInv, PinsCount
  <2>2. Holding(held)
    BY DEF PoolInv, PoolTypes, Locals, LocalOK, Holding
  <2> QED
    BY <2>1, <2>2, HoldsFinite
<1>6. ~Unsaid(pages[f])
  BY <1>5 DEF Unsaid
<1>7. /\ object[pages[f]].data = latest[p] /\ object[pages[f]].data \in Nat
      /\ object[pages[f]].isDirty \/ disk[p] = latest[p]
  <2>1. object[pages[f]] \in PageObject
    BY <1>3 DEF PoolInv, PoolTypes
  <2> QED
    BY <1>0, <1>1, <1>6, <2>1 DEF PoolInv, Stored, StoredOK, PageObject
<1>8. PoolTypes
  BY DEF PoolInv
<1>9. CASE object[pages[f]].isDirty
  <2>1. WritePage(p, object[pages[f]].data)
    BY <1>3, <1>9
  <2>2. /\ disk' \in [PageIDs -> Nat \union {None}] /\ disk'[p] = object[pages[f]].data
        /\ \A q \in PageIDs : q # p => disk'[q] = disk[q] \/ disk[q] = None
    BY <1>7, <1>8, <2>1, WritePageKeeps
  <2> QED
    BY <1>1, <1>3, <1>4, <1>5, <1>7, <2>2
<1>10. CASE ~object[pages[f]].isDirty
  <2>1. disk' = disk /\ disk[p] = latest[p]
    BY <1>7, <1>10
  <2> QED
    BY <1>1, <1>3, <1>4, <1>5, <1>8, <2>1 DEF PoolTypes
<1> QED
  BY <1>9, <1>10

\* FetchPage evicts a page.
LEMMA EvictForFetchStep ==
    ASSUME PoolInv, NEW th \in Threads, EvictForFetch(th)
    PROVE  PoolInv'
<1>1. /\ PoolTypes /\ Locals /\ Fetches /\ TableLeads /\ UsedStay /\ PinsCount
      /\ FramesGood /\ FlushesGood /\ Stored
  BY DEF PoolInv
<1>2. PICK f, o : f = reg[th].frame /\ o = pages[f]
  OBVIOUS
<1>3. pc[th] = "fetch" /\ reg[th].victim /\ f \in Frames /\ f # None /\ Idle(f) /\ TakenOK(th)
  <2>1. pc[th] = "fetch" /\ reg[th].victim
    BY DEF EvictForFetch
  <2>2. reg[th].frame # None /\ reg[th].frame \in Frames \union {None}
    BY <1>1, <2>1 DEF Locals, LocalOK, PoolTypes, Registers
  <2> QED
    BY <1>1, <1>2, <2>1, <2>2 DEF FramesGood, TakenOK
<1>4. /\ pageTable' = [pageTable EXCEPT ![object[o].id] = None]
      /\ reg' = [reg EXCEPT ![th].victim = FALSE]
      /\ UNCHANGED <<object, pages, freeList, replacer, nextPageID, pc, held,
                     writes, latest, deleted>>
      /\ IF object[pages[f]].isDirty THEN WritePage(object[pages[f]].id, object[pages[f]].data)
                                     ELSE UNCHANGED disk
  BY <1>2 DEF EvictForFetch, EvictFrom, histVars
<1>5. PICK p \in PageIDs :
        /\ pageTable[p] = f /\ object[o].id = p /\ o \in Objects
        /\ \A q \in PageIDs : pageTable[q] = f => q = p
        /\ \A u \in Threads : \A i \in 1 .. Len(held[u]) : held[u][i].object # o
        /\ disk' \in [PageIDs -> Nat \union {None}] /\ disk'[p] = latest[p]
        /\ \A q \in PageIDs : q # p => disk'[q] = disk[q] \/ disk[q] = None
  BY <1>2, <1>3, <1>4, EvictKeeps
<1>6. /\ pageTable'[p] = None
      /\ \A q \in PageIDs : q # p => pageTable'[q] = pageTable[q]
  BY <1>1, <1>4, <1>5 DEF PoolTypes
<1>7. /\ reg'[th].victim = FALSE
      /\ \A u \in Threads : u # th => reg'[u] = reg[u]
      /\ \A u \in Threads : /\ reg'[u].page = reg[u].page /\ reg'[u].data = reg[u].data
                            /\ reg'[u].todo = reg[u].todo /\ reg'[u].object = reg[u].object
                            /\ reg'[u].frame = reg[u].frame
      /\ reg' \in [Threads -> Registers]
  BY <1>1, <1>4, ZenonT(30) DEF PoolTypes, Registers
<1>8. PoolTypes'
  BY <1>1, <1>4, <1>5, <1>7 DEF PoolTypes
<1>9. Locals'
  <2> SUFFICES ASSUME NEW u \in Threads PROVE LocalOK(u)'
    BY DEF Locals
  <2>1. LocalOK(u)
    BY <1>1 DEF Locals
  <2>2. CASE u = th
    BY <1>3, <1>4, <1>7, <2>1, <2>2 DEF LocalOK
  <2>3. CASE u # th
    BY <1>4, <1>7, <2>1, <2>3 DEF LocalOK
  <2> QED
    BY <2>2, <2>3
<1>10. Fetches'
  BY <1>1, <1>4, <1>6, <1>7 DEF Fetches, FetchOK, Fetching
<1>11. TableLeads'
  BY <1>1, <1>4, <1>6 DEF TableLeads
<1>12. PinsCount'
  BY <1>1, <1>4, <1>6 DEF PinsCount
<1>13. UsedStay'
  <2>1. ASSUME NEW u \in Threads, NEW i \in 1 .. Len(held[u])
        PROVE  /\ object[held[u][i].object].id \in PageIDs
               /\ pageTable'[object[held[u][i].object].id] # None
               /\ pages[pageTable'[object[held[u][i].object].id]] = held[u][i].object
    <3>1. PICK h : h = held[u][i].object
      OBVIOUS
    <3>2. object[h].id \in PageIDs /\ pageTable[object[h].id] # None /\ pages[pageTable[object[h].id]] = h
      BY <1>1, <3>1 DEF UsedStay
    <3>3. object[h].id # p
      BY <1>2, <1>5, <3>1, <3>2
    <3> QED
      BY <1>6, <3>1, <3>2, <3>3
  <2>2. object' = object /\ pages' = pages /\ held' = held
    BY <1>4
  <2> QED
    BY <2>1, <2>2 DEF UsedStay
<1>14. FramesGood'
  <2>1. \A x : Busy(x)' <=> Busy(x)
    BY <1>7 DEF Busy
  <2>2. Vacant(f)' /\ ~Idle(f)'
    BY <1>3, <1>5, <1>6 DEF Vacant, Idle
  <2>3. \A x \in Frames : x # f => (Vacant(x)' <=> Vacant(x)) /\ (Idle(x)' <=> Idle(x))
    BY <1>4, <1>5, <1>6, PoolAssumption DEF Vacant, Idle
  <2>4. Busy(f)
    BY <1>2 DEF Busy
  <2>5. ASSUME NEW x \in Frames PROVE FrameOK(x)'
    <3>1. FrameOK(x)
      BY <1>1 DEF FramesGood
    <3>2. CASE x = f
      BY <1>4, <2>1, <2>2, <2>4, <3>1, <3>2 DEF FrameOK
    <3>3. CASE x # f
      BY <1>4, <2>1, <2>3, <3>1, <3>3 DEF FrameOK
    <3> QED
      BY <3>2, <3>3
  <2>6. ASSUME NEW u \in Threads, reg'[u].frame # None PROVE TakenOK(u)'
    <3>1. CASE u = th
      BY <1>2, <1>3, <1>7, <2>2, <3>1 DEF TakenOK
    <3>2. CASE u # th
      <4>1. TakenOK(u) /\ reg[u].frame # f /\ reg[u].frame \in Frames
        BY <1>1, <1>2, <1>3, <1>7, <2>6, <3>2 DEF FramesGood, TakenOK, PoolTypes, Registers
      <4> QED
        BY <1>7, <2>3, <3>2, <4>1 DEF TakenOK
    <3> QED
      BY <3>1, <3>2
  <2> QED
    BY <1>1, <1>4, <2>5, <2>6 DEF FramesGood
<1>15. FlushesGood'
  <2> SUFFICES ASSUME NEW u \in Threads PROVE FlushOK(u)'
    BY DEF FlushesGood
  <2>1. FlushOK(u)
    BY <1>1 DEF FlushesGood
  <2>2. ASSUME NEW q \in PageIDs, ToFlush(u, q)' PROVE Untouched(q)'
    <3>1. ToFlush(u, q) /\ Untouched(q)
      BY <1>4, <1>7, <2>1, <2>2 DEF ToFlush, FlushOK
    <3> QED
      BY <1>4, <1>7, <3>1 DEF Untouched, Fetching
  <2>3. ASSUME reg'[u].object # None PROVE FlushedObject(reg[u].object)'
    <3>1. PICK b : b = reg[u].object /\ b = reg'[u].object
      BY <1>7
    <3>2. FlushedObject(b)
      BY <2>1, <2>3, <3>1 DEF FlushOK
    <3>3. FlushedObject(b)'
      BY <1>4, <1>6, <3>2 DEF FlushedObject
    <3> QED
      BY <3>1, <3>3
  <2> QED
    BY <2>2, <2>3 DEF FlushOK
<1>16. Stored'
  <2> SUFFICES ASSUME NEW q \in PageIDs PROVE StoredOK(q)'
    BY DEF Stored
  <2>1. StoredOK(q) /\ latest[q] # None
    BY <1>1, PoolAssumption DEF Stored, PoolTypes
  <2>2. CASE q = p
    <3>1. p < nextPageID /\ p \in Nat
      BY <1>1, <1>3, <1>5 DEF TableLeads, PageIDs
    <3> QED
      BY <1>1, <1>4, <1>5, <1>6, <2>1, <2>2, <3>1 DEF StoredOK, PoolTypes
  <2>3. CASE q # p
    <3>1. disk[q] = latest[q] => disk'[q] = latest[q]
      BY <1>5, <2>1, <2>3
    <3>2. \A x : Unsaid(x)' <=> Unsaid(x)
      BY <1>4 DEF Unsaid
    <3> QED
      BY <1>4, <1>6, <2>1, <2>3, <3>1, <3>2 DEF StoredOK
  <2> QED
    BY <2>2, <2>3
<1> QED
  BY <1>8, <1>9, <1>10, <1>11, <1>12, <1>13, <1>14, <1>15, <1>16 DEF PoolInv

----------------------------------------------------------------------------
(* A page moves into a frame.                                              *)

\* What Install does, apart from names nothing points to: o is a new name.
Installed(th, f, o, q0, data, wrote) ==
    /\ \A g \in Frames : pages[g] # o
    /\ \A u \in Threads : reg[u].object # o
    /\ \A u \in Threads : \A i \in 1 .. Len(held[u]) : held[u][i].object # o
    /\ pages' \in [Frames -> Objects \union {None}]
    /\ pages'[f] = o /\ \A g \in Frames : g # f => pages'[g] = pages[g]
    /\ pc' = [pc EXCEPT ![th] = "idle"] /\ reg' = [reg EXCEPT ![th] = NoReg]
    /\ held' = [held EXCEPT ![th] = Append(@, [object |-> o, wrote |-> wrote])]
    /\ object' \in [Objects -> PageObject]
    /\ object'[o] = [id |-> q0, pinCount |-> 1, isDirty |-> FALSE, data |-> data]
    /\ \A g \in Frames : g # f /\ pages[g] \in Objects => object'[pages[g]] = object[pages[g]]
    /\ \A u \in Threads : u # th /\ reg[u].object \in Objects =>
                             object'[reg[u].object] = object[reg[u].object]
    /\ \A u \in Threads : \A i \in 1 .. Len(held[u]) :
         object'[held[u][i].object] = object[held[u][i].object]

\* There is such a name.
LEMMA InstallEffect ==
    ASSUME PoolInv, NEW th \in Threads, NEW f \in Frames, f = reg[th].frame,
           NEW q0 \in PageIDs, NEW data \in Nat, NEW wrote \in BOOLEAN,
           pc[th] \in {"install", "new"}, Install(th, q0, data, wrote)
    PROVE  \E o \in Objects : Installed(th, f, o, q0, data, wrote)
<1>1. PoolTypes /\ Locals /\ UsedStay
  BY DEF PoolInv
<1>2. PICK o : o = FreshObject
  OBVIOUS
<1>3. /\ o \in Objects
      /\ \A g \in Frames : pages[g] # o
      /\ \A u \in Threads : reg[u].object # o
      /\ \A u \in Threads : \A i \in 1 .. Len(held[u]) : held[u][i].object # o
  BY <1>1, <1>2, FreshIsFresh
<1>4. PICK new, objs : /\ new = [id |-> q0, pinCount |-> 1, isDirty |-> FALSE, data |-> data]
                       /\ objs = [object EXCEPT ![o] = new]
  OBVIOUS
<1>5. /\ pages' = [pages EXCEPT ![f] = o]
      /\ pc' = [pc EXCEPT ![th] = "idle"] /\ reg' = [reg EXCEPT ![th] = NoReg]
      /\ held' = [held EXCEPT ![th] = Append(@, [object |-> o, wrote |-> wrote])]
      /\ Collect(objs)
  BY <1>2, <1>4 DEF Install, Take, Return, GoTo
<1>6. new \in PageObject /\ Blank \in PageObject
  BY <1>4, PoolAssumption DEF PageObject, PageIDs, Blank
<1>7. objs \in [Objects -> PageObject] /\ objs[o] = new /\ \A x \in Objects : x # o => objs[x] = object[x]
  BY <1>1, <1>3, <1>4, <1>6 DEF PoolTypes
<1>8. /\ pages' \in [Frames -> Objects \union {None}]
      /\ pages'[f] = o /\ \A g \in Frames : g # f => pages'[g] = pages[g]
  BY <1>1, <1>3, <1>5 DEF PoolTypes
<1>9. \A u \in Threads : u # th => reg'[u] = reg[u]
  BY <1>1, <1>5 DEF PoolTypes
<1>10. ASSUME NEW u \in Threads, NEW i \in 1 .. Len(held[u])
       PROVE  i \in DOMAIN held'[u] /\ held'[u][i] = held[u][i] /\ held[u][i].object \in Objects
  <2>1. held[u] \in Seq(Hold) /\ held[u][i] \in Hold
    BY <1>1 DEF PoolTypes
  <2>2. [object |-> o, wrote |-> wrote] \in Hold
    BY <1>3 DEF Hold
  <2>3. CASE u = th
    <3>1. held'[u] = Append(held[u], [object |-> o, wrote |-> wrote])
      BY <1>1, <1>5, <2>3 DEF PoolTypes
    <3> QED
      BY <2>1, <2>2, <3>1 DEF Hold
  <2>4. CASE u # th
    <3>1. held'[u] = held[u]
      BY <1>1, <1>5, <2>4 DEF PoolTypes
    <3> QED
      BY <2>1, <3>1 DEF Hold
  <2> QED
    BY <2>3, <2>4
<1>11. object' \in [Objects -> PageObject]
  BY <1>5, <1>6, <1>7 DEF Collect
<1>12. \A g \in Frames : pages'[g] \in Objects => object'[pages'[g]] = objs[pages'[g]]
  BY <1>5 DEF Collect
<1>13. \A u \in Threads : reg'[u].object \in Objects => object'[reg'[u].object] = objs[reg'[u].object]
  BY <1>5 DEF Collect
<1>14. \A u \in Threads : \A i \in 1 .. Len(held[u]) :
         object'[held[u][i].object] = objs[held[u][i].object]
  <2> SUFFICES ASSUME NEW u \in Threads, NEW i \in 1 .. Len(held[u])
               PROVE  object'[held[u][i].object] = objs[held[u][i].object]
    OBVIOUS
  <2>1. PICK x \in Objects : x = held[u][i].object
    BY <1>10
  <2>2. \E w \in Threads : \E j \in DOMAIN held'[w] : held'[w][j].object = x
    BY <1>10, <2>1
  <2>3. object'[x] = objs[x]
    BY <1>5, <2>2 DEF Collect
  <2> QED
    BY <2>1, <2>3
<1>15. object'[o] = new
  BY <1>3, <1>7, <1>8, <1>12
<1>16. \A g \in Frames : g # f /\ pages[g] \in Objects => object'[pages[g]] = object[pages[g]]
  BY <1>3, <1>7, <1>8, <1>12
<1>17. \A u \in Threads : u # th /\ reg[u].object \in Objects =>
                                      object'[reg[u].object] = object[reg[u].object]
  BY <1>3, <1>7, <1>9, <1>13
<1>18. \A u \in Threads : \A i \in 1 .. Len(held[u]) :
                  object'[held[u][i].object] = object[held[u][i].object]
  BY <1>3, <1>7, <1>10, <1>14
<1> QED
  BY <1>3, <1>4, <1>5, <1>8, <1>11, <1>15, <1>16, <1>17, <1>18 DEF Installed

\* The holds of an object, counted; an object nobody holds has none.
LEMMA HoldsCount ==
    ASSUME PoolTypes, Locals, NEW o
    PROVE  /\ Cardinality(HoldsIn(held, o)) \in Nat
           /\ Cardinality(HoldsIn(held, o)) = 0 <=>
                \A u \in Threads : \A i \in 1 .. Len(held[u]) : held[u][i].object # o
<1>1. Holding(held)
  BY DEF PoolTypes, Locals, LocalOK, Holding
<1> QED
  BY <1>1, HoldsFinite

\* A goroutine pins once more.
LEMMA OneMoreHold ==
    ASSUME PoolTypes, Locals, NEW th \in Threads, NEW rec \in Hold, Len(held[th]) < MaxHeld,
           held' = [held EXCEPT ![th] = Append(@, rec)]
    PROVE  \A x : Cardinality(HoldsIn(held', x)) =
                    Cardinality(HoldsIn(held, x)) + (IF rec.object = x THEN 1 ELSE 0)
<1>1. Holding(held)
  BY DEF PoolTypes, Locals, LocalOK, Holding
<1>2. Taken(held, held', th, rec)
  BY DEF PoolTypes, Taken
<1> QED
  BY <1>1, <1>2, HoldsTaken

\* The circumstances: frame f is empty or loses its page, which is on disk;
\* nobody else is at work on page q0, whose last write is data.
Placing(th, f, q0, data, wrote) ==
    /\ f = reg[th].frame /\ pc[th] \in {"install", "new"}
    /\ pageTable[q0] = None /\ pageTable' \in [PageIDs -> Frames \union {None}]
    /\ pageTable'[q0] = f
    /\ \A q \in PageIDs : q # q0 =>
         pageTable'[q] = IF pageTable[q] = f THEN None ELSE pageTable[q]
    /\ disk' \in [PageIDs -> Nat \union {None}]
    /\ \A q \in PageIDs : pageTable[q] = f =>
         /\ disk'[q] = latest[q]
         /\ \A u \in Threads : \A i \in 1 .. Len(held[u]) : held[u][i].object # pages[f]
    /\ \A q \in PageIDs : pageTable[q] # f => disk'[q] = disk[q] \/ disk[q] = None
    /\ nextPageID' \in 0 .. NumPages /\ nextPageID <= nextPageID'
    /\ q0 < nextPageID' /\ \A q \in PageIDs : q < nextPageID' => q < nextPageID \/ q = q0
    /\ q0 \notin deleted /\ latest[q0] = data /\ (wrote \/ disk'[q0] = data)
    /\ \A u \in Threads : u # th /\ Fetching(u) => reg[u].page # q0
    /\ \A u \in Threads : ~ToFlush(u, q0)
    /\ UNCHANGED <<freeList, replacer, writes, latest, deleted>>

\* A page moves into a frame.
LEMMA InstallStep ==
    ASSUME PoolInv, NEW th \in Threads, NEW f \in Frames, NEW o \in Objects,
           NEW q0 \in PageIDs, NEW data \in Nat, NEW wrote \in BOOLEAN,
           Placing(th, f, q0, data, wrote), Installed(th, f, o, q0, data, wrote)
    PROVE  PoolInv'
<1> USE DEF Placing
<1>1. /\ PoolTypes /\ Locals /\ Fetches /\ TableLeads /\ UsedStay /\ PinsCount
      /\ FramesGood /\ FlushesGood /\ Stored
  BY DEF PoolInv
<1>2. /\ \A g \in Frames : pages[g] # o
      /\ \A u \in Threads : reg[u].object # o
      /\ \A u \in Threads : \A i \in 1 .. Len(held[u]) : held[u][i].object # o
      /\ pages' \in [Frames -> Objects \union {None}]
      /\ pages'[f] = o /\ \A g \in Frames : g # f => pages'[g] = pages[g]
      /\ pc' = [pc EXCEPT ![th] = "idle"] /\ reg' = [reg EXCEPT ![th] = NoReg]
      /\ held' = [held EXCEPT ![th] = Append(@, [object |-> o, wrote |-> wrote])]
      /\ object' \in [Objects -> PageObject]
      /\ object'[o] = [id |-> q0, pinCount |-> 1, isDirty |-> FALSE, data |-> data]
      /\ \A g \in Frames : g # f /\ pages[g] \in Objects => object'[pages[g]] = object[pages[g]]
      /\ \A u \in Threads : u # th /\ reg[u].object \in Objects =>
                               object'[reg[u].object] = object[reg[u].object]
      /\ \A u \in Threads : \A i \in 1 .. Len(held[u]) :
           object'[held[u][i].object] = object[held[u][i].object]
  BY DEF Installed
<1>3. f # None /\ TakenOK(th) /\ Len(held[th]) < MaxHeld
  <2>1. f # None
    BY PoolAssumption
  <2> QED
    BY <1>1, <2>1 DEF FramesGood, Locals, LocalOK
<1>4. PICK rec : rec = [object |-> o, wrote |-> wrote]
  OBVIOUS
<1>5. rec \in Hold /\ rec.object = o /\ rec.wrote = wrote
  BY <1>4 DEF Hold
<1>6. held' = [held EXCEPT ![th] = Append(@, rec)]
  BY <1>2, <1>4
<1>7. /\ held' \in [Threads -> Seq(Hold)]
      /\ Len(held'[th]) = Len(held[th]) + 1 /\ held'[th][Len(held[th]) + 1] = rec
      /\ \A i \in 1 .. Len(held[th]) : held'[th][i] = held[th][i]
      /\ \A u \in Threads : u # th => held'[u] = held[u]
      /\ \A u \in Threads : Len(held[u]) \in Nat
  BY <1>1, <1>5, <1>6 DEF PoolTypes
<1>8. ASSUME NEW u \in Threads, NEW i \in 1 .. Len(held'[u])
      PROVE  \/ u = th /\ i = Len(held[th]) + 1 /\ held'[u][i] = rec
             \/ i \in 1 .. Len(held[u]) /\ held'[u][i] = held[u][i]
  BY <1>7
<1>9. /\ object'[o].id = q0 /\ object'[o].pinCount = 1 /\ object'[o].isDirty = FALSE
      /\ object'[o].data = data
  BY <1>2
<1>10. /\ pc'[th] = "idle" /\ reg'[th] = NoReg
       /\ \A u \in Threads : u # th => pc'[u] = pc[u] /\ reg'[u] = reg[u]
       /\ pc' \in [Threads -> Labels] /\ reg' \in [Threads -> Registers]
  BY <1>1, <1>2, NoRegFields DEF PoolTypes, Labels
<1>11. ASSUME NEW q \in PageIDs, q # q0, pageTable'[q] # None
       PROVE  /\ pageTable'[q] = pageTable[q] /\ pageTable[q] # f /\ pageTable[q] \in Frames
              /\ pages[pageTable[q]] \in Objects /\ pages'[pageTable'[q]] = pages[pageTable[q]]
              /\ pages[pageTable[q]] # o
              /\ object'[pages[pageTable[q]]] = object[pages[pageTable[q]]]
  <2>1. pageTable'[q] = pageTable[q] /\ pageTable[q] # f /\ pageTable[q] # None
    BY <1>11
  <2>2. pageTable[q] \in Frames /\ pages[pageTable[q]] \in Objects
    BY <1>1, <2>1 DEF PoolTypes, TableLeads
  <2> QED
    BY <1>2, <2>1, <2>2
<1>12. PoolTypes'
  BY <1>1, <1>2, <1>7, <1>10 DEF PoolTypes
<1>13. Locals'
  <2> SUFFICES ASSUME NEW u \in Threads PROVE LocalOK(u)'
    BY DEF Locals
  <2>1. CASE u = th
    <3>1. Len(held'[th]) <= MaxHeld
      BY <1>3, <1>7, PoolAssumption
    <3> QED
      BY <1>10, <2>1, <3>1, NoRegFields DEF LocalOK
  <2>2. CASE u # th
    BY <1>1, <1>7, <1>10, <2>2 DEF Locals, LocalOK
  <2> QED
    BY <2>1, <2>2
<1>14. Fetches'
  <2> SUFFICES ASSUME NEW u \in Threads, Fetching(u)' PROVE FetchOK(u)'
    BY DEF Fetches
  <2>1. u # th /\ reg'[u] = reg[u] /\ pc'[u] = pc[u] /\ Fetching(u) /\ FetchOK(u)
    BY <1>1, <1>10 DEF Fetching, Fetches
  <2>2. reg[u].page # q0 /\ pageTable'[reg[u].page] = None /\ reg[u].page < nextPageID'
    <3>1. reg[u].page # q0 /\ reg[u].page \in PageIDs /\ pageTable[reg[u].page] = None
      BY <2>1 DEF FetchOK
    <3>2. reg[u].page < nextPageID /\ reg[u].page \in Int
      BY <2>1 DEF FetchOK, PageIDs
    <3> QED
      BY <1>1, <1>3, <3>1, <3>2 DEF PoolTypes
  <2>3. ASSUME NEW w \in Threads, Fetching(w)', reg'[w].page = reg[u].page PROVE w = u
    BY <1>10, <2>1, <2>3 DEF Fetching, FetchOK
  <2> QED
    BY <2>1, <2>2, <2>3 DEF FetchOK
<1>15. TableLeads'
  <2> SUFFICES ASSUME NEW q \in PageIDs, pageTable'[q] # None
               PROVE  /\ q < nextPageID' /\ q \notin deleted'
                      /\ pages'[pageTable'[q]] \in Objects
                      /\ object'[pages'[pageTable'[q]]].id = q
    BY DEF TableLeads
  <2>1. CASE q = q0
    BY <1>2, <1>9, <2>1
  <2>2. CASE q # q0
    <3>1. q < nextPageID /\ q \notin deleted /\ object[pages[pageTable[q]]].id = q /\ q \in Int
      BY <1>1, <1>11, <2>2 DEF TableLeads, PageIDs
    <3>2. q < nextPageID'
      BY <1>1, <3>1 DEF PoolTypes
    <3> QED
      BY <1>11, <2>2, <3>1, <3>2
  <2> QED
    BY <2>1, <2>2
<1>16. UsedStay'
  <2>1. ASSUME NEW u \in Threads, NEW i \in 1 .. Len(held'[u])
        PROVE  /\ object'[held'[u][i].object].id \in PageIDs
               /\ pageTable'[object'[held'[u][i].object].id] # None
               /\ pages'[pageTable'[object'[held'[u][i].object].id]] = held'[u][i].object
    <3>1. CASE held'[u][i] = rec
      <4>1. held'[u][i].object = o
        BY <1>5, <3>1
      <4>2. object'[o].id = q0 /\ pageTable'[q0] # None /\ pages'[pageTable'[q0]] = o
        BY <1>2, <1>3, <1>9
      <4> QED
        BY <4>1, <4>2
    <3>2. CASE i \in 1 .. Len(held[u]) /\ held'[u][i] = held[u][i]
      <4>1. PICK h : h = held[u][i].object
        OBVIOUS
      <4>2. object'[h] = object[h] /\ object[h].id \in PageIDs /\ pageTable[object[h].id] # None
            /\ pages[pageTable[object[h].id]] = h
        BY <1>1, <1>2, <3>2, <4>1, ZenonT(30) DEF UsedStay
      <4>3. object[h].id # q0 /\ pageTable[object[h].id] # f
        BY <3>2, <4>1, <4>2
      <4>4. pageTable'[object[h].id] = pageTable[object[h].id]
        BY <4>2, <4>3
      <4>5. pages'[pageTable'[object[h].id]] = h
        BY <1>11, <4>2, <4>3, <4>4
      <4> QED
        BY <3>2, <4>1, <4>2, <4>4, <4>5
    <3> QED
      BY <1>8, <3>1, <3>2
  <2> QED
    BY <2>1 DEF UsedStay
<1>17. PinsCount'
  <2>1. \A x : Cardinality(HoldsIn(held', x)) =
                 Cardinality(HoldsIn(held, x)) + (IF rec.object = x THEN 1 ELSE 0)
    BY <1>1, <1>3, <1>5, <1>6, OneMoreHold
  <2>2. ASSUME NEW q \in PageIDs, pageTable'[q] # None
        PROVE  object'[pages'[pageTable'[q]]].pinCount
                 = Cardinality(HoldsIn(held', pages'[pageTable'[q]]))
    <3>1. CASE q = q0
      <4>1. Cardinality(HoldsIn(held, o)) = 0
        BY <1>1, <1>2, HoldsCount
      <4>2. Cardinality(HoldsIn(held', o)) = 1
        BY <1>5, <2>1, <4>1
      <4>3. pages'[pageTable'[q]] = o
        BY <1>2, <3>1
      <4> QED
        BY <1>9, <4>2, <4>3
    <3>2. CASE q # q0
      <4>1. PICK x : x = pages[pageTable[q]]
        OBVIOUS
      <4>2. pages'[pageTable'[q]] = x /\ x # o /\ object'[x] = object[x] /\ pageTable[q] # None
        BY <1>11, <2>2, <3>2, <4>1
      <4>3. object[x].pinCount = Cardinality(HoldsIn(held, x)) /\ Cardinality(HoldsIn(held, x)) \in Nat
        BY <1>1, <4>1, <4>2, HoldsCount DEF PinsCount
      <4>4. Cardinality(HoldsIn(held', x)) = Cardinality(HoldsIn(held, x))
        BY <1>5, <2>1, <4>2, <4>3
      <4> QED
        BY <4>2, <4>3, <4>4
    <3> QED
      BY <3>1, <3>2
  <2> QED
    BY <2>2 DEF PinsCount
<1>18. FramesGood'
  <2>1. Busy(f) /\ ~Busy(f)'
    BY <1>3, <1>10, NoRegFields DEF Busy, TakenOK
  <2>2. \A x \in Frames : x # f => (Busy(x)' <=> Busy(x))
    BY <1>10, NoRegFields, PoolAssumption DEF Busy
  <2>3. ~Vacant(f)' /\ ~Idle(f)'
    BY <1>2, <1>9 DEF Vacant, Idle
  <2>4. ASSUME NEW x \in Frames, x # f
        PROVE  /\ Vacant(x)' <=> Vacant(x)
               /\ Idle(x)' <=> Idle(x)
    <3>1. x # None
      BY PoolAssumption
    <3>2. \A q \in PageIDs : pageTable'[q] = x <=> pageTable[q] = x
      BY <1>3, <2>4, <3>1
    <3>3. Vacant(x)' <=> Vacant(x)
      BY <3>2 DEF Vacant
    <3>4. ASSUME NEW q \in PageIDs, pageTable[q] = x PROVE object'[pages'[x]] = object[pages[x]]
      <4>1. pages[x] \in Objects
        BY <1>1, <3>1, <3>4 DEF TableLeads
      <4> QED
        BY <1>2, <2>4, <4>1
    <3>5. Idle(x)' <=> Idle(x)
      BY <3>2, <3>4 DEF Idle
    <3> QED
      BY <3>3, <3>5
  <2>5. ASSUME NEW x \in Frames PROVE FrameOK(x)'
    <3>1. FrameOK(x)
      BY <1>1 DEF FramesGood
    <3>2. CASE x = f
      BY <2>1, <2>3, <3>1, <3>2 DEF FrameOK
    <3>3. CASE x # f
      BY <2>2, <2>4, <3>1, <3>3 DEF FrameOK
    <3> QED
      BY <3>2, <3>3
  <2>6. ASSUME NEW u \in Threads, reg'[u].frame # None PROVE TakenOK(u)'
    <3>1. u # th /\ reg'[u] = reg[u]
      BY <1>10, <2>6, NoRegFields
    <3>2. TakenOK(u) /\ reg[u].frame # f /\ reg[u].frame \in Frames
      BY <1>1, <1>3, <2>6, <3>1 DEF FramesGood, TakenOK, PoolTypes, Registers
    <3>3. \A w \in Threads : reg'[w].frame = reg[u].frame => w = u
      BY <1>10, <2>6, <3>1, <3>2, NoRegFields DEF TakenOK
    <3> QED
      BY <2>4, <3>1, <3>2, <3>3 DEF TakenOK
  <2> QED
    BY <1>1, <2>5, <2>6 DEF FramesGood
<1>19. FlushesGood'
  <2> SUFFICES ASSUME NEW u \in Threads PROVE FlushOK(u)'
    BY DEF FlushesGood
  <2>1. CASE u = th
    BY <1>10, <2>1, NoRegFields DEF FlushOK, ToFlush
  <2>2. CASE u # th
    <3>1. PICK b : b = reg[u].object
      OBVIOUS
    <3>2. /\ FlushOK(u) /\ reg'[u] = reg[u] /\ ~ToFlush(u, q0)
          /\ b # None => b \in Objects /\ object'[b] = object[b]
      BY <1>1, <1>2, <1>10, <2>2, <3>1 DEF FlushesGood, PoolTypes, Registers
    <3>3. ASSUME NEW q \in PageIDs, ToFlush(u, q)' PROVE Untouched(q)'
      <4>1. ToFlush(u, q) /\ Untouched(q) /\ q # q0
        BY <3>1, <3>2, <3>3 DEF ToFlush, FlushOK
      <4>2. q < nextPageID'
        BY <1>1, <4>1 DEF Untouched, PageIDs, PoolTypes
      <4>3. \A w \in Threads : ~(Fetching(w)' /\ reg'[w].page = q)
        BY <1>10, <4>1 DEF Untouched, Fetching
      <4>4. ASSUME NEW w \in Threads, NEW i \in 1 .. Len(held'[w])
            PROVE  object'[held'[w][i].object].id # q
        <5>1. CASE held'[w][i] = rec
          BY <1>5, <1>9, <4>1, <5>1
        <5>2. CASE i \in 1 .. Len(held[w]) /\ held'[w][i] = held[w][i]
          BY <1>2, <4>1, <5>2, SMTT(30) DEF Untouched
        <5> QED
          BY <1>8, <5>1, <5>2
      <4> QED
        BY <4>2, <4>3, <4>4 DEF Untouched
    <3>4. ASSUME b # None PROVE FlushedObject(b)'
      <4>1. FlushedObject(b) /\ object[b].id # q0
        BY <3>1, <3>2, <3>4 DEF FlushOK, ToFlush
      <4>2. pageTable'[object[b].id] # None => pages'[pageTable'[object[b].id]] = b
        BY <1>11, <4>1 DEF FlushedObject
      <4> QED
        BY <3>2, <3>4, <4>1, <4>2 DEF FlushedObject
    <3> QED
      BY <3>1, <3>2, <3>3, <3>4 DEF FlushOK
  <2> QED
    BY <2>1, <2>2
<1>20. Stored'
  <2> SUFFICES ASSUME NEW q \in PageIDs PROVE StoredOK(q)'
    BY DEF Stored
  <2>1. StoredOK(q) /\ latest[q] # None /\ q \in Int
    BY <1>1, PoolAssumption DEF Stored, PoolTypes, PageIDs
  <2>2. q >= nextPageID' => q >= nextPageID
    BY <1>1, <2>1 DEF PoolTypes
  <2>3. ASSUME NEW x, Unsaid(x) PROVE Unsaid(x)'
    <3>1. PICK u \in Threads : \E i \in 1 .. Len(held[u]) : held[u][i].wrote /\ held[u][i].object = x
      BY <2>3 DEF Unsaid
    <3>2. PICK i \in 1 .. Len(held[u]) : held[u][i].wrote /\ held[u][i].object = x
      BY <3>1
    <3>3. i \in 1 .. Len(held'[u]) /\ held'[u][i] = held[u][i]
      BY <1>7
    <3> QED
      BY <3>2, <3>3 DEF Unsaid
  <2>4. CASE q = q0
    <3>1. wrote => Unsaid(o)'
      <4>1. Len(held[th]) + 1 \in 1 .. Len(held'[th])
        BY <1>7
      <4> QED
        BY <1>5, <1>7, <4>1 DEF Unsaid
    <3> QED
      BY <1>1, <1>2, <1>3, <1>9, <2>1, <2>2, <2>4, <3>1 DEF StoredOK, PoolTypes
  <2>5. CASE q # q0 /\ pageTable'[q] # None
    <3>1. PICK x : x = pages[pageTable[q]]
      OBVIOUS
    <3>2. /\ pages'[pageTable'[q]] = x /\ object'[x] = object[x] /\ pageTable[q] # None
          /\ pageTable[q] # f
      BY <1>11, <2>5, <3>1
    <3>3. disk[q] = latest[q] => disk'[q] = latest[q]
      BY <2>1, <3>2
    <3> QED
      BY <2>1, <2>2, <2>3, <2>5, <3>1, <3>2, <3>3 DEF StoredOK
  <2>6. CASE q # q0 /\ pageTable'[q] = None
    <3>1. CASE pageTable[q] = f
      BY <2>1, <2>2, <2>6, <3>1 DEF StoredOK
    <3>2. CASE pageTable[q] # f
      <4>1. pageTable[q] = None
        BY <2>6, <3>2
      <4>2. disk[q] = latest[q] => disk'[q] = latest[q]
        BY <2>1, <3>2
      <4> QED
        BY <2>1, <2>2, <2>6, <4>1, <4>2 DEF StoredOK
    <3> QED
      BY <3>1, <3>2
  <2> QED
    BY <2>4, <2>5, <2>6
<1> QED
  BY <1>12, <1>13, <1>14, <1>15, <1>16, <1>17, <1>18, <1>19, <1>20 DEF PoolInv

\* FetchPage installs the page it has read.
LEMMA InstallFetchedStep ==
    ASSUME PoolInv, NEW th \in Threads, InstallFetched(th)
    PROVE  PoolInv'
<1>1. /\ PoolTypes /\ Locals /\ Fetches /\ FramesGood /\ FlushesGood /\ Stored
  BY DEF PoolInv
<1>2. PICK f, q0, data : f = reg[th].frame /\ q0 = reg[th].page /\ data = reg[th].data
  OBVIOUS
<1>3. pc[th] = "install"
  BY DEF InstallFetched
<1>4. f \in Frames /\ f # None /\ Vacant(f)
  <2>1. reg[th].frame # None /\ ~reg[th].victim
    BY <1>1, <1>3 DEF Locals, LocalOK
  <2>2. TakenOK(th) /\ reg[th] \in Registers
    BY <1>1, <2>1 DEF FramesGood, PoolTypes
  <2> QED
    BY <1>2, <2>1, <2>2 DEF TakenOK, Registers
<1>5. Fetching(th) /\ FetchOK(th)
  BY <1>1, <1>3 DEF Fetches, Fetching
<1>6. /\ q0 \in PageIDs /\ q0 < nextPageID /\ q0 \notin deleted /\ pageTable[q0] = None
      /\ data = latest[q0] /\ data \in Nat /\ disk[q0] = data
  <2>1. /\ q0 \in PageIDs /\ q0 < nextPageID /\ q0 \notin deleted /\ pageTable[q0] = None
        /\ data = latest[q0]
    BY <1>2, <1>3, <1>5 DEF FetchOK
  <2> QED
    BY <1>1, <2>1 DEF Stored, StoredOK, PoolTypes
<1>7. /\ Install(th, q0, data, FALSE)
      /\ pageTable' = [pageTable EXCEPT ![q0] = f]
      /\ UNCHANGED <<freeList, replacer, disk, nextPageID, writes, latest, deleted>>
  BY <1>2 DEF InstallFetched, diskVars, histVars
<1>8. \A u \in Threads : u # th /\ Fetching(u) => reg[u].page # q0
  BY <1>2, <1>5 DEF FetchOK
<1>9. \A u \in Threads : ~ToFlush(u, q0)
  BY <1>1, <1>2, <1>5, <1>6 DEF FlushesGood, FlushOK, Untouched
<1>10. /\ pageTable' \in [PageIDs -> Frames \union {None}] /\ pageTable'[q0] = f
       /\ \A q \in PageIDs : q # q0 => pageTable'[q] = pageTable[q]
  BY <1>1, <1>4, <1>6, <1>7 DEF PoolTypes
<1>11. Placing(th, f, q0, data, FALSE)
  <2>1. nextPageID' \in 0 .. NumPages /\ nextPageID <= nextPageID' /\ disk' \in [PageIDs -> Nat \union {None}]
    BY <1>1, <1>7 DEF PoolTypes
  <2>2. \A q \in PageIDs : pageTable[q] # f
    BY <1>4 DEF Vacant
  <2> QED
    BY <1>2, <1>3, <1>6, <1>7, <1>8, <1>9, <1>10, <2>1, <2>2 DEF Placing
<1>12. PICK o \in Objects : Installed(th, f, o, q0, data, FALSE)
  BY <1>2, <1>3, <1>4, <1>6, <1>7, InstallEffect
<1> QED
  BY <1>4, <1>6, <1>11, <1>12, InstallStep

\* NewPage evicts, allocates and installs.
LEMMA AllocatePageStep ==
    ASSUME PoolInv, NEW th \in Threads, AllocatePage(th)
    PROVE  PoolInv'
<1>1. /\ PoolTypes /\ Locals /\ Fetches /\ TableLeads /\ FramesGood /\ FlushesGood /\ Stored
  BY DEF PoolInv
<1>2. PICK f, q0, gone : f = reg[th].frame /\ q0 = nextPageID /\ gone = object[pages[f]].id
  OBVIOUS
<1>3. /\ pc[th] = "new" /\ f # None /\ q0 < NumPages /\ nextPageID' = q0 + 1
      /\ Install(th, q0, 0, TRUE)
      /\ UNCHANGED <<freeList, replacer, writes, latest, deleted>>
  BY <1>2 DEF AllocatePage, histVars
<1>4. /\ pageTable' = [p \in PageIDs |-> CASE p = q0 -> f
                                            [] reg[th].victim /\ p = gone -> None
                                            [] OTHER -> pageTable[p]]
      /\ IF reg[th].victim /\ object[pages[f]].isDirty
           THEN WritePage(object[pages[f]].id, object[pages[f]].data) ELSE UNCHANGED disk
  BY <1>2 DEF AllocatePage
<1>5. f \in Frames /\ TakenOK(th) /\ reg[th].victim \in BOOLEAN
  BY <1>1, <1>2, <1>3 DEF PoolTypes, Registers, FramesGood
<1>6. q0 \in PageIDs /\ q0 \in Nat
  BY <1>1, <1>2, <1>3, PoolAssumption DEF PoolTypes, PageIDs
<1>7. latest[q0] = 0 /\ q0 \notin deleted /\ pageTable[q0] = None
  <2>1. latest[q0] = 0 /\ q0 \notin deleted
    BY <1>1, <1>2, <1>6 DEF Stored, StoredOK
  <2>2. ~(q0 < nextPageID)
    BY <1>2, <1>6
  <2> QED
    BY <1>1, <1>6, <2>1, <2>2 DEF TableLeads
<1>8. /\ disk' \in [PageIDs -> Nat \union {None}]
      /\ pageTable' \in [PageIDs -> Frames \union {None}] /\ pageTable'[q0] = f
      /\ \A q \in PageIDs : q # q0 =>
           pageTable'[q] = IF pageTable[q] = f THEN None ELSE pageTable[q]
      /\ \A q \in PageIDs : pageTable[q] = f =>
           /\ disk'[q] = latest[q]
           /\ \A u \in Threads : \A i \in 1 .. Len(held[u]) : held[u][i].object # pages[f]
      /\ \A q \in PageIDs : pageTable[q] # f => disk'[q] = disk[q] \/ disk[q] = None
  <2>1. CASE reg[th].victim
    <3>1. Idle(f)
      BY <1>2, <1>5, <2>1 DEF TakenOK
    <3>2. IF object[pages[f]].isDirty THEN WritePage(object[pages[f]].id, object[pages[f]].data)
                                      ELSE UNCHANGED disk
      BY <1>4, <2>1
    <3>3. PICK p \in PageIDs :
             /\ pageTable[p] = f /\ object[pages[f]].id = p /\ pages[f] \in Objects
             /\ \A q \in PageIDs : pageTable[q] = f => q = p
             /\ \A u \in Threads : \A i \in 1 .. Len(held[u]) : held[u][i].object # pages[f]
             /\ disk' \in [PageIDs -> Nat \union {None}] /\ disk'[p] = latest[p]
             /\ \A q \in PageIDs : q # p => disk'[q] = disk[q] \/ disk[q] = None
      BY <1>5, <3>1, <3>2, EvictKeeps
    <3>4. gone = p /\ p # q0
      BY <1>2, <1>3, <1>7, <3>3
    <3>5. /\ pageTable'[q0] = f /\ pageTable'[p] = None
          /\ \A q \in PageIDs : q # q0 /\ q # p => pageTable'[q] = pageTable[q]
      BY <1>4, <1>6, <2>1, <3>4
    <3>6. pageTable' \in [PageIDs -> Frames \union {None}]
      <4>1. pageTable \in [PageIDs -> Frames \union {None}]
        BY <1>1 DEF PoolTypes
      <4> QED
        BY <1>4, <1>5, <4>1
    <3> QED
      BY <3>3, <3>4, <3>5, <3>6
  <2>2. CASE ~reg[th].victim
    <3>1. Vacant(f) /\ disk' = disk
      BY <1>2, <1>4, <1>5, <2>2 DEF TakenOK
    <3>2. pageTable'[q0] = f /\ \A q \in PageIDs : q # q0 => pageTable'[q] = pageTable[q]
      BY <1>4, <1>6, <2>2
    <3>3. pageTable' \in [PageIDs -> Frames \union {None}] /\ disk' \in [PageIDs -> Nat \union {None}]
      <4>1. pageTable \in [PageIDs -> Frames \union {None}] /\ disk \in [PageIDs -> Nat \union {None}]
        BY <1>1 DEF PoolTypes
      <4> QED
        BY <1>4, <1>5, <3>1, <4>1
    <3> QED
      BY <3>1, <3>2, <3>3 DEF Vacant
  <2> QED
    BY <2>1, <2>2
<1>9. \A u \in Threads : u # th /\ Fetching(u) => reg[u].page # q0
  BY <1>1, <1>2, <1>6 DEF Fetches, FetchOK
<1>10. \A u \in Threads : ~ToFlush(u, q0)
  BY <1>1, <1>2, <1>6 DEF FlushesGood, FlushOK, Untouched
<1>11. Placing(th, f, q0, 0, TRUE)
  <2>1. /\ nextPageID' \in 0 .. NumPages /\ nextPageID <= nextPageID' /\ q0 < nextPageID'
        /\ \A q \in PageIDs : q < nextPageID' => q < nextPageID \/ q = q0
    BY <1>2, <1>3, <1>6, PoolAssumption DEF PageIDs
  <2> QED
    BY <1>2, <1>3, <1>7, <1>8, <1>9, <1>10, <2>1 DEF Placing
<1>12. PICK o \in Objects : Installed(th, f, o, q0, 0, TRUE)
  BY <1>2, <1>3, <1>5, <1>6, InstallEffect
<1> QED
  BY <1>5, <1>6, <1>11, <1>12, InstallStep

----------------------------------------------------------------------------
(* Pages in use.                                                           *)

\* The page table has no two pages at one object.
LEMMA OnePageAnObject ==
    ASSUME TableLeads, NEW p \in PageIDs, NEW q \in PageIDs, pageTable[p] # None, pageTable[q] # None,
           pages[pageTable[p]] = pages[pageTable[q]]
    PROVE  p = q
BY DEF TableLeads

\* FetchPage finds the page.
LEMMA FetchHitStep ==
    ASSUME PoolInv, NEW th \in Threads, NEW p \in PageIDs, p \in Resident, ~clashed',
           FetchPage(th, p)
    PROVE  PoolInv'
<1>1. /\ PoolTypes /\ Locals /\ Fetches /\ TableLeads /\ UsedStay /\ PinsCount
      /\ FramesGood /\ FlushesGood /\ Stored
  BY DEF PoolInv
<1>2. PICK f, o, rec : f = pageTable[p] /\ o = pages[f] /\ rec = [object |-> o, wrote |-> FALSE]
  OBVIOUS
<1>3. /\ pageTable[p] # None /\ f \in Frames /\ o \in Objects /\ object[o].id = p /\ p < nextPageID
  BY <1>1, <1>2 DEF Resident, PoolTypes, TableLeads
<1>4. /\ pc[th] = "idle" /\ Len(held[th]) < MaxHeld
      /\ object' = [object EXCEPT ![o].pinCount = @ + 1]
      /\ replacer' = RemoveFirst(replacer, f)
      /\ held' = [held EXCEPT ![th] = Append(@, rec)]
      /\ UNCHANGED <<pages, pageTable, freeList, disk, nextPageID, pc, reg, writes, latest, deleted>>
      /\ ~BeingEvicted(p) /\ ~BeingFlushed(p)
  BY <1>2 DEF FetchPage, IncPinCount, ObjectOf, Take, diskVars
<1>5. rec \in Hold /\ rec.object = o /\ rec.wrote = FALSE
  BY <1>2, <1>3 DEF Hold
<1>6. /\ object' \in [Objects -> PageObject]
      /\ object'[o].pinCount = object[o].pinCount + 1 /\ object[o].pinCount \in Nat
      /\ \A x \in Objects : /\ object'[x].id = object[x].id /\ object'[x].data = object[x].data
                            /\ object'[x].isDirty = object[x].isDirty
                            /\ x # o => object'[x].pinCount = object[x].pinCount
  <2>1. object[o] \in PageObject /\ object \in [Objects -> PageObject]
    BY <1>1, <1>3 DEF PoolTypes
  <2>2. PICK new : new = [object[o] EXCEPT !.pinCount = @ + 1]
    OBVIOUS
  <2>3. /\ new \in PageObject /\ new.pinCount = object[o].pinCount + 1 /\ object[o].pinCount \in Nat
        /\ new.id = object[o].id /\ new.data = object[o].data /\ new.isDirty = object[o].isDirty
    BY <2>1, <2>2 DEF PageObject
  <2>4. object' = [object EXCEPT ![o] = new]
    BY <1>3, <1>4, <2>1, <2>2
  <2>5. object'[o] = new /\ \A x \in Objects : x # o => object'[x] = object[x]
    BY <1>3, <2>1, <2>4
  <2>6. object' \in [Objects -> PageObject]
    BY <2>1, <2>3, <2>4
  <2> QED
    BY <2>3, <2>5, <2>6
<1>7. /\ replacer' \in Seq(Frames) /\ IsInjective(replacer')
      /\ \A x : Contains(replacer', x) <=> Contains(replacer, x) /\ x # f
  <2>1. replacer \in Seq(Frames) /\ IsInjective(replacer)
    BY <1>1 DEF PoolTypes, FramesGood
  <2> QED
    BY <1>4, <2>1, RemoveFirstList
<1>8. /\ held' \in [Threads -> Seq(Hold)]
      /\ Len(held'[th]) = Len(held[th]) + 1
      /\ \A u \in Threads : u # th => held'[u] = held[u]
      /\ \A u \in Threads : Len(held[u]) \in Nat /\ Len(held'[u]) >= Len(held[u])
      /\ \A u \in Threads : \A i \in 1 .. Len(held[u]) : held'[u][i] = held[u][i]
      /\ \A u \in Threads : \A i \in 1 .. Len(held'[u]) : i > Len(held[u]) => held'[u][i] = rec
  BY <1>1, <1>4, <1>5 DEF PoolTypes
<1>9. ASSUME NEW u \in Threads, NEW i \in 1 .. Len(held'[u])
      PROVE  \/ held'[u][i] = rec
             \/ i \in 1 .. Len(held[u]) /\ held'[u][i] = held[u][i] /\ held[u][i].object \in Objects
  <2>1. CASE i > Len(held[u])
    BY <1>8, <2>1
  <2>2. CASE ~(i > Len(held[u]))
    <3>1. i \in 1 .. Len(held[u])
      BY <1>8, <2>2
    <3>2. held[u][i] \in Hold
      BY <1>1, <3>1 DEF PoolTypes
    <3> QED
      BY <1>8, <3>1, <3>2 DEF Hold
  <2> QED
    BY <2>1, <2>2
<1>10. PoolTypes'
  BY <1>1, <1>4, <1>6, <1>7, <1>8 DEF PoolTypes
<1>11. Locals'
  <2> SUFFICES ASSUME NEW u \in Threads PROVE LocalOK(u)'
    BY DEF Locals
  <2>1. LocalOK(u)
    BY <1>1 DEF Locals
  <2>2. CASE u = th
    <3>1. Len(held'[th]) <= MaxHeld
      BY <1>4, <1>8, PoolAssumption
    <3> QED
      BY <1>4, <2>1, <2>2, <3>1 DEF LocalOK
  <2>3. CASE u # th
    BY <1>4, <1>8, <2>1, <2>3 DEF LocalOK
  <2> QED
    BY <2>2, <2>3
<1>12. Fetches'
  BY <1>1, <1>4 DEF Fetches, FetchOK, Fetching
<1>13. TableLeads'
  BY <1>1, <1>4, <1>6 DEF TableLeads
<1>14. UsedStay'
  <2>1. ASSUME NEW u \in Threads, NEW i \in 1 .. Len(held'[u])
        PROVE  /\ object'[held'[u][i].object].id \in PageIDs
               /\ pageTable[object'[held'[u][i].object].id] # None
               /\ pages[pageTable[object'[held'[u][i].object].id]] = held'[u][i].object
    <3>1. PICK h : h = held'[u][i].object
      OBVIOUS
    <3>2. h \in Objects /\ object[h].id \in PageIDs /\ pageTable[object[h].id] # None
          /\ pages[pageTable[object[h].id]] = h
      <4>1. CASE held'[u][i] = rec
        BY <1>2, <1>3, <1>5, <3>1, <4>1
      <4>2. CASE i \in 1 .. Len(held[u]) /\ held'[u][i] = held[u][i] /\ held[u][i].object \in Objects
        BY <1>1, <3>1, <4>2 DEF UsedStay
      <4> QED
        BY <1>9, <4>1, <4>2
    <3>3. object'[h].id = object[h].id
      BY <1>6, <3>2
    <3> QED
      BY <3>1, <3>2, <3>3
  <2>2. pageTable' = pageTable /\ pages' = pages
    BY <1>4
  <2> QED
    BY <2>1, <2>2 DEF UsedStay
<1>15. PinsCount'
  <2>1. \A x : Cardinality(HoldsIn(held', x)) =
                 Cardinality(HoldsIn(held, x)) + (IF rec.object = x THEN 1 ELSE 0)
    BY <1>1, <1>4, <1>5, OneMoreHold
  <2>2. ASSUME NEW q \in PageIDs, pageTable[q] # None
        PROVE  object'[pages[pageTable[q]]].pinCount = Cardinality(HoldsIn(held', pages[pageTable[q]]))
    <3>1. PICK x : x = pages[pageTable[q]]
      OBVIOUS
    <3>2. /\ x \in Objects /\ object[x].pinCount = Cardinality(HoldsIn(held, x))
          /\ Cardinality(HoldsIn(held, x)) \in Nat
      BY <1>1, <2>2, <3>1, HoldsCount DEF TableLeads, PinsCount
    <3>3. CASE x = o
      BY <1>5, <1>6, <2>1, <3>1, <3>2, <3>3
    <3>4. CASE x # o
      BY <1>5, <1>6, <2>1, <3>1, <3>2, <3>4
    <3> QED
      BY <3>3, <3>4
  <2>3. pageTable' = pageTable /\ pages' = pages
    BY <1>4
  <2> QED
    BY <2>2, <2>3 DEF PinsCount
<1>16. FramesGood'
  <2>1. \A x : (Busy(x)' <=> Busy(x)) /\ (Vacant(x)' <=> Vacant(x))
    BY <1>4 DEF Busy, Vacant
  <2>2. ~Vacant(f) /\ ~Idle(f)' /\ ~Contains(freeList, f)
    <3>1. ~Vacant(f)
      BY <1>2 DEF Vacant
    <3>2. ~Idle(f)'
      BY <1>2, <1>4, <1>6 DEF Idle
    <3>3. ~Contains(freeList, f)
      BY <1>1, <1>3, <3>1 DEF FramesGood, FrameOK
    <3> QED
      BY <3>1, <3>2, <3>3
  <2>3. ~Busy(f)
    <3> SUFFICES ASSUME NEW u \in Threads, reg[u].frame = f PROVE FALSE
      BY DEF Busy
    <3>1. TakenOK(u)
      BY <1>1, <1>2, <1>3 DEF FramesGood
    <3>2. ~reg[u].victim
      BY <1>2, <1>4 DEF BeingEvicted
    <3> QED
      BY <2>2, <3>1, <3>2 DEF TakenOK
  <2>4. ASSUME NEW x \in Frames, x # f PROVE Idle(x)' <=> Idle(x)
    <3>1. ASSUME NEW q \in PageIDs, pageTable[q] = x
          PROVE  object'[pages[x]].pinCount = object[pages[x]].pinCount
      <4>1. x # None /\ pages[x] \in Objects
        BY <1>1, <3>1, PoolAssumption DEF TableLeads
      <4>2. pages[x] # o
        BY <1>1, <1>2, <1>3, <2>4, <3>1, <4>1, OnePageAnObject
      <4> QED
        BY <1>6, <4>1, <4>2
    <3> QED
      BY <1>4, <3>1 DEF Idle
  <2>5. ASSUME NEW x \in Frames PROVE FrameOK(x)'
    <3>1. FrameOK(x)
      BY <1>1 DEF FramesGood
    <3>2. CASE x = f
      BY <1>4, <1>7, <2>1, <2>2, <2>3, <3>2 DEF FrameOK
    <3>3. CASE x # f
      BY <1>4, <1>7, <2>1, <2>4, <3>1, <3>3 DEF FrameOK
    <3> QED
      BY <3>2, <3>3
  <2>6. ASSUME NEW u \in Threads, reg[u].frame # None PROVE TakenOK(u)'
    <3>1. TakenOK(u) /\ reg[u].frame # f /\ reg[u].frame \in Frames
      BY <1>1, <2>3, <2>6 DEF FramesGood, Busy, PoolTypes, Registers
    <3> QED
      BY <1>4, <2>1, <2>4, <3>1 DEF TakenOK
  <2> QED
    BY <1>1, <1>4, <1>7, <2>5, <2>6 DEF FramesGood
<1>17. FlushesGood'
  <2> SUFFICES ASSUME NEW u \in Threads PROVE FlushOK(u)'
    BY DEF FlushesGood
  <2>1. FlushOK(u) /\ reg'[u] = reg[u] /\ LocalOK(u) /\ reg[u].object \in Objects \union {None}
    BY <1>1, <1>4 DEF FlushesGood, Locals, PoolTypes, Registers
  <2>2. ASSUME NEW q \in PageIDs, ToFlush(u, q)' PROVE Untouched(q)'
    <3>1. ToFlush(u, q) /\ Untouched(q)
      BY <1>6, <2>1, <2>2 DEF ToFlush, FlushOK
    <3>2. q # p
      <4>1. pc[u] = "flush"
        BY <2>1, <3>1 DEF LocalOK, ToFlush
      <4> QED
        BY <1>4, <3>1, <4>1 DEF BeingFlushed, ToFlush
    <3>3. ASSUME NEW w \in Threads, NEW i \in 1 .. Len(held'[w])
          PROVE  object'[held'[w][i].object].id # q
      <4>1. CASE held'[w][i] = rec
        BY <1>3, <1>5, <1>6, <3>2, <4>1
      <4>2. CASE i \in 1 .. Len(held[w]) /\ held'[w][i] = held[w][i] /\ held[w][i].object \in Objects
        BY <1>6, <3>1, <4>2 DEF Untouched
      <4> QED
        BY <1>9, <4>1, <4>2
    <3> QED
      BY <1>4, <3>1, <3>3 DEF Untouched, Fetching
  <2>3. ASSUME reg'[u].object # None PROVE FlushedObject(reg[u].object)'
    <3>1. PICK b : b = reg[u].object /\ b = reg'[u].object
      BY <2>1
    <3>2. FlushedObject(b) /\ b \in Objects
      BY <2>1, <2>3, <3>1 DEF FlushOK
    <3>3. FlushedObject(b)'
      BY <1>4, <1>6, <3>2 DEF FlushedObject
    <3> QED
      BY <3>1, <3>3
  <2> QED
    BY <2>2, <2>3 DEF FlushOK
<1>18. Stored'
  <2> SUFFICES ASSUME NEW q \in PageIDs PROVE StoredOK(q)'
    BY DEF Stored
  <2>1. StoredOK(q)
    BY <1>1 DEF Stored
  <2>2. ASSUME NEW x, Unsaid(x) PROVE Unsaid(x)'
    <3>1. PICK u \in Threads : \E i \in 1 .. Len(held[u]) : held[u][i].wrote /\ held[u][i].object = x
      BY <2>2 DEF Unsaid
    <3>2. PICK i \in 1 .. Len(held[u]) : held[u][i].wrote /\ held[u][i].object = x
      BY <3>1
    <3>3. i \in 1 .. Len(held'[u]) /\ held'[u][i] = held[u][i]
      BY <1>8
    <3> QED
      BY <3>2, <3>3 DEF Unsaid
  <2>3. pageTable[q] # None => pages[pageTable[q]] \in Objects
    BY <1>1 DEF TableLeads
  <2> QED
    BY <1>4, <1>6, <2>1, <2>2, <2>3 DEF StoredOK
<1> QED
  BY <1>10, <1>11, <1>12, <1>13, <1>14, <1>15, <1>16, <1>17, <1>18 DEF PoolInv

\* A goroutine writes on a page it has pinned.
LEMMA ModifyStep ==
    ASSUME PoolInv, NEW th \in Threads, NEW i \in DOMAIN held[th], Modify(th, i)
    PROVE  PoolInv'
<1>1. /\ PoolTypes /\ Locals /\ Fetches /\ TableLeads /\ UsedStay /\ PinsCount
      /\ FramesGood /\ FlushesGood /\ Stored
  BY DEF PoolInv
<1>2. PICK o, p, w : o = held[th][i].object /\ p = object[o].id /\ w = writes + 1
  OBVIOUS
<1>3. i \in 1 .. Len(held[th]) /\ held[th] \in Seq(Hold) /\ held[th][i] \in Hold /\ o \in Objects
  <2>1. i \in 1 .. Len(held[th]) /\ held[th] \in Seq(Hold)
    BY <1>1 DEF PoolTypes
  <2>2. held[th][i] \in Hold
    BY <2>1
  <2> QED
    BY <1>2, <2>1, <2>2 DEF Hold
<1>4. p \in PageIDs /\ pageTable[p] # None /\ pages[pageTable[p]] = o /\ w \in Nat
  <2>1. object[held[th][i].object].id \in PageIDs
    BY <1>1, <1>3 DEF UsedStay
  <2>2. /\ pageTable[object[held[th][i].object].id] # None
        /\ pages[pageTable[object[held[th][i].object].id]] = held[th][i].object
    BY <1>1, <1>3 DEF UsedStay
  <2>3. w \in Nat
    BY <1>1, <1>2 DEF PoolTypes
  <2> QED
    BY <1>2, <2>1, <2>2, <2>3
<1>5. /\ writes' = w /\ object' = [object EXCEPT ![o].data = w] /\ latest' = [latest EXCEPT ![p] = w]
      /\ held' = [held EXCEPT ![th][i].wrote = TRUE]
      /\ UNCHANGED <<pages, pageTable, freeList, replacer, disk, nextPageID, pc, reg, deleted>>
  BY <1>2 DEF Modify, diskVars
<1>6. /\ object' \in [Objects -> PageObject] /\ object'[o].data = w
      /\ \A x \in Objects : /\ object'[x].id = object[x].id /\ object'[x].pinCount = object[x].pinCount
                            /\ object'[x].isDirty = object[x].isDirty
                            /\ x # o => object'[x].data = object[x].data
  <2>1. object[o] \in PageObject /\ object \in [Objects -> PageObject]
    BY <1>1, <1>3 DEF PoolTypes
  <2>2. PICK new : new = [object[o] EXCEPT !.data = w]
    OBVIOUS
  <2>3. /\ new \in PageObject /\ new.data = w /\ new.pinCount = object[o].pinCount
        /\ new.id = object[o].id /\ new.isDirty = object[o].isDirty
    BY <1>4, <2>1, <2>2 DEF PageObject
  <2>4. object' = [object EXCEPT ![o] = new]
    BY <1>3, <1>5, <2>1, <2>2
  <2>5. object'[o] = new /\ \A x \in Objects : x # o => object'[x] = object[x]
    BY <1>3, <2>1, <2>4
  <2>6. object' \in [Objects -> PageObject]
    BY <2>1, <2>3, <2>4
  <2> QED
    BY <2>3, <2>5, <2>6
<1>7. /\ latest' \in [PageIDs -> Nat] /\ latest'[p] = w
      /\ \A q \in PageIDs : q # p => latest'[q] = latest[q]
  BY <1>1, <1>4, <1>5 DEF PoolTypes
<1>8. /\ held' \in [Threads -> Seq(Hold)]
      /\ \A u \in Threads : Len(held'[u]) = Len(held[u])
      /\ \A u \in Threads : \A j \in 1 .. Len(held[u]) :
           /\ held'[u][j].object = held[u][j].object
           /\ held[u][j].wrote => held'[u][j].wrote
      /\ held'[th][i].wrote
  <2>1. PICK h, s : h = [held[th][i] EXCEPT !.wrote = TRUE] /\ s = [held[th] EXCEPT ![i] = h]
    OBVIOUS
  <2>2. h \in Hold /\ h.object = held[th][i].object /\ h.wrote = TRUE
    BY <1>3, <2>1 DEF Hold
  <2>3. s \in Seq(Hold) /\ Len(s) = Len(held[th]) /\ s[i] = h
        /\ \A j \in 1 .. Len(held[th]) : j # i => s[j] = held[th][j]
    BY <1>3, <2>1, <2>2
  <2>4. held' = [held EXCEPT ![th] = s] /\ held \in [Threads -> Seq(Hold)]
    BY <1>1, <1>3, <1>5, <2>1 DEF PoolTypes
  <2>5. held'[th] = s /\ \A u \in Threads : u # th => held'[u] = held[u]
    BY <2>4
  <2>6. held' \in [Threads -> Seq(Hold)]
    BY <2>3, <2>4
  <2> QED
    BY <2>2, <2>3, <2>5, <2>6
<1>9. \A u \in Threads : \A j \in 1 .. Len(held[u]) : held[u][j].object \in Objects
  <2>1. \A u \in Threads : \A j \in 1 .. Len(held[u]) : held[u][j] \in Hold
    BY <1>1 DEF PoolTypes
  <2> QED
    BY <2>1 DEF Hold
<1>10. PoolTypes'
  BY <1>1, <1>4, <1>5, <1>6, <1>7, <1>8 DEF PoolTypes
<1>11. Locals'
  BY <1>1, <1>5, <1>8 DEF Locals, LocalOK
<1>12. Fetches'
  <2> SUFFICES ASSUME NEW u \in Threads, Fetching(u)' PROVE FetchOK(u)'
    BY DEF Fetches
  <2>1. FetchOK(u) /\ reg[u].page # p
    BY <1>1, <1>4, <1>5 DEF Fetching, Fetches, FetchOK
  <2> QED
    BY <1>5, <1>7, <2>1 DEF FetchOK, Fetching
<1>13. TableLeads'
  BY <1>1, <1>5, <1>6 DEF TableLeads
<1>14. UsedStay'
  <2>1. ASSUME NEW u \in Threads, NEW j \in 1 .. Len(held'[u])
        PROVE  /\ object'[held'[u][j].object].id \in PageIDs
               /\ pageTable[object'[held'[u][j].object].id] # None
               /\ pages[pageTable[object'[held'[u][j].object].id]] = held'[u][j].object
    <3>1. PICK h : h = held'[u][j].object
      OBVIOUS
    <3>2. h \in Objects /\ h = held[u][j].object /\ j \in 1 .. Len(held[u])
      BY <1>8, <1>9, <3>1
    <3>3. object'[h].id = object[h].id
      BY <1>6, <3>2
    <3> QED
      BY <1>1, <3>1, <3>2, <3>3 DEF UsedStay
  <2>2. pageTable' = pageTable /\ pages' = pages
    BY <1>5
  <2> QED
    BY <2>1, <2>2 DEF UsedStay
<1>15. PinsCount'
  <2>1. ASSUME NEW x PROVE HoldsIn(held', x) = HoldsIn(held, x)
    <3>1. ASSUME NEW h \in Threads \X (1 .. MaxHeld), h[2] <= Len(held[h[1]])
          PROVE  held'[h[1]][h[2]].object = held[h[1]][h[2]].object
      <4>1. h[1] \in Threads /\ h[2] \in 1 .. Len(held[h[1]])
        BY <1>1, <3>1 DEF PoolTypes
      <4> QED
        BY <1>8, <4>1
    <3>2. \A h \in Threads \X (1 .. MaxHeld) : Len(held'[h[1]]) = Len(held[h[1]])
      BY <1>8
    <3> QED
      BY <3>1, <3>2 DEF HoldsIn
  <2>2. pageTable' = pageTable /\ pages' = pages
    BY <1>5
  <2> QED
    BY <1>1, <1>6, <2>1, <2>2 DEF PinsCount, TableLeads
<1>16. FramesGood'
  <2>1. \A x : (Busy(x)' <=> Busy(x)) /\ (Vacant(x)' <=> Vacant(x))
    BY <1>5 DEF Busy, Vacant
  <2>2. ASSUME NEW x \in Frames PROVE Idle(x)' <=> Idle(x)
    <3>1. ASSUME NEW q \in PageIDs, pageTable[q] = x
          PROVE  object'[pages[x]].pinCount = object[pages[x]].pinCount
      BY <1>1, <1>6, <3>1, PoolAssumption DEF TableLeads
    <3> QED
      BY <1>5, <3>1 DEF Idle
  <2>3. \A x \in Frames : FrameOK(x)'
    BY <1>1, <1>5, <2>1, <2>2 DEF FramesGood, FrameOK
  <2>4. \A u \in Threads : reg[u].frame # None => reg[u].frame \in Frames
    BY <1>1 DEF PoolTypes, Registers
  <2>5. \A u \in Threads : reg[u].frame # None => TakenOK(u)'
    BY <1>1, <1>5, <2>1, <2>2, <2>4 DEF FramesGood, TakenOK
  <2> QED
    BY <1>1, <1>5, <2>3, <2>5 DEF FramesGood
<1>17. FlushesGood'
  <2> SUFFICES ASSUME NEW u \in Threads PROVE FlushOK(u)'
    BY DEF FlushesGood
  <2>1. FlushOK(u) /\ reg'[u] = reg[u] /\ reg[u].object \in Objects \union {None}
    BY <1>1, <1>5 DEF FlushesGood, PoolTypes, Registers
  <2>2. ASSUME NEW q \in PageIDs, ToFlush(u, q)' PROVE Untouched(q)'
    <3>1. ToFlush(u, q) /\ Untouched(q)
      BY <1>6, <2>1, <2>2 DEF ToFlush, FlushOK
    <3> QED
      BY <1>5, <1>6, <1>8, <1>9, <3>1 DEF Untouched, Fetching
  <2>3. ASSUME reg'[u].object # None PROVE FlushedObject(reg[u].object)'
    <3>1. PICK b : b = reg[u].object /\ b = reg'[u].object
      BY <2>1
    <3>2. FlushedObject(b) /\ b \in Objects
      BY <2>1, <2>3, <3>1 DEF FlushOK
    <3>3. object[b].id # p
      <4>1. ASSUME object[b].id = p PROVE FALSE
        <5>1. Untouched(p)
          BY <1>4, <2>1, <2>3, <3>1, <4>1 DEF FlushOK, ToFlush
        <5> QED
          BY <1>2, <1>3, <5>1 DEF Untouched
      <4> QED
        BY <4>1
    <3>4. b # o
      BY <1>2, <3>3
    <3>5. FlushedObject(b)'
      BY <1>5, <1>6, <1>7, <3>2, <3>3, <3>4 DEF FlushedObject
    <3> QED
      BY <3>1, <3>5
  <2> QED
    BY <2>2, <2>3 DEF FlushOK
<1>18. Stored'
  <2> SUFFICES ASSUME NEW q \in PageIDs PROVE StoredOK(q)'
    BY DEF Stored
  <2>1. StoredOK(q)
    BY <1>1 DEF Stored
  <2>2. \A x : Unsaid(x) => Unsaid(x)'
    BY <1>8 DEF Unsaid
  <2>3. Unsaid(o)'
    BY <1>2, <1>3, <1>8 DEF Unsaid
  <2>4. CASE q = p
    <3>1. p < nextPageID /\ p \in Int
      BY <1>1, <1>4 DEF TableLeads, PageIDs
    <3> QED
      BY <1>1, <1>4, <1>5, <1>6, <1>7, <2>3, <2>4, <3>1 DEF StoredOK, PoolTypes
  <2>5. CASE q # p
    <3>1. pageTable[q] # None => pages[pageTable[q]] \in Objects /\ pages[pageTable[q]] # o
      BY <1>1, <1>2, <2>5 DEF TableLeads
    <3> QED
      BY <1>5, <1>6, <1>7, <2>1, <2>2, <2>5, <3>1 DEF StoredOK
  <2> QED
    BY <2>4, <2>5
<1> QED
  BY <1>10, <1>11, <1>12, <1>13, <1>14, <1>15, <1>16, <1>17, <1>18 DEF PoolInv

----------------------------------------------------------------------------
(* Pages given back, flushed and unpinned.                                 *)

\* DeletePage of a page without users.
LEMMA DeletePageStep ==
    ASSUME PoolInv, NEW th \in Threads, NEW p \in PageIDs, ~clashed', DeletePage(th, p)
    PROVE  PoolInv'
<1>1. /\ PoolTypes /\ Locals /\ Fetches /\ TableLeads /\ UsedStay /\ PinsCount
      /\ FramesGood /\ FlushesGood /\ Stored
  BY DEF PoolInv
<1>2. PICK f, o : f = pageTable[p] /\ o = pages[f]
  OBVIOUS
<1>3. /\ f # None /\ object[o].pinCount = 0
      /\ pageTable' = [pageTable EXCEPT ![p] = None]
      /\ replacer' = RemoveFirst(replacer, f) /\ freeList' = Append(freeList, f)
      /\ deleted' = deleted \union {p} /\ ~BeingEvicted(p)
      /\ UNCHANGED <<object, pages, disk, nextPageID, pc, reg, held, writes, latest>>
  BY <1>2 DEF DeletePage, Resident, ObjectOf, diskVars, localVars
<1>4. f \in Frames /\ o \in Objects /\ object[o].id = p /\ p < nextPageID
  BY <1>1, <1>2, <1>3 DEF PoolTypes, TableLeads
<1>5. \A q \in PageIDs : pageTable[q] = f => q = p
  BY <1>1, <1>2, <1>3, OnePageAnObject
<1>6. \A u \in Threads : \A i \in 1 .. Len(held[u]) : held[u][i].object # o
  <2>1. Cardinality(HoldsIn(held, o)) = 0
    BY <1>1, <1>2, <1>3 DEF PinsCount
  <2> QED
    BY <1>1, <2>1, HoldsCount
<1>7. pageTable'[p] = None /\ \A q \in PageIDs : q # p => pageTable'[q] = pageTable[q]
  BY <1>1, <1>3 DEF PoolTypes
<1>8. ~Busy(f) /\ ~Contains(freeList, f)
  <2>1. ~Vacant(f)
    BY <1>2 DEF Vacant
  <2>2. ASSUME NEW u \in Threads, reg[u].frame = f PROVE FALSE
    <3>1. TakenOK(u)
      BY <1>1, <1>3, <2>2 DEF FramesGood
    <3>2. ~reg[u].victim
      BY <1>2, <1>3, <2>2 DEF BeingEvicted
    <3> QED
      BY <2>1, <2>2, <3>1, <3>2 DEF TakenOK
  <2> QED
    BY <1>1, <1>4, <2>1, <2>2 DEF FramesGood, FrameOK, Busy
<1>9. /\ replacer' \in Seq(Frames) /\ IsInjective(replacer')
      /\ \A x : Contains(replacer', x) <=> Contains(replacer, x) /\ x # f
  <2>1. replacer \in Seq(Frames) /\ IsInjective(replacer)
    BY <1>1 DEF PoolTypes, FramesGood
  <2> QED
    BY <1>3, <2>1, RemoveFirstList
<1>10. /\ freeList' \in Seq(Frames) /\ IsInjective(freeList')
       /\ \A x : Contains(freeList', x) <=> Contains(freeList, x) \/ x = f
  <2>1. freeList \in Seq(Frames) /\ IsInjective(freeList)
    BY <1>1 DEF PoolTypes, FramesGood
  <2> QED
    BY <1>3, <1>4, <1>8, <2>1, AppendList
<1>11. PoolTypes'
  BY <1>1, <1>3, <1>9, <1>10 DEF PoolTypes
<1>12. Locals'
  BY <1>1, <1>3 DEF Locals, LocalOK
<1>13. Fetches'
  <2> SUFFICES ASSUME NEW u \in Threads, Fetching(u)' PROVE FetchOK(u)'
    BY DEF Fetches
  <2>1. FetchOK(u) /\ reg[u].page # p
    BY <1>1, <1>2, <1>3 DEF Fetching, Fetches, FetchOK
  <2> QED
    BY <1>3, <1>7, <2>1 DEF FetchOK, Fetching
<1>14. TableLeads'
  BY <1>1, <1>3, <1>7 DEF TableLeads
<1>15. UsedStay'
  <2>1. ASSUME NEW u \in Threads, NEW i \in 1 .. Len(held[u])
        PROVE  /\ object[held[u][i].object].id \in PageIDs
               /\ pageTable'[object[held[u][i].object].id] # None
               /\ pages[pageTable'[object[held[u][i].object].id]] = held[u][i].object
    <3>1. PICK h : h = held[u][i].object
      OBVIOUS
    <3>2. object[h].id \in PageIDs /\ pageTable[object[h].id] # None /\ pages[pageTable[object[h].id]] = h
      BY <1>1, <3>1 DEF UsedStay
    <3>3. object[h].id # p
      BY <1>2, <1>6, <3>1, <3>2
    <3> QED
      BY <1>7, <3>1, <3>2, <3>3
  <2>2. object' = object /\ pages' = pages /\ held' = held
    BY <1>3
  <2> QED
    BY <2>1, <2>2 DEF UsedStay
<1>16. PinsCount'
  BY <1>1, <1>3, <1>7 DEF PinsCount
<1>17. FramesGood'
  <2>1. \A x : Busy(x)' <=> Busy(x)
    BY <1>3 DEF Busy
  <2>2. Vacant(f)' /\ ~Idle(f)'
    BY <1>3, <1>5, <1>7 DEF Vacant, Idle
  <2>3. \A x \in Frames : x # f => (Vacant(x)' <=> Vacant(x)) /\ (Idle(x)' <=> Idle(x))
    BY <1>2, <1>3, <1>7, PoolAssumption DEF Vacant, Idle
  <2>4. ASSUME NEW x \in Frames PROVE FrameOK(x)'
    <3>1. FrameOK(x)
      BY <1>1 DEF FramesGood
    <3>2. CASE x = f
      BY <1>8, <1>9, <1>10, <2>1, <2>2, <3>2 DEF FrameOK
    <3>3. CASE x # f
      BY <1>9, <1>10, <2>1, <2>3, <3>1, <3>3 DEF FrameOK
    <3> QED
      BY <3>2, <3>3
  <2>5. ASSUME NEW u \in Threads, reg[u].frame # None PROVE TakenOK(u)'
    <3>1. TakenOK(u) /\ reg[u].frame # f /\ reg[u].frame \in Frames
      BY <1>1, <1>8, <2>5 DEF FramesGood, Busy, PoolTypes, Registers
    <3> QED
      BY <1>3, <2>3, <3>1 DEF TakenOK
  <2> QED
    BY <1>3, <1>9, <1>10, <2>4, <2>5 DEF FramesGood
<1>18. FlushesGood'
  <2> SUFFICES ASSUME NEW u \in Threads PROVE FlushOK(u)'
    BY DEF FlushesGood
  <2>1. FlushOK(u) /\ reg'[u] = reg[u]
    BY <1>1, <1>3 DEF FlushesGood
  <2>2. ASSUME NEW q \in PageIDs, ToFlush(u, q)' PROVE Untouched(q)'
    <3>1. ToFlush(u, q) /\ Untouched(q)
      BY <1>3, <2>1, <2>2 DEF ToFlush, FlushOK
    <3> QED
      BY <1>3, <3>1 DEF Untouched, Fetching
  <2>3. ASSUME reg'[u].object # None PROVE FlushedObject(reg[u].object)'
    <3>1. PICK b : b = reg[u].object /\ b = reg'[u].object
      BY <2>1
    <3>2. FlushedObject(b)
      BY <2>1, <2>3, <3>1 DEF FlushOK
    <3>3. FlushedObject(b)'
      BY <1>3, <1>7, <3>2 DEF FlushedObject
    <3> QED
      BY <3>1, <3>3
  <2> QED
    BY <2>2, <2>3 DEF FlushOK
<1>19. Stored'
  <2> SUFFICES ASSUME NEW q \in PageIDs PROVE StoredOK(q)'
    BY DEF Stored
  <2>1. StoredOK(q)
    BY <1>1 DEF Stored
  <2>2. \A x : Unsaid(x)' <=> Unsaid(x)
    BY <1>3 DEF Unsaid
  <2>3. CASE q = p
    <3>1. p \in Int /\ nextPageID \in Int
      BY <1>1 DEF PageIDs, PoolTypes
    <3> QED
      BY <1>3, <1>4, <1>7, <2>3, <3>1 DEF StoredOK
  <2>4. CASE q # p
    BY <1>3, <1>7, <2>1, <2>2, <2>4 DEF StoredOK
  <2> QED
    BY <2>3, <2>4
<1> QED
  BY <1>11, <1>12, <1>13, <1>14, <1>15, <1>16, <1>17, <1>18, <1>19 DEF PoolInv

\* Collect keeps what anything points to.
LEMMA CollectKeeps ==
    ASSUME NEW objs \in [Objects -> PageObject], Collect(objs)
    PROVE  /\ object' \in [Objects -> PageObject]
           /\ \A x \in Objects : (\E g \in Frames : pages'[g] = x) => object'[x] = objs[x]
           /\ \A x \in Objects : (\E u \in Threads : reg'[u].object = x) => object'[x] = objs[x]
           /\ \A x \in Objects : (\E u \in Threads : \E i \in DOMAIN held'[u] : held'[u][i].object = x)
                => object'[x] = objs[x]
<1>1. Blank \in PageObject
  BY DEF Blank, PageObject
<1> QED
  BY <1>1 DEF Collect

\* FlushPage writes the page.
LEMMA FlushWriteStep ==
    ASSUME PoolInv, NEW th \in Threads, FlushWrite(th)
    PROVE  PoolInv'
<1>1. /\ PoolTypes /\ Locals /\ Fetches /\ TableLeads /\ UsedStay /\ PinsCount
      /\ FramesGood /\ FlushesGood /\ Stored
  BY DEF PoolInv
<1>2. PICK o, p, n, new :
        /\ o = reg[th].object /\ p = object[o].id
        /\ n = IF object[o].pinCount > 0 THEN object[o].pinCount - 1 ELSE object[o].pinCount
        /\ new = [object[o] EXCEPT !.pinCount = n, !.isDirty = FALSE]
  OBVIOUS
<1>3. /\ pc[th] = "flush" /\ o # None /\ reg' = [reg EXCEPT ![th].object = None]
      /\ UNCHANGED <<pages, pageTable, freeList, replacer, nextPageID, pc, held,
                     writes, latest, deleted>>
      /\ WritePage(p, object[o].data)
      /\ Collect([DecPinCount(o) EXCEPT ![o].isDirty = FALSE])
  BY <1>2 DEF FlushWrite, histVars
<1>4. o \in Objects /\ FlushedObject(o) /\ Untouched(p) /\ p \in PageIDs
  <2>1. o \in Objects /\ FlushOK(th)
    BY <1>1, <1>2, <1>3 DEF PoolTypes, Registers, FlushesGood
  <2>2. FlushedObject(o)
    BY <1>2, <1>3, <2>1 DEF FlushOK
  <2> QED
    BY <1>2, <1>3, <2>1, <2>2 DEF FlushOK, FlushedObject, ToFlush
<1>5. object \in [Objects -> PageObject] /\ object[o] \in PageObject
  BY <1>1, <1>4 DEF PoolTypes
<1>6. /\ new \in PageObject /\ new.id = p /\ new.data = object[o].data /\ new.isDirty = FALSE
      /\ object[o].pinCount = 0 => new.pinCount = 0
  <2>1. n \in Nat /\ (object[o].pinCount = 0 => n = 0)
    BY <1>2, <1>5 DEF PageObject
  <2> QED
    BY <1>2, <1>5, <2>1 DEF PageObject
<1>7. PICK objs : objs = [DecPinCount(o) EXCEPT ![o].isDirty = FALSE]
  OBVIOUS
<1>8. objs = [object EXCEPT ![o] = new]
  BY <1>2, <1>4, <1>5, <1>7 DEF DecPinCount
<1>9. /\ objs \in [Objects -> PageObject] /\ objs[o] = new
      /\ \A x \in Objects : x # o => objs[x] = object[x]
  BY <1>4, <1>5, <1>6, <1>8
<1>10. \A x \in Objects : objs[x].id = object[x].id /\ objs[x].data = object[x].data
  BY <1>2, <1>6, <1>9
<1>11. Collect(objs)
  BY <1>3, <1>7
<1>12. /\ object' \in [Objects -> PageObject]
       /\ \A x \in Objects : (\E g \in Frames : pages[g] = x) => object'[x] = objs[x]
       /\ \A x \in Objects : (\E u \in Threads : reg'[u].object = x) => object'[x] = objs[x]
       /\ \A x \in Objects : (\E u \in Threads : \E i \in DOMAIN held[u] : held[u][i].object = x)
            => object'[x] = objs[x]
  <2>1. pages' = pages /\ held' = held
    BY <1>3
  <2> QED
    BY <1>9, <1>11, <2>1, CollectKeeps
<1>13. ASSUME NEW q \in PageIDs, pageTable[q] # None
       PROVE  /\ pages[pageTable[q]] \in Objects
              /\ object'[pages[pageTable[q]]].id = object[pages[pageTable[q]]].id
              /\ object'[pages[pageTable[q]]].data = object[pages[pageTable[q]]].data
              /\ object'[pages[pageTable[q]]].pinCount = object[pages[pageTable[q]]].pinCount
              /\ q # p => object'[pages[pageTable[q]]].isDirty = object[pages[pageTable[q]]].isDirty
  <2>1. PICK x : x = pages[pageTable[q]]
    OBVIOUS
  <2>2. x \in Objects /\ pageTable[q] \in Frames /\ object[x].id = q
    BY <1>1, <1>13, <2>1 DEF PoolTypes, TableLeads
  <2>3. object'[x] = objs[x]
    BY <1>12, <2>1, <2>2
  <2>4. CASE x = o
    <3>1. q = p
      BY <1>2, <2>2, <2>4
    <3>2. \A u \in Threads : \A i \in 1 .. Len(held[u]) : held[u][i].object # o
      BY <1>2, <1>4 DEF Untouched
    <3>3. Cardinality(HoldsIn(held, o)) = 0
      BY <1>1, <3>2, HoldsCount
    <3>4. object[o].pinCount = 0
      BY <1>1, <1>13, <2>1, <2>4, <3>3 DEF PinsCount
    <3>5. object'[x] = new /\ x = o
      BY <1>9, <2>3, <2>4
    <3>6. /\ object'[x].id = object[x].id /\ object'[x].data = object[x].data
          /\ object'[x].pinCount = object[x].pinCount
      BY <1>2, <1>6, <3>4, <3>5
    <3> QED
      BY <2>1, <2>2, <3>1, <3>6
  <2>5. CASE x # o
    BY <1>9, <2>1, <2>2, <2>3, <2>5
  <2> QED
    BY <2>4, <2>5
<1>14. ASSUME NEW u \in Threads, NEW i \in 1 .. Len(held[u])
       PROVE  object'[held[u][i].object].id = object[held[u][i].object].id
  <2>1. i \in DOMAIN held[u] /\ held[u][i] \in Hold
    BY <1>1 DEF PoolTypes
  <2>2. PICK x : x = held[u][i].object
    OBVIOUS
  <2>3. x \in Objects
    BY <2>1, <2>2 DEF Hold
  <2>4. object'[x] = objs[x]
    BY <1>12, <2>1, <2>2, <2>3
  <2> QED
    BY <1>10, <2>2, <2>3, <2>4
<1>15. /\ reg'[th].object = None /\ reg' \in [Threads -> Registers]
       /\ \A u \in Threads : u # th => reg'[u] = reg[u]
       /\ \A u \in Threads : /\ reg'[u].page = reg[u].page /\ reg'[u].frame = reg[u].frame
                             /\ reg'[u].victim = reg[u].victim /\ reg'[u].data = reg[u].data
                             /\ reg'[u].todo = reg[u].todo
  BY <1>1, <1>3, ZenonT(30) DEF PoolTypes, Registers
<1>16. /\ disk' \in [PageIDs -> Nat \union {None}] /\ disk'[p] = object[o].data
       /\ \A q \in PageIDs : q # p => disk'[q] = disk[q] \/ disk[q] = None
  <2>1. object[o].data \in Nat
    BY <1>5 DEF PageObject
  <2> QED
    BY <1>1, <1>3, <1>4, <2>1, WritePageKeeps
<1>17. PoolTypes'
  BY <1>1, <1>3, <1>12, <1>15, <1>16 DEF PoolTypes
<1>18. Locals'
  <2> SUFFICES ASSUME NEW u \in Threads PROVE LocalOK(u)'
    BY DEF Locals
  <2>1. LocalOK(u) /\ (reg[u].object = None => reg'[u].object = None)
    BY <1>1, <1>15 DEF Locals
  <2> QED
    BY <1>3, <1>15, <2>1 DEF LocalOK
<1>19. Fetches'
  BY <1>1, <1>3, <1>15 DEF Fetches, FetchOK, Fetching
<1>20. TableLeads'
  BY <1>1, <1>3, <1>13 DEF TableLeads
<1>21. UsedStay'
  <2>1. pages' = pages /\ pageTable' = pageTable /\ held' = held
    BY <1>3
  <2> QED
    BY <1>1, <1>14, <2>1 DEF UsedStay
<1>22. PinsCount'
  <2>1. pages' = pages /\ pageTable' = pageTable /\ held' = held
    BY <1>3
  <2> QED
    BY <1>1, <1>13, <2>1 DEF PinsCount
<1>23. FramesGood'
  <2>1. \A x : (Busy(x)' <=> Busy(x)) /\ (Vacant(x)' <=> Vacant(x))
    BY <1>3, <1>15 DEF Busy, Vacant
  <2>2. ASSUME NEW x \in Frames PROVE Idle(x)' <=> Idle(x)
    <3>1. ASSUME NEW q \in PageIDs, pageTable[q] = x
          PROVE  object'[pages[x]].pinCount = object[pages[x]].pinCount
      BY <1>13, <3>1, PoolAssumption
    <3> QED
      BY <1>3, <3>1 DEF Idle
  <2>3. \A x \in Frames : FrameOK(x)'
    BY <1>1, <1>3, <2>1, <2>2 DEF FramesGood, FrameOK
  <2>4. \A u \in Threads : reg[u].frame # None => reg[u].frame \in Frames
    BY <1>1 DEF PoolTypes, Registers
  <2>5. \A u \in Threads : reg'[u].frame # None => TakenOK(u)'
    BY <1>1, <1>15, <2>1, <2>2, <2>4 DEF FramesGood, TakenOK
  <2> QED
    BY <1>1, <1>3, <2>3, <2>5 DEF FramesGood
<1>24. FlushesGood'
  <2> SUFFICES ASSUME NEW u \in Threads PROVE FlushOK(u)'
    BY DEF FlushesGood
  <2>0. FlushOK(u)
    BY <1>1 DEF FlushesGood
  <2>1. reg'[u].object # None =>
          /\ u # th /\ reg'[u].object = reg[u].object /\ reg[u].object \in Objects
          /\ object'[reg[u].object].id = object[reg[u].object].id
          /\ object'[reg[u].object].data = object[reg[u].object].data
    <3> SUFFICES ASSUME reg'[u].object # None
                 PROVE  /\ u # th /\ reg'[u].object = reg[u].object /\ reg[u].object \in Objects
                        /\ object'[reg[u].object].id = object[reg[u].object].id
                        /\ object'[reg[u].object].data = object[reg[u].object].data
      OBVIOUS
    <3>1. u # th /\ reg'[u] = reg[u] /\ reg[u].object \in Objects
      BY <1>1, <1>15 DEF PoolTypes, Registers
    <3>2. object'[reg[u].object] = objs[reg[u].object]
      BY <1>12, <3>1
    <3> QED
      BY <1>10, <3>1, <3>2
  <2>2. ASSUME NEW q \in PageIDs, ToFlush(u, q)' PROVE Untouched(q)'
    <3>1. ToFlush(u, q) /\ Untouched(q)
      BY <1>15, <2>0, <2>1, <2>2 DEF ToFlush, FlushOK
    <3> QED
      BY <1>3, <1>14, <1>15, <3>1 DEF Untouched, Fetching
  <2>3. ASSUME reg'[u].object # None PROVE FlushedObject(reg[u].object)'
    <3>1. PICK b : b = reg[u].object /\ b = reg'[u].object
      BY <2>1, <2>3
    <3>2. FlushedObject(b) /\ object'[b].id = object[b].id /\ object'[b].data = object[b].data
      BY <2>0, <2>1, <2>3, <3>1 DEF FlushOK
    <3>3. FlushedObject(b)'
      BY <1>3, <3>2 DEF FlushedObject
    <3> QED
      BY <3>1, <3>3
  <2> QED
    BY <2>2, <2>3 DEF FlushOK
<1>25. Stored'
  <2> SUFFICES ASSUME NEW q \in PageIDs PROVE StoredOK(q)'
    BY DEF Stored
  <2>1. StoredOK(q) /\ latest[q] # None
    BY <1>1, PoolAssumption DEF Stored, PoolTypes
  <2>2. \A x : Unsaid(x)' <=> Unsaid(x)
    BY <1>3 DEF Unsaid
  <2>3. CASE q = p
    <3>1. p \notin deleted => disk'[p] = latest[p]
      BY <1>2, <1>4, <1>16 DEF FlushedObject
    <3>2. pageTable[p] # None => p \notin deleted
      BY <1>1, <1>4 DEF TableLeads
    <3> QED
      BY <1>3, <1>13, <2>1, <2>3, <3>1, <3>2 DEF StoredOK
  <2>4. CASE q # p
    <3>1. disk[q] = latest[q] => disk'[q] = latest[q]
      BY <1>16, <2>1, <2>4
    <3> QED
      BY <1>3, <1>13, <2>1, <2>2, <2>4, <3>1 DEF StoredOK
  <2> QED
    BY <2>3, <2>4
<1> QED
  BY <1>17, <1>18, <1>19, <1>20, <1>21, <1>22, <1>23, <1>24, <1>25 DEF PoolInv

\* UnpinPage.
LEMMA UnpinPageStep ==
    ASSUME PoolInv, NEW th \in Threads, NEW i \in DOMAIN held[th], UnpinPage(th, i)
    PROVE  PoolInv'
<1>1. /\ PoolTypes /\ Locals /\ Fetches /\ TableLeads /\ UsedStay /\ PinsCount
      /\ FramesGood /\ FlushesGood /\ Stored
  BY DEF PoolInv
<1>2. PICK o, p, f, wrote : /\ o = held[th][i].object /\ p = object[o].id /\ f = pageTable[p]
                            /\ wrote = held[th][i].wrote
  OBVIOUS
<1>3. /\ i \in 1 .. Len(held[th]) /\ held[th] \in Seq(Hold)
      /\ o \in Objects /\ wrote \in BOOLEAN
  <2>1. i \in 1 .. Len(held[th]) /\ held[th] \in Seq(Hold)
    BY <1>1 DEF PoolTypes
  <2>2. held[th][i] \in Hold
    BY <2>1
  <2> QED
    BY <1>2, <2>1, <2>2 DEF Hold
<1>4. p \in PageIDs /\ f # None /\ f \in Frames /\ pages[f] = o /\ p \in Resident
  <2>1. object[held[th][i].object].id \in PageIDs
    BY <1>1, <1>3 DEF UsedStay
  <2>2. /\ pageTable[object[held[th][i].object].id] # None
        /\ pages[pageTable[object[held[th][i].object].id]] = held[th][i].object
    BY <1>1, <1>3 DEF UsedStay
  <2>3. p \in PageIDs /\ f # None /\ pages[f] = o
    BY <1>2, <2>1, <2>2
  <2> QED
    BY <1>1, <1>2, <2>3 DEF PoolTypes, Resident
<1>5. /\ pc[th] = "idle" /\ held' = [held EXCEPT ![th] = RemoveAt(@, i)]
      /\ UNCHANGED <<pages, pageTable, freeList, disk, nextPageID, pc, reg, writes, latest, deleted>>
      /\ UnpinResident(th, p, wrote)
  BY <1>2, <1>4 DEF UnpinPage, diskVars, histVars
<1>6. object \in [Objects -> PageObject] /\ object[o] \in PageObject
  BY <1>1, <1>3 DEF PoolTypes
<1>7. /\ object[o].pinCount = Cardinality(HoldsIn(held, o)) /\ object[o].pinCount \in Nat
      /\ object[o].pinCount > 0
  <2>1. object[o].pinCount = Cardinality(HoldsIn(held, o))
    BY <1>1, <1>2, <1>4 DEF PinsCount
  <2>2. Cardinality(HoldsIn(held, o)) # 0 /\ Cardinality(HoldsIn(held, o)) \in Nat
    BY <1>1, <1>2, <1>3, HoldsCount
  <2> QED
    BY <2>1, <2>2
<1>8. PICK n, d, new : /\ n = object[o].pinCount - 1 /\ d = (object[o].isDirty \/ wrote)
                       /\ new = [object[o] EXCEPT !.pinCount = n, !.isDirty = d]
  OBVIOUS
<1>9. /\ new \in PageObject /\ new.id = p /\ new.data = object[o].data
      /\ new.isDirty = (object[o].isDirty \/ wrote) /\ new.pinCount = object[o].pinCount - 1
  <2>1. n \in Nat /\ d \in BOOLEAN
    BY <1>7, <1>8
  <2> QED
    BY <1>2, <1>6, <1>8, <2>1 DEF PageObject
<1>10. PICK objs : objs = [object EXCEPT ![o] = new]
  OBVIOUS
<1>11. /\ objs \in [Objects -> PageObject] /\ objs[o] = new
       /\ \A x \in Objects : x # o => objs[x] = object[x]
  BY <1>3, <1>6, <1>9, <1>10
<1>12. \A x \in Objects : objs[x].id = object[x].id /\ objs[x].data = object[x].data
  BY <1>2, <1>9, <1>11
<1>13. /\ Collect(objs)
       /\ replacer' = IF n = 0 /\ ~Contains(replacer, f) THEN Append(replacer, f) ELSE replacer
  <2>1. PICK dec, nd : /\ dec = [object EXCEPT ![o].pinCount = IF @ > 0 THEN @ - 1 ELSE @]
                       /\ nd = [object[o] EXCEPT !.pinCount = n]
    OBVIOUS
  <2>2. dec = DecPinCount(o) /\ ObjectOf(p) = o
    BY <1>2, <1>4, <2>1 DEF DecPinCount, ObjectOf
  <2>3. dec = [object EXCEPT ![o] = nd] /\ nd.pinCount = n /\ nd.isDirty = object[o].isDirty
    BY <1>3, <1>6, <1>7, <1>8, <2>1 DEF PageObject
  <2>4. dec[o] = nd
    BY <1>3, <1>6, <2>3
  <2>5. new = [nd EXCEPT !.isDirty = @ \/ wrote]
    BY <1>6, <1>8, <2>1, <2>3 DEF PageObject
  <2>6. [dec EXCEPT ![o].isDirty = @ \/ wrote] = objs
    BY <1>3, <1>6, <1>10, <2>3, <2>4, <2>5
  <2>7. /\ replacer' = IF dec[o].pinCount = 0 /\ ~Contains(replacer, pageTable[p])
                         THEN Append(replacer, pageTable[p]) ELSE replacer
        /\ Collect([dec EXCEPT ![o].isDirty = @ \/ wrote])
    BY <1>5, <2>2 DEF UnpinResident
  <2> QED
    BY <1>2, <2>3, <2>4, <2>6, <2>7
<1>14. /\ object' \in [Objects -> PageObject]
       /\ \A x \in Objects : (\E g \in Frames : pages[g] = x) => object'[x] = objs[x]
       /\ \A x \in Objects : (\E u \in Threads : reg[u].object = x) => object'[x] = objs[x]
       /\ \A x \in Objects : (\E u \in Threads : \E j \in DOMAIN held'[u] : held'[u][j].object = x)
            => object'[x] = objs[x]
  <2>1. pages' = pages /\ reg' = reg
    BY <1>5
  <2> QED
    BY <1>11, <1>13, <2>1, CollectKeeps
<1>15. ASSUME NEW q \in PageIDs, pageTable[q] # None
       PROVE  /\ pages[pageTable[q]] \in Objects /\ pageTable[q] \in Frames
              /\ object'[pages[pageTable[q]]].id = object[pages[pageTable[q]]].id
              /\ object'[pages[pageTable[q]]].data = object[pages[pageTable[q]]].data
              /\ q # p => /\ pages[pageTable[q]] # o
                          /\ object'[pages[pageTable[q]]] = object[pages[pageTable[q]]]
  <2>1. PICK x : x = pages[pageTable[q]]
    OBVIOUS
  <2>2. x \in Objects /\ pageTable[q] \in Frames /\ object[x].id = q
    BY <1>1, <1>15, <2>1 DEF PoolTypes, TableLeads
  <2>3. object'[x] = objs[x]
    BY <1>14, <2>1, <2>2
  <2>4. q # p => x # o
    BY <1>2, <2>2
  <2>5. object'[x].id = object[x].id /\ object'[x].data = object[x].data
    BY <1>12, <2>2, <2>3
  <2>6. q # p => object'[x] = object[x]
    BY <1>11, <2>2, <2>3, <2>4
  <2> QED
    BY <2>1, <2>2, <2>4, <2>5, <2>6
<1>16. object'[o] = new
  BY <1>3, <1>4, <1>11, <1>14
<1>17. PICK r : r = RemoveAt(held[th], i)
  OBVIOUS
<1>18. /\ r \in Seq(Hold) /\ Len(r) = Len(held[th]) - 1
       /\ \A j \in 1 .. Len(held[th]) - 1 : r[j] = IF j < i THEN held[th][j] ELSE held[th][j + 1]
  BY <1>3, <1>17, RemoveAtSeq
<1>19. /\ held' \in [Threads -> Seq(Hold)] /\ held'[th] = r
       /\ \A u \in Threads : u # th => held'[u] = held[u]
  BY <1>1, <1>5, <1>17, <1>18 DEF PoolTypes
<1>20. ASSUME NEW u \in Threads, NEW j \in 1 .. Len(held'[u])
       PROVE  \E k \in 1 .. Len(held[u]) : held'[u][j] = held[u][k]
  <2>1. CASE u = th
    <3>1. Len(held[th]) \in Nat /\ j \in 1 .. Len(held[th]) - 1
      BY <1>3, <1>18, <1>19, <2>1
    <3>2. CASE j < i
      BY <1>3, <1>18, <1>19, <2>1, <3>1, <3>2
    <3>3. CASE ~(j < i)
      <4>1. j + 1 \in 1 .. Len(held[th]) /\ held'[u][j] = held[th][j + 1]
        BY <1>18, <1>19, <2>1, <3>1, <3>3
      <4> QED
        BY <2>1, <4>1
    <3> QED
      BY <3>2, <3>3
  <2>2. CASE u # th
    BY <1>19, <2>2
  <2> QED
    BY <2>1, <2>2
<1>21. ASSUME NEW u \in Threads, NEW k \in 1 .. Len(held[u]), u # th \/ k # i
       PROVE  \E j \in 1 .. Len(held'[u]) : held'[u][j] = held[u][k]
  <2>1. CASE u = th
    <3>1. Len(held[th]) \in Nat /\ k \in 1 .. Len(held[th]) /\ k # i
      BY <1>3, <1>21, <2>1
    <3>2. CASE k < i
      <4>1. k \in 1 .. Len(held[th]) - 1
        BY <1>3, <3>1, <3>2
      <4> QED
        BY <1>18, <1>19, <2>1, <3>2, <4>1
    <3>3. CASE k > i
      <4>1. k - 1 \in 1 .. Len(held[th]) - 1 /\ ~(k - 1 < i) /\ (k - 1) + 1 = k
        BY <1>3, <3>1, <3>3
      <4>2. r[k - 1] = held[th][k]
        BY <1>18, <4>1
      <4> QED
        BY <1>18, <1>19, <2>1, <4>1, <4>2
    <3> QED
      BY <1>3, <3>1, <3>2, <3>3
  <2>2. CASE u # th
    BY <1>19, <2>2
  <2> QED
    BY <2>1, <2>2
<1>22. ASSUME NEW u \in Threads, NEW j \in 1 .. Len(held'[u])
       PROVE  \E k \in 1 .. Len(held[u]) :
                /\ held'[u][j].object = held[u][k].object /\ held[u][k].object \in Objects
                /\ object'[held'[u][j].object].id = object[held[u][k].object].id
  <2>1. PICK k \in 1 .. Len(held[u]) : held'[u][j] = held[u][k]
    BY <1>20
  <2>2. held[u][k] \in Hold /\ j \in DOMAIN held'[u]
    BY <1>1, <1>19 DEF PoolTypes
  <2>3. PICK x : x = held'[u][j].object
    OBVIOUS
  <2>4. x \in Objects /\ x = held[u][k].object
    BY <2>1, <2>2, <2>3 DEF Hold
  <2>5. object'[x] = objs[x]
    BY <1>14, <2>2, <2>3, <2>4
  <2>6. object'[x].id = object[x].id
    BY <1>12, <2>4, <2>5
  <2> QED
    BY <2>3, <2>4, <2>6
<1>23. /\ ~Contains(replacer, f) /\ ~Contains(freeList, f) /\ ~Busy(f) /\ ~Vacant(f) /\ ~Idle(f)
  <2>1. ~Vacant(f)
    BY <1>2, <1>4 DEF Vacant
  <2>2. ~Idle(f)
    BY <1>4, <1>7 DEF Idle
  <2>3. ~Busy(f)
    <3> SUFFICES ASSUME NEW u \in Threads, reg[u].frame = f PROVE FALSE
      BY DEF Busy
    <3>1. TakenOK(u)
      BY <1>1, <1>4 DEF FramesGood
    <3> QED
      BY <2>1, <2>2, <3>1 DEF TakenOK
  <2> QED
    BY <1>1, <1>4, <2>1, <2>2, <2>3 DEF FramesGood, FrameOK
<1>24. /\ replacer' \in Seq(Frames) /\ IsInjective(replacer')
       /\ \A x : Contains(replacer', x) <=> Contains(replacer, x) \/ (n = 0 /\ x = f)
  <2>1. replacer \in Seq(Frames) /\ IsInjective(replacer)
    BY <1>1 DEF PoolTypes, FramesGood
  <2>2. CASE n = 0
    <3>1. replacer' = Append(replacer, f)
      BY <1>13, <1>23, <2>2
    <3> QED
      BY <1>4, <1>23, <2>1, <2>2, <3>1, AppendList
  <2>3. CASE n # 0
    <3>1. replacer' = replacer
      BY <1>13, <2>3
    <3> QED
      BY <2>1, <2>3, <3>1
  <2> QED
    BY <2>2, <2>3
<1>25. PoolTypes'
  BY <1>1, <1>5, <1>14, <1>19, <1>24 DEF PoolTypes
<1>26. Locals'
  <2> SUFFICES ASSUME NEW u \in Threads PROVE LocalOK(u)'
    BY DEF Locals
  <2>1. LocalOK(u)
    BY <1>1 DEF Locals
  <2>2. CASE u = th
    <3>1. Len(held'[th]) <= MaxHeld
      BY <1>3, <1>18, <1>19, <2>1, <2>2, PoolAssumption DEF LocalOK
    <3> QED
      BY <1>5, <2>1, <2>2, <3>1 DEF LocalOK
  <2>3. CASE u # th
    BY <1>5, <1>19, <2>1, <2>3 DEF LocalOK
  <2> QED
    BY <2>2, <2>3
<1>27. Fetches'
  BY <1>1, <1>5 DEF Fetches, FetchOK, Fetching
<1>28. TableLeads'
  BY <1>1, <1>5, <1>15 DEF TableLeads
<1>29. UsedStay'
  <2>1. ASSUME NEW u \in Threads, NEW j \in 1 .. Len(held'[u])
        PROVE  /\ object'[held'[u][j].object].id \in PageIDs
               /\ pageTable[object'[held'[u][j].object].id] # None
               /\ pages[pageTable[object'[held'[u][j].object].id]] = held'[u][j].object
    <3>1. PICK k \in 1 .. Len(held[u]) :
                /\ held'[u][j].object = held[u][k].object
                /\ object'[held'[u][j].object].id = object[held[u][k].object].id
      BY <1>22
    <3> QED
      BY <1>1, <3>1 DEF UsedStay
  <2>2. pageTable' = pageTable /\ pages' = pages
    BY <1>5
  <2> QED
    BY <2>1, <2>2 DEF UsedStay
<1>30. PinsCount'
  <2>1. Holding(held) /\ Given(held, held', th, i)
    BY <1>1, <1>3, <1>5 DEF PoolTypes, Locals, LocalOK, Holding, Given
  <2>2. \A x : Cardinality(HoldsIn(held, x)) =
                 Cardinality(HoldsIn(held', x)) + (IF o = x THEN 1 ELSE 0)
    BY <1>2, <2>1, HoldsGiven
  <2>3. Holding(held')
    BY <1>25, <1>26 DEF PoolTypes, Locals, LocalOK, Holding
  <2>4. \A x : Cardinality(HoldsIn(held', x)) \in Nat
    BY <2>3, HoldsFinite
  <2>5. ASSUME NEW q \in PageIDs, pageTable[q] # None
        PROVE  object'[pages[pageTable[q]]].pinCount = Cardinality(HoldsIn(held', pages[pageTable[q]]))
    <3>1. CASE q = p
      <4>1. Cardinality(HoldsIn(held, o)) = Cardinality(HoldsIn(held', o)) + 1
        BY <2>2
      <4>2. new.pinCount = Cardinality(HoldsIn(held', o))
        BY <1>7, <1>9, <2>4, <4>1
      <4> QED
        BY <1>2, <1>4, <1>16, <3>1, <4>2
    <3>2. CASE q # p
      <4>1. PICK x : x = pages[pageTable[q]]
        OBVIOUS
      <4>2. x # o /\ object'[x] = object[x]
        BY <1>15, <2>5, <3>2, <4>1
      <4>3. object[x].pinCount = Cardinality(HoldsIn(held, x))
        BY <1>1, <2>5, <4>1 DEF PinsCount
      <4>4. Cardinality(HoldsIn(held, x)) = Cardinality(HoldsIn(held', x))
        BY <2>2, <2>4, <4>2
      <4> QED
        BY <4>1, <4>2, <4>3, <4>4
    <3> QED
      BY <3>1, <3>2
  <2>6. pageTable' = pageTable /\ pages' = pages
    BY <1>5
  <2> QED
    BY <2>5, <2>6 DEF PinsCount
<1>31. FramesGood'
  <2>1. \A x : (Busy(x)' <=> Busy(x)) /\ (Vacant(x)' <=> Vacant(x))
    BY <1>5 DEF Busy, Vacant
  <2>2. Idle(f)' <=> n = 0
    <3>1. pages'[f] = o /\ pageTable'[p] = f /\ object'[o].pinCount = n
      BY <1>2, <1>4, <1>5, <1>8, <1>9, <1>16
    <3> QED
      BY <1>4, <3>1 DEF Idle
  <2>3. ASSUME NEW x \in Frames, x # f PROVE Idle(x)' <=> Idle(x)
    <3>1. ASSUME NEW q \in PageIDs, pageTable[q] = x
          PROVE  object'[pages[x]].pinCount = object[pages[x]].pinCount
      <4>1. q # p /\ pageTable[q] # None
        BY <1>2, <2>3, <3>1, PoolAssumption
      <4> QED
        BY <1>15, <3>1, <4>1
    <3> QED
      BY <1>5, <3>1 DEF Idle
  <2>4. ASSUME NEW x \in Frames PROVE FrameOK(x)'
    <3>1. FrameOK(x)
      BY <1>1 DEF FramesGood
    <3>2. CASE x = f
      BY <1>5, <1>23, <1>24, <2>1, <2>2, <3>2 DEF FrameOK
    <3>3. CASE x # f
      BY <1>5, <1>24, <2>1, <2>3, <3>1, <3>3 DEF FrameOK
    <3> QED
      BY <3>2, <3>3
  <2>5. ASSUME NEW u \in Threads, reg[u].frame # None PROVE TakenOK(u)'
    <3>1. TakenOK(u) /\ reg[u].frame # f /\ reg[u].frame \in Frames
      BY <1>1, <1>23, <2>5 DEF FramesGood, Busy, PoolTypes, Registers
    <3> QED
      BY <1>5, <2>1, <2>3, <3>1 DEF TakenOK
  <2> QED
    BY <1>1, <1>5, <1>24, <2>4, <2>5 DEF FramesGood
<1>32. FlushesGood'
  <2> SUFFICES ASSUME NEW u \in Threads PROVE FlushOK(u)'
    BY DEF FlushesGood
  <2>1. FlushOK(u) /\ reg'[u] = reg[u] /\ reg[u].object \in Objects \union {None}
    BY <1>1, <1>5 DEF FlushesGood, PoolTypes, Registers
  <2>2. reg[u].object # None =>
          /\ reg[u].object \in Objects
          /\ object'[reg[u].object].id = object[reg[u].object].id
          /\ object'[reg[u].object].data = object[reg[u].object].data
    BY <1>12, <1>14, <2>1
  <2>3. ASSUME NEW q \in PageIDs, ToFlush(u, q)' PROVE Untouched(q)'
    <3>1. ToFlush(u, q) /\ Untouched(q)
      BY <2>1, <2>2, <2>3 DEF ToFlush, FlushOK
    <3>2. ASSUME NEW w \in Threads, NEW j \in 1 .. Len(held'[w])
          PROVE  object'[held'[w][j].object].id # q
      BY <1>22, <3>1 DEF Untouched
    <3> QED
      BY <1>5, <3>1, <3>2 DEF Untouched, Fetching
  <2>4. ASSUME reg'[u].object # None PROVE FlushedObject(reg[u].object)'
    <3>1. PICK b : b = reg[u].object /\ b = reg'[u].object
      BY <2>1
    <3>2. FlushedObject(b) /\ object'[b].id = object[b].id /\ object'[b].data = object[b].data
      BY <2>1, <2>2, <2>4, <3>1 DEF FlushOK
    <3>3. FlushedObject(b)'
      BY <1>5, <3>2 DEF FlushedObject
    <3> QED
      BY <3>1, <3>3
  <2> QED
    BY <2>3, <2>4 DEF FlushOK
<1>33. Stored'
  <2> SUFFICES ASSUME NEW q \in PageIDs PROVE StoredOK(q)'
    BY DEF Stored
  <2>1. StoredOK(q)
    BY <1>1 DEF Stored
  <2>2. ASSUME NEW x, Unsaid(x), ~Unsaid(x)' PROVE x = o /\ wrote
    <3>1. PICK u \in Threads : \E k \in 1 .. Len(held[u]) : held[u][k].wrote /\ held[u][k].object = x
      BY <2>2 DEF Unsaid
    <3>2. PICK k \in 1 .. Len(held[u]) : held[u][k].wrote /\ held[u][k].object = x
      BY <3>1
    <3>3. u = th /\ k = i
      <4>1. ASSUME u # th \/ k # i PROVE FALSE
        <5>1. PICK j \in 1 .. Len(held'[u]) : held'[u][j] = held[u][k]
          BY <1>21, <4>1
        <5> QED
          BY <2>2, <3>2, <5>1 DEF Unsaid
      <4> QED
        BY <4>1
    <3> QED
      BY <1>2, <3>2, <3>3
  <2>3. CASE q = p
    <3>1. pages[pageTable[p]] = o /\ pageTable[p] # None
      BY <1>2, <1>4
    <3>2. object'[o].data = object[o].data /\ object'[o].isDirty = (object[o].isDirty \/ wrote)
      BY <1>9, <1>16
    <3> QED
      BY <1>5, <2>1, <2>2, <2>3, <3>1, <3>2 DEF StoredOK
  <2>4. CASE q # p
    BY <1>5, <1>15, <2>1, <2>2, <2>4 DEF StoredOK
  <2> QED
    BY <2>3, <2>4
<1> QED
  BY <1>25, <1>26, <1>27, <1>28, <1>29, <1>30, <1>31, <1>32, <1>33 DEF PoolInv

----------------------------------------------------------------------------
(* The theorems.                                                           *)

\* Every step that is not a clash keeps the invariant.
LEMMA PoolStep ==
    ASSUME PoolInv, ~clashed', Next
    PROVE  PoolInv'
<1>1. PICK th \in Threads : Call(th) \/ Step(th)
  BY DEF Next
<1>2. CASE NewPage(th)
  BY <1>2, NewPageStep
<1>3. CASE FlushAllPages(th)
  <2>1. FlushPages(th, Resident) /\ Resident \in SUBSET Resident
    BY <1>3 DEF FlushAllPages
  <2> QED
    BY <2>1, FlushPagesStep
<1>4. ASSUME NEW p \in PageIDs, FetchPage(th, p) PROVE PoolInv'
  BY <1>4, FetchHitStep, FetchMissStep
<1>5. ASSUME NEW p \in PageIDs, DeletePage(th, p) PROVE PoolInv'
  BY <1>5, DeletePageStep
<1>6. ASSUME NEW p \in Resident, FlushPage(th, p) PROVE PoolInv'
  <2>1. FlushPages(th, {p}) /\ {p} \in SUBSET Resident
    BY <1>6 DEF FlushPage
  <2> QED
    BY <2>1, FlushPagesStep
<1>7. ASSUME NEW i \in DOMAIN held[th], Modify(th, i) PROVE PoolInv'
  BY <1>7, ModifyStep
<1>8. ASSUME NEW i \in DOMAIN held[th], UnpinPage(th, i) PROVE PoolInv'
  BY <1>8, UnpinPageStep
<1>9. CASE TakeFreeFrame(th)
  BY <1>9, TakeFreeFrameStep
<1>10. CASE TakeVictim(th)
  BY <1>10, TakeVictimStep
<1>18. CASE NoFreeFrame(th)
  BY <1>18, NoFreeFrameStep
<1>11. CASE EvictForFetch(th)
  BY <1>11, EvictForFetchStep
<1>12. CASE ReadPage(th)
  BY <1>12, ReadPageStep
<1>13. CASE InstallFetched(th)
  BY <1>13, InstallFetchedStep
<1>14. CASE AllocatePage(th)
  BY <1>14, AllocatePageStep
<1>15. ASSUME NEW p \in PageIDs, FlushLookup(th, p) PROVE PoolInv'
  BY <1>15, FlushLookupStep
<1>16. CASE FlushWrite(th)
  BY <1>16, FlushWriteStep
<1>17. CASE FlushReturn(th)
  BY <1>17, FlushReturnStep
<1> QED
  BY <1>1, <1>2, <1>3, <1>4, <1>5, <1>6, <1>7, <1>8, <1>9, <1>10, <1>11, <1>12, <1>13,
     <1>14, <1>15, <1>16, <1>17, <1>18 DEF Call, Step

\* Nothing happens.
LEMMA PoolStutter ==
    ASSUME PoolInv, UNCHANGED vars
    PROVE  PoolInv'
<1>1. UNCHANGED <<object, pages, pageTable, freeList, replacer, disk, nextPageID, pc, reg, held,
                  writes, latest, deleted>>
  BY DEF vars, poolVars, diskVars, localVars, histVars
<1>2. PoolTypes' /\ Locals' /\ Fetches'
  BY <1>1 DEF PoolInv, PoolTypes, Locals, LocalOK, Fetches, FetchOK, Fetching
<1>3. TableLeads' /\ UsedStay' /\ PinsCount'
  BY <1>1 DEF PoolInv, TableLeads, UsedStay, PinsCount
<1>4. FramesGood'
  <2>1. \A x : (Busy(x)' <=> Busy(x)) /\ (Vacant(x)' <=> Vacant(x)) /\ (Idle(x)' <=> Idle(x))
    BY <1>1 DEF Busy, Vacant, Idle
  <2> QED
    BY <1>1, <2>1 DEF PoolInv, FramesGood, FrameOK, TakenOK
<1>5. FlushesGood' /\ Stored'
  <2>1. \A x : Unsaid(x)' <=> Unsaid(x)
    BY <1>1 DEF Unsaid
  <2>2. \A x : FlushedObject(x)' <=> FlushedObject(x)
    BY <1>1 DEF FlushedObject
  <2>3. \A p : Untouched(p)' <=> Untouched(p)
    BY <1>1 DEF Untouched, Fetching
  <2>4. FlushesGood'
    BY <1>1, <2>2, <2>3 DEF PoolInv, FlushesGood, FlushOK, ToFlush
  <2> QED
    BY <1>1, <2>1, <2>4 DEF PoolInv, Stored, StoredOK
<1> QED
  BY <1>2, <1>3, <1>4, <1>5 DEF PoolInv

\* The invariant of the pool, up to the first clash of two calls on a page.
THEOREM PoolInvariance == Spec => [](clashed \/ PoolInv)
<1>1. Init => clashed \/ PoolInv
  BY PoolInit
<1>2. (clashed \/ PoolInv) /\ [Next]_vars => (clashed \/ PoolInv)'
  <2> SUFFICES ASSUME clashed \/ PoolInv, [Next]_vars, ~clashed'
               PROVE  PoolInv'
    OBVIOUS
  <2>1. CASE Next
    <3>1. PoolInv
      BY <2>1 DEF Next
    <3> QED
      BY <2>1, <3>1, PoolStep
  <2>2. CASE UNCHANGED vars
    <3>1. clashed' = clashed
      BY <2>2 DEF vars, histVars
    <3>2. PoolInv
      BY <3>1
    <3> QED
      BY <2>2, <3>2, PoolStutter
  <2> QED
    BY <2>1, <2>2
<1> QED
  BY <1>1, <1>2, PTL DEF Spec

\* A page somebody uses is the one the page table leads to, so eviction never
\* takes a pinned page and every unpin reaches the object its caller has.
THEOREM UsedPagesStay == Spec => []UsedPageIsResident
<1>1. clashed \/ PoolInv => UsedPageIsResident
  <2> SUFFICES ASSUME PoolInv, NEW o \in Objects, Users(o) # {}
               PROVE  object[o].id \in Resident /\ ObjectOf(object[o].id) = o
    BY DEF UsedPageIsResident
  <2>1. PICK th \in Threads : \E i \in DOMAIN held[th] : held[th][i].object = o
    BY DEF Users
  <2>2. PICK i \in 1 .. Len(held[th]) : held[th][i].object = o
    BY <2>1 DEF PoolInv, PoolTypes
  <2> QED
    BY <2>2 DEF PoolInv, UsedStay, Resident, ObjectOf
<1> QED
  BY <1>1, PoolInvariance, PTL

\* A resident page has the last write and any other page has it on disk; a
\* clean page has it in both places unless a user has yet to say it wrote.
THEOREM UpdatesAreKept == Spec => []NoLostUpdate
<1>1. clashed \/ PoolInv => NoLostUpdate
  <2> SUFFICES ASSUME PoolInv, NEW p \in PageIDs, p < nextPageID, p \notin deleted
               PROVE  /\ p \in Resident => object[ObjectOf(p)].data = latest[p]
                      /\ p \notin Resident => disk[p] = latest[p]
                      /\ p \in Resident /\ ~object[ObjectOf(p)].isDirty =>
                           \/ disk[p] = latest[p]
                           \/ \E th \in Threads : \E i \in DOMAIN held[th] :
                                held[th][i].wrote /\ held[th][i].object = ObjectOf(p)
    BY DEF NoLostUpdate
  <2>1. StoredOK(p)
    BY DEF PoolInv, Stored
  <2>2. ASSUME Unsaid(ObjectOf(p))
        PROVE  \E th \in Threads : \E i \in DOMAIN held[th] :
                  held[th][i].wrote /\ held[th][i].object = ObjectOf(p)
    <3>1. \A th \in Threads : DOMAIN held[th] = 1 .. Len(held[th])
      BY DEF PoolInv, PoolTypes
    <3> QED
      BY <2>2, <3>1 DEF Unsaid
  <2> QED
    BY <2>1, <2>2 DEF StoredOK, Resident, ObjectOf
<1> QED
  BY <1>1, PoolInvariance, PTL

\* The pin count of a page is the number of holds of it that were taken and
\* not given back.
THEOREM PinsAreCounted == Spec => []PinCountCountsUsers
<1>1. clashed \/ PoolInv => PinCountCountsUsers
  BY DEF PoolInv, PinsCount, PinCountCountsUsers, Resident, ObjectOf
<1> QED
  BY <1>1, PoolInvariance, PTL

\* Every frame is in exactly one place: the free list, the replacer, under a
\* page in use, or in the hands of one call.
THEOREM FramesAreAccounted == Spec => []FramesAccounted
<1>1. clashed \/ PoolInv => FramesAccounted
  <2> SUFFICES ASSUME PoolInv PROVE FramesAccounted
    BY DEF FramesAccounted
  <2>1. ASSUME NEW f \in Frames, NEW W,
               W = {w \in {"free", "evictable", "in use", "busy"} :
                      CASE w = "free" -> Contains(freeList, f)
                        [] w = "evictable" -> Contains(replacer, f)
                        [] w = "in use" -> InUse(f)
                        [] w = "busy" -> Busy(f)}
        PROVE  Cardinality(W) = 1
    <3>1. /\ "free" \in W <=> Contains(freeList, f)
          /\ "evictable" \in W <=> Contains(replacer, f)
          /\ "in use" \in W <=> InUse(f)
          /\ "busy" \in W <=> Busy(f)
          /\ \A w \in W : w \in {"free", "evictable", "in use", "busy"}
      BY <2>1
    <3>2. FrameOK(f) /\ f # None
      BY PoolAssumption DEF PoolInv, FramesGood
    <3>3. InUse(f) => ~Vacant(f) /\ ~Idle(f)
      BY DEF InUse, Vacant, Idle, Resident
    <3>4. ~Vacant(f) /\ ~Idle(f) => InUse(f)
      <4> SUFFICES ASSUME ~Vacant(f), ~Idle(f) PROVE InUse(f)
        OBVIOUS
      <4>1. PICK p \in PageIDs : pageTable[p] = f
        BY DEF Vacant
      <4>2. object[pages[f]].pinCount \in Nat
        BY <3>2, <4>1 DEF PoolInv, TableLeads, PoolTypes, PageObject
      <4>3. object[pages[f]].pinCount > 0
        BY <4>1, <4>2 DEF Idle
      <4> QED
        BY <3>2, <4>1, <4>3 DEF InUse, Resident
    <3>5. InUse(f) => ~Busy(f)
      <4>1. ASSUME NEW th \in Threads, reg[th].frame = f PROVE Idle(f) \/ Vacant(f)
        BY <3>2, <4>1 DEF PoolInv, FramesGood, TakenOK
      <4> QED
        BY <3>3, <4>1 DEF Busy
    <3>6. ~(Vacant(f) /\ Idle(f))
      BY DEF Vacant, Idle
    <3>7. \E x \in {"free", "evictable", "in use", "busy"} : \A w : w \in W <=> w = x
      <4>1. CASE Contains(freeList, f)
        <5>1. ~Contains(replacer, f) /\ ~InUse(f) /\ ~Busy(f)
          BY <3>2, <3>3, <3>6, <4>1 DEF FrameOK
        <5> QED
          BY <3>1, <4>1, <5>1
      <4>2. CASE Contains(replacer, f)
        <5>1. ~Contains(freeList, f) /\ ~InUse(f) /\ ~Busy(f)
          BY <3>2, <3>3, <3>6, <4>2 DEF FrameOK
        <5> QED
          BY <3>1, <4>2, <5>1
      <4>3. CASE InUse(f)
        <5>1. ~Contains(freeList, f) /\ ~Contains(replacer, f) /\ ~Busy(f)
          BY <3>2, <3>3, <3>5, <4>3 DEF FrameOK
        <5> QED
          BY <3>1, <4>3, <5>1
      <4>4. CASE Busy(f)
        <5>1. ~Contains(freeList, f) /\ ~Contains(replacer, f) /\ ~InUse(f)
          BY <3>2, <3>5, <4>4 DEF FrameOK
        <5> QED
          BY <3>1, <4>4, <5>1
      <4>5. Contains(freeList, f) \/ Contains(replacer, f) \/ InUse(f) \/ Busy(f)
        BY <3>2, <3>4 DEF FrameOK
      <4> QED
        BY <4>1, <4>2, <4>3, <4>4, <4>5
    <3>8. PICK x \in {"free", "evictable", "in use", "busy"} : \A w : w \in W <=> w = x
      BY <3>7
    <3>9. W = {x}
      BY <3>8
    <3> QED
      BY <3>9, FS_Singleton
  <2>2. IsInjective(freeList) /\ IsInjective(replacer)
    BY DEF PoolInv, FramesGood
  <2> QED
    BY <2>1, <2>2 DEF FramesAccounted
<1> QED
  BY <1>1, PoolInvariance, PTL
============================================================================
