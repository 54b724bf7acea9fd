--------------------------- MODULE ClockReplacer ---------------------------
(***************************************************************************)
(* storage/buffer/clock_replacer.go and circular_list.go, pointer by       *)
(* pointer.  Every method holds the replacer's mutex, so each is one       *)
(* action.                                                                 *)
(*                                                                         *)
(* Nodes live in a heap of node names; an insert takes a name that nothing *)
(* points to.  clockHand is a pointer to a pointer: it is &head (HeadField) *)
(* or the address of the next field of a node, often of a node that has    *)
(* already left the list, and then that node's name.                       *)
(***************************************************************************)
EXTENDS Naturals, FiniteSets, Sequences

CONSTANTS Frames, NoFrame

ASSUME FramesAssumption == IsFiniteSet(Frames) /\ NoFrame \notin Frames

\* One node per frame and one the hand may keep alive.
Nodes == 1 .. Cardinality(Frames) + 1
Nil   == 0

\* clockHand == &cList.head
HeadField == 0

VARIABLES
    key, next, prev,            \* the fields of each node
    head, tail, size,           \* circularList; its capacity is |Frames|
    hand,                       \* clockHand
    victim                      \* what the last Victim returned

listVars == <<key, next, prev, head, tail, size>>
clockVars == <<listVars, hand, victim>>

ClockInit ==
    /\ key = [n \in Nodes |-> NoFrame]
    /\ next = [n \in Nodes |-> Nil]
    /\ prev = [n \in Nodes |-> Nil]
    /\ head = Nil
    /\ tail = Nil
    /\ size = 0
    /\ hand = HeadField
    /\ victim = NoFrame

----------------------------------------------------------------------------

\* The node i steps from the head.
At[i \in Nat] == IF i = 0 THEN head ELSE next[At[i - 1]]

\* The nodes find() walks over: size of them from the head.
Listed == {At[i] : i \in 0 .. size - 1}

\* The first listed node with the key, or Nil.
find(f) ==
    IF \E n \in Listed : key[n] = f THEN CHOOSE n \in Listed : key[n] = f ELSE Nil

\* A name for a new node: neither listed nor kept alive by the hand.
FreshNode == CHOOSE n \in Nodes : n \notin Listed /\ n # hand

\* *clockHand
AtHand == IF hand = HeadField THEN head ELSE next[hand]

\* Memory nothing points to any more is handed back blank.
Collected(field, alive, blank) ==
    [n \in Nodes |-> IF n \in alive THEN field[n] ELSE blank]

CollectBut(alive, key1, next1, prev1) ==
    /\ key' = Collected(key1, alive, NoFrame)
    /\ next' = Collected(next1, alive, Nil)
    /\ prev' = Collected(prev1, alive, Nil)

\* Append node n for frame f at the tail.  The first node resets the hand.
insert(n, f) ==
    LET first == size = 0 IN
    /\ size' = size + 1
    /\ tail' = n
    /\ head' = IF first THEN n ELSE head
    /\ CollectBut(IF first THEN {n} ELSE Listed \union {n, hand},
                  [key EXCEPT ![n] = f],
                  IF first THEN [next EXCEPT ![n] = n]
                           ELSE [next EXCEPT ![n] = head, ![tail] = n],
                  IF first THEN [prev EXCEPT ![n] = n]
                           ELSE [prev EXCEPT ![n] = tail, ![head] = n])

\* remove that forgets to move the tail.
removeKeepingTail(n, h) ==
    /\ size' = size - 1
    /\ head' = IF size = 1 THEN Nil ELSE IF n = head THEN next[head] ELSE head
    /\ tail' = IF size = 1 THEN Nil ELSE tail
    /\ CollectBut((Listed \ {n}) \union {h}, key,
                  [next EXCEPT ![prev[n]] = next[n]],
                  [prev EXCEPT ![next[n]] = prev[n]])

\* Unlink node n, which keeps its own pointers: the new hand h may hang on it.
remove(n, h) ==
    /\ size' = size - 1
    /\ head' = IF size = 1 THEN Nil ELSE IF n = head THEN next[head] ELSE head
    /\ tail' = IF size = 1 THEN Nil ELSE IF n = tail THEN prev[tail] ELSE tail
    /\ CollectBut((Listed \ {n}) \union {h}, key,
                  [next EXCEPT ![prev[n]] = next[n]],
                  [prev EXCEPT ![next[n]] = prev[n]])

Unpin(f) ==
    /\ IF find(f) = Nil
         THEN insert(FreshNode, f) /\ hand' = IF size = 0 THEN HeadField ELSE hand
         ELSE UNCHANGED <<listVars, hand>>
    /\ UNCHANGED victim

\* Pin that leaves the hand on the node it takes out.
PinKeepsHand(f) ==
    /\ IF find(f) = Nil THEN UNCHANGED listVars ELSE remove(find(f), hand)
    /\ UNCHANGED <<hand, victim>>

Pin(f) ==
    /\ IF find(f) = Nil
         THEN UNCHANGED <<listVars, hand>>
         ELSE /\ hand' = IF AtHand = find(f) THEN AtHand ELSE hand
              /\ remove(find(f), hand')
    /\ UNCHANGED victim

\* A Victim that advances the hand past a set reference bit.
VictimAdvances ==
    IF size = 0
      THEN victim' = NoFrame /\ UNCHANGED <<listVars, hand>>
      ELSE /\ hand' = next[AtHand]
           /\ victim' = key[next[AtHand]]
           /\ remove(next[AtHand], next[AtHand])

(***************************************************************************)
(* The loop looks at one node only: currentNode is never advanced, so a    *)
(* set reference bit is cleared in the first round and the same node is    *)
(* evicted in the second.  insert sets the bit and nothing else clears it, *)
(* so that no node in the list has it clear and it is left out here.       *)
(***************************************************************************)
Victim ==
    IF size = 0
      THEN victim' = NoFrame /\ UNCHANGED <<listVars, hand>>
      ELSE /\ hand' = AtHand
           /\ victim' = key[AtHand]
           /\ remove(find(key[AtHand]), AtHand)

ClockNext == Victim \/ \E f \in Frames : Unpin(f) \/ Pin(f)

ClockSpec == ClockInit /\ [][ClockNext]_clockVars

----------------------------------------------------------------------------
(* Properties.                                                             *)

\* The list is one circle of size nodes with distinct keys: next and prev are
\* inverse to each other, and the last of size steps from head is tail, which
\* find and remove take for granted.
ListIsCircle ==
    size > 0 =>
        /\ \A i \in 0 .. size - 1 : next[At[i]] \in Nodes /\ prev[next[At[i]]] = At[i]
        /\ \A i, j \in 0 .. size - 1 : key[At[i]] = key[At[j]] => i = j
        /\ At[size - 1] = tail /\ next[tail] = head

\* The hand, though it usually hangs on a node that left the list, leads back
\* into it: Victim never evicts a frame that was pinned meanwhile.
HandLeadsToHead == size > 0 => AtHand = head

AbstractReplacer == INSTANCE Replacer
    WITH queue <- [i \in 1 .. size |-> key[At[i - 1]]]

\* The clock evicts in the order of the last unpin: it never gives a second
\* chance, and never passes a frame over either.
ImplementsReplacer == AbstractReplacer!ReplacerSpec
=============================================================================
