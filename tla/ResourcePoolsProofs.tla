------------------------ MODULE ResourcePoolsProofs ------------------------
(***************************************************************************)
(* What ResourcePools guarantees for every set of pools, holders, requests, *)
(* capacities and aging window; and HostSlots, which stands behind the      *)
(* machine slots of ResourcePools, for every set of runs and every reading   *)
(* each has of a pool's capacity.                                           *)
(***************************************************************************)
EXTENDS ResourcePools, HostSlots, TLAPS, FiniteSetTheorems, WellFoundedInduction

\* The state a walk may start from: like the state between operations, except
\* that a waiter may fit.
QueueSound(q) ==
    /\ q.waiting \in SUBSET Holder
    /\ q.ahead \in [Holder -> SUBSET Holder]
    /\ q.need \in [Holder -> SUBSET Pool]
    /\ q.held \in [Pool -> Nat]
    /\ q.leased \in SUBSET Holder
    /\ q.capacity \in [Pool -> Nat \ {0}]
    /\ q.waiting \cap q.leased = {}
    /\ \A h \in Holder : q.ahead[h] \subseteq q.waiting /\ h \notin q.ahead[h]
    /\ \A h \in Holder \ q.waiting : q.ahead[h] = {} /\ age[h] = 0
    /\ \A h, k \in q.waiting : h = k \/ h \in q.ahead[k] \/ k \in q.ahead[h]
    /\ \A h, k \in q.waiting : h \in q.ahead[k] => q.ahead[h] \subseteq q.ahead[k] \ {h}
    /\ \A p \in Pool : q.held[p] + foreign[p] <= q.capacity[p]
    /\ \A p \in Pool : q.held[p] = Claims(q.leased, q.need, p)

\* How the queue an operation hands to the walk relates to the one it found:
\* nobody left it, and a newcomer is behind everyone.
Handed(q) ==
    /\ QueueSound(q)
    /\ q.leased \subseteq leased
    /\ \A h \in waiting : q.need[h] = need[h]
    /\ \A k \in q.waiting : \A h \in waiting : (k \in waiting => h \in ahead[k]) => h \in q.ahead[k]

\* The inductive invariant: the safety properties and the order of the queue
\* they rest on.
PoolInv ==
    /\ TypeOK
    /\ QueueOrder
    /\ CapacityRespected
    /\ HeldCountsLeases
    /\ NoSilentStall

----------------------------------------------------------------------------
(* Facts about counting and about the ends of a queue *)

\* Counting the claims of a set of holders gives a natural number.
LEMMA ClaimsType ==
    ASSUME NEW S \in SUBSET Holder, NEW n \in [Holder -> SUBSET Pool], NEW p \in Pool
    PROVE  /\ Claims(S, n, p) \in Nat
           /\ IsFiniteSet({h \in S : p \in n[h]})
  <1>1. {h \in S : p \in n[h]} \in SUBSET Holder
    OBVIOUS
  <1>2. IsFiniteSet({h \in S : p \in n[h]})
    BY <1>1, HolderFinite, FS_Subset
  <1> QED
    BY <1>2, FS_CardinalityType DEF Claims

\* Claims of disjoint sets of holders add up.
LEMMA ClaimsUnion ==
    ASSUME NEW S \in SUBSET Holder, NEW T \in SUBSET Holder, S \cap T = {},
           NEW n \in [Holder -> SUBSET Pool], NEW p \in Pool
    PROVE  Claims(S \cup T, n, p) = Claims(S, n, p) + Claims(T, n, p)
  <1>1. PICK A, B : A = {h \in S : p \in n[h]} /\ B = {h \in T : p \in n[h]}
    OBVIOUS
  <1>2. IsFiniteSet(A) /\ IsFiniteSet(B)
    BY <1>1, ClaimsType
  <1>3. A \cap B = {}
    BY <1>1
  <1>4. Cardinality(A \cup B) = Cardinality(A) + Cardinality(B) - Cardinality(A \cap B)
    BY <1>2, FS_Union
  <1>5. Cardinality(A) \in Nat /\ Cardinality(B) \in Nat /\ Cardinality({}) = 0
    BY <1>2, FS_CardinalityType, FS_EmptySet
  <1>6. {h \in S \cup T : p \in n[h]} = A \cup B
    BY <1>1
  <1>7. /\ Claims(S, n, p) = Cardinality(A)
        /\ Claims(T, n, p) = Cardinality(B)
        /\ Claims(S \cup T, n, p) = Cardinality(A \cup B)
    BY <1>1, <1>6, Zenon DEF Claims
  <1>8. Cardinality(A \cap B) = 0
    BY <1>3, <1>5, Zenon
  <1> QED
    BY <1>4, <1>5, <1>7, <1>8

\* One holder claims a pool it needs once, and another not at all.
LEMMA ClaimsOne ==
    ASSUME NEW h \in Holder, NEW n \in [Holder -> SUBSET Pool], NEW p \in Pool
    PROVE  Claims({h}, n, p) = IF p \in n[h] THEN 1 ELSE 0
  <1>1. CASE p \in n[h]
    <2>1. {k \in {h} : p \in n[k]} = {h}
      BY <1>1
    <2> QED
      BY <1>1, <2>1, FS_Singleton DEF Claims
  <1>2. CASE p \notin n[h]
    <2>1. {k \in {h} : p \in n[k]} = {}
      BY <1>2
    <2> QED
      BY <1>2, <2>1, FS_EmptySet DEF Claims
  <1> QED
    BY <1>1, <1>2

\* A relation that orders a nonempty finite set strictly has a first element.
LEMMA OrderHasFirst ==
    ASSUME NEW S \in SUBSET Holder, S # {}, NEW before \in [S -> SUBSET S],
           \A h, k \in S : h \in before[k] => before[h] \subseteq before[k] \ {h}
    PROVE  \E h \in S : before[h] = {}
  <1> DEFINE T == {before[h] : h \in S}
  <1>1. IsFiniteSet(S)
    BY HolderFinite, FS_Subset
  <1>2. IsWellFoundedOn(StrictSubsetOrdering(S), SUBSET S)
    <2>1. FiniteSubsetsOf(S) = SUBSET S
      BY <1>1, FS_FiniteSubsetsOfFinite
    <2>2. IsWellFoundedOn(StrictSubsetOrdering(S), FiniteSubsetsOf(S))
      BY FS_StrictSubsetOrderingWellFounded
    <2> QED
      BY <2>1, <2>2
  <1>3. T \subseteq SUBSET S /\ T # {}
    OBVIOUS
  <1>4. PICK x \in T : \A y \in T : ~(<<y, x>> \in StrictSubsetOrdering(S))
    BY <1>2, <1>3, WFMin
  <1>5. PICK h \in S : x = before[h]
    BY <1>4
  <1>6. ASSUME NEW k \in before[h]
        PROVE  FALSE
    <2>1. k \in S /\ before[k] \subseteq before[h] /\ k \notin before[k]
      <3>1. k \in S
        BY <1>5, <1>6
      <3> QED
        BY <3>1, <1>5, <1>6
    <2>2. before[k] # before[h] /\ before[k] \in T
      BY <2>1, <1>6
    <2>3. <<before[k], before[h]>> \in StrictSubsetOrdering(S)
      BY <2>1, <2>2, <1>3, <1>5 DEF StrictSubsetOrdering
    <2> QED
      BY <2>2, <2>3, <1>4, <1>5
  <1> QED
    BY <1>5, <1>6

----------------------------------------------------------------------------
(* What a walk does to a sound queue *)

\* A walk never grants the last slot of a pool twice: the last waiter granted
\* a pool saw every other grant of it, and there was still a slot.
LEMMA WalkWithinCapacity ==
    ASSUME TypeOK, NEW q, QueueSound(q), NEW G \in SUBSET q.waiting, NEW refused,
           IsWalk(G, refused, q), NEW p \in Pool
    PROVE  q.held[p] + foreign[p] + Claims(G, q.need, p) <= q.capacity[p]
  <1> DEFINE C == {h \in G : p \in q.need[h]}
  <1>0. /\ q.waiting \in SUBSET Holder /\ G \in SUBSET Holder
        /\ q.need \in [Holder -> SUBSET Pool]
        /\ q.ahead \in [Holder -> SUBSET Holder]
        /\ q.held[p] \in Nat /\ foreign[p] \in Nat /\ q.capacity[p] \in Nat
    BY DEF QueueSound, TypeOK
  <1>1. CASE C = {}
    <2>1. Claims(G, q.need, p) = 0
      BY <1>1, FS_EmptySet DEF Claims
    <2> QED
      BY <1>0, <2>1 DEF QueueSound
  <1>2. CASE C # {}
    <2> DEFINE behind == [h \in C |-> {k \in C : h \in q.ahead[k]}]
    <2>1. C \in SUBSET Holder /\ behind \in [C -> SUBSET C]
      BY <1>0
    <2>2. \A h, k \in C : h \in behind[k] => behind[h] \subseteq behind[k] \ {h}
      BY <1>0 DEF QueueSound
    <2>3. PICK last \in C : behind[last] = {}
      <3> HIDE DEF behind, C
      <3> QED
        BY <1>2, <2>1, <2>2, OrderHasFirst
    <2>3a. \A h \in C : h # last => h \in q.ahead[last]
      BY <1>0, <2>3 DEF QueueSound
    <2>4. C = {h \in q.ahead[last] \cap G : p \in q.need[h]} \cup {last}
      BY <2>3, <2>3a
    <2>5. last \notin q.ahead[last] /\ last \in Holder
      BY <1>0, <2>3 DEF QueueSound
    <2>6. Claims(G, q.need, p) = Claims(q.ahead[last] \cap G, q.need, p) + 1
      <3> DEFINE R == {h \in q.ahead[last] \cap G : p \in q.need[h]}
      <3>1. IsFiniteSet(R) /\ last \notin R
        <4>1. q.ahead[last] \cap G \in SUBSET Holder
          BY <1>0, <2>5
        <4>2. last \notin R
          BY <2>5
        <4> QED
          BY <1>0, <4>1, <4>2, ClaimsType
      <3>2. Cardinality(R \cup {last}) = Cardinality(R) + 1
        <4> HIDE DEF R
        <4> QED
          BY <3>1, FS_AddElement
      <3>3. Claims(G, q.need, p) = Cardinality(C) /\ Claims(q.ahead[last] \cap G, q.need, p) = Cardinality(R)
        BY DEF Claims
      <3> QED
        BY <2>4, <3>2, <3>3
    <2>7. InUse(last, p, G, q) < q.capacity[p]
      BY <2>3 DEF IsWalk, Fits
    <2>8. Claims(q.ahead[last] \cap G, q.need, p) \in Nat
      BY <1>0, <2>5, ClaimsType
    <2> QED
      BY <1>0, <2>6, <2>7, <2>8 DEF InUse
  <1> QED
    BY <1>1, <1>2

\* A walk that leaves someone waiting leaves a lease out or a poll armed: with
\* every slot free, the first in the queue fits unless another run is in its way.
LEMMA WalkLeavesNoStall ==
    ASSUME TypeOK, NEW q, QueueSound(q), NEW G \in SUBSET q.waiting, NEW refused,
           refused \subseteq {h \in q.waiting : NeedsHost(q.need[h])},
           IsWalk(G, refused, q), q.waiting \ G # {}, q.leased \cup G = {}
    PROVE  \E h \in q.waiting \ G : NeedsHost(q.need[h])
  <1>0. /\ q.waiting \in SUBSET Holder
        /\ q.need \in [Holder -> SUBSET Pool]
        /\ q.ahead \in [Holder -> SUBSET Holder]
        /\ G = {} /\ q.leased = {}
    BY DEF QueueSound
  <1> SUFFICES ASSUME \A h \in q.waiting : ~NeedsHost(q.need[h])
               PROVE  FALSE
    BY <1>0
  <1> DEFINE front == [h \in q.waiting |-> q.ahead[h]]
  <1>1. front \in [q.waiting -> SUBSET q.waiting]
    BY <1>0 DEF QueueSound
  <1>2. \A h, k \in q.waiting : h \in front[k] => front[h] \subseteq front[k] \ {h}
    BY <1>0 DEF QueueSound
  <1>3. PICK first \in q.waiting : front[first] = {}
    <2>1. q.waiting # {} /\ q.waiting \in SUBSET Holder
      BY <1>0
    <2>2. PICK W, f : W = q.waiting /\ f = front
      OBVIOUS
    <2>3. W # {} /\ W \in SUBSET Holder /\ f \in [W -> SUBSET W]
      BY <2>1, <2>2, <1>1
    <2>4. \A h, k \in W : h \in f[k] => f[h] \subseteq f[k] \ {h}
      BY <2>2, <1>2
    <2>5. \E h \in W : f[h] = {}
      BY <2>3, <2>4, OrderHasFirst
    <2> QED
      BY <2>2, <2>5
  <1>4. q.ahead[first] = {} /\ first \notin G /\ first \notin refused /\ first \in Holder
    BY <1>0, <1>3
  <1>5. ASSUME NEW p \in q.need[first]
        PROVE  ~Reserved(first, p, G, q) /\ InUse(first, p, G, q) < q.capacity[p]
    <2>1. p \in Pool /\ p \notin HostPool
      BY <1>0, <1>4, <1>5 DEF NeedsHost
    <2>2. Claims({}, q.need, p) = 0
      BY FS_EmptySet DEF Claims
    <2>3. q.held[p] = 0 /\ foreign[p] = 0 /\ q.capacity[p] \in Nat \ {0}
      BY <1>0, <2>1, <2>2 DEF QueueSound, TypeOK
    <2>4. Claims(q.ahead[first] \cap G, q.need, p) = 0
      <3>1. q.ahead[first] \cap G = {}
        BY <1>4
      <3> QED
        BY <2>2, <3>1, Zenon
    <2>5. InUse(first, p, G, q) = 0
      BY <2>3, <2>4 DEF InUse
    <2> QED
      BY <1>4, <2>3, <2>5 DEF Reserved
  <1>6. Fits(first, G, refused, q)
    BY <1>4, <1>5 DEF Fits
  <1> QED
    BY <1>4, <1>6 DEF IsWalk

\* Every operation that pumps a sound queue re-establishes the invariant.
LEMMA PumpKeepsInv ==
    ASSUME TypeOK, NEW q, QueueSound(q), Pump(q), UNCHANGED foreign, spent' \subseteq Holder
    PROVE  PoolInv'
  <1>1. PICK G \in SUBSET q.waiting,
             refused \in SUBSET {h \in q.waiting : NeedsHost(q.need[h])} :
            /\ IsWalk(G, refused, q)
            /\ waiting' = q.waiting \ G
            /\ ahead' = [h \in Holder |-> IF h \in q.waiting \ G THEN q.ahead[h] \ G ELSE {}]
            /\ age' = [h \in Holder |-> IF h \in q.waiting \ G THEN age[h] ELSE 0]
            /\ held' = [p \in Pool |-> q.held[p] + Claims(G, q.need, p)]
            /\ leased' = q.leased \cup G
            /\ need' = q.need
            /\ capacity' = q.capacity
            /\ poll' = (\E h \in q.waiting \ G : NeedsHost(q.need[h]))
    BY DEF Pump, PollArmed
  <1>2. /\ q.waiting \in SUBSET Holder /\ G \in SUBSET Holder
        /\ q.leased \in SUBSET Holder
        /\ q.need \in [Holder -> SUBSET Pool]
        /\ q.ahead \in [Holder -> SUBSET Holder]
        /\ q.held \in [Pool -> Nat] /\ q.capacity \in [Pool -> Nat \ {0}]
        /\ q.waiting \cap q.leased = {}
    BY DEF QueueSound
  <1>3. \A p \in Pool : Claims(G, q.need, p) \in Nat
    BY <1>2, ClaimsType
  <1>4. TypeOK'
    <2>1. held' \in [Pool -> Nat]
      BY <1>1, <1>2, <1>3
    <2>2. age' \in [Holder -> 0 .. Aging]
      BY <1>1, BoundsNat DEF TypeOK
    <2>3. poll' \in BOOLEAN
      BY <1>1
    <2>4. ahead' \in [Holder -> SUBSET Holder]
      BY <1>1, <1>2
    <2>5. need' \in [Holder -> SUBSET Pool] /\ capacity' \in [Pool -> Nat \ {0}]
      BY <1>1, <1>2
    <2>6. waiting' \subseteq Holder /\ leased' \subseteq Holder
      BY <1>1, <1>2
    <2> QED
      BY <2>1, <2>2, <2>3, <2>4, <2>5, <2>6 DEF TypeOK
  <1>5. QueueOrder'
    BY <1>1, <1>2 DEF QueueOrder, QueueSound
  <1>6. CapacityRespected'
    <2> SUFFICES ASSUME NEW p \in Pool
                 PROVE  held'[p] + foreign[p] <= capacity'[p]
      BY DEF CapacityRespected
    <2>1. q.held[p] + foreign[p] + Claims(G, q.need, p) <= q.capacity[p]
      BY <1>1, WalkWithinCapacity
    <2>2. held'[p] = q.held[p] + Claims(G, q.need, p) /\ capacity'[p] = q.capacity[p]
      BY <1>1
    <2>3. q.held[p] \in Nat /\ foreign[p] \in Nat /\ Claims(G, q.need, p) \in Nat /\ q.capacity[p] \in Nat
      BY <1>2, <1>3 DEF TypeOK
    <2> QED
      BY <2>1, <2>2, <2>3
  <1>7. HeldCountsLeases'
    <2> SUFFICES ASSUME NEW p \in Pool
                 PROVE  held'[p] = Claims(leased', need', p)
      BY DEF HeldCountsLeases
    <2>1. q.leased \cap G = {}
      BY <1>2
    <2>2. Claims(q.leased \cup G, q.need, p) = Claims(q.leased, q.need, p) + Claims(G, q.need, p)
      BY <1>2, <2>1, ClaimsUnion
    <2> QED
      BY <1>1, <2>2 DEF QueueSound
  <1>8. NoSilentStall'
    <2> SUFFICES ASSUME waiting' # {}, leased' = {}
                 PROVE  poll'
      BY DEF NoSilentStall
    <2>1. \E h \in q.waiting \ G : NeedsHost(q.need[h])
      BY <1>1, WalkLeavesNoStall
    <2> QED
      BY <1>1, <2>1
  <1> QED
    BY <1>4, <1>5, <1>6, <1>7, <1>8 DEF PoolInv

----------------------------------------------------------------------------
(* The invariant *)

\* The start satisfies it.
LEMMA InitInv == Init => PoolInv
  <1> SUFFICES ASSUME Init
               PROVE  PoolInv
    OBVIOUS
  <1>1. \A p \in Pool : Claims({}, need, p) = 0
    BY FS_EmptySet DEF Claims
  <1>2. InitCapacity \in [Pool -> Nat \ {0}] /\ 0 \in 0 .. Aging
    BY CapacityPositive, BoundsNat
  <1>3. TypeOK
    BY <1>2 DEF Init, TypeOK
  <1>4. QueueOrder
    BY DEF Init, QueueOrder
  <1>5. CapacityRespected
    BY <1>2 DEF Init, CapacityRespected
  <1>6. HeldCountsLeases
    BY <1>1 DEF Init, HeldCountsLeases
  <1>7. NoSilentStall
    BY DEF Init, NoSilentStall
  <1> QED
    BY <1>3, <1>4, <1>5, <1>6, <1>7 DEF PoolInv

\* Between operations the queue is sound.
LEMMA QueueHanded == PoolInv => Handed(Queue)
  BY DEF PoolInv, TypeOK, QueueOrder, CapacityRespected, HeldCountsLeases, QueueSound, Queue, Handed

\* Claims of a set of holders do not depend on the need of one outside it.
LEMMA ClaimsOfOthers ==
    ASSUME NEW S \in SUBSET Holder, NEW n \in [Holder -> SUBSET Pool],
           NEW h \in Holder \ S, NEW m, NEW p \in Pool
    PROVE  Claims(S, [n EXCEPT ![h] = m], p) = Claims(S, n, p)
  <1>1. {k \in S : p \in [n EXCEPT ![h] = m][k]} = {k \in S : p \in n[k]}
    OBVIOUS
  <1> QED
    BY <1>1, Zenon DEF Claims

\* An arrival: one more waiter at the back.
LEMMA ArrivalHanded ==
    ASSUME PoolInv, NEW h \in Holder \ (waiting \cup leased), NEW n \in NeedSets
    PROVE  Handed(Arrival(h, n))
  <1> DEFINE q == Arrival(h, n)
  <1>1. /\ n \in SUBSET Pool
        /\ h \notin waiting /\ h \notin leased
    BY NeedsDeclared
  <1>2. TypeOK /\ QueueOrder /\ CapacityRespected /\ HeldCountsLeases
    BY DEF PoolInv
  <1>3. \A p \in Pool : Claims(leased, [need EXCEPT ![h] = n], p) = Claims(leased, need, p)
    <2>1. leased \in SUBSET Holder /\ need \in [Holder -> SUBSET Pool] /\ h \in Holder \ leased
      BY <1>1, <1>2 DEF TypeOK
    <2> QED
      BY <2>1, ClaimsOfOthers
  <1>4. QueueSound(q)
    <2>1. /\ q.waiting = waiting \cup {h}
          /\ q.ahead = [ahead EXCEPT ![h] = waiting]
          /\ q.need = [need EXCEPT ![h] = n]
          /\ q.held = held /\ q.leased = leased /\ q.capacity = capacity
      BY DEF Queue, Arrival
    <2>2. /\ q.waiting \in SUBSET Holder /\ q.ahead \in [Holder -> SUBSET Holder]
          /\ q.need \in [Holder -> SUBSET Pool] /\ q.held \in [Pool -> Nat]
          /\ q.leased \in SUBSET Holder /\ q.capacity \in [Pool -> Nat \ {0}]
      BY <2>1, <1>1, <1>2 DEF TypeOK
    <2> HIDE DEF q
    <2>3. \A k \in Holder : q.ahead[k] = IF k = h THEN waiting ELSE ahead[k]
      BY <2>1, <1>2 DEF TypeOK
    <2>4. q.waiting \cap q.leased = {}
      BY <1>1, <1>2, <2>1 DEF QueueOrder
    <2>5. \A k \in Holder : q.ahead[k] \subseteq q.waiting /\ k \notin q.ahead[k]
      BY <1>1, <1>2, <2>1, <2>3 DEF QueueOrder
    <2>6. \A k \in Holder \ q.waiting : q.ahead[k] = {} /\ age[k] = 0
      BY <1>2, <2>1, <2>3 DEF QueueOrder
    <2>7. \A k, l \in q.waiting : k = l \/ k \in q.ahead[l] \/ l \in q.ahead[k]
      BY <1>2, <2>1, <2>3 DEF QueueOrder, TypeOK
    <2>8. \A k, l \in q.waiting : k \in q.ahead[l] => q.ahead[k] \subseteq q.ahead[l] \ {k}
      BY <1>1, <1>2, <2>1, <2>3 DEF QueueOrder, TypeOK
    <2>9. \A p \in Pool : q.held[p] + foreign[p] <= q.capacity[p] /\ q.held[p] = Claims(q.leased, q.need, p)
      BY <1>2, <1>3, <2>1 DEF CapacityRespected, HeldCountsLeases
    <2> QED
      BY <2>2, <2>4, <2>5, <2>6, <2>7, <2>8, <2>9 DEF QueueSound
  <1>5. Handed(q)
    <2>1. q.waiting = waiting \cup {h} /\ q.ahead = [ahead EXCEPT ![h] = waiting]
          /\ q.need = [need EXCEPT ![h] = n] /\ q.leased = leased
      BY DEF Queue, Arrival
    <2> HIDE DEF q
    <2> QED
      BY <1>1, <1>2, <1>4, <2>1 DEF Handed, TypeOK
  <1> QED
    BY <1>5

\* A waiter leaves: the others keep their order, the counters do not move, and
\* what could pump before still can.
LEMMA AbandonInv ==
    ASSUME PoolInv, NEW h \in Holder, Abandon(h)
    PROVE  PoolInv'
  <1>1. TypeOK'
    BY BoundsNat DEF PoolInv, TypeOK, Abandon
  <1>2. QueueOrder'
    BY DEF PoolInv, TypeOK, QueueOrder, Abandon
  <1>3. CapacityRespected' /\ HeldCountsLeases' /\ NoSilentStall'
    BY DEF PoolInv, CapacityRespected, HeldCountsLeases, NoSilentStall, Abandon
  <1> QED
    BY <1>1, <1>2, <1>3 DEF PoolInv

\* A lease given back: its holder leaves the leased set and the counters.
LEMMA ReturnHanded ==
    ASSUME PoolInv, NEW h \in leased
    PROVE  Handed(Return(h))
  <1> DEFINE less == [p \in Pool |-> IF p \in need[h] THEN held[p] - 1 ELSE held[p]]
             q == Return(h)
  <1>1. TypeOK /\ QueueOrder /\ CapacityRespected /\ HeldCountsLeases /\ h \in Holder
    BY DEF PoolInv, TypeOK
  <1>2. ASSUME NEW p \in Pool
        PROVE  less[p] \in Nat /\ less[p] <= held[p] /\ less[p] = Claims(leased \ {h}, need, p)
    <2>1. Claims((leased \ {h}) \cup {h}, need, p) = Claims(leased \ {h}, need, p) + Claims({h}, need, p)
      BY <1>1, ClaimsUnion DEF TypeOK
    <2>2. (leased \ {h}) \cup {h} = leased
      BY <1>1
    <2>3. Claims({h}, need, p) = IF p \in need[h] THEN 1 ELSE 0
      BY <1>1, ClaimsOne DEF TypeOK
    <2>4. Claims(leased \ {h}, need, p) \in Nat
      BY <1>1, ClaimsType DEF TypeOK
    <2>5. held[p] = Claims(leased, need, p)
      BY <1>1 DEF HeldCountsLeases
    <2>6. held[p] = Claims(leased \ {h}, need, p) + Claims({h}, need, p)
      BY <2>1, <2>2, <2>5, Zenon
    <2> QED
      BY <2>3, <2>4, <2>6
  <1>4. QueueSound(q)
    <2>1. /\ q.waiting = waiting /\ q.ahead = ahead /\ q.need = need
          /\ q.held = less /\ q.leased = leased \ {h} /\ q.capacity = capacity
      BY DEF Queue, Return
    <2>2. /\ q.waiting \in SUBSET Holder /\ q.ahead \in [Holder -> SUBSET Holder]
          /\ q.need \in [Holder -> SUBSET Pool] /\ q.held \in [Pool -> Nat]
          /\ q.leased \in SUBSET Holder /\ q.capacity \in [Pool -> Nat \ {0}]
      BY <2>1, <1>1, <1>2 DEF TypeOK
    <2> HIDE DEF q
    <2>3. q.waiting \cap q.leased = {}
      BY <1>1, <2>1 DEF QueueOrder
    <2>4. \A p \in Pool : q.held[p] + foreign[p] <= q.capacity[p]
      <3> HIDE DEF less
      <3> QED
        BY <1>1, <1>2, <2>1 DEF CapacityRespected, TypeOK
    <2>5. \A p \in Pool : q.held[p] = Claims(q.leased, q.need, p)
      <3> HIDE DEF less
      <3> QED
        BY <1>2, <2>1
    <2>6. QueueOrder
      BY <1>1
    <2> QED
      BY <2>1, <2>2, <2>3, <2>4, <2>5, <2>6 DEF QueueSound, QueueOrder
  <1>5. q.waiting = waiting /\ q.ahead = ahead /\ q.need = need /\ q.leased = leased \ {h}
    BY DEF Queue, Return
  <1> HIDE DEF q
  <1>6. Handed(q)
    BY <1>4, <1>5 DEF Handed
  <1> QED
    BY <1>6 DEF q

\* One more slot.
LEMMA GrowthHanded ==
    ASSUME PoolInv, NEW p \in Growable
    PROVE  Handed(Growth(p))
  <1> DEFINE q == Growth(p)
  <1>1. TypeOK /\ QueueOrder /\ CapacityRespected /\ HeldCountsLeases /\ p \in Pool
    BY PoolKinds DEF PoolInv
  <1>2. /\ q.waiting = waiting /\ q.ahead = ahead /\ q.need = need
        /\ q.held = held /\ q.leased = leased /\ q.capacity = [capacity EXCEPT ![p] = @ + 1]
    BY DEF Queue, Growth
  <1> HIDE DEF q
  <1>3. QueueSound(q)
    BY <1>1, <1>2
    DEF TypeOK, QueueOrder, CapacityRespected, HeldCountsLeases, QueueSound
  <1>4. Handed(q)
    BY <1>2, <1>3 DEF Handed
  <1> QED
    BY <1>4 DEF q

\* Every step that grants anyone is a walk over a queue handed to it.
LEMMA StepPumps ==
    ASSUME PoolInv, [Next]_vars
    PROVE  \/ \E q : Handed(q) /\ Pump(q) /\ UNCHANGED foreign /\ spent' \subseteq Holder
           \/ \E h \in Holder : Abandon(h)
           \/ Tick
           \/ \E h \in Holder : ReleaseAgain(h)
           \/ \E p \in HostPool : ForeignTake(p) \/ ForeignRelease(p)
           \/ UNCHANGED vars
  <1> DEFINE Pumped == \E q : Handed(q) /\ Pump(q) /\ UNCHANGED foreign /\ spent' \subseteq Holder
  <1>0. spent \subseteq Holder
    BY DEF PoolInv, TypeOK
  <1>1. ASSUME NEW h \in Holder, NEW n \in NeedSets, Acquire(h, n)
        PROVE  Pumped
    BY <1>0, <1>1, ArrivalHanded DEF Acquire
  <1>2. ASSUME NEW h \in Holder, Release(h)
        PROVE  Pumped
    BY <1>0, <1>2, ReturnHanded DEF Release
  <1>3. ASSUME NEW p \in Growable, Grow(p)
        PROVE  Pumped
    BY <1>0, <1>3, GrowthHanded DEF Grow
  <1>4. ASSUME Poll
        PROVE  Pumped
    BY <1>0, <1>4, QueueHanded DEF Poll
  <1> HIDE DEF Pumped
  <1>5. \/ Pumped
        \/ \E h \in Holder : Abandon(h)
        \/ Tick
        \/ \E h \in Holder : ReleaseAgain(h)
        \/ \E p \in HostPool : ForeignTake(p) \/ ForeignRelease(p)
        \/ UNCHANGED vars
    BY <1>1, <1>2, <1>3, <1>4 DEF Next
  <1> QED
    BY <1>5 DEF Pumped

\* The clock, a release that was already made, and the other runs.
LEMMA OthersInv ==
    ASSUME PoolInv,
           \/ Tick
           \/ \E h \in Holder : ReleaseAgain(h)
           \/ \E p \in HostPool : ForeignTake(p) \/ ForeignRelease(p)
    PROVE  PoolInv'
  <1>1. CASE Tick
    <2>1. age' \in [Holder -> 0 .. Aging]
      BY <1>1, BoundsNat DEF Tick, PoolInv, TypeOK
    <2> QED
      BY <1>1, <2>1
      DEF Tick, PoolInv, TypeOK, QueueOrder, CapacityRespected, HeldCountsLeases, NoSilentStall
  <1>2. ASSUME NEW h \in Holder, ReleaseAgain(h)
        PROVE  PoolInv'
    BY <1>2
    DEF ReleaseAgain, PoolInv, TypeOK, QueueOrder, CapacityRespected, HeldCountsLeases, NoSilentStall
  <1>3. ASSUME NEW p \in HostPool, ForeignTake(p) \/ ForeignRelease(p)
        PROVE  PoolInv'
    <2>1. p \in Pool
      BY PoolKinds
    <2>2. TypeOK'
      BY <1>3, <2>1 DEF ForeignTake, ForeignRelease, PoolInv, TypeOK
    <2>3. CapacityRespected'
      BY <1>3, <2>1 DEF ForeignTake, ForeignRelease, PoolInv, TypeOK, CapacityRespected
    <2> QED
      BY <1>3, <2>2, <2>3
      DEF ForeignTake, ForeignRelease, PoolInv, QueueOrder, HeldCountsLeases, NoSilentStall
  <1> QED
    BY <1>1, <1>2, <1>3

\* Every step preserves the invariant.
LEMMA NextInv == PoolInv /\ [Next]_vars => PoolInv'
  <1> SUFFICES ASSUME PoolInv, [Next]_vars
               PROVE  PoolInv'
    OBVIOUS
  <1>1. ASSUME NEW q, Handed(q), Pump(q), UNCHANGED foreign, spent' \subseteq Holder
        PROVE  PoolInv'
    BY <1>1, PumpKeepsInv DEF Handed, PoolInv
  <1>2. ASSUME NEW h \in Holder, Abandon(h)
        PROVE  PoolInv'
    BY <1>2, AbandonInv
  <1>3. CASE \/ Tick
             \/ \E h \in Holder : ReleaseAgain(h)
             \/ \E p \in HostPool : ForeignTake(p) \/ ForeignRelease(p)
    BY <1>3, OthersInv
  <1>4. CASE UNCHANGED vars
    BY <1>4
    DEF vars, PoolInv, TypeOK, QueueOrder, CapacityRespected, HeldCountsLeases, NoSilentStall
  <1> QED
    BY <1>1, <1>2, <1>3, <1>4, StepPumps

\* Every variable of the pools keeps its type.
THEOREM TypeCorrect == Spec => []TypeOK
  <1>1. Spec => []PoolInv
    BY InitInv, NextInv, PTL DEF Spec
  <1>2. PoolInv => TypeOK
    BY DEF PoolInv
  <1> QED
    BY <1>1, <1>2, PTL

\* No history of arrivals, grants, releases, growth, abandoned waits and other
\* runs ever takes more slots of a pool than it has, and the counter the grants
\* are decided on is exact (pools.ts:213, 270-299, 334-345).
THEOREM CapacityNeverExceeded == Spec => [](CapacityRespected /\ HeldCountsLeases)
  <1>1. Spec => []PoolInv
    BY InitInv, NextInv, PTL DEF Spec
  <1>2. PoolInv => CapacityRespected /\ HeldCountsLeases
    BY DEF PoolInv
  <1> QED
    BY <1>1, <1>2, PTL

\* A queue nobody will pump is empty (pools.ts:246-299, 318-345).
THEOREM QueueNeverStalls == Spec => []NoSilentStall
  <1>1. Spec => []PoolInv
    BY InitInv, NextInv, PTL DEF Spec
  <1>2. PoolInv => NoSilentStall
    BY DEF PoolInv
  <1> QED
    BY <1>1, <1>2, PTL

----------------------------------------------------------------------------
(* The order of grants *)

\* More holders claim no less.
LEMMA ClaimsMonotone ==
    ASSUME NEW S \in SUBSET Holder, NEW T \in SUBSET S,
           NEW n \in [Holder -> SUBSET Pool], NEW p \in Pool
    PROVE  Claims(T, n, p) <= Claims(S, n, p)
  <1>1. PICK A, B : A = {h \in S : p \in n[h]} /\ B = {h \in T : p \in n[h]}
    OBVIOUS
  <1>2. IsFiniteSet(A) /\ B \in SUBSET A
    BY <1>1, ClaimsType
  <1>3. Cardinality(B) <= Cardinality(A)
    BY <1>2, FS_Subset
  <1> QED
    BY <1>1, <1>3, Zenon DEF Claims

\* Nobody granted by a walk passed a waiter that reserved one of its pools,
\* nor one that asked for no more than it does.
LEMMA WalkPassesInOrder ==
    ASSUME TypeOK, NEW q, QueueSound(q), NEW G \in SUBSET q.waiting, NEW refused,
           refused \subseteq {w \in q.waiting : NeedsHost(q.need[w])}, IsWalk(G, refused, q),
           NEW k \in G, NEW h \in q.waiting \ G, h \in q.ahead[k]
    PROVE  /\ age[h] >= Aging => q.need[h] \cap q.need[k] = {}
           /\ ~NeedsHost(q.need[h]) => ~(q.need[h] \subseteq q.need[k])
  <1>1. /\ G \in SUBSET Holder /\ h \in Holder /\ k \in Holder
        /\ q.need \in [Holder -> SUBSET Pool]
        /\ q.ahead \in [Holder -> SUBSET Holder]
        /\ q.held \in [Pool -> Nat] /\ q.capacity \in [Pool -> Nat \ {0}]
        /\ foreign \in [Pool -> Nat]
    BY DEF QueueSound, TypeOK
  <1>2. Fits(k, G, refused, q) /\ ~Fits(h, G, refused, q)
    BY DEF IsWalk
  <1>3. ASSUME age[h] >= Aging, NEW p \in q.need[h] \cap q.need[k]
        PROVE  FALSE
    <2>1. Reserved(k, p, G, q)
      BY <1>3 DEF Reserved
    <2> QED
      BY <1>2, <2>1 DEF Fits
  <1>4. ASSUME ~NeedsHost(q.need[h]), q.need[h] \subseteq q.need[k]
        PROVE  FALSE
    <2>1. h \notin refused
      BY <1>4
    <2>2. PICK p \in q.need[h] : Reserved(h, p, G, q) \/ ~(InUse(h, p, G, q) < q.capacity[p])
      BY <1>2, <2>1 DEF Fits
    <2>3. p \in Pool /\ p \in q.need[k]
      BY <1>1, <1>4
    <2>4. q.ahead[h] \subseteq q.ahead[k]
      BY DEF QueueSound
    <2>5. ~Reserved(k, p, G, q) /\ InUse(k, p, G, q) < q.capacity[p]
      BY <1>2, <2>3 DEF Fits
    <2>6. ~Reserved(h, p, G, q)
      BY <2>4, <2>5 DEF Reserved
    <2>7. /\ Claims(q.ahead[h] \cap G, q.need, p) <= Claims(q.ahead[k] \cap G, q.need, p)
          /\ Claims(q.ahead[h] \cap G, q.need, p) \in Nat
          /\ Claims(q.ahead[k] \cap G, q.need, p) \in Nat
      <3>1. /\ q.ahead[k] \cap G \in SUBSET Holder
            /\ q.ahead[h] \cap G \in SUBSET (q.ahead[k] \cap G)
        BY <1>1, <2>4
      <3> QED
        BY <1>1, <2>3, <3>1, ClaimsMonotone, ClaimsType
    <2>8. q.held[p] \in Nat /\ foreign[p] \in Nat /\ q.capacity[p] \in Nat
      BY <1>1, <2>3
    <2>9. InUse(h, p, G, q) < q.capacity[p]
      BY <2>5, <2>7, <2>8 DEF InUse
    <2> QED
      BY <2>2, <2>6, <2>9
  <1> QED
    BY <1>3, <1>4

\* So nobody granted by a step passed one.
LEMMA PumpGrantsInOrder ==
    ASSUME PoolInv, NEW q, Handed(q), Pump(q), NEW h \in waiting \cap waiting',
           NEW k \in GrantedPast(h)
    PROVE  /\ age[h] >= Aging => need[h] \cap need'[k] = {}
           /\ ~NeedsHost(need[h]) => ~(need[h] \subseteq need'[k])
  <1>1. PICK G \in SUBSET q.waiting,
             refused \in SUBSET {w \in q.waiting : NeedsHost(q.need[w])} :
            /\ IsWalk(G, refused, q)
            /\ waiting' = q.waiting \ G
            /\ leased' = q.leased \cup G
            /\ need' = q.need
    BY DEF Pump
  <1>2. k \in G /\ h \in q.waiting \ G /\ h \in q.ahead[k] /\ q.need[h] = need[h]
    BY <1>1 DEF Handed, GrantedPast
  <1>3. /\ age[h] >= Aging => q.need[h] \cap q.need[k] = {}
        /\ ~NeedsHost(q.need[h]) => ~(q.need[h] \subseteq q.need[k])
    BY <1>1, <1>2, WalkPassesInOrder DEF Handed, PoolInv
  <1> QED
    BY <1>1, <1>2, <1>3

\* A step that does not walk the queue grants nobody.
LEMMA OthersGrantNobody ==
    ASSUME \/ \E h \in Holder : Abandon(h)
           \/ Tick
           \/ \E h \in Holder : ReleaseAgain(h)
           \/ \E p \in HostPool : ForeignTake(p) \/ ForeignRelease(p)
           \/ UNCHANGED vars
    PROVE  leased' \ leased = {}
  BY DEF Abandon, Tick, ReleaseAgain, ForeignTake, ForeignRelease, vars

\* A waiter past the aging window is never passed for a pool it needs, for
\* any window, queue and mix of requests (pools.ts:287-290).
THEOREM AgedAreNotPassed == Spec => AgedNotPassed
  <1>1. PoolInv /\ [Next]_vars =>
            [\A h \in waiting \cap waiting' : age[h] >= Aging =>
                \A k \in GrantedPast(h) : need[h] \cap need'[k] = {}]_vars
    <2> SUFFICES ASSUME PoolInv, [Next]_vars, NEW h \in waiting \cap waiting',
                        age[h] >= Aging, NEW k \in GrantedPast(h)
                 PROVE  need[h] \cap need'[k] = {}
      OBVIOUS
    <2>1. CASE \E q : Handed(q) /\ Pump(q)
      BY <2>1, PumpGrantsInOrder
    <2> QED
      BY <2>1, StepPumps, OthersGrantNobody DEF GrantedPast
  <1>2. Spec => []PoolInv
    BY InitInv, NextInv, PTL DEF Spec
  <1> QED
    BY <1>1, <1>2, PTL DEF Spec, AgedNotPassed

\* Arrival order holds between requests that compete for the same pools
\* (pools.ts:275-291).
THEOREM RequestsAreNotOvertaken == Spec => NoOvertakeSameNeed
  <1>1. PoolInv /\ [Next]_vars =>
            [\A h \in waiting \cap waiting' : ~NeedsHost(need[h]) =>
                \A k \in GrantedPast(h) : ~(need[h] \subseteq need'[k])]_vars
    <2> SUFFICES ASSUME PoolInv, [Next]_vars, NEW h \in waiting \cap waiting',
                        ~NeedsHost(need[h]), NEW k \in GrantedPast(h)
                 PROVE  ~(need[h] \subseteq need'[k])
      OBVIOUS
    <2>1. CASE \E q : Handed(q) /\ Pump(q)
      BY <2>1, PumpGrantsInOrder
    <2> QED
      BY <2>1, StepPumps, OthersGrantNobody DEF GrantedPast
  <1>2. Spec => []PoolInv
    BY InitInv, NextInv, PTL DEF Spec
  <1> QED
    BY <1>1, <1>2, PTL DEF Spec, NoOvertakeSameNeed

----------------------------------------------------------------------------
(* The promise *)

\* The promise counts as the pools do.
LEMMA SameCount == \A S : Promise!Cardinality(S) = Cardinality(S)
  BY DEF Promise!Cardinality, Cardinality

\* What the pools are to their users.
Limits(c) == [p \in Pool |-> c[p] - foreign[p]]

\* The queue q is settled (AtomicLeases!Settle).
Settled(q) ==
    /\ \E G \in SUBSET q.waiting :
          /\ Promise!Within(q.leased \cup G, q.need, Limits(q.capacity))
          /\ \A k \in G : \A h \in q.ahead[k] \ G :
                q.need[h] \cap HostPool # {} \/ ~(q.need[h] \subseteq q.need[k])
          /\ waiting' = q.waiting \ G
          /\ ahead' = [h \in Holder |-> IF h \in q.waiting \ G THEN q.ahead[h] \ G ELSE {}]
          /\ leased' = q.leased \cup G
    /\ need' = q.need /\ Limits(capacity)' = Limits(q.capacity)
    /\ Promise!FrontIsServed'

\* A walk leaves nobody at the front who could be served.
LEMMA WalkServesTheFront ==
    ASSUME PoolInv, NEW q, QueueSound(q), NEW G \in SUBSET q.waiting, NEW refused,
           refused \subseteq {w \in q.waiting : NeedsHost(q.need[w])}, IsWalk(G, refused, q),
           NEW h \in q.waiting \ G, q.ahead[h] \subseteq G, ~NeedsHost(q.need[h])
    PROVE  \E p \in q.need[h] : q.held[p] + foreign[p] + Claims(G, q.need, p) >= q.capacity[p]
  <1>1. /\ q.waiting \in SUBSET Holder /\ G \in SUBSET Holder /\ h \in Holder
        /\ q.need \in [Holder -> SUBSET Pool] /\ q.ahead \in [Holder -> SUBSET Holder]
        /\ q.held \in [Pool -> Nat] /\ q.capacity \in [Pool -> Nat \ {0}]
        /\ foreign \in [Pool -> Nat]
    BY DEF QueueSound, PoolInv, TypeOK
  <1>2. h \notin refused /\ ~Fits(h, G, refused, q)
    BY DEF IsWalk
  <1>3. PICK p \in q.need[h] : Reserved(h, p, G, q) \/ ~(InUse(h, p, G, q) < q.capacity[p])
    BY <1>2 DEF Fits
  <1>4. ~Reserved(h, p, G, q) /\ p \in Pool
    BY <1>1, <1>3 DEF Reserved
  <1>5. /\ Claims(q.ahead[h] \cap G, q.need, p) <= Claims(G, q.need, p)
        /\ Claims(q.ahead[h] \cap G, q.need, p) \in Nat /\ Claims(G, q.need, p) \in Nat
    <2>1. q.ahead[h] \cap G \in SUBSET G /\ q.ahead[h] \cap G \in SUBSET Holder
      BY <1>1
    <2> QED
      BY <1>1, <1>4, <2>1, ClaimsMonotone, ClaimsType
  <1>6. q.held[p] \in Nat /\ foreign[p] \in Nat /\ q.capacity[p] \in Nat
    BY <1>1, <1>4
  <1>7. q.held[p] + foreign[p] + Claims(q.ahead[h] \cap G, q.need, p) >= q.capacity[p]
    <2>1. ~(InUse(h, p, G, q) < q.capacity[p])
      BY <1>3, <1>4
    <2> QED
      BY <1>5, <1>6, <2>1 DEF InUse
  <1> QED
    BY <1>3, <1>5, <1>6, <1>7

\* A walk settles the queue it was handed.
LEMMA PumpSettles ==
    ASSUME PoolInv, NEW q, Handed(q), Pump(q), UNCHANGED foreign, spent' \subseteq Holder
    PROVE  Settled(q)
  <1>0. QueueSound(q) /\ TypeOK
    BY DEF Handed, PoolInv
  <1>1. PICK G \in SUBSET q.waiting,
             refused \in SUBSET {w \in q.waiting : NeedsHost(q.need[w])} :
            /\ IsWalk(G, refused, q)
            /\ waiting' = q.waiting \ G
            /\ ahead' = [h \in Holder |-> IF h \in q.waiting \ G THEN q.ahead[h] \ G ELSE {}]
            /\ held' = [p \in Pool |-> q.held[p] + Claims(G, q.need, p)]
            /\ leased' = q.leased \cup G
            /\ need' = q.need
            /\ capacity' = q.capacity
    BY DEF Pump
  <1>2. /\ q.waiting \in SUBSET Holder /\ G \in SUBSET Holder
        /\ q.need \in [Holder -> SUBSET Pool] /\ q.ahead \in [Holder -> SUBSET Holder]
        /\ q.held \in [Pool -> Nat] /\ q.capacity \in [Pool -> Nat \ {0}]
        /\ foreign \in [Pool -> Nat]
    BY <1>0 DEF QueueSound, TypeOK
  <1>3. PoolInv'
    BY <1>0, PumpKeepsInv
  <1>4. ASSUME NEW p \in Pool
        PROVE  /\ Cardinality({h \in q.leased \cup G : p \in q.need[h]}) = held'[p]
               /\ held'[p] <= Limits(q.capacity)[p]
    <2>1. held'[p] = Claims(leased', need', p) /\ held'[p] + foreign'[p] <= capacity'[p]
      BY <1>3 DEF PoolInv, HeldCountsLeases, CapacityRespected
    <2>2. held'[p] \in Nat /\ foreign[p] \in Nat /\ q.capacity[p] \in Nat
      BY <1>2, <1>3 DEF PoolInv, TypeOK
    <2>3. Claims(leased', need', p) = Cardinality({h \in q.leased \cup G : p \in q.need[h]})
      BY <1>1 DEF Claims
    <2> QED
      BY <1>1, <2>1, <2>2, <2>3 DEF Limits
  <1>5. Promise!Within(q.leased \cup G, q.need, Limits(q.capacity))
    <2>1. \A p \in Pool : Cardinality({h \in q.leased \cup G : p \in q.need[h]}) <= Limits(q.capacity)[p]
      BY <1>4, Zenon
    <2> QED
      BY <2>1, SameCount DEF Promise!Within
  <1>6. ASSUME NEW k \in G, NEW h \in q.ahead[k] \ G
        PROVE  q.need[h] \cap HostPool # {} \/ ~(q.need[h] \subseteq q.need[k])
    <2>1. h \in q.waiting \ G /\ k \in Holder
      BY <1>0, <1>2 DEF QueueSound
    <2> QED
      BY <1>0, <1>1, <2>1, WalkPassesInOrder DEF NeedsHost
  <1>7. Limits(capacity)' = Limits(q.capacity)
    BY <1>1 DEF Limits
  <1>8. Promise!FrontIsServed'
    <2> SUFFICES ASSUME NEW h \in waiting', ahead'[h] = {}, need'[h] \cap HostPool = {}
                 PROVE  \E p \in need'[h] : Promise!Full(p)'
      BY DEF Promise!FrontIsServed
    <2>1. h \in q.waiting \ G /\ h \in Holder /\ q.ahead[h] \subseteq G /\ ~NeedsHost(q.need[h])
      BY <1>1, <1>2 DEF NeedsHost
    <2>2. PICK p \in q.need[h] : q.held[p] + foreign[p] + Claims(G, q.need, p) >= q.capacity[p]
      BY <1>0, <1>1, <2>1, WalkServesTheFront
    <2>3. p \in Pool /\ p \in need'[h]
      BY <1>1, <1>2, <2>1
    <2>4. held'[p] = q.held[p] + Claims(G, q.need, p) /\ Claims(G, q.need, p) \in Nat
      BY <1>1, <1>2, <2>3, ClaimsType
    <2>5. held'[p] >= capacity'[p] - foreign'[p]
      BY <1>1, <1>2, <2>2, <2>3, <2>4
    <2>6. held'[p] = Cardinality({k \in leased' : p \in need'[k]})
      BY <1>1, <1>4, <2>3
    <2>7. Promise!Full(p)' <=> Cardinality({k \in leased' : p \in need'[k]}) >= capacity'[p] - foreign'[p]
      BY <2>3, SameCount DEF Promise!Full
    <2> QED
      BY <2>3, <2>5, <2>6, <2>7
  <1> QED
    BY <1>1, <1>5, <1>6, <1>7, <1>8 DEF Settled

\* Each operation is one of the promise's, or nothing to a user.
LEMMA StepIsPromised ==
    ASSUME PoolInv, [Next]_vars
    PROVE  [Promise!Next]_(Promise!vars)
  <1>0. /\ capacity \in [Pool -> Nat \ {0}] /\ foreign \in [Pool -> Nat]
        /\ ahead \in [Holder -> SUBSET Holder] /\ leased \subseteq Holder
        /\ spent \subseteq Holder
    BY DEF PoolInv, TypeOK
  <1>1. ASSUME NEW h \in Holder, NEW n \in NeedSets, Acquire(h, n)
        PROVE  Promise!Ask(h, n)
    <2>1. Settled(Arrival(h, n))
      BY <1>0, <1>1, ArrivalHanded, PumpSettles DEF Acquire
    <2>2. /\ Arrival(h, n).waiting = waiting \cup {h}
          /\ Arrival(h, n).ahead = [ahead EXCEPT ![h] = waiting]
          /\ Arrival(h, n).need = [need EXCEPT ![h] = n]
          /\ Arrival(h, n).leased = leased /\ Arrival(h, n).capacity = capacity
      BY DEF Arrival, Queue
    <2>4. PICK G \in SUBSET (waiting \cup {h}) :
            /\ Promise!Within(leased \cup G, [need EXCEPT ![h] = n], Limits(capacity))
            /\ \A k \in G : \A j \in [ahead EXCEPT ![h] = waiting][k] \ G :
                  [need EXCEPT ![h] = n][j] \cap HostPool # {} \/ ~([need EXCEPT ![h] = n][j] \subseteq [need EXCEPT ![h] = n][k])
            /\ waiting' = (waiting \cup {h}) \ G
            /\ ahead' = [j \in Holder |-> IF j \in (waiting \cup {h}) \ G THEN [ahead EXCEPT ![h] = waiting][j] \ G ELSE {}]
            /\ leased' = leased \cup G
      BY <2>1, <2>2, Zenon DEF Settled
    <2>5. /\ need' = [need EXCEPT ![h] = n] /\ Limits(capacity)' = Limits(capacity)
          /\ Promise!FrontIsServed'
      BY <2>1, <2>2, Zenon DEF Settled
    <2> QED
      BY <1>1, <2>4, <2>5, Zenon DEF Promise!Ask, Promise!Settle, Limits, Acquire
  <1>2. ASSUME NEW h \in Holder, Release(h)
        PROVE  Promise!Return({h}, {})
    <2>1. Settled(Return(h))
      BY <1>0, <1>2, ReturnHanded, PumpSettles DEF Release
    <2>2. /\ Return(h).waiting = waiting \ {} /\ Return(h).ahead = ahead /\ Return(h).need = need
          /\ Return(h).leased = leased \ {h} /\ Return(h).capacity = capacity
      BY DEF Return, Queue
    <2>3. Promise!Without({}) = ahead
      BY <1>0 DEF Promise!Without
    <2>4. PICK G \in SUBSET (waiting \ {}) :
            /\ Promise!Within((leased \ {h}) \cup G, need, Limits(capacity))
            /\ \A k \in G : \A j \in ahead[k] \ G :
                  need[j] \cap HostPool # {} \/ ~(need[j] \subseteq need[k])
            /\ waiting' = (waiting \ {}) \ G
            /\ ahead' = [j \in Holder |-> IF j \in (waiting \ {}) \ G THEN ahead[j] \ G ELSE {}]
            /\ leased' = (leased \ {h}) \cup G
      BY <2>1, <2>2, Zenon DEF Settled
    <2>5. /\ need' = need /\ Limits(capacity)' = Limits(capacity)
          /\ Promise!FrontIsServed'
      BY <2>1, <2>2, Zenon DEF Settled
    <2> QED
      BY <2>3, <2>4, <2>5, Zenon DEF Promise!Return, Promise!Settle, Limits
  <1>3. ASSUME NEW p \in Growable, Grow(p)
        PROVE  Promise!Raise(p)
    <2>1. Settled(Growth(p))
      BY <1>0, <1>3, GrowthHanded, PumpSettles DEF Grow
    <2>2. /\ Growth(p).waiting = waiting /\ Growth(p).ahead = ahead /\ Growth(p).need = need
          /\ Growth(p).leased = leased /\ Growth(p).capacity = [capacity EXCEPT ![p] = @ + 1]
      BY DEF Growth, Queue
    <2>3. Limits([capacity EXCEPT ![p] = @ + 1]) = [Limits(capacity) EXCEPT ![p] = @ + 1]
      BY <1>0, PoolKinds DEF Limits
    <2>4. PICK G \in SUBSET (waiting) :
            /\ Promise!Within(leased \cup G, need, Limits([capacity EXCEPT ![p] = @ + 1]))
            /\ \A k \in G : \A j \in ahead[k] \ G :
                  need[j] \cap HostPool # {} \/ ~(need[j] \subseteq need[k])
            /\ waiting' = (waiting) \ G
            /\ ahead' = [j \in Holder |-> IF j \in (waiting) \ G THEN ahead[j] \ G ELSE {}]
            /\ leased' = leased \cup G
      BY <2>1, <2>2, Zenon DEF Settled
    <2>5. /\ need' = need /\ Limits(capacity)' = Limits([capacity EXCEPT ![p] = @ + 1])
          /\ Promise!FrontIsServed'
      BY <2>1, <2>2, Zenon DEF Settled
    <2> QED
      BY <2>3, <2>4, <2>5, Zenon DEF Promise!Raise, Promise!Settle, Limits
  <1>4. ASSUME Poll
        PROVE  Promise!Look
    <2>1. Settled(Queue)
      BY <1>0, <1>4, QueueHanded, PumpSettles DEF Poll
    <2>2. /\ Queue.waiting = waiting /\ Queue.ahead = ahead /\ Queue.need = need
          /\ Queue.leased = leased /\ Queue.capacity = capacity
      BY DEF Queue
    <2> QED
      BY <2>1, <2>2 DEF Promise!Look, Promise!Settle, Settled, Limits
  <1>5. ASSUME NEW h \in Holder, Abandon(h)
        PROVE  h \in waiting /\ Promise!GiveUp({h})
    <2>1. ahead' = Promise!Without({h})
      BY <1>5 DEF Abandon, Promise!Without
    <2> QED
      BY <1>5, <2>1 DEF Abandon, Promise!GiveUp
  <1>6. ASSUME NEW p \in HostPool, ForeignTake(p) \/ ForeignRelease(p)
        PROVE  Promise!Others(p)
    <2>1. p \in Pool /\ UNCHANGED <<capacity, need, waiting, ahead, leased>>
      BY <1>6, PoolKinds DEF ForeignTake, ForeignRelease
    <2>2. PoolInv'
      BY <1>6, OthersInv
    <2>3. \A r \in Pool : r # p => foreign'[r] = foreign[r]
      BY <1>0, <1>6 DEF ForeignTake, ForeignRelease
    <2>4. ASSUME NEW r \in Pool
          PROVE  /\ Limits(capacity)'[r] \in Nat
                 /\ Cardinality({h \in leased : r \in need[h]}) <= Limits(capacity)'[r]
      <3>1. /\ held'[r] + foreign'[r] <= capacity'[r] /\ held'[r] = Claims(leased', need', r)
            /\ held'[r] \in Nat /\ foreign'[r] \in Nat /\ capacity'[r] \in Nat
        BY <2>2 DEF PoolInv, TypeOK, CapacityRespected, HeldCountsLeases
      <3>2. Claims(leased', need', r) = Cardinality({h \in leased : r \in need[h]})
        BY <2>1 DEF Claims
      <3> QED
        BY <3>1, <3>2 DEF Limits
    <2>5. Limits(capacity)' = [Limits(capacity) EXCEPT ![p] = Limits(capacity)'[p]]
      BY <2>1, <2>3 DEF Limits
    <2>6. Promise!Within(leased, need, Limits(capacity)')
      <3>1. \A r \in Pool : Cardinality({h \in leased : r \in need[h]}) <= Limits(capacity)'[r]
        BY <2>4, Zenon
      <3> QED
        BY <3>1, SameCount DEF Promise!Within
    <2> QED
      BY <2>1, <2>4, <2>5, <2>6 DEF Promise!Others, Limits
  <1>7. ASSUME Tick \/ (\E h \in Holder : ReleaseAgain(h)) \/ UNCHANGED vars
        PROVE  UNCHANGED Promise!vars
    BY <1>7 DEF Tick, ReleaseAgain, vars, Promise!vars
  <1>8. \A h \in Holder : Release(h) => {h} \in SUBSET leased /\ {} \in SUBSET waiting
    BY DEF Release
  <1> QED
    BY <1>1, <1>2, <1>3, <1>4, <1>5, <1>6, <1>7, <1>8, PoolKinds DEF Next, Promise!Next

\* The pools implement AtomicLeases: for any pools, needs, growth, aging window
\* and other runs, whoever asks gets everything in one step, in a place that is
\* kept, and no slot that is not there (pools.ts:163-346).
THEOREM PoolsKeepThePromise == Spec => ImplementsAtomicLeases
  <1>1. Init => Promise!Init
    <2> SUFFICES ASSUME Init
                 PROVE  Promise!Init
      OBVIOUS
    <2>1. [p \in Pool |-> capacity[p] - foreign[p]] \in [Pool -> Nat]
      BY CapacityPositive DEF Init
    <2>2. need \in [Holder -> SUBSET Pool]
      BY DEF Init
    <2> QED
      BY <2>1, <2>2 DEF Init, Promise!Init
  <1>2. Spec => []PoolInv
    BY InitInv, NextInv, PTL DEF Spec
  <1>3. PoolInv /\ [Next]_vars => [Promise!Next]_(Promise!vars)
    BY StepIsPromised
  <1> QED
    BY <1>1, <1>2, <1>3, PTL DEF Spec, ImplementsAtomicLeases, Promise!Spec

----------------------------------------------------------------------------
(* The walk is the loop *)

\* A front that is not empty is its last waiter, behind all the others.
LEMMA FrontIs ==
    ASSUME NEW q, QueueSound(q), NEW S \in Fronts(q), S # {}
    PROVE  /\ LastOf(S, q) \in S /\ LastOf(S, q) \in q.waiting /\ S \subseteq q.waiting
           /\ S \ {LastOf(S, q)} = q.ahead[LastOf(S, q)]
           /\ S \ {LastOf(S, q)} \in Fronts(q)
  <1>0. /\ q.waiting \in SUBSET Holder /\ q.ahead \in [Holder -> SUBSET Holder]
        /\ \A h \in Holder : q.ahead[h] \subseteq q.waiting /\ h \notin q.ahead[h]
        /\ \A h, k \in q.waiting : h = k \/ h \in q.ahead[k] \/ k \in q.ahead[h]
        /\ \A h, k \in q.waiting : h \in q.ahead[k] => q.ahead[h] \subseteq q.ahead[k] \ {h}
    BY DEF QueueSound
  <1>1. S \subseteq q.waiting /\ \A h \in S : q.ahead[h] \subseteq S
    BY <1>0 DEF Fronts
  <1> DEFINE behind == [h \in S |-> {k \in S : h \in q.ahead[k]}]
  <1>2. behind \in [S -> SUBSET S] /\ S \in SUBSET Holder
    BY <1>0, <1>1
  <1>3. \A h, k \in S : h \in behind[k] => behind[h] \subseteq behind[k] \ {h}
    BY <1>0, <1>1
  <1>4. PICK last \in S : behind[last] = {}
    <2> HIDE DEF behind
    <2> QED
      BY <1>2, <1>3, OrderHasFirst
  <1>5. \A h \in S : h = last \/ h \in q.ahead[last]
    BY <1>0, <1>1, <1>4
  <1>6. S = q.ahead[last] \cup {last}
    BY <1>1, <1>5
  <1>7. PICK h : h = LastOf(S, q)
    OBVIOUS
  <1>8. S = q.ahead[h] \cup {h}
    BY <1>4, <1>6, <1>7 DEF LastOf
  <1>9. h \in S /\ h \in q.waiting /\ S \ {h} = q.ahead[h]
    BY <1>0, <1>1, <1>8
  <1> QED
    BY <1>1, <1>7, <1>9 DEF Fronts

\* What holds of the empty front, and of a front when it holds of the one before,
\* holds of all.
LEMMA FrontByFront ==
    ASSUME NEW q, QueueSound(q), NEW T,
           \A S \in Fronts(q) : S = {} \/ S \ {LastOf(S, q)} \in T => S \in T
    PROVE  Fronts(q) \subseteq T
  <1> SUFFICES ASSUME Fronts(q) \ T # {} PROVE FALSE
    OBVIOUS
  <1>0. q.waiting \in SUBSET Holder /\ Fronts(q) \subseteq SUBSET q.waiting
    BY DEF QueueSound, Fronts
  <1>1. IsFiniteSet(q.waiting)
    BY <1>0, HolderFinite, FS_Subset
  <1>2. IsWellFoundedOn(StrictSubsetOrdering(q.waiting), SUBSET q.waiting)
    BY <1>1, FS_FiniteSubsetsOfFinite, FS_StrictSubsetOrderingWellFounded
  <1>3. PICK S \in Fronts(q) \ T : \A R \in Fronts(q) \ T : ~(<<R, S>> \in StrictSubsetOrdering(q.waiting))
    BY <1>0, <1>2, WFMin
  <1>4. S # {}
    BY <1>3
  <1>5. PICK R : R = S \ {LastOf(S, q)}
    OBVIOUS
  <1>6. R \in Fronts(q) /\ R \subseteq S /\ R # S /\ S \subseteq q.waiting
    BY <1>3, <1>4, <1>5, FrontIs
  <1>7. <<R, S>> \in StrictSubsetOrdering(q.waiting)
    BY <1>6 DEF StrictSubsetOrdering
  <1> QED
    BY <1>3, <1>5, <1>6, <1>7

\* Whether a waiter fits depends on what the walk does in front of it.
LEMMA FitsLooksAhead ==
    ASSUME NEW q, NEW G, NEW H, NEW h, NEW refused, q.ahead[h] \cap G = q.ahead[h] \cap H
    PROVE  Fits(h, G, refused, q) <=> Fits(h, H, refused, q)
  <1>1. \A p : InUse(h, p, G, q) = InUse(h, p, H, q)
    BY DEF InUse
  <1>2. \A p : Reserved(h, p, G, q) <=> Reserved(h, p, H, q)
    BY DEF Reserved
  <1> QED
    BY <1>1, <1>2 DEF Fits

\* There is a walk of every queue.
LEMMA WalkExists ==
    ASSUME NEW q, QueueSound(q), NEW refused
    PROVE  \E G \in SUBSET q.waiting : IsWalk(G, refused, q)
  <1> DEFINE T == {S \in Fronts(q) : \E G \in SUBSET S : \A h \in S : h \in G <=> Fits(h, G, refused, q)}
  <1>1. ASSUME NEW S \in Fronts(q), S = {} \/ S \ {LastOf(S, q)} \in T
        PROVE  S \in T
    <2>1. CASE S = {}
      BY <2>1
    <2>2. CASE S # {}
      <3>1. PICK l : l = LastOf(S, q)
        OBVIOUS
      <3>2. /\ l \in S /\ l \in q.waiting /\ S \subseteq q.waiting /\ q.waiting \in SUBSET Holder
            /\ S \ {l} = q.ahead[l]
        BY <2>2, <3>1, FrontIs DEF QueueSound
      <3>3. PICK G \in SUBSET (S \ {l}) : \A h \in S \ {l} : h \in G <=> Fits(h, G, refused, q)
        BY <1>1, <2>2, <3>1
      <3>4. PICK H : H = IF Fits(l, G, refused, q) THEN G \cup {l} ELSE G
        OBVIOUS
      <3>5. \A h \in S : q.ahead[h] \cap G = q.ahead[h] \cap H
        <4>1. \A h \in S : l \notin q.ahead[h]
          BY <3>2 DEF QueueSound
        <4> QED
          BY <3>4, <4>1
      <3>6. \A h \in S : Fits(h, G, refused, q) <=> Fits(h, H, refused, q)
        BY <3>5, FitsLooksAhead
      <3>7. l \notin G /\ H \in SUBSET S
        BY <3>2, <3>3, <3>4
      <3>8. \A h \in S : h \in H <=> Fits(h, H, refused, q)
        BY <3>3, <3>4, <3>6, <3>7
      <3> QED
        BY <3>7, <3>8
    <2> QED
      BY <2>1, <2>2
  <1>2. Fronts(q) \subseteq T
    <2> HIDE DEF T
    <2> QED
      BY <1>1, FrontByFront
  <1>3. q.waiting \in T
    BY <1>2 DEF Fronts
  <1> QED
    BY <1>3 DEF IsWalk

\* And only one: two would differ first at a waiter that sees the same in front.
LEMMA WalkIsOne ==
    ASSUME NEW q, QueueSound(q), NEW refused,
           NEW G \in SUBSET q.waiting, IsWalk(G, refused, q),
           NEW H \in SUBSET q.waiting, IsWalk(H, refused, q)
    PROVE  G = H
  <1> SUFFICES ASSUME G # H PROVE FALSE
    OBVIOUS
  <1>1. PICK D : D = (G \ H) \cup (H \ G)
    OBVIOUS
  <1>2. q.waiting \in SUBSET Holder /\ D # {} /\ D \in SUBSET q.waiting /\ D \in SUBSET Holder
    BY <1>1 DEF QueueSound
  <1> DEFINE before == [h \in D |-> q.ahead[h] \cap D]
  <1>3. before \in [D -> SUBSET D]
    OBVIOUS
  <1>4. \A h, k \in D : h \in before[k] => before[h] \subseteq before[k] \ {h}
    BY <1>2 DEF QueueSound
  <1>5. PICK h \in D : before[h] = {}
    <2> HIDE DEF before
    <2> QED
      BY <1>2, <1>3, <1>4, OrderHasFirst
  <1>6. q.ahead[h] \cap G = q.ahead[h] \cap H
    BY <1>1, <1>5
  <1>7. Fits(h, G, refused, q) <=> Fits(h, H, refused, q)
    BY <1>6, FitsLooksAhead
  <1> QED
    BY <1>1, <1>2, <1>5, <1>7 DEF IsWalk

\* What the loop knows when it has been through a front, if the walk grants G.
Known(S, G, q) ==
    [held |-> [p \in Pool |-> q.held[p] + foreign[p] + Claims(S \cap G, q.need, p)],
     reserved |-> {p \in Pool : \E k \in S \ G : p \in q.need[k] /\ age[k] >= Aging},
     granted |-> S \cap G]

LEMMA NothingKnown ==
    ASSUME TypeOK, NEW q, QueueSound(q), NEW G
    PROVE  Known({}, G, q) = [held |-> [p \in Pool |-> q.held[p] + foreign[p]],
                              reserved |-> {}, granted |-> {}]
  <1>1. \A p \in Pool : Claims({}, q.need, p) = 0
    BY FS_EmptySet DEF Claims
  <1>2. {} \cap G = {} /\ {} \ G = {}
    OBVIOUS
  <1>3. \A p \in Pool : q.held[p] + foreign[p] + Claims({} \cap G, q.need, p) = q.held[p] + foreign[p]
    BY <1>1, <1>2 DEF TypeOK, QueueSound
  <1> QED
    BY <1>2, <1>3 DEF Known

\* One turn of the loop takes it from a front to the next.
LEMMA KnownAfterOne ==
    ASSUME TypeOK, NEW q, QueueSound(q), NEW refused, NEW G \in SUBSET q.waiting, IsWalk(G, refused, q),
           NEW S \in Fronts(q), S # {}
    PROVE  AfterOne(Known(S \ {LastOf(S, q)}, G, q), LastOf(S, q), refused, q) = Known(S, G, q)
  <1> PICK h, R : h = LastOf(S, q) /\ R = S \ {h}
    OBVIOUS
  <1>a. h \in S /\ h \in q.waiting /\ S \subseteq q.waiting /\ R = q.ahead[h]
    BY FrontIs
  <1>0. /\ q.waiting \in SUBSET Holder /\ h \in Holder /\ R \in SUBSET Holder /\ G \in SUBSET Holder
        /\ q.need \in [Holder -> SUBSET Pool] /\ q.need[h] \in SUBSET Pool
        /\ h \notin R /\ S = R \cup {h}
        /\ q.held \in [Pool -> Nat] /\ foreign \in [Pool -> Nat]
    BY <1>a DEF QueueSound, TypeOK
  <1>1. \A p \in Pool : Claims(R \cap G, q.need, p) \in Nat
    BY <1>0, ClaimsType
  <1>2. PICK acc : acc = Known(R, G, q)
    OBVIOUS
  <1>3. /\ acc.held = [p \in Pool |-> q.held[p] + foreign[p] + Claims(R \cap G, q.need, p)]
        /\ acc.reserved = {p \in Pool : \E k \in R \ G : p \in q.need[k] /\ age[k] >= Aging}
        /\ acc.granted = R \cap G
    BY <1>2 DEF Known
  <1>4. \A p \in q.need[h] : /\ acc.held[p] = InUse(h, p, G, q)
                             /\ p \in acc.reserved <=> Reserved(h, p, G, q)
    BY <1>a, <1>0, <1>3 DEF InUse, Reserved
  <1>5. h \in G <=> h \notin refused /\ \A p \in q.need[h] : p \notin acc.reserved /\ acc.held[p] < q.capacity[p]
    BY <1>a, <1>4 DEF IsWalk, Fits
  <1>6. CASE h \in G
    <2>1. S \cap G = (R \cap G) \cup {h} /\ S \ G = R \ G /\ (R \cap G) \cap {h} = {}
      BY <1>0, <1>6
    <2>2. \A p \in Pool : Claims(S \cap G, q.need, p) = Claims(R \cap G, q.need, p) + Claims({h}, q.need, p)
      <3>1. R \cap G \in SUBSET Holder /\ {h} \in SUBSET Holder
        BY <1>0
      <3>2. \A p \in Pool : Claims((R \cap G) \cup {h}, q.need, p)
                                = Claims(R \cap G, q.need, p) + Claims({h}, q.need, p)
        <4>1. PICK A, B : A = R \cap G /\ B = {h}
          OBVIOUS
        <4>2. A \in SUBSET Holder /\ B \in SUBSET Holder /\ A \cap B = {}
          BY <2>1, <3>1, <4>1
        <4>3. \A p \in Pool : Claims(A \cup B, q.need, p) = Claims(A, q.need, p) + Claims(B, q.need, p)
          BY <1>0, <4>2, ClaimsUnion
        <4> QED
          BY <4>1, <4>3
      <3> QED
        BY <2>1, <3>2, Zenon
    <2>3. \A p \in Pool : Claims({h}, q.need, p) = IF p \in q.need[h] THEN 1 ELSE 0
      BY <1>0, ClaimsOne
    <2>4. \A p \in Pool : acc.held[p] + (IF p \in q.need[h] THEN 1 ELSE 0)
                             = q.held[p] + foreign[p] + Claims(S \cap G, q.need, p)
      <3> SUFFICES ASSUME NEW p \in Pool
                   PROVE  acc.held[p] + (IF p \in q.need[h] THEN 1 ELSE 0)
                             = q.held[p] + foreign[p] + Claims(S \cap G, q.need, p)
        OBVIOUS
      <3>1. acc.held[p] = q.held[p] + foreign[p] + Claims(R \cap G, q.need, p)
        BY <1>3
      <3>2. q.held[p] \in Nat /\ foreign[p] \in Nat /\ Claims(R \cap G, q.need, p) \in Nat
        BY <1>0, <1>1
      <3>3. PICK one \in Nat : one = IF p \in q.need[h] THEN 1 ELSE 0
        OBVIOUS
      <3>4. Claims(S \cap G, q.need, p) = Claims(R \cap G, q.need, p) + one
        BY <2>2, <2>3, <3>3
      <3>5. acc.held[p] + one = q.held[p] + foreign[p] + Claims(S \cap G, q.need, p)
        BY <3>1, <3>2, <3>4
      <3> QED
        BY <3>3, <3>5
    <2>5. AfterOne(acc, h, refused, q)
             = [held |-> [p \in Pool |-> acc.held[p] + (IF p \in q.need[h] THEN 1 ELSE 0)],
                reserved |-> acc.reserved, granted |-> acc.granted \cup {h}]
      BY <1>5, <1>6 DEF AfterOne
    <2>6. acc.granted \cup {h} = S \cap G
          /\ acc.reserved = {p \in Pool : \E k \in S \ G : p \in q.need[k] /\ age[k] >= Aging}
      BY <1>3, <2>1
    <2> QED
      BY <1>2, <2>4, <2>5, <2>6 DEF Known
  <1>7. CASE h \notin G
    <2>1. S \cap G = R \cap G /\ S \ G = (R \ G) \cup {h}
      BY <1>0, <1>7
    <2>2. AfterOne(acc, h, refused, q)
             = [held |-> acc.held, granted |-> acc.granted,
                reserved |-> acc.reserved \cup (IF age[h] >= Aging THEN q.need[h] ELSE {})]
      BY <1>5, <1>7 DEF AfterOne
    <2>3. acc.reserved \cup (IF age[h] >= Aging THEN q.need[h] ELSE {})
             = {p \in Pool : \E k \in S \ G : p \in q.need[k] /\ age[k] >= Aging}
      BY <1>0, <1>3, <2>1
    <2>4. acc.granted = S \cap G
          /\ acc.held = [p \in Pool |-> q.held[p] + foreign[p] + Claims(S \cap G, q.need, p)]
      BY <1>3, <2>1
    <2> QED
      BY <1>2, <2>2, <2>3, <2>4 DEF Known
  <1> QED
    BY <1>6, <1>7

\* What the walk grants is what the loop grants.
LEMMA LoopIs ==
    ASSUME TypeOK, NEW q, QueueSound(q), NEW refused, NEW G \in SUBSET q.waiting, IsWalk(G, refused, q)
    PROVE  LoopGrants(refused, q) = G
  <1> DEFINE Is(f) == f = [S \in Fronts(q) |->
                              IF S = {} THEN [held |-> [p \in Pool |-> q.held[p] + foreign[p]],
                                              reserved |-> {}, granted |-> {}]
                              ELSE AfterOne(f[S \ {LastOf(S, q)}], LastOf(S, q), refused, q)]
  <1>1. ASSUME NEW S \in Fronts(q), S # {}
        PROVE  /\ S \ {LastOf(S, q)} \in Fronts(q)
               /\ AfterOne(Known(S \ {LastOf(S, q)}, G, q), LastOf(S, q), refused, q) = Known(S, G, q)
    BY <1>1, FrontIs, KnownAfterOne
  <1>2. \E f : Is(f)
    <2>1. PICK f : f = [S \in Fronts(q) |-> Known(S, G, q)]
      OBVIOUS
    <2>2. ASSUME NEW S \in Fronts(q)
          PROVE  Known(S, G, q) = IF S = {} THEN [held |-> [p \in Pool |-> q.held[p] + foreign[p]],
                                                  reserved |-> {}, granted |-> {}]
                                  ELSE AfterOne(f[S \ {LastOf(S, q)}], LastOf(S, q), refused, q)
      <3>1. CASE S = {}
        BY <3>1, NothingKnown
      <3>2. CASE S # {}
        BY <1>1, <2>1, <3>2
      <3> QED
        BY <3>1, <3>2
    <2>3. Is(f)
      BY <2>1, <2>2, Zenon
    <2> QED
      BY <2>3
  <1>3. PICK u : u = CHOOSE f : Is(f)
    OBVIOUS
  <1>4. Is(u)
    <2> HIDE DEF Is
    <2> QED
      BY <1>2, <1>3
  <1>5. LoopGrants(refused, q) = u[q.waiting].granted
    BY <1>3 DEF LoopGrants
  <1> DEFINE T == {S \in Fronts(q) : u[S] = Known(S, G, q)}
  <1>6. ASSUME NEW S \in Fronts(q), S = {} \/ S \ {LastOf(S, q)} \in T
        PROVE  S \in T
    <2>1. CASE S = {}
      <3>1. u[S] = [held |-> [p \in Pool |-> q.held[p] + foreign[p]], reserved |-> {}, granted |-> {}]
        BY <1>4, <2>1
      <3> QED
        BY <2>1, <3>1, NothingKnown
    <2>2. CASE S # {}
      <3>1. u[S] = AfterOne(u[S \ {LastOf(S, q)}], LastOf(S, q), refused, q)
        BY <1>4, <2>2
      <3>2. u[S \ {LastOf(S, q)}] = Known(S \ {LastOf(S, q)}, G, q)
        BY <1>6, <2>2
      <3> QED
        BY <1>1, <2>2, <3>1, <3>2
    <2> QED
      BY <2>1, <2>2
  <1>7. q.waiting \in T
    <2>1. Fronts(q) \subseteq T
      <3> HIDE DEF T, Is
      <3> QED
        BY <1>6, FrontByFront
    <2> HIDE DEF T
    <2> QED
      BY <2>1 DEF Fronts
  <1>8. u[q.waiting].granted = q.waiting \cap G
    BY <1>7 DEF Known
  <1> QED
    BY <1>5, <1>8

\* Whatever the queue an operation leaves to `#pump`, and whatever the machine
\* refuses: the walk grants whom the loop grants, and nobody else.
THEOREM WalksAreLoops == Spec => []WalkIsTheLoop
  <1>1. ASSUME PoolInv, NEW q \in Queues PROVE QueueSound(q)
    <2>1. Handed(q)
      BY <1>1, QueueHanded, ArrivalHanded, ReturnHanded, GrowthHanded DEF Queues
    <2> QED
      BY <2>1 DEF Handed
  <1>2. ASSUME PoolInv, NEW q \in Queues, NEW refused
        PROVE  {G \in SUBSET q.waiting : IsWalk(G, refused, q)} = {LoopGrants(refused, q)}
    <2>1. TypeOK /\ QueueSound(q)
      BY <1>1, <1>2 DEF PoolInv
    <2>2. PICK G \in SUBSET q.waiting : IsWalk(G, refused, q)
      BY <2>1, WalkExists
    <2>3. LoopGrants(refused, q) = G
      BY <2>1, <2>2, LoopIs
    <2>4. \A H \in SUBSET q.waiting : IsWalk(H, refused, q) => H = G
      BY <2>1, <2>2, WalkIsOne
    <2> QED
      BY <2>2, <2>3, <2>4
  <1>3. PoolInv => WalkIsTheLoop
    BY <1>2 DEF WalkIsTheLoop
  <1> QED
    BY <1>3, InitInv, NextInv, PTL DEF Spec

----------------------------------------------------------------------------
(* The machine slots that a pool of HostPool takes too: what `foreign` above *)
(* stands for, one system call at a time.                                   *)

\* A dead run does nothing and holds nothing.
Dead ==
    \A p \in Proc :
        /\ pc[p] = "dead" <=> p \notin alive
        /\ p \notin alive => \A s \in Slots : holds[p][s] = 0

\* A file that is there was made by a run.
Created == \A s \in Slots : text[s] # "absent" => owner[s] \in Proc

\* A run in tryTake has room for the lease it is after.
Trying ==
    \A p \in Proc : pc[p] \in {"create", "write", "read", "judge", "unlink", "recreate"} =>
        \A s \in Slots : holds[p][s] < MaxHold

\* The file a run is about to write is its own, and so is the one it removes,
\* of a lease that it has let go.
OwnFile ==
    \A p \in Proc : at[p] \notin robbed =>
        /\ pc[p] = "write" => text[at[p]] = "half" /\ owner[at[p]] = p
        /\ pc[p] = "remove" => text[at[p]] = "full" /\ owner[at[p]] = p /\ holds[p][at[p]] = 0

\* Who still has the file it read is judging it, or about to unlink it.
StillThere == \A p \in same : pc[p] \in {"judge", "unlink"} /\ text[at[p]] # "absent"

\* What was read is still so when it is judged, and what was judged stale is
\* nobody's when it is unlinked, for who still has the file it read.
StillStale ==
    \A p \in same : at[p] \notin robbed =>
        /\ pc[p] = "judge" /\ seen[p] # NoProc => text[at[p]] = "full" /\ owner[at[p]] = seen[p]
        /\ pc[p] = "unlink" => owner[at[p]] \notin alive

\* The inductive invariant: the property, and what every run relies on between
\* two of its system calls.
SlotInv ==
    /\ HSTypeOK /\ FilesAreLeases
    /\ Dead /\ Created /\ Trying /\ OwnFile /\ StillThere /\ StillStale

----------------------------------------------------------------------------

\* A file that is not readable has no live owner but one about to write it.
LEMMA Unreadable ==
    ASSUME SlotInv, NEW s \in Slots \ robbed, text[s] \in {"half", "old"}, owner[s] \in alive
    PROVE  text[s] = "half" /\ pc[owner[s]] = "write" /\ at[owner[s]] = s
  <1>1. owner[s] \in Proc
    BY DEF SlotInv, Created
  <1>2. holds[owner[s]][s] = 0
    BY <1>1 DEF SlotInv, FilesAreLeases, HSTypeOK
  <1>3. pc[owner[s]] \in {"write", "remove"} /\ at[owner[s]] = s
    BY <1>2 DEF SlotInv, FilesAreLeases
  <1> QED
    BY <1>1, <1>3 DEF SlotInv, OwnFile

\* A run that goes on to the next slot, or gives up, stays within the slots.
LEMMA NextSlotType ==
    ASSUME HSTypeOK, NEW p \in Proc, NextSlot(p)
    PROVE  /\ pc' \in {[pc EXCEPT ![p] = "create"], [pc EXCEPT ![p] = "idle"]}
           /\ at' \in [Proc -> Slots]
           /\ \A q \in Proc \ {p} : at'[q] = at[q]
  <1>1. ASSUME at[p] + 1 < Capacity[p] PROVE at[p] + 1 \in Slots
    <2>1. Capacity[p] \in Nat
      BY CapacityType
    <2>2. at[p] \in Slots
      BY DEF HSTypeOK
    <2>3. PICK q \in Proc : at[p] \in 0 .. Capacity[q] - 1
      BY <2>2, SlotsType
    <2>4. Capacity[q] \in Nat
      BY CapacityType
    <2>5. at[p] + 1 \in 0 .. Capacity[p] - 1
      BY <1>1, <2>1, <2>3, <2>4
    <2> QED
      BY <2>5, SlotsType
  <1> QED
    BY <1>1 DEF NextSlot, Goto, HSTypeOK

LEMMA SlotInitInv ==
    ASSUME HSInit PROVE SlotInv
  <1>1. ASSUME NEW p \in Proc PROVE 0 \in Slots
    <2>1. Capacity[p] \in Nat \ {0}
      BY CapacityType
    <2>2. 0 \in 0 .. Capacity[p] - 1
      BY <2>1
    <2> QED
      BY <2>2, SlotsType
  <1>2. HSTypeOK
    BY <1>1, MaxHoldType DEF HSInit, HSTypeOK
  <1> QED
    BY <1>2, NoProcType DEF HSInit, SlotInv, FilesAreLeases, Dead,
                Created, Trying, OwnFile, StillThere, StillStale

----------------------------------------------------------------------------
(* A step at a time *)

\* Going on to the next slot touches no file: it is the end of whatever a run
\* was doing with the slot.
LEMMA OnwardInv ==
    ASSUME SlotInv, NEW p \in Proc, NextSlot(p), pc[p] \in {"recreate", "judge"},
           UNCHANGED <<text, owner, alive, holds, robbed>>, same' = same \ {p},
           seen' \in {seen, [seen EXCEPT ![p] = NoProc]}
    PROVE  SlotInv'
  <1>1. /\ pc' \in {[pc EXCEPT ![p] = "create"], [pc EXCEPT ![p] = "idle"]}
        /\ at' \in [Proc -> Slots]
        /\ \A q \in Proc \ {p} : at'[q] = at[q]
    BY NextSlotType DEF SlotInv
  <1>2. \A q \in Proc \ {p} : pc'[q] = pc[q] /\ seen'[q] = seen[q]
    BY <1>1 DEF SlotInv, HSTypeOK
  <1>3. pc'[p] \in {"create", "idle"}
    BY <1>1 DEF SlotInv, HSTypeOK
  <1>4. HSTypeOK' /\ same \subseteq Proc
    BY <1>1 DEF SlotInv, HSTypeOK
  <1>5. text' = text /\ owner' = owner /\ alive' = alive /\ holds' = holds /\ robbed' = robbed
    OBVIOUS
  <1>6. pc[p] \notin {"write", "remove", "dead"}
    OBVIOUS
  <1>7. FilesAreLeases'
    <2>1. ASSUME NEW s \in Slots \ robbed, text[s] # "absent", owner[s] \in alive
          PROVE  \/ holds[owner[s]][s] > 0
                 \/ pc'[owner[s]] \in {"write", "remove"} /\ at'[owner[s]] = s
      BY <1>1, <1>2, <1>6, <2>1 DEF SlotInv, FilesAreLeases, Created
    <2> QED
      BY <1>4, <1>5, <2>1 DEF SlotInv, FilesAreLeases
  <1>8. Dead' /\ Created' /\ Trying'
    BY <1>2, <1>3, <1>5, <1>6 DEF SlotInv, Dead, Created, Trying
  <1>9. OwnFile'
    BY <1>1, <1>2, <1>3, <1>5 DEF SlotInv, OwnFile
  <1>10. StillThere' /\ StillStale'
    BY <1>1, <1>2, <1>4, <1>5 DEF SlotInv, StillThere, StillStale
  <1> QED
    BY <1>4, <1>7, <1>8, <1>9, <1>10 DEF SlotInv

LEMMA BeginInv ==
    ASSUME SlotInv, NEW p \in Proc, Begin(p) PROVE SlotInv'
  <1>1. 0 \in Slots
    <2>1. Capacity[p] \in Nat \ {0}
      BY CapacityType
    <2>2. 0 \in 0 .. Capacity[p] - 1
      BY <2>1
    <2> QED
      BY <2>2, SlotsType
  <1>2. HSTypeOK' /\ p \notin same /\ same \subseteq Proc
    BY <1>1 DEF SlotInv, HSTypeOK, StillThere, Begin, Goto
  <1> QED
    BY <1>2 DEF SlotInv, HSTypeOK, Begin, Goto, FilesAreLeases, Dead, Created, Trying,
                OwnFile, StillThere, StillStale

LEMMA CreateInv ==
    ASSUME SlotInv, NEW p \in Proc, Create(p) PROVE SlotInv'
  <1> DEFINE s == at[p]
  <1>1. s \in Slots /\ p \in alive /\ p \notin same /\ same \subseteq Proc
    BY DEF SlotInv, HSTypeOK, Create, Dead, StillThere
  <1>2. CASE text[s] = "absent"
    <2> SUFFICES ASSUME /\ text' = [text EXCEPT ![s] = "half"]
                        /\ owner' = [owner EXCEPT ![s] = p]
                        /\ pc' = [pc EXCEPT ![p] = "write"]
                        /\ UNCHANGED <<at, alive, seen, holds, same, robbed>>
                 PROVE  SlotInv'
      BY <1>2 DEF Create, Goto
    <2>1. HSTypeOK'
      BY DEF SlotInv, HSTypeOK
    <2>2. FilesAreLeases'
      BY <1>1, <1>2, <2>1 DEF SlotInv, HSTypeOK, FilesAreLeases
    <2>3. (Dead /\ Created /\ Trying)'
      BY <1>1, <2>1 DEF SlotInv, HSTypeOK, Dead, Created, Trying, Create
    <2>4. OwnFile'
      BY <1>1, <1>2 DEF SlotInv, HSTypeOK, OwnFile
    <2>5. \A q \in same : q # p /\ at[q] # s /\ at[q] \in Slots
      BY <1>1, <1>2 DEF SlotInv, HSTypeOK, StillThere
    <2>6. (StillThere /\ StillStale)'
      BY <1>1, <2>5 DEF SlotInv, HSTypeOK, StillThere, StillStale
    <2> QED
      BY <2>1, <2>2, <2>3, <2>4, <2>6 DEF SlotInv
  <1>3. CASE text[s] # "absent" /\ pc[p] = "create"
    <2> SUFFICES ASSUME pc' = [pc EXCEPT ![p] = "read"],
                        UNCHANGED <<text, owner, at, alive, seen, holds, same, robbed>>
                 PROVE  SlotInv'
      BY <1>3 DEF Create, Goto
    <2>1. HSTypeOK' /\ FilesAreLeases'
      BY <1>3 DEF SlotInv, HSTypeOK, FilesAreLeases
    <2>2. (StillThere /\ StillStale)'
      BY <1>1 DEF SlotInv, HSTypeOK, StillThere, StillStale
    <2> QED
      BY <1>3, <2>1, <2>2 DEF SlotInv, HSTypeOK, Dead, Created, Trying, OwnFile
  <1>4. CASE text[s] # "absent" /\ pc[p] = "recreate"
    <2>1. NextSlot(p) /\ UNCHANGED <<text, owner, alive, seen, holds, same, robbed>>
      BY <1>4 DEF Create
    <2>2. same' = same \ {p}
      BY <1>1, <2>1
    <2> QED
      BY <1>4, <2>1, <2>2, OnwardInv
  <1> QED
    BY <1>2, <1>3, <1>4 DEF Create

\* A run writes what it created, where it is not robbed of it; there, nobody's
\* judgment stands.
LEMMA WriteInv ==
    ASSUME SlotInv, NEW p \in Proc, Write(p) PROVE SlotInv'
  <1> DEFINE s == at[p]
  <1>1. s \in Slots /\ p \in alive /\ holds[p][s] \in Nat /\ holds[p][s] < MaxHold /\ p \notin same
        /\ same \subseteq Proc
    BY MaxHoldType DEF SlotInv, HSTypeOK, Write, Dead, Trying, StillThere
  <1>2. s \notin robbed => text[s] = "half" /\ owner[s] = p /\ holds[p][s] = 0
    BY <1>1 DEF SlotInv, Write, OwnFile, FilesAreLeases
  <1>3. PICK n : n = holds[p][s] + 1
    OBVIOUS
  <1>4. holds' = [holds EXCEPT ![p] = [holds[p] EXCEPT ![s] = n]] /\ n \in 0 .. MaxHold
    BY <1>1, <1>3, MaxHoldType DEF SlotInv, HSTypeOK, Write
  <1>5. /\ text' \in [Slots -> {"absent", "half", "old", "full"}]
        /\ \A t \in Slots : t # s => text'[t] = text[t]
        /\ s \notin robbed => text'[s] = "full"
        /\ text'[s] = "absent" <=> text[s] = "absent"
        /\ holds'[p][s] = n
        /\ \A q \in Proc, t \in Slots : q # p \/ t # s => holds'[q][t] = holds[q][t]
        /\ pc' = [pc EXCEPT ![p] = "idle"]
        /\ UNCHANGED <<owner, alive, at, seen, same, robbed>>
    BY <1>1, <1>2, <1>4 DEF SlotInv, HSTypeOK, Write, Goto
  <1>6. HSTypeOK'
    BY <1>1, <1>4, <1>5 DEF SlotInv, HSTypeOK
  <1>7. FilesAreLeases'
    <2>1. ASSUME NEW q \in Proc, NEW t \in Slots \ robbed
          PROVE  holds'[q][t] > 0 => holds'[q][t] = 1 /\ text'[t] = "full" /\ owner'[t] = q
      <3>1. CASE t = s
        <4>1. text'[s] = "full" /\ owner'[s] = p /\ holds'[p][s] = 1
          BY <1>2, <1>3, <1>5, <3>1
        <4>2. q # p => holds'[q][s] = holds[q][s]
          BY <1>1, <1>5
        <4>3. holds[q][s] > 0 => owner[s] = q
          BY <2>1, <3>1 DEF SlotInv, FilesAreLeases
        <4> QED
          BY <1>2, <3>1, <4>1, <4>2, <4>3
      <3>2. CASE t # s
        BY <1>1, <1>5, <3>2 DEF SlotInv, HSTypeOK, FilesAreLeases
      <3> QED
        BY <3>1, <3>2
    <2>2. ASSUME NEW t \in Slots \ robbed, text'[t] # "absent", owner'[t] \in alive'
          PROVE  \/ holds'[owner'[t]][t] > 0
                 \/ pc'[owner'[t]] \in {"write", "remove"} /\ at'[owner'[t]] = t
      <3>1. CASE t = s
        BY <1>1, <1>2, <1>3, <1>5, <3>1
      <3>2. CASE t # s
        BY <1>1, <1>5, <2>2, <3>2 DEF SlotInv, HSTypeOK, FilesAreLeases, Created
      <3> QED
        BY <3>1, <3>2
    <2> QED
      BY <1>5, <1>6, <2>1, <2>2 DEF FilesAreLeases
  <1>8. Dead'
    BY <1>1, <1>5 DEF SlotInv, HSTypeOK, Dead
  <1>9. Created'
    BY <1>5 DEF SlotInv, Created
  <1>10. Trying'
    BY <1>5 DEF SlotInv, HSTypeOK, Trying
  <1>11. OwnFile'
    BY <1>1, <1>2, <1>5 DEF SlotInv, HSTypeOK, OwnFile
  <1>12. StillThere'
    BY <1>1, <1>5 DEF SlotInv, HSTypeOK, StillThere
  <1>13. StillStale'
    BY <1>1, <1>2, <1>5 DEF SlotInv, HSTypeOK, StillStale
  <1> QED
    BY <1>6, <1>7, <1>8, <1>9, <1>10, <1>11, <1>12, <1>13 DEF SlotInv

LEMMA ReadInv ==
    ASSUME SlotInv, NEW p \in Proc, Read(p) PROVE SlotInv'
  <1>1. at[p] \in Slots /\ (text[at[p]] = "full" => owner[at[p]] \in Proc) /\ same \subseteq Proc /\ p \notin same
    BY DEF SlotInv, HSTypeOK, Created, StillThere, Read
  <1>2. HSTypeOK'
    BY <1>1 DEF SlotInv, HSTypeOK, Read, Goto, PidIn
  <1>3. FilesAreLeases'
    BY <1>2 DEF SlotInv, HSTypeOK, Read, Goto, FilesAreLeases
  <1>4. (Dead /\ Created /\ Trying /\ OwnFile)'
    BY DEF SlotInv, HSTypeOK, Read, Goto, Dead, Created, Trying, OwnFile
  <1>5. /\ pc' = [pc EXCEPT ![p] = "judge"] /\ seen' = [seen EXCEPT ![p] = PidIn(at[p])]
        /\ UNCHANGED <<text, owner, at, alive, robbed>>
        /\ same' \subseteq same \cup {p} /\ (p \in same' => text[at[p]] # "absent")
    BY <1>1 DEF Read, Goto
  <1>6. StillThere'
    BY <1>1, <1>5 DEF SlotInv, HSTypeOK, StillThere
  <1>7. PidIn(at[p]) # NoProc => text[at[p]] = "full" /\ owner[at[p]] = PidIn(at[p])
    BY <1>1 DEF PidIn
  <1>8. StillStale'
    BY <1>1, <1>5, <1>7 DEF SlotInv, HSTypeOK, StillStale
  <1> QED
    BY <1>2, <1>3, <1>4, <1>6, <1>8 DEF SlotInv

LEMMA JudgeInv ==
    ASSUME SlotInv, NEW p \in Proc, Judge(p) PROVE SlotInv'
  <1> DEFINE s == at[p]
  <1>1. s \in Slots /\ same \subseteq Proc
    BY DEF SlotInv, HSTypeOK
  <1>2. CASE Valid(p)
    BY <1>2, OnwardInv DEF Judge, Valid
  <1>3. CASE /\ seen[p] \notin alive
             /\ seen[p] # NoProc \/ text[s] \notin {"half", "full"}
             /\ Goto(p, "unlink") /\ UNCHANGED <<at, same>>
    <2>1. p \in same /\ s \notin robbed => owner[s] \notin alive
      <3> SUFFICES ASSUME p \in same, s \notin robbed PROVE owner[s] \notin alive
        OBVIOUS
      <3>1. text[s] # "absent" /\ pc[p] = "judge"
        BY DEF SlotInv, StillThere, Judge
      <3>2. CASE seen[p] # NoProc
        BY <1>3, <3>1, <3>2 DEF SlotInv, StillStale
      <3>3. CASE text[s] \notin {"half", "full"}
        <4>1. text[s] = "old"
          BY <1>1, <3>1, <3>3 DEF SlotInv, HSTypeOK
        <4> QED
          BY <1>1, <4>1, Unreadable
      <3> QED
        BY <1>3, <3>2, <3>3
    <2>2. /\ pc' = [pc EXCEPT ![p] = "unlink"] /\ seen' = [seen EXCEPT ![p] = NoProc]
          /\ UNCHANGED <<text, owner, alive, at, holds, same, robbed>>
      BY <1>3 DEF Judge, Goto
    <2>3. HSTypeOK' /\ pc[p] = "judge"
      BY <2>2 DEF SlotInv, HSTypeOK, Judge
    <2>4. FilesAreLeases'
      BY <2>2, <2>3 DEF SlotInv, HSTypeOK, FilesAreLeases
    <2>5. (Dead /\ Created /\ Trying)'
      BY <2>2, <2>3 DEF SlotInv, HSTypeOK, Dead, Created, Trying
    <2>6. (OwnFile /\ StillThere)'
      BY <1>1, <2>2, <2>3 DEF SlotInv, HSTypeOK, OwnFile, StillThere
    <2>7. StillStale'
      BY <1>1, <2>1, <2>2, <2>3 DEF SlotInv, HSTypeOK, StillStale
    <2> QED
      BY <2>3, <2>4, <2>5, <2>6, <2>7 DEF SlotInv
  <1> QED
    BY <1>2, <1>3 DEF Judge

\* Whether the file belongs to a live run that it is robbed of, or to nobody.
LEMMA UnlinkInv ==
    ASSUME SlotInv, NEW p \in Proc, Unlink(p) PROVE SlotInv'
  <1> DEFINE s == at[p]
  <1>1. s \in Slots /\ pc[p] = "unlink" /\ same \subseteq Proc
    BY DEF SlotInv, HSTypeOK, Unlink
  <1>2. robbed \subseteq robbed' /\ robbed' \subseteq robbed \cup {s} /\ robbed' \subseteq Slots
    BY <1>1 DEF SlotInv, HSTypeOK, Unlink
  <1>3. s \notin robbed' => text[s] = "absent" \/ owner[s] \notin alive
    <2>1. CASE p \in same
      BY <1>1, <1>2, <2>1 DEF SlotInv, StillStale
    <2>2. CASE p \notin same
      BY <2>2 DEF Unlink
    <2> QED
      BY <2>1, <2>2
  <1>4. \A q \in Proc : q \notin alive => pc[q] = "dead"
    BY DEF SlotInv, Dead
  <1>5. s \notin robbed' => \A q \in Proc : holds[q][s] = 0
    BY <1>1, <1>2, <1>3 DEF SlotInv, HSTypeOK, FilesAreLeases, Dead
  <1>6. s \notin robbed' => \A q \in Proc : pc[q] \in {"write", "remove"} => at[q] # s
    BY <1>1, <1>2, <1>3, <1>4 DEF SlotInv, OwnFile
  <1>7. /\ text' = [text EXCEPT ![s] = "absent"] /\ owner' = [owner EXCEPT ![s] = NoProc]
        /\ same' = same \ {q \in Proc : at[q] = s}
    BY DEF Unlink, Gone
  <1>8. /\ alive' = alive /\ seen' = seen /\ holds' = holds
        /\ pc' \in {[pc EXCEPT ![p] = "create"], [pc EXCEPT ![p] = "idle"],
                    [pc EXCEPT ![p] = "recreate"]}
        /\ at' \in [Proc -> Slots]
        /\ \A q \in Proc \ {p} : at'[q] = at[q]
    <2>1. CASE NextSlot(p)
      BY <1>1, <2>1, NextSlotType DEF SlotInv, HSTypeOK, Unlink
    <2>2. CASE Goto(p, "recreate") /\ UNCHANGED at
      BY <2>2 DEF SlotInv, HSTypeOK, Unlink, Goto
    <2> QED
      BY <2>1, <2>2 DEF Unlink
  <1>9. pc'[p] \in {"create", "idle", "recreate"} /\ \A q \in Proc \ {p} : pc'[q] = pc[q]
    BY <1>8 DEF SlotInv, HSTypeOK
  <1>10. HSTypeOK'
    BY <1>2, <1>7, <1>8 DEF SlotInv, HSTypeOK
  <1>11. FilesAreLeases'
    <2>1. ASSUME NEW t \in Slots \ robbed', t # s, text[t] # "absent", owner[t] \in alive
          PROVE  \/ holds[owner[t]][t] > 0
                 \/ pc'[owner[t]] \in {"write", "remove"} /\ at'[owner[t]] = t
      BY <1>1, <1>2, <1>8, <1>9, <2>1 DEF SlotInv, FilesAreLeases, Created
    <2>2. ASSUME NEW t \in Slots \ robbed', NEW q \in Proc, holds[q][t] > 0
          PROVE  t # s /\ holds[q][t] = 1 /\ text[t] = "full" /\ owner[t] = q
      BY <1>1, <1>2, <1>5, <2>2 DEF SlotInv, FilesAreLeases
    <2> QED
      BY <1>1, <1>7, <1>8, <1>10, <2>1, <2>2 DEF SlotInv, HSTypeOK, FilesAreLeases
  <1>12. Dead' /\ Created' /\ Trying'
    BY <1>1, <1>7, <1>8, <1>9 DEF SlotInv, HSTypeOK, Dead, Created, Trying
  <1>13. OwnFile'
    BY <1>1, <1>2, <1>6, <1>7, <1>8, <1>9 DEF SlotInv, HSTypeOK, OwnFile
  <1>14. \A q \in same' : /\ q \in same /\ q # p /\ q \in Proc /\ at[q] \in Slots /\ at[q] # s
                          /\ at'[q] = at[q] /\ pc'[q] = pc[q]
                          /\ text'[at[q]] = text[at[q]] /\ owner'[at[q]] = owner[at[q]]
    BY <1>1, <1>7, <1>8, <1>9 DEF SlotInv, HSTypeOK
  <1>15. StillThere' /\ StillStale'
    BY <1>2, <1>8, <1>14 DEF SlotInv, StillThere, StillStale
  <1> QED
    BY <1>10, <1>11, <1>12, <1>13, <1>15 DEF SlotInv

LEMMA ReleaseInv ==
    ASSUME SlotInv, NEW p \in Proc, NEW s \in Slots, ReleaseSlot(p, s) PROVE SlotInv'
  <1>1. /\ s \notin robbed => text[s] = "full" /\ owner[s] = p /\ holds[p][s] = 1
        /\ p \in alive /\ pc[p] = "idle" /\ p \notin same /\ same \subseteq Proc
        /\ holds[p][s] > 0 /\ holds[p][s] \in 0 .. MaxHold
    BY DEF SlotInv, HSTypeOK, FilesAreLeases, Dead, StillThere, ReleaseSlot
  <1>2. PICK n : n = holds[p][s] - 1
    OBVIOUS
  <1>3. n \in 0 .. MaxHold /\ (s \notin robbed => n = 0)
    BY <1>1, <1>2, MaxHoldType
  <1>4. /\ holds' = [holds EXCEPT ![p] = [holds[p] EXCEPT ![s] = n]]
        /\ at' = [at EXCEPT ![p] = s]
        /\ pc' \in {[pc EXCEPT ![p] = "remove"], [pc EXCEPT ![p] = "idle"]}
        /\ s \notin robbed => pc' = [pc EXCEPT ![p] = "remove"]
        /\ UNCHANGED <<text, owner, alive, seen, same, robbed>>
    BY <1>1, <1>2 DEF SlotInv, HSTypeOK, ReleaseSlot, Goto, PidIn
  <1>5. /\ holds'[p][s] = n
        /\ \A q \in Proc, t \in Slots : q # p \/ t # s => holds'[q][t] = holds[q][t]
    BY <1>4 DEF SlotInv, HSTypeOK
  <1>6. HSTypeOK'
    BY <1>3, <1>4 DEF SlotInv, HSTypeOK
  <1>7. FilesAreLeases'
    <2>1. ASSUME NEW q \in Proc, NEW t \in Slots \ robbed
          PROVE  holds'[q][t] > 0 => holds'[q][t] = 1 /\ text[t] = "full" /\ owner[t] = q
      BY <1>3, <1>5 DEF SlotInv, FilesAreLeases
    <2>2. ASSUME NEW t \in Slots \ robbed, text[t] # "absent", owner[t] \in alive
          PROVE  \/ holds'[owner[t]][t] > 0
                 \/ pc'[owner[t]] \in {"write", "remove"} /\ at'[owner[t]] = t
      <3>1. CASE t = s
        BY <1>1, <1>4, <3>1 DEF SlotInv, HSTypeOK
      <3>2. CASE t # s
        BY <1>1, <1>4, <1>5, <2>2, <3>2 DEF SlotInv, HSTypeOK, FilesAreLeases, Created
      <3> QED
        BY <3>1, <3>2
    <2> QED
      BY <1>4, <1>6, <2>1, <2>2 DEF FilesAreLeases
  <1>8. Dead' /\ Created'
    BY <1>1, <1>4, <1>5 DEF SlotInv, HSTypeOK, Dead, Created
  <1>9. Trying'
    <2>1. \A q \in Proc : pc'[q] \in {"create", "write", "read", "judge", "unlink", "recreate"} =>
              q # p /\ pc'[q] = pc[q]
      BY <1>4 DEF SlotInv, HSTypeOK
    <2> QED
      BY <1>5, <2>1 DEF SlotInv, Trying
  <1>10. OwnFile'
    <2>1. ASSUME NEW q \in Proc \ {p} PROVE pc'[q] = pc[q] /\ at'[q] = at[q] /\ \A t \in Slots : holds'[q][t] = holds[q][t]
      BY <1>4, <1>5 DEF SlotInv, HSTypeOK
    <2>2. at'[p] = s /\ pc'[p] \in {"remove", "idle"} /\ \A q \in Proc : at[q] \in Slots
      BY <1>4 DEF SlotInv, HSTypeOK
    <2> QED
      BY <1>1, <1>3, <1>4, <1>5, <2>1, <2>2 DEF SlotInv, OwnFile
  <1>11. StillThere' /\ StillStale'
    <2>1. \A q \in same : pc'[q] = pc[q] /\ at'[q] = at[q]
      BY <1>1, <1>4 DEF SlotInv, HSTypeOK
    <2> QED
      BY <1>4, <2>1 DEF SlotInv, StillThere, StillStale
  <1> QED
    BY <1>6, <1>7, <1>8, <1>9, <1>10, <1>11 DEF SlotInv

LEMMA RemoveInv ==
    ASSUME SlotInv, NEW p \in Proc, Remove(p) PROVE SlotInv'
  <1> DEFINE s == at[p]
  <1>1. /\ s \in Slots /\ p \in alive /\ pc[p] = "remove" /\ same \subseteq Proc
        /\ s \notin robbed => text[s] = "full" /\ owner[s] = p /\ holds[p][s] = 0
    BY DEF SlotInv, HSTypeOK, OwnFile, Dead, Remove
  <1>2. s \notin robbed => \A q \in Proc : holds[q][s] = 0
    BY <1>1 DEF SlotInv, HSTypeOK, FilesAreLeases
  <1>3. /\ text' = [text EXCEPT ![s] = "absent"] /\ owner' = [owner EXCEPT ![s] = NoProc]
        /\ same' = same \ {q \in Proc : at[q] = s}
        /\ pc' = [pc EXCEPT ![p] = "idle"]
        /\ UNCHANGED <<alive, at, seen, holds, robbed>>
    BY DEF Remove, Gone, Goto
  <1>4. HSTypeOK'
    BY <1>3 DEF SlotInv, HSTypeOK
  <1>5. FilesAreLeases'
    <2>1. NoProc \notin Proc
      BY NoProcType
    <2> QED
      BY <1>1, <1>2, <1>3, <1>4, <2>1 DEF SlotInv, HSTypeOK, FilesAreLeases
  <1>6. (Dead /\ Created /\ Trying)'
    BY <1>1, <1>3 DEF SlotInv, HSTypeOK, Dead, Created, Trying
  <1>7. OwnFile'
    BY <1>1, <1>3 DEF SlotInv, HSTypeOK, OwnFile
  <1>8. \A q \in same' : /\ q \in same /\ at[q] # s /\ at[q] \in Slots /\ q \in Proc
                         /\ text'[at[q]] = text[at[q]] /\ owner'[at[q]] = owner[at[q]]
    BY <1>1, <1>3 DEF SlotInv, HSTypeOK
  <1>9. StillThere' /\ StillStale'
    BY <1>1, <1>3, <1>8 DEF SlotInv, HSTypeOK, StillThere, StillStale
  <1> QED
    BY <1>4, <1>5, <1>6, <1>7, <1>9 DEF SlotInv

LEMMA CrashInv ==
    ASSUME SlotInv, NEW p \in Proc, Crash(p) PROVE SlotInv'
  <1>1. HSTypeOK'
    <2>1. [s \in Slots |-> 0] \in [Slots -> 0 .. MaxHold]
      BY MaxHoldType
    <2> QED
      BY <2>1 DEF SlotInv, HSTypeOK, Crash, Goto
  <1>2. /\ \A s \in Slots : holds'[p][s] = 0
        /\ \A q \in Proc \ {p} : holds'[q] = holds[q] /\ pc'[q] = pc[q] /\ seen'[q] = seen[q]
        /\ pc'[p] = "dead" /\ alive' = alive \ {p} /\ same' = same \ {p} /\ same \subseteq Proc
        /\ UNCHANGED <<text, owner, at, robbed>>
    BY DEF SlotInv, HSTypeOK, Crash, Goto
  <1>3. FilesAreLeases'
    BY <1>1, <1>2 DEF SlotInv, FilesAreLeases, Created
  <1>4. Dead' /\ Created' /\ Trying'
    BY <1>2 DEF SlotInv, Dead, Created, Trying
  <1>5. OwnFile' /\ StillThere' /\ StillStale'
    BY <1>2 DEF SlotInv, OwnFile, StillThere, StillStale
  <1> QED
    BY <1>1, <1>3, <1>4, <1>5 DEF SlotInv

LEMMA GrowOldInv ==
    ASSUME SlotInv, NEW s \in Slots, GrowOld(s) PROVE SlotInv'
  <1>1. text[s] = "half" /\ (s \notin robbed => owner[s] \notin alive) /\ same \subseteq Proc
    BY Unreadable DEF GrowOld, SlotInv, HSTypeOK
  <1>2. text' = [text EXCEPT ![s] = "old"] /\ UNCHANGED <<owner, alive, pc, at, seen, holds, same, robbed>>
    BY DEF GrowOld
  <1>3. HSTypeOK'
    BY <1>2 DEF SlotInv, HSTypeOK
  <1>4. FilesAreLeases'
    BY <1>1, <1>2, <1>3 DEF SlotInv, HSTypeOK, FilesAreLeases
  <1>5. (Dead /\ Created /\ Trying)'
    BY <1>1, <1>2 DEF SlotInv, HSTypeOK, Dead, Created, Trying
  <1>6. OwnFile'
    BY <1>1, <1>2 DEF SlotInv, HSTypeOK, OwnFile, Dead
  <1>7. (StillThere /\ StillStale)'
    BY <1>1, <1>2 DEF SlotInv, HSTypeOK, StillThere, StillStale
  <1> QED
    BY <1>3, <1>4, <1>5, <1>6, <1>7 DEF SlotInv

LEMMA StutterInv ==
    ASSUME SlotInv, UNCHANGED HSvars PROVE SlotInv'
  BY DEF HSvars, SlotInv, HSTypeOK, FilesAreLeases, Dead, Created, Trying,
         OwnFile, StillThere, StillStale

LEMMA SlotNextInv ==
    ASSUME SlotInv, [HSNext]_HSvars PROVE SlotInv'
  <1>1. ASSUME NEW p \in Proc, Call(p) PROVE SlotInv'
    BY <1>1, CreateInv, WriteInv, ReadInv, JudgeInv, UnlinkInv, RemoveInv DEF Call
  <1> QED
    BY <1>1, BeginInv, ReleaseInv, CrashInv, GrowOldInv, StutterInv DEF HSNext

----------------------------------------------------------------------------

\* However many runs share the machine, of whatever idea of a pool's capacity,
\* wherever they die and however their system calls interleave: a slot has one
\* holder, its file says who, and none is lost to a run that lives, until a run at
\* the stale check unlinks a live run's file that is not the one it read
\* (`tryTake`, `#stale` and `release`): there is no other way to share a slot.
THEOREM SlotsAreExclusive == HSSpec => []FilesAreLeases
  <1>1. SlotInv /\ [HSNext]_HSvars => SlotInv'
    BY SlotNextInv
  <1>2. SlotInv => FilesAreLeases
    BY DEF SlotInv
  <1> QED
    BY <1>1, <1>2, SlotInitInv, PTL DEF HSSpec

----------------------------------------------------------------------------
(* The slots as the pools of one run see them *)

\* A run is at slots of its own pool, and holds no others.
InPool ==
    \A p \in Proc :
        /\ pc[p] \in {"create", "write", "read", "judge", "unlink", "recreate"} => at[p] < Capacity[p]
        /\ \A s \in Slots : holds[p][s] > 0 => s < Capacity[p]

LEMMA NextSlotInPool ==
    ASSUME HSTypeOK, InPool, NEW p \in Proc, NextSlot(p), UNCHANGED holds, at[p] < Capacity[p]
    PROVE  InPool'
  <1>1. at[p] \in Nat /\ Capacity[p] \in Nat
    <2>1. PICK q \in Proc : at[p] \in 0 .. Capacity[q] - 1
      BY SlotsType DEF HSTypeOK
    <2> QED
      BY <2>1, CapacityType
  <1>2. CASE at[p] + 1 < Capacity[p]
    <2>1. pc' = [pc EXCEPT ![p] = "create"] /\ at' = [at EXCEPT ![p] = @ + 1]
      BY <1>2 DEF NextSlot, Goto
    <2> QED
      BY <1>2, <2>1 DEF InPool, HSTypeOK
  <1>3. CASE ~(at[p] + 1 < Capacity[p])
    BY <1>3 DEF NextSlot, Goto, InPool, HSTypeOK
  <1> QED
    BY <1>2, <1>3

LEMMA InPoolStep ==
    ASSUME HSTypeOK, InPool, [HSNext]_HSvars
    PROVE  InPool'
  <1>1. ASSUME NEW p \in Proc, Begin(p) PROVE InPool'
    <2>1. 0 < Capacity[p]
      BY CapacityType
    <2> QED
      BY <1>1, <2>1 DEF Begin, Goto, InPool, HSTypeOK
  <1>2. ASSUME NEW p \in Proc, Create(p) PROVE InPool'
    <2>1. CASE NextSlot(p)
      BY <1>2, <2>1, NextSlotInPool DEF Create, InPool
    <2>2. CASE Goto(p, "write") /\ UNCHANGED at
      BY <1>2, <2>2 DEF Create, Goto, InPool, HSTypeOK
    <2>3. CASE Goto(p, "read") /\ UNCHANGED at
      BY <1>2, <2>3 DEF Create, Goto, InPool, HSTypeOK
    <2> QED
      BY <1>2, <2>1, <2>2, <2>3 DEF Create
  <1>3. ASSUME NEW p \in Proc, Write(p) PROVE InPool'
    BY <1>3 DEF Write, Goto, InPool, HSTypeOK
  <1>4. ASSUME NEW p \in Proc, Read(p) PROVE InPool'
    BY <1>4 DEF Read, Goto, InPool, HSTypeOK
  <1>5. ASSUME NEW p \in Proc, Judge(p) PROVE InPool'
    <2>1. CASE NextSlot(p)
      BY <1>5, <2>1, NextSlotInPool DEF Judge, InPool
    <2>2. CASE Goto(p, "unlink") /\ UNCHANGED at
      BY <1>5, <2>2 DEF Judge, Goto, InPool, HSTypeOK
    <2> QED
      BY <1>5, <2>1, <2>2 DEF Judge, Valid
  <1>6. ASSUME NEW p \in Proc, Unlink(p) PROVE InPool'
    <2>1. CASE NextSlot(p)
      BY <1>6, <2>1, NextSlotInPool DEF Unlink, InPool
    <2>2. CASE Goto(p, "recreate") /\ UNCHANGED at
      BY <1>6, <2>2 DEF Unlink, Goto, InPool, HSTypeOK
    <2> QED
      BY <1>6, <2>1, <2>2 DEF Unlink
  <1>7. ASSUME NEW p \in Proc, NEW s \in Slots, ReleaseSlot(p, s) PROVE InPool'
    BY <1>7 DEF ReleaseSlot, Goto, InPool, HSTypeOK
  <1>8. ASSUME NEW p \in Proc, Remove(p) PROVE InPool'
    BY <1>8 DEF Remove, Goto, InPool, HSTypeOK
  <1>9. ASSUME NEW p \in Proc, Crash(p) PROVE InPool'
    BY <1>9 DEF Crash, Goto, InPool, HSTypeOK
  <1>10. CASE (\E s \in Slots : GrowOld(s)) \/ UNCHANGED HSvars
    BY <1>10 DEF GrowOld, HSvars, InPool
  <1> QED
    BY <1>1, <1>2, <1>3, <1>4, <1>5, <1>6, <1>7, <1>8, <1>9, <1>10 DEF HSNext, Call

\* A slot that no run was robbed of has one holder, with one lease.
OneEach ==
    \A s \in Slots \ robbed, p, q \in Proc :
        holds[p][s] > 0 /\ holds[q][s] > 0 => p = q /\ holds[p][s] = 1

LEMMA SlotInvOneEach == SlotInv => HSTypeOK /\ OneEach
  BY DEF SlotInv, FilesAreLeases, OneEach

\* The run's own slots and the others' are apart, and of its pool.
LEMMA SlotsAreApart ==
    ASSUME HSTypeOK, OneEach, InPool
    PROVE  /\ Capacity[Me] - Cardinality(Theirs) \in Nat
           /\ Cardinality(Mine) <= Capacity[Me] - Cardinality(Theirs)
  <1>1. PICK all, mine, theirs : all = 0 .. Capacity[Me] - 1 /\ mine = Mine /\ theirs = Theirs
    OBVIOUS
  <1>2. Capacity[Me] \in Nat \ {0}
    BY CapacityType, MeType
  <1>3. IsFiniteSet(all) /\ Cardinality(all) = Capacity[Me]
    <2>1. PICK k \in Nat : k = Capacity[Me] - 1
      BY <1>2
    <2>2. PICK i \in Int : i = 0
      OBVIOUS
    <2>3. IsFiniteSet(i .. k) /\ Cardinality(i .. k) = IF i > k THEN 0 ELSE k - i + 1
      BY FS_Interval
    <2>4. i .. k = all /\ ~(i > k) /\ k - i + 1 = Capacity[Me]
      BY <1>1, <1>2, <2>1, <2>2
    <2> QED
      BY <2>3, <2>4
  <1>4. theirs \subseteq all
    BY <1>1 DEF Theirs
  <1>5. mine \subseteq all
    <2> SUFFICES ASSUME NEW s \in mine PROVE s \in all
      OBVIOUS
    <2>1. s \in Slots /\ s < Capacity[Me]
      BY <1>1, MeType DEF Mine, InPool
    <2>2. s \in Nat
      BY <2>1, SlotsType, CapacityType
    <2> QED
      BY <1>1, <1>2, <2>1, <2>2
  <1>6. mine \cap theirs = {}
    <2> SUFFICES ASSUME NEW s \in mine, s \in theirs PROVE FALSE
      OBVIOUS
    <2>1. s \in Slots \ robbed /\ holds[Me][s] > 0
      BY <1>1 DEF Mine
    <2>2. PICK p \in Proc \ {Me} : holds[p][s] > 0
      BY <1>1 DEF Theirs
    <2> QED
      BY <2>1, <2>2, MeType DEF OneEach
  <1>7. IsFiniteSet(mine) /\ IsFiniteSet(theirs)
    BY <1>3, <1>4, <1>5, FS_Subset
  <1>8. /\ Cardinality(mine) \in Nat /\ Cardinality(theirs) \in Nat
        /\ Cardinality(mine \cup theirs) = Cardinality(mine) + Cardinality(theirs) - Cardinality({})
        /\ Cardinality({}) = 0
    BY <1>6, <1>7, FS_Union, FS_CardinalityType, FS_EmptySet
  <1>9. Cardinality(mine \cup theirs) <= Cardinality(all)
    <2>1. mine \cup theirs \in SUBSET all
      BY <1>4, <1>5
    <2> QED
      BY <1>3, <2>1, FS_Subset
  <1>10. Cardinality(mine) + Cardinality(theirs) <= Capacity[Me]
    BY <1>3, <1>8, <1>9
  <1> QED
    BY <1>1, <1>2, <1>8, <1>10

\* The pool counts as the slots do.
LEMMA MachineCounts == \A S : MachinePool!Cardinality(S) = Cardinality(S)
  BY DEF MachinePool!Cardinality, Cardinality

Limit == [x \in {"machine"} |-> Capacity[Me] - Cardinality(Theirs)]
Need == [s \in Slots |-> {"machine"}]

\* The run's slots are a pool within its limit.
MachineSound == HSTypeOK /\ OneEach /\ InPool

LEMMA MineFits ==
    MachineSound => MachinePool!Within(Mine, Need, Limit) /\ Capacity[Me] - Cardinality(Theirs) \in Nat
  <1> SUFFICES ASSUME HSTypeOK, OneEach, InPool
               PROVE  MachinePool!Within(Mine, Need, Limit) /\ Capacity[Me] - Cardinality(Theirs) \in Nat
    BY DEF MachineSound
  <1>1. {h \in Mine : "machine" \in Need[h]} = Mine
    BY DEF Mine, Need
  <1>2. Limit["machine"] = Capacity[Me] - Cardinality(Theirs)
    BY DEF Limit
  <1> QED
    BY <1>1, <1>2, SlotsAreApart, MachineCounts DEF MachinePool!Within

\* A slot more for the run: it asks, and has it.
LEMMA RunTakes ==
    ASSUME MachineSound', NEW s \in Slots, s \notin Mine,
           Mine' = Mine \cup {s}, Theirs' = Theirs
    PROVE  MachinePool!Ask(s, {"machine"})
  <1>1. MachinePool!Within(Mine, Need, Limit)'
    <2>1. (MachineSound => MachinePool!Within(Mine, Need, Limit) /\ Capacity[Me] - Cardinality(Theirs) \in Nat)'
      BY MineFits, PTL
    <2> QED
      BY <2>1
  <1>2. MachinePool!Within(Mine \cup {s}, Need, Limit)
    BY <1>1 DEF MachinePool!Within, Need, Limit
  <1>3. [Need EXCEPT ![s] = {"machine"}] = Need
    BY DEF Need
  <1>4. Limit' = Limit
    BY DEF Limit
  <1>5. MachinePool!Settle({s}, [h \in Slots |-> {}], Need, Mine, Limit)
    <2>1. /\ {s} \in SUBSET {s}
          /\ \A k \in {s} : \A h \in [w \in Slots |-> {}][k] \ {s} :
                Need[h] \cap {"machine"} # {} \/ ~(Need[h] \subseteq Need[k])
          /\ {} = {s} \ {s}
          /\ [h \in Slots |-> {}] = [h \in Slots |-> IF h \in {s} \ {s} THEN [w \in Slots |-> {}][h] \ {s} ELSE {}]
      OBVIOUS
    <2>2. MachinePool!FrontIsServed'
      BY DEF MachinePool!FrontIsServed
    <2> QED
      BY <1>2, <1>4, <2>1, <2>2 DEF MachinePool!Settle, Need, Limit
  <1> QED
    BY <1>3, <1>5 DEF MachinePool!Ask, Need, Limit

\* Slots fewer for the run: it returns them.
LEMMA RunGives ==
    ASSUME MachineSound', Mine' \subseteq Mine, Mine' # Mine, Theirs' = Theirs
    PROVE  \E R \in SUBSET Mine : MachinePool!Return(R, {})
  <1>1. MachinePool!Within(Mine, Need, Limit)'
    <2>1. (MachineSound => MachinePool!Within(Mine, Need, Limit) /\ Capacity[Me] - Cardinality(Theirs) \in Nat)'
      BY MineFits, PTL
    <2> QED
      BY <2>1
  <1>2. Limit' = Limit
    BY DEF Limit
  <1>3. PICK R : R = Mine \ Mine'
    OBVIOUS
  <1>4. R # {} /\ R \in SUBSET Mine /\ Mine' = Mine \ R
    BY <1>3
  <1>5. MachinePool!Settle({}, [h \in Slots |-> {}], Need, Mine \ R, Limit)
    <2>1. MachinePool!Within((Mine \ R) \cup {}, Need, Limit)
      BY <1>1, <1>2, <1>4 DEF MachinePool!Within, Need
    <2>2. MachinePool!FrontIsServed'
      BY DEF MachinePool!FrontIsServed
    <2> QED
      BY <1>2, <1>4, <2>1, <2>2 DEF MachinePool!Settle, Need, Limit
  <1>6. MachinePool!Without({}) = [h \in Slots |-> {}]
    BY DEF MachinePool!Without
  <1> QED
    BY <1>4, <1>5, <1>6 DEF MachinePool!Return, Need, Limit

\* Whatever the others do: they take what is free, or give back.
LEMMA OthersMove ==
    ASSUME MachineSound', Mine' = Mine
    PROVE  MachinePool!Others("machine")
  <1>1. MachinePool!Within(Mine, Need, Limit)'
    <2>1. (MachineSound => MachinePool!Within(Mine, Need, Limit) /\ Capacity[Me] - Cardinality(Theirs) \in Nat)'
      BY MineFits, PTL
    <2> QED
      BY <2>1
  <1>2. (Capacity[Me] - Cardinality(Theirs) \in Nat)'
    <2>1. (MachineSound => MachinePool!Within(Mine, Need, Limit) /\ Capacity[Me] - Cardinality(Theirs) \in Nat)'
      BY MineFits, PTL
    <2> QED
      BY <2>1
  <1>3. Limit'["machine"] \in Nat /\ Limit' = [Limit EXCEPT !["machine"] = Limit'["machine"]]
    BY <1>2 DEF Limit
  <1>4. MachinePool!Within(Mine, Need, Limit')
    BY <1>1 DEF MachinePool!Within, Need
  <1> QED
    BY <1>3, <1>4 DEF MachinePool!Others, Need, Limit

\* A step of the machine is a step of the pool, or nothing to the run.
LEMMA StepIsShared ==
    ASSUME SlotInv, InPool, SlotInv', InPool', [HSNext]_HSvars
    PROVE  [MachinePool!Next]_(MachinePool!vars)
  <1>0. HSTypeOK /\ OneEach /\ MachineSound' /\ OneEach' /\ HSTypeOK'
    <2>1. (SlotInv => HSTypeOK /\ OneEach)'
      BY SlotInvOneEach, PTL
    <2> QED
      BY <2>1, SlotInvOneEach DEF MachineSound
  <1>1. CASE holds' = holds /\ robbed' = robbed
    <2>1. Mine' = Mine /\ Theirs' = Theirs
      BY <1>1 DEF Mine, Theirs
    <2> QED
      BY <2>1 DEF MachinePool!vars
  <1>2. ASSUME Mine' = Mine PROVE MachinePool!Next
    BY <1>0, <1>2, OthersMove DEF MachinePool!Next
  <1>3. ASSUME Mine' \subseteq Mine, Theirs' = Theirs PROVE MachinePool!Next
    <2>1. CASE Mine' # Mine
      <3>1. PICK R \in SUBSET Mine : MachinePool!Return(R, {})
        BY <1>0, <1>3, <2>1, RunGives
      <3> QED
        BY <3>1 DEF MachinePool!Next
    <2> QED
      BY <1>2, <2>1
  <1>4. ASSUME NEW p \in Proc, Write(p) PROVE MachinePool!Next
    <2>1. PICK s \in Slots : s = at[p] /\ holds' = [holds EXCEPT ![p][s] = @ + 1] /\ robbed' = robbed
      BY <1>0, <1>4 DEF Write, HSTypeOK
    <2>2. CASE p = Me
      <3>1. /\ holds'[Me][s] = holds[Me][s] + 1
            /\ \A t \in Slots \ {s} : holds'[Me][t] = holds[Me][t]
            /\ \A q \in Proc \ {Me} : holds'[q] = holds[q]
        BY <1>0, <2>1, <2>2 DEF HSTypeOK
      <3>2. Theirs' = Theirs
        BY <2>1, <3>1 DEF Theirs
      <3>3. CASE s \in robbed
        <4>1. Mine' = Mine
          BY <2>1, <3>1, <3>3 DEF Mine
        <4> QED
          BY <1>2, <4>1
      <3>4. CASE s \notin robbed
        <4>1. holds[Me][s] \in Nat /\ holds'[Me][s] > 0
          BY <1>0, <3>1, MeType, MaxHoldType DEF HSTypeOK
        <4>2. holds'[Me][s] = 1
          BY <1>0, <2>1, <3>4, <4>1, MeType DEF OneEach
        <4>3. holds[Me][s] = 0
          BY <3>1, <4>1, <4>2
        <4>4. s \notin Mine /\ Mine' = Mine \cup {s}
          BY <2>1, <3>1, <3>4, <4>1, <4>3 DEF Mine
        <4>5. MachinePool!Ask(s, {"machine"})
          BY <1>0, <3>2, <4>4, RunTakes
        <4> QED
          BY <4>5 DEF MachinePool!Next
      <3> QED
        BY <3>3, <3>4
    <2>3. CASE p # Me
      <3>1. holds'[Me] = holds[Me]
        BY <1>0, <2>1, <2>3, MeType DEF HSTypeOK
      <3> QED
        BY <1>2, <2>1, <3>1 DEF Mine
    <2> QED
      BY <2>2, <2>3
  <1>5. ASSUME NEW p \in Proc, robbed' = robbed,
               \A q \in Proc \ {p} : holds'[q] = holds[q],
               \A s \in Slots : holds'[p][s] <= holds[p][s]
        PROVE  MachinePool!Next
    <2>1. CASE p = Me
      <3>1. Theirs' = Theirs
        BY <1>5, <2>1 DEF Theirs
      <3>2. \A s \in Slots : holds[Me][s] \in Nat /\ holds'[Me][s] \in Nat
        BY <1>0, MeType, MaxHoldType DEF HSTypeOK
      <3>3. Mine' \subseteq Mine
        BY <1>5, <2>1, <3>2 DEF Mine
      <3> QED
        BY <1>3, <3>1, <3>3
    <2>2. CASE p # Me
      <3>1. holds'[Me] = holds[Me]
        BY <1>5, <2>2, MeType
      <3> QED
        BY <1>2, <1>5, <3>1 DEF Mine
    <2> QED
      BY <2>1, <2>2
  <1>6. ASSUME NEW p \in Proc, NEW s \in Slots, ReleaseSlot(p, s) PROVE MachinePool!Next
    <2>1. holds' = [holds EXCEPT ![p][s] = @ - 1] /\ robbed' = robbed
      BY <1>6 DEF ReleaseSlot
    <2>2. \A t \in Slots : holds[p][t] \in Nat
      BY <1>0, MaxHoldType DEF HSTypeOK
    <2>3. \A q \in Proc \ {p} : holds'[q] = holds[q]
      BY <1>0, <2>1 DEF HSTypeOK
    <2>4. \A t \in Slots : holds'[p][t] <= holds[p][t]
      BY <1>0, <2>1, <2>2 DEF HSTypeOK
    <2> QED
      BY <1>5, <2>1, <2>3, <2>4
  <1>7. ASSUME NEW p \in Proc, Crash(p) PROVE MachinePool!Next
    <2>1. holds' = [holds EXCEPT ![p] = [s \in Slots |-> 0]] /\ robbed' = robbed
      BY <1>7 DEF Crash
    <2>2. \A t \in Slots : holds[p][t] \in Nat /\ holds'[p][t] = 0
      BY <1>0, <2>1, MaxHoldType DEF HSTypeOK
    <2>3. \A q \in Proc \ {p} : holds'[q] = holds[q]
      BY <1>0, <2>1 DEF HSTypeOK
    <2> QED
      BY <1>5, <2>1, <2>2, <2>3
  <1>8. ASSUME NEW p \in Proc, Unlink(p) PROVE [MachinePool!Next]_(MachinePool!vars)
    <2>1. PICK s : s = at[p] /\ holds' = holds /\ robbed' \in {robbed, robbed \cup {s}}
      BY <1>8 DEF Unlink
    <2>2. CASE robbed' = robbed
      BY <1>1, <2>1, <2>2
    <2>3. CASE robbed' = robbed \cup {s} /\ s \notin Mine
      <3>1. Mine' = Mine
        BY <2>1, <2>3 DEF Mine
      <3> QED
        BY <1>2, <3>1
    <2>4. CASE robbed' = robbed \cup {s} /\ s \in Mine
      <3>1. Mine' \subseteq Mine
        BY <2>1, <2>4 DEF Mine
      <3>2. s \in Slots \ robbed /\ holds[Me][s] > 0
        BY <2>4 DEF Mine
      <3>3. ~ \E q \in Proc \ {Me} : holds[q][s] > 0
        BY <1>0, <3>2, MeType DEF OneEach
      <3>4. Theirs' = Theirs
        BY <2>1, <2>4, <3>3 DEF Theirs
      <3> QED
        BY <1>3, <3>1, <3>4
    <2> QED
      BY <2>1, <2>2, <2>3, <2>4
  <1>9. CASE HSNext
    <2>1. PICK p \in Proc : \/ Begin(p) \/ Create(p) \/ Read(p) \/ Judge(p) \/ Remove(p)
                            \/ Write(p) \/ Unlink(p) \/ Crash(p)
                            \/ \E s \in Slots : ReleaseSlot(p, s) \/ GrowOld(s)
      BY <1>9, MeType DEF HSNext, Call
    <2>2. CASE Begin(p) \/ Create(p) \/ Read(p) \/ Judge(p) \/ Remove(p) \/ \E s \in Slots : GrowOld(s)
      <3>1. holds' = holds /\ robbed' = robbed
        BY <2>2 DEF Begin, Create, Read, Judge, Remove, GrowOld
      <3> QED
        BY <1>1, <3>1
    <2> QED
      BY <1>4, <1>6, <1>7, <1>8, <2>1, <2>2
  <1> QED
    BY <1>1, <1>9 DEF HSvars

\* However many runs share the machine, whatever each takes the capacity to be, and
\* wherever they die or judge a slot stale, the slots that no run was robbed of are
\* to each of them a pool that the others share (`tryTake` and `release`, as
\* `#hostSlotsFor` relies on them).  To be robbed of a slot is to lose it, at once
\* and whoever has it next.
THEOREM OneRunsSlots == HSSpec => SlotsAreShared
  <1>1. HSInit => InPool
    BY DEF HSInit, InPool
  <1>2. SlotInv /\ InPool /\ [HSNext]_HSvars => (SlotInv /\ InPool)'
    BY SlotNextInv, InPoolStep DEF SlotInv
  <1>3. SlotInv /\ InPool /\ SlotInv' /\ InPool' /\ [HSNext]_HSvars => [MachinePool!Next]_(MachinePool!vars)
    BY StepIsShared
  <1>4. HSInit /\ SlotInv /\ InPool => MachinePool!Init
    <2> SUFFICES ASSUME HSInit, SlotInv, InPool PROVE MachinePool!Init
      OBVIOUS
    <2>1. Mine = {}
      BY MeType DEF HSInit, Mine
    <2>2. Capacity[Me] - Cardinality(Theirs) \in Nat
      BY SlotsAreApart, SlotInvOneEach
    <2> QED
      BY <2>1, <2>2 DEF MachinePool!Init
  <1> QED
    BY <1>1, <1>2, <1>3, <1>4, SlotInitInv, PTL DEF HSSpec, SlotsAreShared, MachinePool!Spec
=============================================================================
