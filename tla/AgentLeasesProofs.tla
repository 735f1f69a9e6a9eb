------------------------- MODULE AgentLeasesProofs -------------------------
(***************************************************************************)
(* What AgentLeases guarantees for any number of sessions, requests, waits,  *)
(* other holders and slots.                                                  *)
(***************************************************************************)
EXTENDS AgentLeases, TLAPS, FiniteSetTheorems, WellFoundedInduction

\* A queue q told by a: everyone in it is in front of, or behind, everyone else.
Ordered(q, a) ==
    /\ q \in SUBSET Place /\ IsFiniteSet(q)
    /\ a \in [Place -> SUBSET q]
    /\ \A x \in Place \ q : a[x] = {}
    /\ \A x, y \in q : x = y \/ x \in a[y] \/ y \in a[x]
    /\ \A x, y \in q : x \in a[y] => a[x] \subseteq a[y] \ {x}

\* Whoever is in the queue waits for a slot that is taken.
PoolSound ==
    /\ Ordered(waiting, ahead) /\ IsFiniteSet(out) /\ waiting \cap out = {}
    /\ waiting # {} => Cardinality(out) >= Capacity

\* A wait with a place or a slot is in one pair of hands: the broker's, a
\* client's, or those of a release under way.
OneHand ==
    /\ waiting \cap Wait \subseteq parked
    /\ dropped \cap parked = {}
    /\ \A w \in Wait : grants[w] > 0 => w \notin parked /\ w \notin dropped

\* What a request is about to be told is true of its wait, and nothing else is
\* due while one is about to park.
ToldTruly(h) ==
    LET w == hop[h].wait IN
        /\ w = 0 <=> hop[h] = Idle
        /\ hop[h].outcome = "lease" /\ w \in parked => w \in out
        /\ hop[h].outcome \in {None, "timeout"} /\ w # 0 => w \notin out
        /\ hop[h].outcome = "refused" => w \notin parked
        /\ hop[h].outcome = "timeout" => dropped = {} /\ \A g \in Hop \ {h} : hop[g].outcome = None
        /\ w \in parked /\ w \in waiting \cup out => turnOf[w] \notin ended

Told == \A h \in Hop : ToldTruly(h)

\* A parked wait is watched or on a clock.
Attended == \A w \in parked : (\E h \in Hop : hop[h].wait = w) \/ (\E t \in timers : t.wait = w)

\* Whatever the requests in flight are told, there is a wait left for each.
Spare == Cardinality(Unused) >= Cardinality(Active)

\* The inductive invariant: the property, and what the broker relies on between
\* two steps of its thread.
BrokerInv == NoOrphanedCapacity /\ PoolSound /\ OneHand /\ Told /\ Attended /\ Spare

----------------------------------------------------------------------------
(* The queue *)

\* What is left of a queue is one.
LEMMA WithoutOrdered ==
    ASSUME NEW q, NEW a, Ordered(q, a), NEW S
    PROVE  Ordered(q \ S, Without(a, S))
  <1>1. IsFiniteSet(q \ S)
    BY FS_Subset DEF Ordered
  <1>2. Without(a, S) \in [Place -> SUBSET (q \ S)]
    BY DEF Ordered, Without
  <1>3. \A x \in Place : Without(a, S)[x] = IF x \in S THEN {} ELSE a[x] \ S
    BY DEF Without
  <1> HIDE DEF Without
  <1> QED
    BY <1>1, <1>2, <1>3 DEF Ordered

\* Whoever joins is behind everyone.
LEMMA JoinOrdered ==
    ASSUME NEW q, NEW a, Ordered(q, a), NEW x \in Place \ q
    PROVE  Ordered(q \cup {x}, [a EXCEPT ![x] = q])
  <1>1. IsFiniteSet(q \cup {x})
    BY FS_AddElement DEF Ordered
  <1>2. [a EXCEPT ![x] = q] \in [Place -> SUBSET (q \cup {x})]
    BY DEF Ordered
  <1>3. \A y \in Place : [a EXCEPT ![x] = q][y] = IF y = x THEN q ELSE a[y]
    BY DEF Ordered
  <1>4. x \notin q /\ \A y \in Place : a[y] \subseteq q
    BY DEF Ordered
  <1> QED
    BY <1>1, <1>2, <1>3, <1>4 DEF Ordered

\* Everyone in front of someone is strictly fewer people's turn.
LEMMA FewerAhead ==
    ASSUME NEW q, NEW a, Ordered(q, a), NEW x \in q, NEW y \in a[x]
    PROVE  /\ y \in q /\ a[y] \subseteq a[x] /\ y \notin a[y]
           /\ IsFiniteSet(a[x]) /\ IsFiniteSet(a[y])
           /\ Cardinality(a[x]) \in Nat /\ Cardinality(a[y]) \in Nat
           /\ Cardinality(a[y]) < Cardinality(a[x])
  <1>1. y \in q /\ a[y] \subseteq a[x] /\ y \notin a[y] /\ a[x] \subseteq q
    BY DEF Ordered
  <1>2. IsFiniteSet(a[x]) /\ IsFiniteSet(a[y])
    BY <1>1, FS_Subset DEF Ordered
  <1>3. a[y] # a[x]
    BY <1>1
  <1> QED
    BY <1>1, <1>2, <1>3, FS_Subset, FS_CardinalityType

\* Of a nonempty part of the queue, someone is behind all others.
LEMMA SomeoneIsLast ==
    ASSUME NEW q, NEW a, Ordered(q, a), NEW S \in SUBSET q, S # {}
    PROVE  \E x \in S : S \ {x} \subseteq a[x]
  <1> DEFINE T == {Cardinality(q) - Cardinality(a[x]) : x \in S}
  <1>1. \A x \in S : Cardinality(a[x]) \in Nat /\ Cardinality(q) \in Nat /\ Cardinality(a[x]) <= Cardinality(q)
    <2>1. \A x \in S : a[x] \subseteq q /\ IsFiniteSet(q)
      BY DEF Ordered
    <2> QED
      BY <2>1, FS_Subset, FS_CardinalityType
  <1>2. T \subseteq Nat /\ T # {}
    BY <1>1
  <1>3. PICK n \in T : \A m \in T : ~(<<m, n>> \in OpToRel(<, Nat))
    <2> HIDE DEF T
    <2> QED
      BY <1>2, NatLessThanWellFounded, WFMin
  <1>4. PICK x \in S : n = Cardinality(q) - Cardinality(a[x])
    BY <1>3
  <1>5. ASSUME NEW y \in S \ {x}
        PROVE  y \in a[x]
    <2>1. CASE x \in a[y]
      <3>1. Cardinality(a[x]) < Cardinality(a[y])
        BY <2>1, FewerAhead
      <3>2. Cardinality(q) - Cardinality(a[y]) \in T
        BY <1>5
      <3>3. Cardinality(q) - Cardinality(a[y]) < n
        BY <1>1, <1>4, <3>1
      <3> QED
        BY <1>2, <1>3, <3>2, <3>3 DEF OpToRel
    <2>2. x \in a[y] \/ y \in a[x]
      BY <1>5 DEF Ordered
    <2> QED
      BY <2>1, <2>2
  <1> QED
    BY <1>5

\* What the pool grants is the front of the queue, fits, and leaves somebody
\* behind only when no slot is free.
LEMMA GrantedFits ==
    ASSUME NEW q, NEW a, Ordered(q, a), NEW o, IsFiniteSet(o), q \cap o = {}, Cardinality(o) <= Capacity
    PROVE  LET G == Granted(q, a, o) IN
           /\ G \subseteq q /\ IsFiniteSet(o \cup G)
           /\ \A x \in G : a[x] \subseteq G
           /\ Cardinality(o \cup G) <= Capacity
           /\ q \ G # {} => Cardinality(o \cup G) >= Capacity
  <1> DEFINE G == Granted(q, a, o)
  <1>1. G \subseteq q /\ IsFiniteSet(G)
    BY FS_Subset DEF Ordered, Granted
  <1>2. ASSUME NEW x \in G, NEW y \in a[x]
        PROVE  y \in G
    <2>1. x \in q
      BY <1>1
    <2>2. y \in q /\ Cardinality(a[y]) < Cardinality(a[x]) /\ Cardinality(a[x]) \in Nat /\ Cardinality(a[y]) \in Nat
      BY <2>1, <1>2, FewerAhead
    <2>3. Cardinality(a[x]) < Capacity - Cardinality(o)
      BY <1>2 DEF Granted
    <2>4. Cardinality(o) \in Nat /\ Capacity \in Nat
      BY FS_CardinalityType, CapacityNat
    <2>5. Cardinality(a[y]) < Capacity - Cardinality(o)
      BY <2>2, <2>3, <2>4
    <2> QED
      BY <2>2, <2>5 DEF Granted
  <1>3. Cardinality(o) \in Nat /\ Cardinality(G) \in Nat /\ Capacity \in Nat
    BY <1>1, FS_CardinalityType, CapacityNat
  <1>4. IsFiniteSet(o \cup G) /\ Cardinality(o \cup G) = Cardinality(o) + Cardinality(G)
    <2>1. o \cap G = {}
      BY <1>1
    <2>2. Cardinality(o \cap G) = 0
      BY <2>1, FS_EmptySet
    <2>3. IsFiniteSet(o \cup G) /\ Cardinality(o \cup G) = Cardinality(o) + Cardinality(G) - Cardinality(o \cap G)
      <3> HIDE DEF G
      <3> QED
        BY <1>1, FS_Union
    <2> QED
      BY <1>3, <2>2, <2>3
  <1>5. Cardinality(G) <= Capacity - Cardinality(o)
    <2>1. CASE G = {}
      BY <2>1, <1>3, FS_EmptySet
    <2>2. CASE G # {}
      <3>1. PICK x \in G : G \ {x} \subseteq a[x]
        <4> HIDE DEF G
        <4> QED
          BY <1>1, <2>2, SomeoneIsLast
      <3>2. a[x] \subseteq q /\ IsFiniteSet(a[x])
        BY <1>1, <3>1, FS_Subset DEF Ordered
      <3>3. Cardinality(G \ {x}) <= Cardinality(a[x]) /\ Cardinality(a[x]) \in Nat
        BY <3>1, <3>2, FS_Subset, FS_CardinalityType
      <3>4. Cardinality(G \ {x}) = Cardinality(G) - 1
        BY <1>1, <3>1, FS_RemoveElement
      <3>5. Cardinality(a[x]) < Capacity - Cardinality(o)
        BY <3>1 DEF Granted
      <3> QED
        BY <1>3, <3>3, <3>4, <3>5
    <2> QED
      BY <2>1, <2>2
  <1>6. ASSUME q \ G # {}
        PROVE  Cardinality(G) >= Capacity - Cardinality(o)
    <2> DEFINE rest == q \ G
        before == Without(a, G)
    <2>1. Ordered(rest, before)
      BY WithoutOrdered
    <2>2. PICK x \in rest : Cardinality(before[x]) = 0 /\ IsFiniteSet(before[x])
      <3> DEFINE T == {Cardinality(before[x]) : x \in rest}
      <3>1. \A x \in rest : IsFiniteSet(before[x]) /\ Cardinality(before[x]) \in Nat
        <4>1. \A x \in rest : before[x] \subseteq rest /\ IsFiniteSet(rest)
          BY <2>1 DEF Ordered
        <4> HIDE DEF before, rest
        <4> QED
          BY <4>1, FS_Subset, FS_CardinalityType
      <3>2. T \subseteq Nat /\ T # {}
        BY <1>6, <3>1
      <3>3. PICK n \in T : \A m \in T : ~(<<m, n>> \in OpToRel(<, Nat))
        <4> HIDE DEF T
        <4> QED
          BY <3>2, NatLessThanWellFounded, WFMin
      <3>4. PICK x \in rest : n = Cardinality(before[x])
        BY <3>3
      <3>5. ASSUME NEW y \in before[x]
            PROVE  FALSE
        <4>1. y \in rest /\ Cardinality(before[y]) < Cardinality(before[x])
          <5> HIDE DEF before, rest
          <5> QED
            BY <2>1, <3>5, FewerAhead
        <4>2. Cardinality(before[y]) \in T
          BY <4>1
        <4> QED
          BY <3>2, <3>3, <3>4, <4>1, <4>2 DEF OpToRel
      <3>6. before[x] = {}
        BY <3>5
      <3> QED
        BY <3>1, <3>6, FS_EmptySet
    <2>3. before[x] = {}
      BY <2>2, FS_EmptySet
    <2>4. a[x] \subseteq G /\ x \in q /\ x \notin G
      BY <2>3 DEF Without, Ordered
    <2>5. ~(Cardinality(a[x]) < Capacity - Cardinality(o))
      BY <2>4 DEF Granted
    <2>6. Cardinality(a[x]) <= Cardinality(G) /\ Cardinality(a[x]) \in Nat
      BY <2>4, <1>1, FS_Subset, FS_CardinalityType
    <2> QED
      BY <2>5, <2>6, <1>3
  <1>7. Cardinality(o \cup G) <= Capacity
    BY <1>3, <1>4, <1>5
  <1>8. q \ G # {} => Cardinality(o \cup G) >= Capacity
    BY <1>3, <1>4, <1>6
  <1> QED
    BY <1>1, <1>2, <1>4, <1>7, <1>8

\* What TypeOK and PoolSound say of the pool.
PoolOK ==
    /\ PoolSound
    /\ waiting \subseteq Place /\ ahead \in [Place -> SUBSET waiting]
    /\ out \subseteq Place /\ Cardinality(out) <= Capacity

\* A pool that served the queue q with the slots of o taken is sound, and has
\* everyone where they were or granted.
LEMMA ServeSound ==
    ASSUME NEW q, NEW a, Ordered(q, a), NEW o \in SUBSET Place, IsFiniteSet(o), q \cap o = {},
           Cardinality(o) <= Capacity, Serve(q, a, o)
    PROVE  /\ PoolOK'
           /\ waiting' \subseteq q /\ o \subseteq out' /\ out' \ o \subseteq q
           /\ waiting' \cup out' = q \cup o
  <1> DEFINE G == Granted(q, a, o)
  <1>1. /\ G \subseteq q /\ IsFiniteSet(o \cup G)
        /\ Cardinality(o \cup G) <= Capacity
        /\ q \ G # {} => Cardinality(o \cup G) >= Capacity
    BY GrantedFits
  <1>2. waiting' = q \ G /\ ahead' = Without(a, G) /\ out' = o \cup G
    BY DEF Serve
  <1>3. Ordered(waiting', ahead')
    BY <1>2, WithoutOrdered
  <1>4. PoolSound'
    BY <1>1, <1>2, <1>3 DEF PoolSound, Ordered
  <1>5. ahead' \in [Place -> SUBSET waiting']
    BY <1>3 DEF Ordered
  <1>6. q \subseteq Place
    BY DEF Ordered
  <1> HIDE DEF G
  <1> QED
    BY <1>1, <1>2, <1>4, <1>5, <1>6 DEF PoolOK

\* Somebody new joins.
LEMMA JoinSound ==
    ASSUME PoolOK, NEW x \in Place, x \notin waiting, x \notin out, Join(x)
    PROVE  /\ PoolOK'
           /\ waiting' \subseteq waiting \cup {x} /\ out \subseteq out' /\ out' \ out \subseteq waiting \cup {x}
           /\ waiting' \cup out' = waiting \cup out \cup {x}
  <1>1. Ordered(waiting, ahead) /\ IsFiniteSet(out) /\ waiting \cap out = {}
    BY DEF PoolOK, PoolSound
  <1>2. Ordered(waiting \cup {x}, [ahead EXCEPT ![x] = waiting])
    BY <1>1, JoinOrdered
  <1>3. (waiting \cup {x}) \cap out = {}
    BY <1>1
  <1>4. Cardinality(out) <= Capacity /\ out \in SUBSET Place
    BY DEF PoolOK
  <1>5. Serve(waiting \cup {x}, [ahead EXCEPT ![x] = waiting], out)
    BY DEF Join
  <1> QED
    BY <1>1, <1>2, <1>3, <1>4, <1>5, ServeSound

\* A slot is given back.
LEMMA FreeSound ==
    ASSUME PoolOK, NEW x, Serve(waiting, ahead, out \ {x})
    PROVE  /\ PoolOK'
           /\ waiting' \subseteq waiting /\ out \ {x} \subseteq out' /\ out' \ out \subseteq waiting
           /\ waiting' \cup out' = waiting \cup (out \ {x})
           /\ x \in out => x \notin out' /\ x \notin waiting'
  <1>1. Ordered(waiting, ahead) /\ IsFiniteSet(out) /\ waiting \cap out = {}
    BY DEF PoolOK, PoolSound
  <1>2. out \ {x} \in SUBSET Place /\ Cardinality(out) <= Capacity
    BY DEF PoolOK
  <1>3. IsFiniteSet(out \ {x}) /\ Cardinality(out \ {x}) <= Cardinality(out)
    BY <1>1, FS_Subset
  <1>4. Cardinality(out \ {x}) \in Nat /\ Cardinality(out) \in Nat /\ Capacity \in Nat
    BY <1>1, <1>3, FS_CardinalityType, CapacityNat
  <1>5. Cardinality(out \ {x}) <= Capacity
    BY <1>2, <1>3, <1>4
  <1>6. waiting \cap (out \ {x}) = {}
    BY <1>1
  <1>7. /\ PoolOK'
        /\ waiting' \subseteq waiting /\ out \ {x} \subseteq out' /\ out' \ (out \ {x}) \subseteq waiting
        /\ waiting' \cup out' = waiting \cup (out \ {x})
    BY <1>1, <1>2, <1>3, <1>5, <1>6, ServeSound
  <1> QED
    BY <1>1, <1>7

\* The queue is left by S, and nobody is served.
LEMMA LeaveSound ==
    ASSUME PoolOK, NEW S, waiting' = waiting \ S, ahead' = Without(ahead, S), out' = out
    PROVE  PoolOK'
  <1>1. Ordered(waiting', ahead')
    BY WithoutOrdered DEF PoolOK, PoolSound
  <1>2. PoolSound'
    BY <1>1 DEF PoolOK, PoolSound
  <1> QED
    BY <1>1, <1>2 DEF PoolOK, Ordered

----------------------------------------------------------------------------
(* Waits, timers and what requests see *)

\* A wait that nobody refers to is there to be used.
LEMMA FreshIsUnused ==
    ASSUME Unused # {}
    PROVE  Fresh \in Unused
  <1>1. Unused \subseteq Nat
    BY MaxWaitNat DEF Unused, Wait
  <1>2. PICK n \in Unused : \A m \in Unused : ~(<<m, n>> \in OpToRel(<, Nat))
    BY <1>1, NatLessThanWellFounded, WFMin
  <1>3. ASSUME NEW m \in Unused
        PROVE  n <= m
    <2>1. m \in Nat /\ n \in Nat
      BY <1>1
    <2>2. ~(<<m, n>> \in OpToRel(<, Nat))
      BY <1>2
    <2>3. ~(m < n)
      BY <2>1, <2>2 DEF OpToRel
    <2> QED
      BY <2>1, <2>3
  <1>4. \E w \in Unused : \A v \in Unused : w <= v
    BY <1>3
  <1> QED
    BY <1>4, Zenon DEF Fresh

\* The requests in flight, and the waits left, can be counted.
LEMMA Countable ==
    /\ IsFiniteSet(Active) /\ Cardinality(Active) \in Nat
    /\ IsFiniteSet(Unused) /\ Cardinality(Unused) \in Nat
  <1>1. IsFiniteSet(Wait)
    BY MaxWaitNat, FS_Interval DEF Wait
  <1>2. Active \subseteq Hop /\ Unused \subseteq Wait
    BY DEF Active, Unused
  <1> QED
    BY <1>1, <1>2, HopFinite, FS_Subset, FS_CardinalityType

\* The waits that timers are armed for.
Waits(ts) == {t.wait : t \in ts}

Timer == [wait : Wait, ref : BOOLEAN, after : SUBSET Hop]

\* What a hop that ends, a park and a clearing do to the timers.
LEMMA TimersKept ==
    ASSUME NEW ts \in SUBSET Timer, NEW h \in Hop
    PROVE  /\ Elapsed(ts, h) \in SUBSET Timer /\ Waits(Elapsed(ts, h)) = Waits(ts)
           /\ \A w \in Wait : Park(w, h, ts) \in SUBSET Timer /\ Waits(Park(w, h, ts)) = Waits(ts) \cup {w}
  <1> DEFINE es == Elapsed(ts, h)
  <1>1. \A t \in ts : [t EXCEPT !.after = @ \ {h}] \in Timer /\ [t EXCEPT !.after = @ \ {h}].wait = t.wait
    BY DEF Timer
  <1>2. es \in SUBSET Timer /\ Waits(es) = Waits(ts)
    BY <1>1 DEF Elapsed, Waits
  <1>3. ASSUME NEW w \in Wait
        PROVE  Park(w, h, ts) \in SUBSET Timer /\ Waits(Park(w, h, ts)) = Waits(ts) \cup {w}
    <2> DEFINE mark(t) == IF t.wait = w THEN [t EXCEPT !.ref = FALSE] ELSE t
        new == Reaper(w, TRUE, {g \in Active \ {h} : hop[g].wait = w})
    <2>1. Park(w, h, ts) = {mark(t) : t \in es} \cup {new}
      BY DEF Park
    <2>2. new \in Timer /\ new.wait = w
      BY DEF Reaper, Timer, Active
    <2>3. \A t \in es : mark(t) \in Timer /\ mark(t).wait = t.wait
      BY <1>2 DEF Timer
    <2> HIDE DEF es, new, mark
    <2>4. Park(w, h, ts) \in SUBSET Timer
      BY <2>1, <2>2, <2>3
    <2>5. Waits(Park(w, h, ts)) = Waits(es) \cup {w}
      BY <2>1, <2>2, <2>3 DEF Waits
    <2> QED
      BY <2>4, <2>5, <1>2
  <1> QED
    BY <1>2, <1>3

LEMMA ClearedKeeps ==
    ASSUME NEW ts \in SUBSET Timer, NEW S
    PROVE  /\ Cleared(ts, S) \in SUBSET Timer
           /\ Waits(Cleared(ts, S)) \subseteq Waits(ts) /\ Waits(ts) \ S \subseteq Waits(Cleared(ts, S))
  BY DEF Cleared, Waits

\* What a request is told.
Seen == [wait : 0 .. MaxWait, turn : Turn \cup {None},
         outcome : {None, "lease", "timeout", "refused"}]

LEMMA SettledTells ==
    ASSUME hop \in [Hop -> Seen], NEW c
    PROVE  /\ Settled(c) \in [Hop -> Seen]
           /\ \A h \in Hop : LET n == Settled(c)[h]  w == hop[h].wait IN
                /\ n.wait = w /\ n.turn = hop[h].turn
                /\ hop[h].outcome # None \/ w = 0 => n = hop[h]
                /\ hop[h].outcome = None /\ w # 0 =>
                     n.outcome = IF w \in out' THEN "lease" ELSE IF w \in c THEN "refused" ELSE None
  <1>1. \A h \in Hop : hop[h] \in Seen
    OBVIOUS
  <1>2. \A h \in Hop : /\ [hop[h] EXCEPT !.outcome = "lease"] \in Seen
                       /\ [hop[h] EXCEPT !.outcome = "refused"] \in Seen
    BY <1>1 DEF Seen
  <1>3. Settled(c) \in [Hop -> Seen]
    BY <1>1, <1>2 DEF Settled
  <1>4. \A h \in Hop : /\ [hop[h] EXCEPT !.outcome = "lease"].wait = hop[h].wait
                       /\ [hop[h] EXCEPT !.outcome = "lease"].turn = hop[h].turn
                       /\ [hop[h] EXCEPT !.outcome = "lease"].outcome = "lease"
                       /\ [hop[h] EXCEPT !.outcome = "refused"].wait = hop[h].wait
                       /\ [hop[h] EXCEPT !.outcome = "refused"].turn = hop[h].turn
                       /\ [hop[h] EXCEPT !.outcome = "refused"].outcome = "refused"
    BY <1>1 DEF Seen
  <1>5. ASSUME NEW h \in Hop
        PROVE  LET n == Settled(c)[h]  w == hop[h].wait IN
                /\ n.wait = w /\ n.turn = hop[h].turn
                /\ hop[h].outcome # None \/ w = 0 => n = hop[h]
                /\ hop[h].outcome = None /\ w # 0 =>
                     n.outcome = IF w \in out' THEN "lease" ELSE IF w \in c THEN "refused" ELSE None
    BY <1>4 DEF Settled
  <1> QED
    BY <1>3, <1>5


----------------------------------------------------------------------------
(* The invariant, in the parts a step is shown to keep *)

Typed ==
    /\ dropped \subseteq out \cap Wait /\ parked \subseteq Wait
    /\ turnOf \in [Wait -> Turn \cup {None}]
    /\ timers \in SUBSET Timer
    /\ grants \in [Wait -> 0 .. Cardinality(Hop)]
    /\ ended \subseteq Turn /\ halted \in BOOLEAN /\ closed \in BOOLEAN
    /\ hop \in [Hop -> Seen]

Hands ==
    /\ OneHand
    /\ \A w \in Wait : grants[w] <= 1 /\ (grants[w] = 1 => w \in out)
    /\ \A w \in out \cap Wait : grants[w] > 0 \/ w \in parked \/ w \in dropped
    /\ \A w \in Wait : grants[w] > 0 => turnOf[w] \notin ended

LEMMA Parts ==
    /\ BrokerInv <=> PoolOK /\ Typed /\ Hands /\ Told /\ Attended /\ Spare
    /\ BrokerInv' <=> PoolOK' /\ Typed' /\ Hands' /\ Told' /\ Attended' /\ Spare'
  <1>1. BrokerInv <=> PoolOK /\ Typed /\ Hands /\ Told /\ Attended /\ Spare
    BY DEF BrokerInv, NoOrphanedCapacity, TypeOK, PoolOK, Typed, Hands, Attended, Timer, Seen
  <1>2. BrokerInv' <=> PoolOK' /\ Typed' /\ Hands' /\ Told' /\ Attended' /\ Spare'
    BY DEF BrokerInv, NoOrphanedCapacity, TypeOK, PoolOK, Typed, Hands, Attended, Timer, Seen
  <1> QED
    BY <1>1, <1>2

\* Some request is in flight, so a lease fits the type of the counter.
LEMMA OneLeaseCounts ==
    ASSUME NEW h \in Hop
    PROVE  1 \in 0 .. Cardinality(Hop)
  <1>1. Cardinality(Hop) \in Nat /\ Cardinality(Hop) # 0
    BY HopFinite, FS_CardinalityType, FS_EmptySet
  <1> QED
    BY <1>1

\* A set with an element less, or more.
LEMMA OneApart ==
    ASSUME NEW S, NEW x, IsFiniteSet(S)
    PROVE  /\ IsFiniteSet(S \ {x}) /\ Cardinality(S \ {x}) >= Cardinality(S) - 1
           /\ x \in S => Cardinality(S \ {x}) = Cardinality(S) - 1
           /\ IsFiniteSet(S \cup {x}) /\ Cardinality(S \cup {x}) <= Cardinality(S) + 1
  <1>1. Cardinality(S) \in Nat
    BY FS_CardinalityType
  <1>2. /\ IsFiniteSet(S \ {x})
        /\ Cardinality(S \ {x}) = IF x \in S THEN Cardinality(S) - 1 ELSE Cardinality(S)
    BY FS_RemoveElement
  <1>3. /\ IsFiniteSet(S \cup {x})
        /\ Cardinality(S \cup {x}) = IF x \in S THEN Cardinality(S) ELSE Cardinality(S) + 1
    BY FS_AddElement
  <1> QED
    BY <1>1, <1>2, <1>3

\* The waits left still suffice when none is taken, when one that ends takes one,
\* and when one that starts does and there was room for it.
LEMMA SpareKept ==
    ASSUME Spare, \A w \in Unused : w \in Unused', \A h \in Active' : h \in Active
    PROVE  Spare'
  <1> DEFINE U == Unused'
        A == Active'
  <1>0. U \subseteq Wait /\ A \subseteq Hop /\ IsFiniteSet(Wait)
    BY MaxWaitNat, FS_Interval DEF Unused, Active, Wait
  <1>1. IsFiniteSet(U) /\ IsFiniteSet(A)
    BY <1>0, HopFinite, FS_Subset
  <1>2. Unused \subseteq U /\ A \subseteq Active
    OBVIOUS
  <1> HIDE DEF U, A
  <1>3. Cardinality(Unused) <= Cardinality(U) /\ Cardinality(A) <= Cardinality(Active)
    BY <1>1, <1>2, Countable, FS_Subset
  <1>4. Cardinality(U) \in Nat /\ Cardinality(A) \in Nat
    BY <1>1, FS_CardinalityType
  <1>5. Cardinality(U) >= Cardinality(A)
    BY <1>3, <1>4, Countable DEF Spare
  <1> QED
    BY <1>5 DEF Spare, U, A

LEMMA SpareSpent ==
    ASSUME Spare, NEW n, NEW h \in Active,
           \A w \in Unused : w = n \/ w \in Unused', \A g \in Active' : g \in Active /\ g # h
    PROVE  Spare'
  <1> DEFINE U == Unused'
        A == Active'
  <1>0. U \subseteq Wait /\ A \subseteq Hop /\ IsFiniteSet(Wait)
    BY MaxWaitNat, FS_Interval DEF Unused, Active, Wait
  <1>1. IsFiniteSet(U) /\ IsFiniteSet(A)
    BY <1>0, HopFinite, FS_Subset
  <1>2. Unused \ {n} \subseteq U /\ A \subseteq Active \ {h}
    OBVIOUS
  <1> HIDE DEF U, A
  <1>3. Cardinality(Unused \ {n}) >= Cardinality(Unused) - 1 /\ IsFiniteSet(Unused \ {n})
    BY Countable, OneApart
  <1>4. Cardinality(Active \ {h}) = Cardinality(Active) - 1 /\ IsFiniteSet(Active \ {h})
    BY Countable, OneApart
  <1>5. Cardinality(Unused \ {n}) <= Cardinality(U) /\ Cardinality(A) <= Cardinality(Active \ {h})
    BY <1>1, <1>2, <1>3, <1>4, FS_Subset
  <1>6. Cardinality(U) \in Nat /\ Cardinality(A) \in Nat /\ Cardinality(Unused \ {n}) \in Nat
    BY <1>1, <1>3, FS_CardinalityType
  <1>7. Cardinality(U) >= Cardinality(A)
    BY <1>3, <1>4, <1>5, <1>6, Countable DEF Spare
  <1> QED
    BY <1>7 DEF Spare, U, A

LEMMA SpareTaken ==
    ASSUME RoomForFresh, NEW n, NEW h,
           \A w \in Unused : w = n \/ w \in Unused', \A g \in Active' : g \in Active \/ g = h
    PROVE  Spare'
  <1> DEFINE U == Unused'
        A == Active'
  <1>0. U \subseteq Wait /\ A \subseteq Hop /\ IsFiniteSet(Wait)
    BY MaxWaitNat, FS_Interval DEF Unused, Active, Wait
  <1>1. IsFiniteSet(U) /\ IsFiniteSet(A)
    BY <1>0, HopFinite, FS_Subset
  <1>2. Unused \ {n} \subseteq U /\ A \subseteq Active \cup {h}
    OBVIOUS
  <1> HIDE DEF U, A
  <1>3. Cardinality(Unused \ {n}) >= Cardinality(Unused) - 1 /\ IsFiniteSet(Unused \ {n})
    BY Countable, OneApart
  <1>4. Cardinality(Active \cup {h}) <= Cardinality(Active) + 1 /\ IsFiniteSet(Active \cup {h})
    BY Countable, OneApart
  <1>5. Cardinality(Unused \ {n}) <= Cardinality(U) /\ Cardinality(A) <= Cardinality(Active \cup {h})
    BY <1>1, <1>2, <1>3, <1>4, FS_Subset
  <1>6. Cardinality(U) \in Nat /\ Cardinality(A) \in Nat /\ Cardinality(Unused \ {n}) \in Nat
        /\ Cardinality(Active \cup {h}) \in Nat
    BY <1>1, <1>3, <1>4, FS_CardinalityType
  <1>7. Cardinality(U) >= Cardinality(A)
    BY <1>3, <1>4, <1>5, <1>6, Countable DEF RoomForFresh
  <1> QED
    BY <1>7 DEF Spare, U, A

\* There is room, so there is a wait to use.
LEMMA RoomMeansFresh ==
    ASSUME RoomForFresh \/ (Spare /\ Active # {})
    PROVE  Fresh \in Unused
  <1>1. Active # {} => Cardinality(Active) >= 1
    BY Countable, FS_EmptySet
  <1>2. Cardinality(Unused) # 0
    BY <1>1, Countable DEF RoomForFresh, Spare
  <1> QED
    BY <1>2, FS_EmptySet, FreshIsUnused

\* A request that sees the queue as a step left it is told the truth.
LEMMA SettledTruly ==
    ASSUME Typed, Told, NEW c, NEW g \in Hop, hop'[g] = Settled(c)[g], hop[g].outcome # "timeout",
           LET v == hop[g].wait IN
             /\ v \in c => v \notin parked'
             /\ v \in parked' => v \in parked
             /\ v \in parked' /\ v \in out => v \in out'
             /\ v \in parked' /\ v \in waiting' \cup out' => turnOf'[v] \notin ended',
           0 \notin parked'
    PROVE  ToldTruly(g)'
  <1> DEFINE v == hop[g].wait
        n == Settled(c)[g]
  <1>1. /\ n.wait = v /\ n.turn = hop[g].turn
        /\ hop[g].outcome # None \/ v = 0 => n = hop[g]
        /\ hop[g].outcome = None /\ v # 0 =>
             n.outcome = IF v \in out' THEN "lease" ELSE IF v \in c THEN "refused" ELSE None
    BY SettledTells DEF Typed
  <1>2. ToldTruly(g) /\ Idle.wait = 0 /\ Idle.outcome = None
    BY DEF Told, Idle
  <1>3. v = 0 <=> n = Idle
    BY <1>1, <1>2 DEF ToldTruly
  <1>4. n.outcome # "timeout"
    BY <1>1, <1>2 DEF ToldTruly, None
  <1>5. n.outcome = "lease" /\ v \in parked' => v \in out'
    BY <1>1, <1>2 DEF ToldTruly, None
  <1>6. n.outcome = None /\ v # 0 => v \notin out'
    BY <1>1 DEF None
  <1>7. n.outcome = "refused" => v \notin parked'
    BY <1>1, <1>2 DEF ToldTruly, None
  <1>8. hop'[g] = n /\ hop'[g].wait = v
    BY <1>1
  <1> HIDE DEF n, v
  <1> QED
    BY <1>3, <1>4, <1>5, <1>6, <1>7, <1>8 DEF ToldTruly, v, Idle


----------------------------------------------------------------------------
(* Every step keeps the invariant *)

\* A wait that nobody refers to, seen from the state.
LEMMA UnusedApart ==
    ASSUME NEW w \in Unused
    PROVE  /\ w \in Wait /\ w \in Place /\ w # 0
           /\ w \notin parked /\ w \notin out /\ w \notin waiting
           /\ \A h \in Hop : hop[h].wait # w
           /\ w \notin Waits(timers)
  BY MaxWaitNat DEF Unused, Wait, Place, Waits

\* A wait stays unused when nothing refers to it afterwards.
LEMMA StaysUnused ==
    ASSUME NEW w \in Unused, w \notin parked' \cup out' \cup waiting',
           \A h \in Hop : hop'[h].wait # w, Waits(timers') \subseteq Waits(timers) \/ w \notin Waits(timers')
    PROVE  w \in Unused'
  <1>1. w \notin Waits(timers')
    BY UnusedApart
  <1> QED
    BY <1>1 DEF Unused, Waits

LEMMA FreshKeeps ==
    ASSUME BrokerInv, NEW h \in Hop, NEW t \in Turn, HopFresh(h, t)
    PROVE  BrokerInv'
  <1> DEFINE w == Fresh
        mine == [wait |-> w, turn |-> t, outcome |-> IF w \in out' THEN "lease" ELSE None]
  <1>0. PoolOK /\ Typed /\ Hands /\ Told /\ Attended /\ Spare
    BY Parts
  <1>1. /\ Quiet /\ hop[h] = Idle /\ t \notin ended /\ RoomForFresh /\ Join(w)
        /\ parked' = parked \cup {w} /\ turnOf' = [turnOf EXCEPT ![w] = t]
        /\ hop' = [Settled({}) EXCEPT ![h] = mine]
        /\ UNCHANGED <<dropped, timers, grants, ended, halted, closed>>
    BY DEF HopFresh, Admitted
  <1>2. w \in Unused
    BY <1>1, RoomMeansFresh
  <1> HIDE DEF w
  <1>3. /\ w \in Wait /\ w \in Place /\ w # 0
        /\ w \notin parked /\ w \notin out /\ w \notin waiting
        /\ \A g \in Hop : hop[g].wait # w
    BY <1>2, UnusedApart
  <1>4. /\ PoolOK'
        /\ waiting' \subseteq waiting \cup {w} /\ out \subseteq out' /\ out' \ out \subseteq waiting \cup {w}
        /\ waiting' \cup out' = waiting \cup out \cup {w}
    BY <1>0, <1>1, <1>3, JoinSound
  <1>5. /\ Settled({}) \in [Hop -> Seen]
        /\ \A g \in Hop : Settled({})[g].wait = hop[g].wait /\ (hop[g].wait = 0 => Settled({})[g] = hop[g])
    BY <1>0, SettledTells DEF Typed
  <1>6. mine \in Seen /\ mine.wait = w /\ mine.turn = t /\ mine.outcome = IF w \in out' THEN "lease" ELSE None
    BY <1>3, MaxWaitNat DEF Seen, Wait
  <1> HIDE DEF mine
  <1>7. hop' \in [Hop -> Seen] /\ hop'[h] = mine /\ \A g \in Hop \ {h} : hop'[g] = Settled({})[g]
    BY <1>1, <1>5, <1>6
  <1>8. Typed'
    BY <1>0, <1>1, <1>3, <1>4, <1>7 DEF Typed
  <1>9. Hands'
    <2>1. OneHand'
      BY <1>0, <1>1, <1>3, <1>4 DEF Hands, OneHand, Typed
    <2>2. \A x \in Wait : grants'[x] <= 1 /\ (grants'[x] = 1 => x \in out')
      BY <1>0, <1>1, <1>4 DEF Hands
    <2>3. \A x \in out' \cap Wait : grants'[x] > 0 \/ x \in parked' \/ x \in dropped'
      BY <1>0, <1>1, <1>4 DEF Hands, OneHand
    <2>4. \A x \in Wait : grants'[x] > 0 => turnOf'[x] \notin ended'
      <3> SUFFICES ASSUME NEW x \in Wait, grants[x] > 0
                   PROVE  turnOf'[x] \notin ended
        BY <1>1
      <3>1. x \in out /\ turnOf[x] \notin ended
        BY <1>0 DEF Hands, Typed
      <3> QED
        BY <3>1, <1>0, <1>1, <1>3 DEF Typed
    <2> QED
      BY <2>1, <2>2, <2>3, <2>4 DEF Hands
  <1>10. Told'
    <2> SUFFICES ASSUME NEW g \in Hop
                 PROVE  ToldTruly(g)'
      BY DEF Told
    <2>1. CASE g = h
      <3>1. turnOf'[w] \notin ended'
        BY <1>0, <1>1, <1>3 DEF Typed
      <3> QED
        BY <2>1, <3>1, <1>3, <1>6, <1>7 DEF ToldTruly, Idle, None
    <2>2. CASE g # h
      <3>1. hop'[g] = Settled({})[g] /\ hop[g].outcome = None /\ hop[g].wait # w
        BY <2>2, <1>1, <1>3, <1>7 DEF Quiet
      <3>2. hop[g].wait \in parked /\ hop[g].wait \in waiting \cup out => turnOf'[hop[g].wait] \notin ended'
        BY <3>1, <1>0, <1>1 DEF Told, ToldTruly, Typed
      <3>3. 0 \notin parked'
        BY <1>0, <1>1, <1>3, MaxWaitNat DEF Typed, Wait
      <3> QED
        BY <3>1, <3>2, <3>3, <1>0, <1>1, <1>4, SettledTruly DEF None
    <2> QED
      BY <2>1, <2>2
  <1>11. Attended'
    <2> SUFFICES ASSUME NEW x \in parked', ~ \E u \in timers : u.wait = x
                 PROVE  \E g \in Hop : hop'[g].wait = x
      BY <1>1 DEF Attended
    <2>1. CASE x = w
      BY <2>1, <1>6, <1>7
    <2>2. CASE x # w
      <3>1. x \in parked /\ x # 0
        BY <2>2, <1>0, <1>1, MaxWaitNat DEF Typed, Wait
      <3>2. PICK g \in Hop : hop[g].wait = x
        BY <3>1, <1>0 DEF Attended
      <3>3. g # h
        BY <3>1, <3>2, <1>1 DEF Idle
      <3> QED
        BY <3>2, <3>3, <1>5, <1>7
    <2> QED
      BY <2>1, <2>2
  <1>12. Spare'
    <2>1. ASSUME NEW x \in Unused, x # w
          PROVE  x \in Unused'
      <3>1. x \notin parked' \cup out' \cup waiting' /\ \A g \in Hop : hop'[g].wait # x
        BY <2>1, <1>1, <1>4, <1>5, <1>6, <1>7, UnusedApart
      <3> QED
        BY <3>1, <1>1, StaysUnused
    <2>2. \A g \in Active' : g \in Active \/ g = h
      <3> SUFFICES ASSUME NEW g \in Active', g # h, g \notin Active
                   PROVE  FALSE
        OBVIOUS
      <3>1. g \in Hop /\ hop'[g] # Idle /\ hop[g] = Idle
        BY DEF Active
      <3>2. hop[g].wait = 0
        BY <3>1 DEF Idle
      <3> QED
        BY <3>1, <3>2, <1>5, <1>7
    <2> QED
      BY <2>1, <2>2, <1>1, SpareTaken
  <1> QED
    BY <1>4, <1>8, <1>9, <1>10, <1>11, <1>12, Parts


\* A step at the pool that leaves the waits alone.
LEMMA SettleKeeps ==
    ASSUME Typed, Told, Attended, Spare,
           hop' = Settled({}), UNCHANGED <<parked, turnOf, timers, ended>>,
           waiting' \cup out' \subseteq waiting \cup out \cup Other,
           \A v \in parked \cap out : v \in out',
           \A g \in Hop : hop[g].outcome # "timeout"
    PROVE  hop' \in [Hop -> Seen] /\ Told' /\ Attended' /\ Spare'
  <1>0. parked \subseteq Wait /\ 0 \notin Wait
    BY MaxWaitNat DEF Typed, Wait
  <1>1. /\ hop' \in [Hop -> Seen]
        /\ \A g \in Hop : hop'[g].wait = hop[g].wait /\ (hop[g].wait = 0 => hop'[g] = hop[g])
    BY SettledTells DEF Typed
  <1>2. Told'
    <2> SUFFICES ASSUME NEW g \in Hop
                 PROVE  ToldTruly(g)'
      BY DEF Told
    <2> DEFINE v == hop[g].wait
    <2>1. v \in parked' => v \in parked
      OBVIOUS
    <2>2. v \in parked' /\ v \in out => v \in out'
      OBVIOUS
    <2>3. v \in parked' /\ v \in waiting' \cup out' => turnOf'[v] \notin ended'
      <3> SUFFICES ASSUME v \in parked, v \in waiting' \cup out'
                   PROVE  turnOf[v] \notin ended
        OBVIOUS
      <3>1. v \in waiting \cup out
        BY <1>0, OtherApart
      <3> QED
        BY <3>1 DEF Told, ToldTruly
    <2> HIDE DEF v
    <2>4. v \notin {} /\ 0 \notin parked' /\ hop'[g] = Settled({})[g]
      BY <1>0
    <2> QED
      BY <2>1, <2>2, <2>3, <2>4, SettledTruly DEF v
  <1>3. Attended'
    BY <1>1 DEF Attended
  <1>4. Spare'
    <2>1. ASSUME NEW x \in Unused
          PROVE  x \in Unused'
      <3>1. x \in Wait /\ x \notin parked /\ x \notin waiting \cup out /\ \A g \in Hop : hop[g].wait # x
        BY UnusedApart
      <3>2. x \notin parked' \cup out' \cup waiting'
        BY <3>1, OtherApart
      <3> QED
        BY <3>1, <3>2, <1>1, StaysUnused
    <2>2. \A g \in Active' : g \in Active
      <3> SUFFICES ASSUME NEW g \in Active', g \notin Active
                   PROVE  FALSE
        OBVIOUS
      <3>1. g \in Hop /\ hop'[g] # Idle /\ hop[g] = Idle
        BY DEF Active
      <3>2. hop[g].wait = 0
        BY <3>1 DEF Idle
      <3> QED
        BY <3>1, <3>2, <1>1
    <2> QED
      BY <2>1, <2>2, SpareKept
  <1> QED
    BY <1>1, <1>2, <1>3, <1>4

LEMMA ReleaseKeeps ==
    ASSUME BrokerInv, NEW w \in Wait, Release(w)
    PROVE  BrokerInv'
  <1>0. PoolOK /\ Typed /\ Hands /\ Told /\ Attended /\ Spare
    BY Parts
  <1>1. /\ Quiet /\ grants[w] > 0 /\ grants' = [grants EXCEPT ![w] = @ - 1]
        /\ Serve(waiting, ahead, out \ {w}) /\ hop' = Settled({})
        /\ UNCHANGED <<dropped, parked, turnOf, timers, ended, halted, closed>>
    BY DEF Release
  <1>2. grants[w] = 1 /\ w \in out /\ w \notin parked /\ w \notin dropped
    BY <1>0, <1>1 DEF Hands, OneHand, Typed
  <1>3. grants' \in [Wait -> 0 .. Cardinality(Hop)] /\ grants'[w] = 0 /\ \A x \in Wait \ {w} : grants'[x] = grants[x]
    <2>1. grants'[w] = 0 /\ \A x \in Wait \ {w} : grants'[x] = grants[x]
      BY <1>0, <1>1, <1>2 DEF Typed
    <2>2. Cardinality(Hop) \in Nat
      BY HopFinite, FS_CardinalityType
    <2> QED
      BY <2>1, <2>2, <1>0, <1>1, <1>2 DEF Typed
  <1>4. /\ PoolOK'
        /\ waiting' \subseteq waiting /\ out \ {w} \subseteq out' /\ out' \ out \subseteq waiting
        /\ waiting' \cup out' = waiting \cup (out \ {w}) /\ w \notin out'
    BY <1>0, <1>1, <1>2, FreeSound
  <1>5. hop' \in [Hop -> Seen] /\ Told' /\ Attended' /\ Spare'
    <2>1. \A g \in Hop : hop[g].outcome # "timeout"
      BY <1>1 DEF Quiet, None
    <2> QED
      BY <2>1, <1>0, <1>1, <1>2, <1>4, SettleKeeps
  <1>6. Typed'
    BY <1>0, <1>1, <1>2, <1>3, <1>4, <1>5 DEF Typed
  <1>7. Hands'
    <2>1. OneHand'
      BY <1>0, <1>1, <1>2, <1>3, <1>4 DEF Hands, OneHand
    <2>2. \A x \in Wait : grants'[x] <= 1 /\ (grants'[x] = 1 => x \in out')
      BY <1>0, <1>3, <1>4 DEF Hands
    <2>3. \A x \in out' \cap Wait : grants'[x] > 0 \/ x \in parked' \/ x \in dropped'
      BY <1>0, <1>1, <1>3, <1>4 DEF Hands, OneHand
    <2>4. \A x \in Wait : grants'[x] > 0 => turnOf'[x] \notin ended'
      BY <1>0, <1>1, <1>3 DEF Hands
    <2> QED
      BY <2>1, <2>2, <2>3, <2>4 DEF Hands
  <1> QED
    BY <1>4, <1>5, <1>6, <1>7, Parts

LEMMA DropKeeps ==
    ASSUME BrokerInv, NEW w \in Wait, DropLease(w)
    PROVE  BrokerInv'
  <1>0. PoolOK /\ Typed /\ Hands /\ Told /\ Attended /\ Spare
    BY Parts
  <1>1. /\ w \in dropped /\ dropped' = dropped \ {w}
        /\ Serve(waiting, ahead, out \ {w}) /\ hop' = Settled({})
        /\ UNCHANGED <<parked, turnOf, timers, grants, ended, halted, closed>>
    BY DEF DropLease
  <1>2. w \in out /\ w \notin parked /\ ~(grants[w] > 0)
    BY <1>0, <1>1 DEF Hands, OneHand, Typed
  <1>3. /\ PoolOK'
        /\ waiting' \subseteq waiting /\ out \ {w} \subseteq out' /\ out' \ out \subseteq waiting
        /\ waiting' \cup out' = waiting \cup (out \ {w}) /\ w \notin out'
    BY <1>0, <1>1, <1>2, FreeSound
  <1>4. hop' \in [Hop -> Seen] /\ Told' /\ Attended' /\ Spare'
    <2>1. \A g \in Hop : hop[g].outcome # "timeout"
      BY <1>0, <1>1 DEF Told, ToldTruly
    <2> QED
      BY <2>1, <1>0, <1>1, <1>2, <1>3, SettleKeeps
  <1>5. Typed'
    BY <1>0, <1>1, <1>2, <1>3, <1>4 DEF Typed
  <1>6. Hands'
    <2>1. OneHand'
      BY <1>0, <1>1, <1>2, <1>3 DEF Hands, OneHand
    <2>2. \A x \in Wait : grants'[x] <= 1 /\ (grants'[x] = 1 => x \in out')
      BY <1>0, <1>1, <1>2, <1>3 DEF Hands
    <2>3. \A x \in out' \cap Wait : grants'[x] > 0 \/ x \in parked' \/ x \in dropped'
      BY <1>0, <1>1, <1>3 DEF Hands, OneHand
    <2>4. \A x \in Wait : grants'[x] > 0 => turnOf'[x] \notin ended'
      BY <1>0, <1>1 DEF Hands
    <2> QED
      BY <2>1, <2>2, <2>3, <2>4 DEF Hands
  <1> QED
    BY <1>3, <1>4, <1>5, <1>6, Parts

LEMMA OtherKeeps ==
    ASSUME BrokerInv, NEW o \in Other, OtherAcquire(o) \/ OtherRelease(o)
    PROVE  BrokerInv'
  <1>0. PoolOK /\ Typed /\ Hands /\ Told /\ Attended /\ Spare
    BY Parts
  <1>1. /\ Quiet /\ hop' = Settled({})
        /\ UNCHANGED <<dropped, parked, turnOf, timers, grants, ended, halted, closed>>
    BY DEF OtherAcquire, OtherRelease
  <1>2. o \notin Wait /\ o \in Place
    BY OtherApart DEF Place
  <1>3. /\ PoolOK'
        /\ out \ {o} \subseteq out' /\ out' \subseteq out \cup waiting \cup {o}
        /\ waiting' \subseteq waiting \cup {o}
        /\ waiting' \cup out' \subseteq waiting \cup out \cup {o}
    <2>1. CASE OtherAcquire(o)
      <3>1. Join(o) /\ o \notin waiting /\ o \notin out
        BY <2>1 DEF OtherAcquire
      <3> QED
        BY <3>1, <1>0, <1>2, JoinSound
    <2>2. CASE OtherRelease(o)
      <3>1. Serve(waiting, ahead, out \ {o})
        BY <2>2 DEF OtherRelease
      <3> QED
        BY <3>1, <1>0, FreeSound
    <2> QED
      BY <2>1, <2>2
  <1>4. hop' \in [Hop -> Seen] /\ Told' /\ Attended' /\ Spare'
    <2>1. \A g \in Hop : hop[g].outcome # "timeout"
      BY <1>1 DEF Quiet, None
    <2>2. waiting' \cup out' \subseteq waiting \cup out \cup Other
      BY <1>3
    <2>3. \A v \in parked \cap out : v \in out'
      BY <1>0, <1>2, <1>3 DEF Typed
    <2> QED
      BY <2>1, <2>2, <2>3, <1>0, <1>1, SettleKeeps
  <1>5. Typed'
    BY <1>0, <1>1, <1>2, <1>3, <1>4 DEF Typed
  <1>6. Hands'
    <2>1. OneHand'
      BY <1>0, <1>1, <1>2, <1>3 DEF Hands, OneHand
    <2>2. \A x \in Wait : grants'[x] <= 1 /\ (grants'[x] = 1 => x \in out')
      BY <1>0, <1>1, <1>2, <1>3 DEF Hands
    <2>3. \A x \in out' \cap Wait : grants'[x] > 0 \/ x \in parked' \/ x \in dropped'
      BY <1>0, <1>1, <1>2, <1>3 DEF Hands, OneHand
    <2>4. \A x \in Wait : grants'[x] > 0 => turnOf'[x] \notin ended'
      BY <1>0, <1>1 DEF Hands
    <2> QED
      BY <2>1, <2>2, <2>3, <2>4 DEF Hands
  <1> QED
    BY <1>3, <1>4, <1>5, <1>6, Parts


LEMMA ResumeKeeps ==
    ASSUME BrokerInv, NEW h \in Hop, NEW w \in Wait, HopResume(h, w)
    PROVE  BrokerInv'
  <1> DEFINE mine == [wait |-> w, turn |-> turnOf[w], outcome |-> IF w \in out THEN "lease" ELSE None]
  <1>0. PoolOK /\ Typed /\ Hands /\ Told /\ Attended /\ Spare
    BY Parts
  <1>1. /\ Quiet /\ hop[h] = Idle /\ w \in parked /\ turnOf[w] \notin ended /\ RoomForFresh
        /\ timers' = Cleared(timers, {w}) /\ hop' = [hop EXCEPT ![h] = mine]
        /\ UNCHANGED <<waiting, ahead, out, dropped, parked, turnOf, grants, ended, halted, closed>>
    BY DEF HopResume, Admitted
  <1>2. /\ timers' \in SUBSET Timer /\ Waits(timers') \subseteq Waits(timers)
        /\ Waits(timers) \ {w} \subseteq Waits(timers')
    BY <1>0, <1>1, ClearedKeeps DEF Typed
  <1>3. mine \in Seen /\ mine.wait = w /\ mine.outcome = IF w \in out THEN "lease" ELSE None
    BY <1>0, MaxWaitNat DEF Seen, Wait, Typed
  <1>4. w # 0 /\ 0 \notin Wait
    BY MaxWaitNat DEF Wait
  <1> HIDE DEF mine
  <1>5. hop' \in [Hop -> Seen] /\ hop'[h] = mine /\ \A g \in Hop \ {h} : hop'[g] = hop[g]
    BY <1>0, <1>1, <1>3 DEF Typed
  <1>6. PoolOK' /\ Typed' /\ Hands'
    <2>1. PoolOK'
      BY <1>0, <1>1 DEF PoolOK, PoolSound
    <2>2. Typed'
      BY <1>0, <1>1, <1>2, <1>5 DEF Typed
    <2>3. Hands'
      BY <1>0, <1>1 DEF Hands, OneHand
    <2> QED
      BY <2>1, <2>2, <2>3
  <1>7. Told'
    <2> SUFFICES ASSUME NEW g \in Hop
                 PROVE  ToldTruly(g)'
      BY DEF Told
    <2>1. CASE g = h
      BY <2>1, <1>1, <1>3, <1>4, <1>5 DEF ToldTruly, Idle, None
    <2>2. CASE g # h
      <3>1. hop'[g] = hop[g] /\ hop[g].outcome = None
        BY <2>2, <1>1, <1>5 DEF Quiet
      <3> QED
        BY <3>1, <1>0, <1>1 DEF Told, ToldTruly, None
    <2> QED
      BY <2>1, <2>2
  <1>8. Attended'
    <2> SUFFICES ASSUME NEW x \in parked
                 PROVE  (\E g \in Hop : hop'[g].wait = x) \/ (\E u \in timers' : u.wait = x)
      BY <1>1 DEF Attended
    <2>1. CASE x = w
      BY <2>1, <1>3, <1>5
    <2>2. CASE x # w
      <3>1. x # 0
        BY <1>0, <1>4 DEF Typed
      <3>2. (\E g \in Hop : hop[g].wait = x) \/ x \in Waits(timers)
        BY <1>0 DEF Attended, Waits
      <3>3. CASE x \in Waits(timers)
        <4>1. x \in Waits(timers')
          BY <3>3, <2>2, <1>2
        <4> QED
          BY <4>1 DEF Waits
      <3>4. CASE \E g \in Hop : hop[g].wait = x
        BY <3>1, <3>4, <1>1, <1>5 DEF Idle
      <3> QED
        BY <3>2, <3>3, <3>4
    <2> QED
      BY <2>1, <2>2
  <1>9. Spare'
    <2>1. ASSUME NEW x \in Unused, x # w
          PROVE  x \in Unused'
      <3>1. x \notin parked' \cup out' \cup waiting' /\ \A g \in Hop : hop'[g].wait # x
        BY <2>1, <1>1, <1>3, <1>5, UnusedApart
      <3> QED
        BY <3>1, <1>2, StaysUnused
    <2>2. \A g \in Active' : g \in Active \/ g = h
      BY <1>5 DEF Active
    <2> QED
      BY <2>1, <2>2, <1>1, SpareTaken
  <1> QED
    BY <1>6, <1>7, <1>8, <1>9, Parts

LEMMA TimeoutKeeps ==
    ASSUME BrokerInv, NEW h \in Hop, HopTimeout(h)
    PROVE  BrokerInv'
  <1>0. PoolOK /\ Typed /\ Hands /\ Told /\ Attended /\ Spare
    BY Parts
  <1>1. /\ Quiet /\ hop[h] # Idle /\ hop' = [hop EXCEPT ![h].outcome = "timeout"]
        /\ UNCHANGED <<waiting, ahead, out, dropped, parked, turnOf, timers, grants, ended, halted, closed>>
    BY DEF HopTimeout
  <1>2. hop[h] \in Seen /\ hop[h].outcome = None /\ hop[h].wait # 0
    BY <1>0, <1>1 DEF Quiet, Told, ToldTruly, Typed
  <1>3. /\ hop' \in [Hop -> Seen] /\ \A g \in Hop \ {h} : hop'[g] = hop[g]
        /\ hop'[h].wait = hop[h].wait /\ hop'[h].outcome = "timeout"
    BY <1>0, <1>1, <1>2 DEF Typed, Seen
  <1>4. PoolOK' /\ Typed' /\ Hands'
    <2>1. PoolOK'
      BY <1>0, <1>1 DEF PoolOK, PoolSound
    <2>2. Typed'
      BY <1>0, <1>1, <1>3 DEF Typed
    <2>3. Hands'
      BY <1>0, <1>1 DEF Hands, OneHand
    <2> QED
      BY <2>1, <2>2, <2>3
  <1>5. Told'
    <2> SUFFICES ASSUME NEW g \in Hop
                 PROVE  ToldTruly(g)'
      BY DEF Told
    <2>1. CASE g = h
      <3>1. hop[h].wait \notin out /\ dropped = {} /\ \A f \in Hop \ {h} : hop'[f].outcome = None
        BY <1>0, <1>1, <1>2, <1>3 DEF Told, ToldTruly, Quiet
      <3>2. hop'[h] # Idle
        BY <1>2, <1>3 DEF Idle
      <3>3. hop[h].wait \in parked /\ hop[h].wait \in waiting \cup out => turnOf[hop[h].wait] \notin ended
        BY <1>0 DEF Told, ToldTruly
      <3> QED
        BY <2>1, <3>1, <3>2, <3>3, <1>1, <1>2, <1>3 DEF ToldTruly, None
    <2>2. CASE g # h
      <3>1. hop'[g] = hop[g] /\ hop[g].outcome = None
        BY <2>2, <1>1, <1>3 DEF Quiet
      <3> QED
        BY <3>1, <1>0, <1>1 DEF Told, ToldTruly, None
    <2> QED
      BY <2>1, <2>2
  <1>6. \A g \in Hop : hop'[g].wait = hop[g].wait
    BY <1>3
  <1>7. Attended'
    BY <1>0, <1>1, <1>6 DEF Attended
  <1>8. Spare'
    <2>1. ASSUME NEW x \in Unused
          PROVE  x \in Unused'
      <3>1. x \notin parked' \cup out' \cup waiting' /\ \A g \in Hop : hop'[g].wait # x
        BY <1>1, <1>6, UnusedApart
      <3> QED
        BY <3>1, <1>1, StaysUnused
    <2>2. \A g \in Active' : g \in Active
      BY <1>1, <1>3 DEF Active
    <2> QED
      BY <2>1, <2>2, <1>0, SpareKept
  <1> QED
    BY <1>4, <1>5, <1>7, <1>8, Parts

LEMMA ParksKeeps ==
    ASSUME BrokerInv, NEW h \in Hop, HopParks(h)
    PROVE  BrokerInv'
  <1> DEFINE w == hop[h].wait
  <1>0. PoolOK /\ Typed /\ Hands /\ Told /\ Attended /\ Spare
    BY Parts
  <1>1. /\ hop[h].outcome = "timeout" /\ parked' = parked \cup {w}
        /\ timers' = Park(w, h, timers) /\ hop' = [hop EXCEPT ![h] = Idle]
        /\ UNCHANGED <<waiting, ahead, out, dropped, turnOf, grants, ended, halted, closed>>
    BY DEF HopParks
  <1>2. /\ w \in Wait /\ w # 0 /\ w \notin out /\ dropped = {}
        /\ \A g \in Hop \ {h} : hop[g].outcome = None
        /\ 0 \notin Wait
    <2>1. w # 0
      BY <1>0, <1>1 DEF Told, ToldTruly, Idle, None
    <2>2. w \in 0 .. MaxWait
      BY <1>0 DEF Typed, Seen
    <2> QED
      BY <2>1, <2>2, <1>0, <1>1, MaxWaitNat DEF Told, ToldTruly, Wait
  <1> HIDE DEF w
  <1>3. timers' \in SUBSET Timer /\ Waits(timers') = Waits(timers) \cup {w}
    BY <1>0, <1>1, <1>2, TimersKept DEF Typed
  <1>4. hop' \in [Hop -> Seen] /\ hop'[h] = Idle /\ \A g \in Hop \ {h} : hop'[g] = hop[g]
    <2>1. Idle \in Seen
      BY MaxWaitNat DEF Idle, Seen
    <2> QED
      BY <2>1, <1>0, <1>1 DEF Typed
  <1>5. PoolOK' /\ Typed' /\ Hands'
    <2>1. PoolOK'
      BY <1>0, <1>1 DEF PoolOK, PoolSound
    <2>2. Typed'
      BY <1>0, <1>1, <1>2, <1>3, <1>4 DEF Typed
    <2>3. ~(grants[w] > 0)
      BY <1>0, <1>2 DEF Hands, Typed
    <2>4. OneHand'
      BY <2>3, <1>0, <1>1, <1>2 DEF Hands, OneHand
    <2>5. Hands'
      BY <2>4, <1>0, <1>1 DEF Hands
    <2> QED
      BY <2>1, <2>2, <2>5
  <1>6. Told'
    <2> SUFFICES ASSUME NEW g \in Hop
                 PROVE  ToldTruly(g)'
      BY DEF Told
    <2>1. CASE g = h
      <3>1. 0 \notin parked'
        BY <1>0, <1>1, <1>2 DEF Typed
      <3> QED
        BY <2>1, <3>1, <1>4 DEF ToldTruly, Idle, None
    <2>2. CASE g # h
      <3>1. hop'[g] = hop[g] /\ hop[g].outcome = None
        BY <2>2, <1>2, <1>4
      <3>2. ToldTruly(g)
        BY <1>0 DEF Told
      <3>3. w \in parked \/ w \notin waiting \cup out
        BY <1>0, <1>2 DEF Hands, OneHand
      <3> QED
        BY <3>1, <3>2, <3>3, <1>1 DEF ToldTruly, None
    <2> QED
      BY <2>1, <2>2
  <1>7. Attended'
    <2> SUFFICES ASSUME NEW x \in parked', x \notin Waits(timers')
                 PROVE  \E g \in Hop : hop'[g].wait = x
      BY DEF Attended, Waits
    <2>1. x # w /\ x \in parked /\ x \notin Waits(timers)
      BY <1>1, <1>3
    <2>2. PICK g \in Hop : hop[g].wait = x
      BY <2>1, <1>0 DEF Attended, Waits
    <2>3. g # h
      BY <2>1, <2>2 DEF w
    <2> QED
      BY <2>2, <2>3, <1>4
  <1>8. Spare'
    <2>1. ASSUME NEW x \in Unused
          PROVE  x \in Unused'
      <3>1. x # w /\ x # 0 /\ \A g \in Hop : hop[g].wait # x
        BY UnusedApart DEF w
      <3>2. x \notin parked' \cup out' \cup waiting' /\ \A g \in Hop : hop'[g].wait # x
        BY <3>1, <1>1, <1>4, UnusedApart DEF Idle
      <3>3. x \notin Waits(timers')
        BY <3>1, <1>3, UnusedApart
      <3> QED
        BY <3>2, <3>3, StaysUnused
    <2>2. \A g \in Active' : g \in Active
      BY <1>4 DEF Active
    <2> QED
      BY <2>1, <2>2, <1>0, SpareKept
  <1> QED
    BY <1>5, <1>6, <1>7, <1>8, Parts

LEMMA RefusedKeeps ==
    ASSUME BrokerInv, NEW h \in Hop, HopRefused(h)
    PROVE  BrokerInv'
  <1>0. PoolOK /\ Typed /\ Hands /\ Told /\ Attended /\ Spare
    BY Parts
  <1>1. /\ hop[h].outcome = "refused"
        /\ timers' = Elapsed(timers, h) /\ hop' = [hop EXCEPT ![h] = Idle]
        /\ UNCHANGED <<waiting, ahead, out, dropped, parked, turnOf, grants, ended, halted, closed>>
    BY DEF HopRefused
  <1>2. hop[h].wait \notin parked /\ 0 \notin parked
    BY <1>0, <1>1, MaxWaitNat DEF Told, ToldTruly, Typed, Wait
  <1>3. timers' \in SUBSET Timer /\ Waits(timers') = Waits(timers)
    BY <1>0, <1>1, TimersKept DEF Typed
  <1>4. hop' \in [Hop -> Seen] /\ hop'[h] = Idle /\ \A g \in Hop \ {h} : hop'[g] = hop[g]
    <2>1. Idle \in Seen
      BY MaxWaitNat DEF Idle, Seen
    <2> QED
      BY <2>1, <1>0, <1>1 DEF Typed
  <1>5. PoolOK' /\ Typed' /\ Hands'
    <2>1. PoolOK'
      BY <1>0, <1>1 DEF PoolOK, PoolSound
    <2>2. Typed'
      BY <1>0, <1>1, <1>3, <1>4 DEF Typed
    <2>3. Hands'
      BY <1>0, <1>1 DEF Hands, OneHand
    <2> QED
      BY <2>1, <2>2, <2>3
  <1>6. Told'
    <2> SUFFICES ASSUME NEW g \in Hop
                 PROVE  ToldTruly(g)'
      BY DEF Told
    <2>1. CASE g = h
      BY <2>1, <1>1, <1>2, <1>4 DEF ToldTruly, Idle, None
    <2>2. CASE g # h
      <3>1. hop'[g] = hop[g] /\ ToldTruly(g)
        BY <2>2, <1>0, <1>4 DEF Told
      <3>2. hop[g].outcome # "timeout"
        BY <2>2, <3>1, <1>1 DEF ToldTruly, None
      <3> QED
        BY <3>1, <3>2, <1>1 DEF ToldTruly
    <2> QED
      BY <2>1, <2>2
  <1>7. Attended'
    <2> SUFFICES ASSUME NEW x \in parked, x \notin Waits(timers)
                 PROVE  \E g \in Hop : hop'[g].wait = x
      BY <1>1, <1>3 DEF Attended, Waits
    <2>1. PICK g \in Hop : hop[g].wait = x
      BY <1>0 DEF Attended, Waits
    <2> QED
      BY <2>1, <1>2, <1>4
  <1>8. Spare'
    <2>1. ASSUME NEW x \in Unused
          PROVE  x \in Unused'
      <3>1. x \notin parked' \cup out' \cup waiting' /\ \A g \in Hop : hop'[g].wait # x
        BY <1>1, <1>4, UnusedApart DEF Idle
      <3> QED
        BY <3>1, <1>3, StaysUnused
    <2>2. \A g \in Active' : g \in Active
      BY <1>4 DEF Active
    <2> QED
      BY <2>1, <2>2, <1>0, SpareKept
  <1> QED
    BY <1>5, <1>6, <1>7, <1>8, Parts


\* A reaper fires.
LEMMA ReapKeeps ==
    ASSUME BrokerInv, NEW t \in timers, Reap(t)
    PROVE  BrokerInv'
  <1> DEFINE w == t.wait
  <1>0. PoolOK /\ Typed /\ Hands /\ Told /\ Attended /\ Spare
    BY Parts
  <1>1. /\ Quiet /\ timers' = timers \ {t} /\ parked' = parked \ {w}
        /\ IF w \in parked THEN Abandoned({w}, waiting, ahead, out) ELSE UNCHANGED <<waiting, ahead, out, dropped>>
        /\ UNCHANGED <<turnOf, grants, ended, halted, closed, hop>>
    BY DEF Reap
  <1>2. timers \in SUBSET Timer /\ w \in Wait
    BY <1>0 DEF Typed, Timer
  <1> HIDE DEF w
  <1>3. /\ PoolOK' /\ out' = out /\ waiting' = waiting \ {w}
        /\ dropped' = IF w \in parked THEN {w} \cap out ELSE {}
    <2>1. dropped = {}
      BY <1>1 DEF Quiet
    <2>2. CASE w \in parked
      <3>1. /\ waiting' = waiting \ {w} /\ ahead' = Without(ahead, {w}) /\ out' = out
            /\ dropped' = dropped \cup ({w} \cap out)
        BY <1>1, <2>2 DEF Abandoned
      <3>2. PoolOK'
        BY <3>1, <1>0, LeaveSound
      <3> QED
        BY <2>1, <2>2, <3>1, <3>2
    <2>3. CASE w \notin parked
      <3>1. UNCHANGED <<waiting, ahead, out, dropped>>
        BY <1>1, <2>3
      <3>2. w \notin waiting
        BY <1>0, <1>2, <2>3 DEF Hands, OneHand
      <3>3. PoolOK'
        BY <3>1, <1>0 DEF PoolOK, PoolSound
      <3> QED
        BY <2>1, <2>3, <3>1, <3>2, <3>3
    <2> QED
      BY <2>2, <2>3
  <1>4. Typed'
    BY <1>0, <1>1, <1>2, <1>3 DEF Typed
  <1>5. Hands'
    <2>1. OneHand'
      BY <1>0, <1>1, <1>3 DEF Hands, OneHand
    <2>2. \A x \in Wait : grants'[x] <= 1 /\ (grants'[x] = 1 => x \in out')
      BY <1>0, <1>1, <1>3 DEF Hands
    <2>3. \A x \in out' \cap Wait : grants'[x] > 0 \/ x \in parked' \/ x \in dropped'
      BY <1>0, <1>1, <1>3 DEF Hands, Quiet
    <2>4. \A x \in Wait : grants'[x] > 0 => turnOf'[x] \notin ended'
      BY <1>0, <1>1 DEF Hands
    <2> QED
      BY <2>1, <2>2, <2>3, <2>4 DEF Hands
  <1>6. Told'
    <2> SUFFICES ASSUME NEW g \in Hop
                 PROVE  ToldTruly(g)'
      BY DEF Told
    <2>1. hop[g].outcome = None /\ ToldTruly(g)
      BY <1>0, <1>1 DEF Quiet, Told
    <2> QED
      BY <2>1, <1>1, <1>3 DEF ToldTruly, None
  <1>7. Attended'
    <2> SUFFICES ASSUME NEW x \in parked, x # w, ~ \E u \in timers' : u.wait = x
                 PROVE  \E g \in Hop : hop[g].wait = x
      BY <1>1 DEF Attended
    <2>1. ~ \E u \in timers : u.wait = x
      BY <1>1 DEF w
    <2> QED
      BY <2>1, <1>0 DEF Attended
  <1>8. Spare'
    <2>1. ASSUME NEW x \in Unused
          PROVE  x \in Unused'
      <3>1. x \notin parked' \cup out' \cup waiting' /\ \A g \in Hop : hop'[g].wait # x
        BY <1>1, <1>3, UnusedApart
      <3>2. Waits(timers') \subseteq Waits(timers)
        BY <1>1 DEF Waits
      <3> QED
        BY <3>1, <3>2, StaysUnused
    <2>2. \A g \in Active' : g \in Active
      BY <1>1 DEF Active
    <2> QED
      BY <2>1, <2>2, <1>0, SpareKept
  <1> QED
    BY <1>3, <1>4, <1>5, <1>6, <1>7, <1>8, Parts

\* What a release and a cancellation in one call do to the pool: whoever is granted
\* on the way out and cancelled has its lease given back later.
LEMMA CancelSound ==
    ASSUME PoolOK, NEW R, NEW C, ReleaseAndCancel(R, C)
    PROVE  /\ PoolOK'
           /\ waiting' \subseteq waiting \ C /\ out \ R \subseteq out' /\ out' \subseteq (out \ R) \cup waiting
           /\ dropped' = dropped \cup (C \cap out')
  <1> DEFINE left == out \ R
        G == Granted(waiting, ahead, left)
  <1>1. /\ dropped' = dropped \cup (C \cap (left \cup G)) /\ out' = left \cup G
        /\ waiting' = (waiting \ G) \ C /\ ahead' = Without(Without(ahead, G), C)
    BY DEF ReleaseAndCancel, Abandoned
  <1>2. Ordered(waiting, ahead) /\ IsFiniteSet(out) /\ waiting \cap out = {}
        /\ out \subseteq Place /\ Cardinality(out) <= Capacity
    BY DEF PoolOK, PoolSound
  <1>3. IsFiniteSet(left) /\ Cardinality(left) <= Capacity /\ waiting \cap left = {}
    <2>1. IsFiniteSet(left) /\ Cardinality(left) <= Cardinality(out)
      BY <1>2, FS_Subset
    <2>2. Cardinality(left) \in Nat /\ Cardinality(out) \in Nat /\ Capacity \in Nat
      BY <1>2, <2>1, FS_CardinalityType, CapacityNat
    <2> QED
      BY <1>2, <2>1, <2>2
  <1> HIDE DEF left
  <1>4. /\ G \subseteq waiting /\ IsFiniteSet(left \cup G)
        /\ Cardinality(left \cup G) <= Capacity
        /\ waiting \ G # {} => Cardinality(left \cup G) >= Capacity
    BY <1>2, <1>3, GrantedFits
  <1> HIDE DEF G
  <1>5. Ordered(waiting \ G, Without(ahead, G))
    BY <1>2, WithoutOrdered
  <1>6. Ordered(waiting', ahead')
    BY <1>1, <1>5, WithoutOrdered
  <1>7. waiting' \cap out' = {}
    BY <1>1, <1>3
  <1>8. PoolSound'
    BY <1>1, <1>4, <1>6, <1>7 DEF PoolSound
  <1>9. waiting' \subseteq Place /\ ahead' \in [Place -> SUBSET waiting'] /\ out' \subseteq Place
    BY <1>1, <1>2, <1>4, <1>6 DEF Ordered, left
  <1> QED
    BY <1>1, <1>4, <1>8, <1>9 DEF PoolOK, left

\* A session that ends, a drain and a close.
LEMMA CancelKeeps ==
    ASSUME BrokerInv, Quiet, NEW R, NEW C, ReleaseAndCancel(R, C),
           R \subseteq {w \in Wait : grants[w] > 0}, C \subseteq parked,
           UNCHANGED turnOf, ended' \subseteq Turn, halted' \in BOOLEAN, closed' \in BOOLEAN,
           \A w \in Wait : grants[w] > 0 /\ turnOf[w] \in ended' => w \in R,
           \A w \in parked : turnOf[w] \in ended' /\ turnOf[w] \notin ended => w \in C
    PROVE  BrokerInv'
  <1>0. PoolOK /\ Typed /\ Hands /\ Told /\ Attended /\ Spare
    BY Parts
  <1>1. /\ PoolOK'
        /\ waiting' \subseteq waiting \ C /\ out \ R \subseteq out' /\ out' \subseteq (out \ R) \cup waiting
        /\ dropped' = C \cap out'
    BY <1>0, CancelSound DEF Quiet
  <1>2. /\ grants' = [w \in Wait |-> IF w \in R THEN 0 ELSE grants[w]]
        /\ parked' = parked \ C /\ timers' = Cleared(timers, C) /\ hop' = Settled(C)
    BY DEF ReleaseAndCancel
  <1>3. /\ hop' \in [Hop -> Seen]
        /\ \A g \in Hop : hop'[g].wait = hop[g].wait /\ (hop[g].wait = 0 => hop'[g] = hop[g])
    BY <1>0, <1>2, SettledTells DEF Typed
  <1>4. timers' \in SUBSET Timer /\ Waits(timers') \subseteq Waits(timers) /\ Waits(timers) \ C \subseteq Waits(timers')
    BY <1>0, <1>2, ClearedKeeps DEF Typed
  <1>5. parked \subseteq Wait /\ 0 \notin Wait
    BY <1>0, MaxWaitNat DEF Typed, Wait
  <1>6. \A w \in parked : w \notin R
    BY <1>0, <1>5 DEF Hands, OneHand
  <1>7. Typed'
    <2>1. grants' \in [Wait -> 0 .. Cardinality(Hop)]
      <3>1. Cardinality(Hop) \in Nat
        BY HopFinite, FS_CardinalityType
      <3> QED
        BY <3>1, <1>0, <1>2 DEF Typed
    <2> QED
      BY <2>1, <1>0, <1>1, <1>2, <1>3, <1>4, <1>5 DEF Typed
  <1>8. Hands'
    <2>0. \A x \in Wait : grants'[x] = IF x \in R THEN 0 ELSE grants[x]
      BY <1>2
    <2>1. OneHand'
      BY <2>0, <1>0, <1>1, <1>2 DEF Hands, OneHand
    <2>2. \A x \in Wait : grants'[x] <= 1 /\ (grants'[x] = 1 => x \in out')
      BY <2>0, <1>0, <1>1 DEF Hands
    <2>3. \A x \in out' \cap Wait : grants'[x] > 0 \/ x \in parked' \/ x \in dropped'
      <3> SUFFICES ASSUME NEW x \in out', x \in Wait, x \notin parked', x \notin C
                   PROVE  grants'[x] > 0
        BY <1>1
      <3>1. x \notin parked
        BY <1>2
      <3>2. x \in out /\ x \notin R
        BY <3>1, <1>0, <1>1 DEF Hands, OneHand
      <3> QED
        BY <2>0, <3>1, <3>2, <1>0 DEF Hands, Quiet
    <2>4. \A x \in Wait : grants'[x] > 0 => turnOf'[x] \notin ended'
      BY <2>0
    <2> QED
      BY <2>1, <2>2, <2>3, <2>4 DEF Hands
  <1>9. Told'
    <2> SUFFICES ASSUME NEW g \in Hop
                 PROVE  ToldTruly(g)'
      BY DEF Told
    <2> DEFINE v == hop[g].wait
    <2>1. v \in C => v \notin parked'
      BY <1>2
    <2>2. v \in parked' => v \in parked
      BY <1>2
    <2>3. v \in parked' /\ v \in out => v \in out'
      BY <1>1, <1>2, <1>6
    <2>4. v \in parked' /\ v \in waiting' \cup out' => turnOf'[v] \notin ended'
      <3> SUFFICES ASSUME v \in parked', v \in waiting' \cup out'
                   PROVE  turnOf[v] \notin ended'
        OBVIOUS
      <3>1. v \in parked /\ v \notin C /\ v \in waiting \cup out
        BY <1>1, <1>2
      <3>2. turnOf[v] \notin ended
        BY <3>1, <1>0 DEF Told, ToldTruly
      <3> QED
        BY <3>1, <3>2
    <2> HIDE DEF v
    <2>5. 0 \notin parked' /\ hop'[g] = Settled(C)[g] /\ hop[g].outcome # "timeout"
      BY <1>2, <1>5 DEF Quiet, None
    <2> QED
      BY <2>1, <2>2, <2>3, <2>4, <2>5, <1>0, SettledTruly DEF v
  <1>10. Attended'
    <2> SUFFICES ASSUME NEW x \in parked', x \notin Waits(timers')
                 PROVE  \E g \in Hop : hop'[g].wait = x
      BY DEF Attended, Waits
    <2>1. x \in parked /\ x \notin Waits(timers)
      BY <1>2, <1>4
    <2> QED
      BY <2>1, <1>0, <1>3 DEF Attended, Waits
  <1>11. Spare'
    <2>1. ASSUME NEW x \in Unused
          PROVE  x \in Unused'
      <3>1. x \notin parked' \cup out' \cup waiting' /\ \A g \in Hop : hop'[g].wait # x
        BY <1>1, <1>2, <1>3, UnusedApart
      <3> QED
        BY <3>1, <1>4, StaysUnused
    <2>2. \A g \in Active' : g \in Active
      <3> SUFFICES ASSUME NEW g \in Active', g \notin Active
                   PROVE  FALSE
        OBVIOUS
      <3>1. g \in Hop /\ hop'[g] # Idle /\ hop[g] = Idle
        BY DEF Active
      <3>2. hop[g].wait = 0
        BY <3>1 DEF Idle
      <3> QED
        BY <3>1, <3>2, <1>3
    <2> QED
      BY <2>1, <2>2, <1>0, SpareKept
  <1> QED
    BY <1>1, <1>7, <1>8, <1>9, <1>10, <1>11, Parts


\* A request that is told of the grant: the wait is still its own.
LEMMA MintKeeps ==
    ASSUME BrokerInv, NEW h \in Hop, hop[h].outcome = "lease", hop[h].wait \in parked,
           parked' = parked \ {hop[h].wait}, grants' = [grants EXCEPT ![hop[h].wait] = @ + 1],
           timers' = Elapsed(timers, h), hop' = [hop EXCEPT ![h] = Idle],
           UNCHANGED <<waiting, ahead, out, dropped, turnOf, ended, halted, closed>>
    PROVE  BrokerInv'
  <1> DEFINE w == hop[h].wait
  <1>0. PoolOK /\ Typed /\ Hands /\ Told /\ Attended /\ Spare
    BY Parts
  <1>1. /\ w \in parked /\ parked' = parked \ {w} /\ grants' = [grants EXCEPT ![w] = @ + 1]
    OBVIOUS
  <1>2. w \in Wait /\ w # 0 /\ 0 \notin Wait
    <2>1. parked \subseteq Wait /\ 0 \notin Wait
      BY <1>0, MaxWaitNat DEF Typed, Wait
    <2> QED
      BY <2>1
  <1>3. w \in out /\ turnOf[w] \notin ended
    BY <1>0 DEF Told, ToldTruly
  <1> HIDE DEF w
  <1>4. timers' \in SUBSET Timer /\ Waits(timers') = Waits(timers)
    BY <1>0, TimersKept DEF Typed
  <1>5. hop' \in [Hop -> Seen] /\ hop'[h] = Idle /\ \A g \in Hop \ {h} : hop'[g] = hop[g]
    <2>1. Idle \in Seen
      BY MaxWaitNat DEF Idle, Seen
    <2> QED
      BY <2>1, <1>0 DEF Typed
  <1>6. grants[w] = 0 /\ w \notin dropped
    BY <1>0, <1>1, <1>2 DEF Hands, OneHand, Typed
  <1>7. /\ grants' \in [Wait -> 0 .. Cardinality(Hop)] /\ grants'[w] = 1
        /\ \A x \in Wait \ {w} : grants'[x] = grants[x]
    BY <1>0, <1>1, <1>2, <1>6, OneLeaseCounts DEF Typed
  <1>8. PoolOK'
    BY <1>0 DEF PoolOK, PoolSound
  <1>9. Typed'
    BY <1>0, <1>1, <1>4, <1>5, <1>7 DEF Typed
  <1>10. Hands'
    <2>1. waiting' \cap Wait \subseteq parked'
      BY <1>0, <1>1, <1>3 DEF Hands, OneHand, PoolOK, PoolSound
    <2>2. OneHand'
      BY <2>1, <1>0, <1>1, <1>2, <1>6, <1>7 DEF Hands, OneHand
    <2>3. \A x \in Wait : grants'[x] <= 1 /\ (grants'[x] = 1 => x \in out')
      BY <1>0, <1>3, <1>7 DEF Hands
    <2>4. \A x \in out' \cap Wait : grants'[x] > 0 \/ x \in parked' \/ x \in dropped'
      BY <1>0, <1>1, <1>7 DEF Hands
    <2>5. \A x \in Wait : grants'[x] > 0 => turnOf'[x] \notin ended'
      BY <1>0, <1>3, <1>7 DEF Hands
    <2> QED
      BY <2>2, <2>3, <2>4, <2>5 DEF Hands
  <1>11. Told'
    <2> SUFFICES ASSUME NEW g \in Hop
                 PROVE  ToldTruly(g)'
      BY DEF Told
    <2>1. CASE g = h
      <3>1. 0 \notin parked'
        BY <1>0, <1>1, <1>2 DEF Typed
      <3> QED
        BY <2>1, <3>1, <1>5 DEF ToldTruly, Idle, None
    <2>2. CASE g # h
      <3>1. hop'[g] = hop[g] /\ ToldTruly(g)
        BY <2>2, <1>0, <1>5 DEF Told
      <3>2. hop[g].outcome # "timeout"
        BY <2>2, <3>1 DEF ToldTruly, None
      <3> QED
        BY <3>1, <3>2, <1>1 DEF ToldTruly
    <2> QED
      BY <2>1, <2>2
  <1>12. Attended'
    <2> SUFFICES ASSUME NEW x \in parked, x # w, x \notin Waits(timers)
                 PROVE  \E g \in Hop : hop'[g].wait = x
      BY <1>1, <1>4 DEF Attended, Waits
    <2>1. PICK g \in Hop : hop[g].wait = x
      BY <1>0 DEF Attended, Waits
    <2> QED
      BY <2>1, <1>5 DEF w
  <1>13. Spare'
    <2>1. ASSUME NEW x \in Unused
          PROVE  x \in Unused'
      <3>1. x \notin parked' \cup out' \cup waiting' /\ \A g \in Hop : hop'[g].wait # x
        BY <1>1, <1>5, UnusedApart DEF Idle
      <3> QED
        BY <3>1, <1>4, StaysUnused
    <2>2. \A g \in Active' : g \in Active
      BY <1>5 DEF Active
    <2> QED
      BY <2>1, <2>2, <1>0, SpareKept
  <1> QED
    BY <1>8, <1>9, <1>10, <1>11, <1>12, <1>13, Parts

\* ... but the broker is closed.
LEMMA GiveBackKeeps ==
    ASSUME BrokerInv, NEW h \in Hop, hop[h].outcome = "lease", hop[h].wait \in parked,
           parked' = parked \ {hop[h].wait}, Serve(waiting, ahead, out \ {hop[h].wait}),
           timers' = Elapsed(timers, h), hop' = [Settled({}) EXCEPT ![h] = Idle],
           UNCHANGED <<grants, turnOf, dropped, ended, halted, closed>>
    PROVE  BrokerInv'
  <1> DEFINE w == hop[h].wait
  <1>0. PoolOK /\ Typed /\ Hands /\ Told /\ Attended /\ Spare
    BY Parts
  <1>1. w \in parked /\ parked' = parked \ {w} /\ Serve(waiting, ahead, out \ {w})
    OBVIOUS
  <1>2. w \in Wait /\ w # 0 /\ 0 \notin Wait
    <2>1. parked \subseteq Wait /\ 0 \notin Wait
      BY <1>0, MaxWaitNat DEF Typed, Wait
    <2> QED
      BY <2>1
  <1>3. w \in out
    BY <1>0 DEF Told, ToldTruly
  <1> HIDE DEF w
  <1>4. timers' \in SUBSET Timer /\ Waits(timers') = Waits(timers)
    BY <1>0, TimersKept DEF Typed
  <1>5. /\ hop' \in [Hop -> Seen] /\ hop'[h] = Idle /\ \A g \in Hop \ {h} : hop'[g] = Settled({})[g]
        /\ \A g \in Hop \ {h} : hop'[g].wait = hop[g].wait /\ (hop[g].wait = 0 => hop'[g] = hop[g])
    <2>1. Idle \in Seen
      BY MaxWaitNat DEF Idle, Seen
    <2>2. /\ Settled({}) \in [Hop -> Seen]
          /\ \A g \in Hop : Settled({})[g].wait = hop[g].wait /\ (hop[g].wait = 0 => Settled({})[g] = hop[g])
      BY <1>0, SettledTells DEF Typed
    <2> QED
      BY <2>1, <2>2
  <1>6. grants[w] = 0 /\ w \notin dropped
    BY <1>0, <1>1, <1>2 DEF Hands, OneHand, Typed
  <1>7. /\ PoolOK'
        /\ waiting' \subseteq waiting /\ out \ {w} \subseteq out' /\ out' \ out \subseteq waiting
        /\ waiting' \cup out' = waiting \cup (out \ {w}) /\ w \notin out' /\ w \notin waiting'
    BY <1>0, <1>1, <1>3, FreeSound
  <1>8. Typed'
    BY <1>0, <1>1, <1>4, <1>5, <1>6, <1>7 DEF Typed
  <1>9. Hands'
    <2>1. OneHand'
      BY <1>0, <1>1, <1>7 DEF Hands, OneHand
    <2>2. \A x \in Wait : grants'[x] <= 1 /\ (grants'[x] = 1 => x \in out')
      BY <1>0, <1>6, <1>7 DEF Hands
    <2>3. \A x \in out' \cap Wait : grants'[x] > 0 \/ x \in parked' \/ x \in dropped'
      BY <1>0, <1>1, <1>7 DEF Hands, OneHand
    <2>4. \A x \in Wait : grants'[x] > 0 => turnOf'[x] \notin ended'
      BY <1>0 DEF Hands
    <2> QED
      BY <2>1, <2>2, <2>3, <2>4 DEF Hands
  <1>10. Told'
    <2> SUFFICES ASSUME NEW g \in Hop
                 PROVE  ToldTruly(g)'
      BY DEF Told
    <2>0. 0 \notin parked'
      BY <1>0, <1>1, <1>2 DEF Typed
    <2>1. CASE g = h
      BY <2>0, <2>1, <1>5 DEF ToldTruly, Idle, None
    <2>2. CASE g # h
      <3> DEFINE v == hop[g].wait
      <3>1. hop'[g] = Settled({})[g] /\ ToldTruly(g)
        BY <2>2, <1>0, <1>5 DEF Told
      <3>2. hop[g].outcome # "timeout"
        BY <2>2, <3>1 DEF ToldTruly, None
      <3>3. v \in parked' => v \in parked
        BY <1>1
      <3>4. v \in parked' /\ v \in out => v \in out'
        BY <1>1, <1>7
      <3>5. v \in parked' /\ v \in waiting' \cup out' => turnOf'[v] \notin ended'
        BY <3>1, <1>1, <1>7 DEF ToldTruly
      <3> HIDE DEF v
      <3>6. v \notin {}
        OBVIOUS
      <3> QED
        BY <2>0, <3>1, <3>2, <3>3, <3>4, <3>5, <3>6, <1>0, SettledTruly DEF v
    <2> QED
      BY <2>1, <2>2
  <1>11. Attended'
    <2> SUFFICES ASSUME NEW x \in parked, x # w, x \notin Waits(timers)
                 PROVE  \E g \in Hop : hop'[g].wait = x
      BY <1>1, <1>4 DEF Attended, Waits
    <2>1. PICK g \in Hop : hop[g].wait = x
      BY <1>0 DEF Attended, Waits
    <2> QED
      BY <2>1, <1>5 DEF w
  <1>12. Spare'
    <2>1. ASSUME NEW x \in Unused
          PROVE  x \in Unused'
      <3>1. x \notin parked' \cup out' \cup waiting' /\ \A g \in Hop : hop'[g].wait # x
        BY <1>1, <1>5, <1>7, UnusedApart DEF Idle
      <3> QED
        BY <3>1, <1>4, StaysUnused
    <2>2. \A g \in Active' : g \in Active
      <3> SUFFICES ASSUME NEW g \in Active', g \notin Active
                   PROVE  FALSE
        OBVIOUS
      <3>1. g \in Hop /\ hop'[g] # Idle /\ hop[g] = Idle
        BY DEF Active
      <3>2. hop[g].wait = 0
        BY <3>1 DEF Idle
      <3> QED
        BY <3>1, <3>2, <1>5
    <2> QED
      BY <2>1, <2>2, <1>0, SpareKept
  <1> QED
    BY <1>7, <1>8, <1>9, <1>10, <1>11, <1>12, Parts

\* ... or its wait was taken, and it opens another.
LEMMA ReopenKeeps ==
    ASSUME BrokerInv, NEW h \in Hop, hop[h].outcome = "lease", hop[h].wait \notin parked,
           Join(Fresh), parked' = parked \cup {Fresh}, turnOf' = [turnOf EXCEPT ![Fresh] = hop[h].turn],
           timers' = Park(Fresh, h, timers), hop' = [Settled({}) EXCEPT ![h] = Idle],
           UNCHANGED <<grants, dropped, ended, halted, closed>>
    PROVE  BrokerInv'
  <1> DEFINE n == Fresh
  <1>0. PoolOK /\ Typed /\ Hands /\ Told /\ Attended /\ Spare
    BY Parts
  <1>1. /\ Join(n) /\ parked' = parked \cup {n} /\ turnOf' = [turnOf EXCEPT ![n] = hop[h].turn]
        /\ timers' = Park(n, h, timers)
    OBVIOUS
  <1>2. h \in Active
    BY DEF Active, Idle, None
  <1>3. n \in Unused
    BY <1>0, <1>2, RoomMeansFresh
  <1> HIDE DEF n
  <1>4. /\ n \in Wait /\ n \in Place /\ n # 0 /\ n \notin parked /\ n \notin out /\ n \notin waiting
        /\ \A g \in Hop : hop[g].wait # n
    BY <1>3, UnusedApart
  <1>5. timers' \in SUBSET Timer /\ Waits(timers') = Waits(timers) \cup {n}
    <2>1. timers \in SUBSET Timer
      BY <1>0 DEF Typed
    <2>2. Park(n, h, timers) \in SUBSET Timer /\ Waits(Park(n, h, timers)) = Waits(timers) \cup {n}
      BY <2>1, <1>4, TimersKept
    <2> QED
      BY <2>2, <1>1
  <1>6. /\ hop' \in [Hop -> Seen] /\ hop'[h] = Idle /\ \A g \in Hop \ {h} : hop'[g] = Settled({})[g]
        /\ \A g \in Hop \ {h} : hop'[g].wait = hop[g].wait /\ (hop[g].wait = 0 => hop'[g] = hop[g])
    <2>1. Idle \in Seen
      BY MaxWaitNat DEF Idle, Seen
    <2>2. /\ Settled({}) \in [Hop -> Seen]
          /\ \A g \in Hop : Settled({})[g].wait = hop[g].wait /\ (hop[g].wait = 0 => Settled({})[g] = hop[g])
      BY <1>0, SettledTells DEF Typed
    <2> QED
      BY <2>1, <2>2
  <1>7. /\ PoolOK'
        /\ waiting' \subseteq waiting \cup {n} /\ out \subseteq out' /\ out' \ out \subseteq waiting \cup {n}
        /\ waiting' \cup out' = waiting \cup out \cup {n}
    BY <1>0, <1>1, <1>4, JoinSound
  <1>8. turnOf' \in [Wait -> Turn \cup {None}] /\ \A x \in Wait \ {n} : turnOf'[x] = turnOf[x]
    <2>1. hop[h].turn \in Turn \cup {None}
      BY <1>0 DEF Typed, Seen
    <2> QED
      BY <2>1, <1>0, <1>1, <1>4 DEF Typed
  <1>9. Typed'
    BY <1>0, <1>1, <1>4, <1>5, <1>6, <1>7, <1>8 DEF Typed
  <1>10. Hands'
    <2>1. ~(grants[n] > 0) /\ n \notin dropped
      BY <1>0, <1>4 DEF Hands, Typed
    <2>2. OneHand'
      BY <2>1, <1>0, <1>1, <1>4, <1>7 DEF Hands, OneHand
    <2>3. \A x \in Wait : grants'[x] <= 1 /\ (grants'[x] = 1 => x \in out')
      BY <1>0, <1>7 DEF Hands
    <2>4. \A x \in out' \cap Wait : grants'[x] > 0 \/ x \in parked' \/ x \in dropped'
      BY <1>0, <1>1, <1>7 DEF Hands, OneHand
    <2>5. \A x \in Wait : grants'[x] > 0 => turnOf'[x] \notin ended'
      BY <2>1, <1>0, <1>8 DEF Hands
    <2> QED
      BY <2>2, <2>3, <2>4, <2>5 DEF Hands
  <1>11. Told'
    <2> SUFFICES ASSUME NEW g \in Hop
                 PROVE  ToldTruly(g)'
      BY DEF Told
    <2>0. 0 \notin parked'
      BY <1>0, <1>1, <1>4, MaxWaitNat DEF Typed, Wait
    <2>1. CASE g = h
      BY <2>0, <2>1, <1>6 DEF ToldTruly, Idle, None
    <2>2. CASE g # h
      <3> DEFINE v == hop[g].wait
      <3>1. hop'[g] = Settled({})[g] /\ ToldTruly(g)
        BY <2>2, <1>0, <1>6 DEF Told
      <3>2. hop[g].outcome # "timeout"
        BY <2>2, <3>1 DEF ToldTruly, None
      <3>3. v # n
        BY <1>4
      <3>4. v \in parked' => v \in parked
        BY <3>3, <1>1
      <3>5. v \in parked' /\ v \in out => v \in out'
        BY <1>7
      <3>6. v \in parked' /\ v \in waiting' \cup out' => turnOf'[v] \notin ended'
        <4> SUFFICES ASSUME v \in parked', v \in waiting' \cup out'
                     PROVE  turnOf'[v] \notin ended
          OBVIOUS
        <4>1. v \in parked /\ v \in waiting \cup out /\ v \in Wait
          BY <3>3, <3>4, <1>0, <1>7 DEF Typed
        <4> QED
          BY <4>1, <3>1, <3>3, <1>8 DEF ToldTruly
      <3> HIDE DEF v
      <3>7. v \notin {}
        OBVIOUS
      <3> QED
        BY <2>0, <3>1, <3>2, <3>4, <3>5, <3>6, <3>7, <1>0, SettledTruly DEF v
    <2> QED
      BY <2>1, <2>2
  <1>12. Attended'
    <2> SUFFICES ASSUME NEW x \in parked', x \notin Waits(timers')
                 PROVE  \E g \in Hop : hop'[g].wait = x
      BY DEF Attended, Waits
    <2>1. x \in parked /\ x \notin Waits(timers)
      BY <1>1, <1>5
    <2>2. PICK g \in Hop : hop[g].wait = x
      BY <2>1, <1>0 DEF Attended, Waits
    <2> QED
      BY <2>1, <2>2, <1>6
  <1>13. Spare'
    <2>1. ASSUME NEW x \in Unused, x # n
          PROVE  x \in Unused'
      <3>1. x \notin parked' \cup out' \cup waiting' /\ \A g \in Hop : hop'[g].wait # x
        BY <2>1, <1>1, <1>6, <1>7, UnusedApart DEF Idle
      <3>2. x \notin Waits(timers')
        BY <2>1, <1>5, UnusedApart
      <3> QED
        BY <3>1, <3>2, StaysUnused
    <2>2. ASSUME NEW g \in Active'
          PROVE  g \in Active /\ g # h
      <3>1. g \in Hop /\ hop'[g] # Idle
        BY <2>2 DEF Active
      <3>2. g # h
        BY <3>1, <1>6
      <3>3. hop[g] # Idle
        BY <3>1, <3>2, <1>6 DEF Idle
      <3> QED
        BY <3>1, <3>2, <3>3 DEF Active
    <2> QED
      BY <2>1, <2>2, <1>0, <1>2, SpareSpent
  <1> QED
    BY <1>7, <1>9, <1>10, <1>11, <1>12, <1>13, Parts

LEMMA LeaseKeeps ==
    ASSUME BrokerInv, NEW h \in Hop, HopLease(h)
    PROVE  BrokerInv'
  <1>1. CASE hop[h].wait \in parked /\ ~closed
    BY <1>1, MintKeeps DEF HopLease
  <1>2. CASE hop[h].wait \in parked /\ closed
    BY <1>2, GiveBackKeeps DEF HopLease
  <1>3. CASE hop[h].wait \notin parked
    BY <1>3, ReopenKeeps DEF HopLease
  <1> QED
    BY <1>1, <1>2, <1>3

LEMMA StopKeeps ==
    ASSUME BrokerInv, (\E t \in Turn : EndTurn(t)) \/ Halt \/ Close
    PROVE  BrokerInv'
  <1>0. Typed /\ Hands
    BY Parts
  <1>1. \A w \in parked : w \in Wait /\ ~(grants[w] > 0)
    BY <1>0 DEF Typed, Hands, OneHand
  <1>2. ASSUME NEW t \in Turn, EndTurn(t)
        PROVE  BrokerInv'
    <2> DEFINE R == {w \in Wait : grants[w] > 0 /\ turnOf[w] = t}
        C == {w \in parked : turnOf[w] = t}
    <2>1. /\ Quiet /\ ended' = ended \cup {t} /\ ReleaseAndCancel(R, C)
          /\ UNCHANGED <<turnOf, halted, closed>>
      BY <1>2 DEF EndTurn
    <2>2. R \subseteq {w \in Wait : grants[w] > 0} /\ C \subseteq parked
      OBVIOUS
    <2>3. \A w \in Wait : grants[w] > 0 /\ turnOf[w] \in ended' => w \in R
      BY <2>1, <1>0 DEF Hands
    <2>4. \A w \in parked : turnOf[w] \in ended' /\ turnOf[w] \notin ended => w \in C
      BY <2>1
    <2> HIDE DEF R, C
    <2> QED
      BY <2>1, <2>2, <2>3, <2>4, <1>0, CancelKeeps DEF Typed
  <1>3. CASE Halt
    <2>1. /\ Quiet /\ halted' = TRUE /\ ReleaseAndCancel({}, parked)
          /\ UNCHANGED <<turnOf, ended, closed>>
      BY <1>3 DEF Halt
    <2>2. \A w \in Wait : grants[w] > 0 /\ turnOf[w] \in ended' => w \in {}
      BY <2>1, <1>0 DEF Hands
    <2>3. ended' \subseteq Turn /\ halted' \in BOOLEAN /\ closed' \in BOOLEAN /\ UNCHANGED turnOf
      BY <2>1, <1>0 DEF Typed
    <2>4. \A w \in parked : turnOf[w] \in ended' /\ turnOf[w] \notin ended => w \in parked
      OBVIOUS
    <2>5. {} \subseteq {w \in Wait : grants[w] > 0} /\ parked \subseteq parked
      OBVIOUS
    <2> QED
      BY <2>1, <2>2, <2>3, <2>4, <2>5, CancelKeeps
  <1>4. CASE Close
    <2> DEFINE R == {w \in Wait : grants[w] > 0}
    <2>1. /\ Quiet /\ closed' = TRUE /\ ReleaseAndCancel(R, parked)
          /\ UNCHANGED <<turnOf, ended, halted>>
      BY <1>4 DEF Close
    <2>2. R \subseteq {w \in Wait : grants[w] > 0} /\ \A w \in Wait : grants[w] > 0 /\ turnOf[w] \in ended' => w \in R
      OBVIOUS
    <2> HIDE DEF R
    <2> QED
      BY <2>1, <2>2, <1>0, CancelKeeps DEF Typed
  <1> QED
    BY <1>2, <1>3, <1>4

----------------------------------------------------------------------------

LEMMA InitSound == Init => BrokerInv
  <1> SUFFICES ASSUME Init
               PROVE  BrokerInv
    OBVIOUS
  <1>0. /\ waiting = {} /\ ahead = [x \in Place |-> {}] /\ out = {} /\ dropped = {} /\ parked = {}
        /\ turnOf = [w \in Wait |-> None] /\ timers = {} /\ grants = [w \in Wait |-> 0]
        /\ ended = {} /\ halted = FALSE /\ closed = FALSE /\ hop = [h \in Hop |-> Idle]
    BY DEF Init
  <1>1. IsFiniteSet({}) /\ Cardinality({}) = 0
    BY FS_EmptySet
  <1>2. PoolOK
    <2>1. Capacity \in Nat
      BY CapacityNat
    <2> QED
      BY <2>1, <1>0, <1>1 DEF PoolOK, PoolSound, Ordered
  <1>3. Typed
    <2>1. Cardinality(Hop) \in Nat
      BY HopFinite, FS_CardinalityType
    <2>2. Idle \in Seen
      BY MaxWaitNat DEF Idle, Seen
    <2>3. grants \in [Wait -> 0 .. Cardinality(Hop)]
      BY <2>1, <1>0
    <2>4. hop \in [Hop -> Seen]
      BY <2>2, <1>0
    <2>5. turnOf \in [Wait -> Turn \cup {None}]
      BY <1>0
    <2> QED
      BY <2>3, <2>4, <2>5, <1>0 DEF Typed
  <1>4. Hands
    BY <1>0 DEF Hands, OneHand
  <1>5. Told
    BY <1>0 DEF Told, ToldTruly, Idle, None
  <1>6. Attended
    BY <1>0 DEF Attended
  <1>7. Spare
    <2>1. Active = {}
      BY <1>0 DEF Active
    <2> QED
      BY <2>1, <1>1, Countable DEF Spare
  <1> QED
    BY <1>2, <1>3, <1>4, <1>5, <1>6, <1>7, Parts

LEMMA StepKeeps == BrokerInv /\ [Next]_vars => BrokerInv'
  <1> SUFFICES ASSUME BrokerInv, [Next]_vars
               PROVE  BrokerInv'
    OBVIOUS
  <1>1. ASSUME NEW h \in Hop, \/ \E t \in Turn : HopFresh(h, t)
                              \/ \E w \in Wait : HopResume(h, w)
                              \/ HopTimeout(h)
                              \/ Reaction(h)
        PROVE  BrokerInv'
    BY <1>1, FreshKeeps, ResumeKeeps, TimeoutKeeps, LeaseKeeps, ParksKeeps, RefusedKeeps DEF Reaction
  <1>2. ASSUME NEW w \in Wait, Release(w) \/ DropLease(w)
        PROVE  BrokerInv'
    BY <1>2, ReleaseKeeps, DropKeeps
  <1>3. ASSUME NEW o \in Other, OtherAcquire(o) \/ OtherRelease(o)
        PROVE  BrokerInv'
    BY <1>3, OtherKeeps
  <1>4. ASSUME NEW t \in timers, Reap(t)
        PROVE  BrokerInv'
    BY <1>4, ReapKeeps
  <1>5. CASE (\E t \in Turn : EndTurn(t)) \/ Halt \/ Close
    BY <1>5, StopKeeps
  <1>6. CASE UNCHANGED vars
    <2>1. UNCHANGED <<waiting, ahead, out, dropped, parked, turnOf, timers, grants, ended, halted, closed, hop>>
      BY <1>6 DEF vars
    <2>2. PoolOK' <=> PoolOK
      BY <2>1 DEF PoolOK, PoolSound
    <2>3. (Typed' <=> Typed) /\ (Hands' <=> Hands) /\ (Attended' <=> Attended)
      BY <2>1 DEF Typed, Hands, OneHand, Attended
    <2>4. Told' <=> Told
      BY <2>1 DEF Told, ToldTruly
    <2>5. Spare' <=> Spare
      BY <2>1 DEF Spare, Unused, Active
    <2> QED
      BY <2>2, <2>3, <2>4, <2>5, Parts
  <1> QED
    BY <1>1, <1>2, <1>3, <1>4, <1>5, <1>6 DEF Next

\* Capacity is held once and by someone: one lease is minted of a wait whoever watches it,
\* what the pool gave out is a lease, a parked wait or on its way back, a session that
\* ended holds nothing, and a wait nobody watches is on a clock.
THEOREM CapacityIsSomeones == Spec => []NoOrphanedCapacity
  <1>1. Init => BrokerInv
    BY InitSound
  <1>2. BrokerInv /\ [Next]_vars => BrokerInv'
    BY StepKeeps
  <1>3. BrokerInv => NoOrphanedCapacity
    BY DEF BrokerInv
  <1> QED
    BY <1>1, <1>2, <1>3, PTL DEF Spec


----------------------------------------------------------------------------
(* What a command gets is what AtomicLeases promises *)

LEMMA SameCount == \A S : Promise!Cardinality(S) = Cardinality(S)
  BY DEF Promise!Cardinality, Cardinality

\* Everyone needs the one pool, and it has Capacity slots.
Need == [x \in Place |-> {"pool"}]
Limit == [p \in {"pool"} |-> Capacity]

LEMMA OnePool ==
    /\ Need' = Need /\ Limit' = Limit
    /\ \A S \in SUBSET Place : \A p \in {"pool"} : {x \in S : p \in Need[x]} = S
    /\ Limit["pool"] = Capacity
    /\ \A x \in Place : Need[x] = {"pool"}
  BY DEF Need, Limit, Place, Wait

LEMMA WithinLimit ==
    ASSUME NEW S \in SUBSET Place, Cardinality(S) <= Capacity
    PROVE  Promise!Within(S, Need, Limit)
  <1>1. \A p \in {"pool"} : Cardinality({x \in S : p \in Need[x]}) <= Limit[p]
    BY OnePool
  <1> QED
    BY <1>1, SameCount DEF Promise!Within

LEMMA FrontIsServed == PoolOK' => Promise!FrontIsServed'
  <1> SUFFICES ASSUME PoolOK', NEW x \in waiting'
               PROVE  \E p \in Need[x] : Promise!Full(p)'
    BY OnePool DEF Promise!FrontIsServed, Need
  <1>1. x \in Place /\ Cardinality(out') >= Capacity /\ out' \subseteq Place
    BY DEF PoolOK, PoolSound
  <1>2. {y \in out' : "pool" \in Need[y]} = out'
    BY <1>1, OnePool
  <1>3. Promise!Full("pool")' <=> Promise!Cardinality({y \in out' : "pool" \in Need'[y]}) >= Limit'["pool"]
    BY DEF Promise!Full, Need, Limit
  <1>4. Promise!Full("pool")'
    BY <1>1, <1>2, <1>3, OnePool, SameCount
  <1> QED
    BY <1>1, <1>4, OnePool

\* Serving the queue settles it.
LEMMA ServeSettles ==
    ASSUME NEW q, NEW a, Ordered(q, a), NEW o \in SUBSET Place, IsFiniteSet(o), q \cap o = {},
           Cardinality(o) <= Capacity, Serve(q, a, o)
    PROVE  Promise!Settle(q, a, Need, o, Limit)
  <1> DEFINE G == Granted(q, a, o)
  <1>1. G \in SUBSET q /\ Cardinality(o \cup G) <= Capacity /\ \A x \in G : a[x] \subseteq G
    BY GrantedFits
  <1>2. waiting' = q \ G /\ ahead' = Without(a, G) /\ out' = o \cup G
    BY DEF Serve
  <1>3. ahead' = [x \in Place |-> IF x \in q \ G THEN a[x] \ G ELSE {}]
    BY <1>2 DEF Without, Ordered
  <1>4. o \cup G \in SUBSET Place
    BY <1>1 DEF Ordered
  <1>5. Promise!FrontIsServed'
    BY ServeSound, FrontIsServed
  <1> HIDE DEF G
  <1>6. Promise!Within(o \cup G, Need, Limit)
    BY <1>1, <1>4, WithinLimit
  <1>7. \A k \in G : \A h \in a[k] \ G : Need[h] \cap {} # {} \/ ~(Need[h] \subseteq Need[k])
    BY <1>1
  <1>8. /\ waiting' = q \ G /\ out' = o \cup G
        /\ ahead' = [x \in Place |-> IF x \in q \ G THEN a[x] \ G ELSE {}]
    BY <1>2, <1>3
  <1> QED
    BY <1>1, <1>5, <1>6, <1>7, <1>8, OnePool, Zenon DEF Promise!Settle, Need, Limit


\* Every step of the broker is a step of the promise, or none.
LEMMA StepIsPromised ==
    ASSUME BrokerInv, [Next]_vars
    PROVE  [Promise!Next]_(Promise!vars)
  <1>0. PoolOK /\ Typed /\ Hands /\ Told /\ Attended /\ Spare
    BY Parts
  <1>1. Ordered(waiting, ahead) /\ IsFiniteSet(out) /\ waiting \cap out = {}
        /\ out \in SUBSET Place /\ Cardinality(out) <= Capacity /\ Wait \subseteq Place
    BY <1>0 DEF PoolOK, PoolSound, Place
  <1>2. \A S : (\A x \in S : x \notin waiting) => Without(ahead, S) = ahead
    BY <1>1 DEF Ordered, Without
  <1>3. ASSUME NEW x \in Place, x \notin waiting, x \notin out, Join(x)
        PROVE  Promise!Ask(x, {"pool"})
    <2>1. Ordered(waiting \cup {x}, [ahead EXCEPT ![x] = waiting])
      BY <1>1, <1>3, JoinOrdered
    <2>2. (waiting \cup {x}) \cap out = {}
      BY <1>1, <1>3
    <2>3. Promise!Settle(waiting \cup {x}, [ahead EXCEPT ![x] = waiting], Need, out, Limit)
      BY <1>1, <1>3, <2>1, <2>2, ServeSettles DEF Join
    <2>4. [Need EXCEPT ![x] = {"pool"}] = Need
      BY DEF Need
    <2>5. x \notin waiting \cup out
      BY <1>3
    <2> QED
      BY <2>3, <2>4, <2>5 DEF Promise!Ask, Need, Limit
  <1>4. ASSUME NEW x \in out, Serve(waiting, ahead, out \ {x})
        PROVE  Promise!Return({x}, {})
    <2>1. IsFiniteSet(out \ {x}) /\ Cardinality(out \ {x}) <= Cardinality(out)
      BY <1>1, FS_Subset
    <2>2. Cardinality(out \ {x}) \in Nat /\ Cardinality(out) \in Nat /\ Capacity \in Nat
      BY <1>1, <2>1, FS_CardinalityType, CapacityNat
    <2>3. Cardinality(out \ {x}) <= Capacity /\ waiting \cap (out \ {x}) = {} /\ out \ {x} \in SUBSET Place
      BY <1>1, <2>1, <2>2
    <2>4. Promise!Settle(waiting, ahead, Need, out \ {x}, Limit)
      BY <1>1, <1>4, <2>1, <2>3, ServeSettles
    <2>5. Promise!Without({}) = ahead /\ waiting \ {} = waiting /\ {x} # {}
      BY <1>1 DEF Promise!Without, Ordered
    <2> QED
      BY <2>4, <2>5 DEF Promise!Return, Need, Limit
  <1>5. ASSUME NEW S, waiting' = waiting \ S, ahead' = Without(ahead, S), out' = out
        PROVE  Promise!GiveUp(waiting \cap S)
    <2>1. ahead' = Promise!Without(waiting \cap S)
      <3>1. \A x \in Place : ahead[x] \subseteq waiting /\ (x \notin waiting => ahead[x] = {})
        BY <1>1 DEF Ordered
      <3>2. \A x \in Place : (IF x \in S THEN {} ELSE ahead[x] \ S)
                              = (IF x \in waiting \cap S THEN {} ELSE ahead[x] \ (waiting \cap S))
        BY <3>1
      <3> QED
        BY <3>2, <1>5 DEF Without, Promise!Without
    <2>2. waiting' = waiting \ (waiting \cap S)
      BY <1>5
    <2> QED
      BY <1>5, <2>1, <2>2, OnePool DEF Promise!GiveUp, Need, Limit
  <1>6. ASSUME NEW R \in SUBSET out, NEW C, ReleaseAndCancel(R, C)
        PROVE  \/ Promise!GiveUp(waiting \cap C)
               \/ \E W \in SUBSET waiting : Promise!Return(R, W)
    <2> DEFINE left == out \ R
        G == Granted(waiting, ahead, left)
    <2>1. /\ out' = left \cup G /\ waiting' = (waiting \ G) \ C /\ ahead' = Without(Without(ahead, G), C)
      BY <1>6 DEF ReleaseAndCancel, Abandoned
    <2>2. /\ G \subseteq waiting /\ Cardinality(left \cup G) <= Capacity /\ \A x \in G : ahead[x] \subseteq G
      <3>1. IsFiniteSet(left) /\ Cardinality(left) <= Cardinality(out)
        BY <1>1, FS_Subset
      <3>2. Cardinality(left) \in Nat /\ Cardinality(out) \in Nat /\ Capacity \in Nat
        BY <1>1, <3>1, FS_CardinalityType, CapacityNat
      <3>3. Cardinality(left) <= Capacity /\ waiting \cap left = {}
        BY <1>1, <3>1, <3>2
      <3> HIDE DEF left
      <3> QED
        BY <1>1, <3>1, <3>3, GrantedFits
    <2>3. Promise!FrontIsServed'
      BY <1>0, <1>6, CancelSound, FrontIsServed
    <2>4. CASE R = {}
      <3>1. G = {}
        <4>1. left = out
          BY <2>4
        <4>2. CASE waiting = {}
          BY <2>2, <4>2
        <4>3. CASE waiting # {}
          <5>1. Cardinality(out) >= Capacity
            BY <1>0, <4>3 DEF PoolOK, PoolSound
          <5>2. Cardinality(out) \in Nat /\ Capacity \in Nat
            BY <1>1, FS_CardinalityType, CapacityNat
          <5>3. \A x \in waiting : IsFiniteSet(ahead[x]) /\ Cardinality(ahead[x]) \in Nat
            <6>1. \A x \in waiting : ahead[x] \subseteq waiting /\ IsFiniteSet(waiting)
              BY <1>1 DEF Ordered
            <6> QED
              BY <6>1, FS_Subset, FS_CardinalityType
          <5> QED
            BY <4>1, <5>1, <5>2, <5>3 DEF Granted
        <4> QED
          BY <4>2, <4>3
      <3>2. Without(ahead, G) = ahead /\ waiting \ G = waiting /\ out' = out
        BY <3>1, <2>1, <2>4, <1>2
      <3> QED
        BY <3>2, <2>1, <1>5
    <2>5. CASE R # {}
      <3> DEFINE W == (waiting \cap C) \ G
      <3> HIDE DEF G
      <3>1. left \cup G \in SUBSET Place
        BY <1>1, <2>2 DEF Ordered
      <3>2. Promise!Within(left \cup G, Need, Limit)
        <4> HIDE DEF left
        <4> QED
          BY <2>2, <3>1, WithinLimit
      <3>3. G \in SUBSET (waiting \ W) /\ waiting' = (waiting \ W) \ G
        BY <2>1, <2>2
      <3>4. \A k \in G : Promise!Without(W)[k] \ G = {}
        BY <1>1, <2>2 DEF Promise!Without, Ordered
      <3>5. \A k \in G : \A h \in Promise!Without(W)[k] \ G : Need[h] \cap {} # {} \/ ~(Need[h] \subseteq Need[k])
        BY <3>4
      <3>6. ahead' = [x \in Place |-> IF x \in (waiting \ W) \ G THEN Promise!Without(W)[x] \ G ELSE {}]
        <4>1. ahead' \in [Place -> SUBSET Place]
          BY <1>1, <2>1 DEF Without, Ordered
        <4>2. ASSUME NEW x \in Place
              PROVE  ahead'[x] = IF x \in (waiting \ W) \ G THEN Promise!Without(W)[x] \ G ELSE {}
          <5>1. ahead'[x] = IF x \in C THEN {} ELSE (IF x \in G THEN {} ELSE ahead[x] \ G) \ C
            BY <2>1 DEF Without
          <5>2. Promise!Without(W)[x] = IF x \in W THEN {} ELSE ahead[x] \ W
            BY DEF Promise!Without
          <5>3. ahead[x] \subseteq waiting /\ (x \notin waiting => ahead[x] = {})
            BY <1>1 DEF Ordered
          <5> QED
            BY <5>1, <5>2, <5>3
        <4> QED
          BY <2>1, <4>2 DEF Without
      <3>7. Promise!Settle(waiting \ W, Promise!Without(W), Need, left, Limit)
        <4> HIDE DEF W, left
        <4>1. out' = left \cup G
          BY <2>1
        <4> QED
          BY <2>3, <3>2, <3>3, <3>5, <3>6, <4>1, OnePool, Zenon DEF Promise!Settle, Need, Limit
      <3>8. W \in SUBSET waiting
        OBVIOUS
      <3>9. Promise!Return(R, W)
        BY <2>5, <3>7 DEF Promise!Return, Need, Limit
      <3> HIDE DEF W
      <3> QED
        BY <3>8, <3>9
    <2> QED
      BY <2>4, <2>5
  <1>7. ASSUME UNCHANGED <<waiting, ahead, out>>
        PROVE  UNCHANGED Promise!vars
    BY <1>7, OnePool DEF Promise!vars, Need, Limit
  <1>8. Promise!Next => [Promise!Next]_(Promise!vars)
    OBVIOUS
  <1>9. \A x \in Place : Promise!Ask(x, {"pool"}) => Promise!Next
    BY DEF Promise!Next
  <1>10. \A x \in out : Promise!Return({x}, {}) => Promise!Next
    BY DEF Promise!Next
  <1>11. \A W \in SUBSET waiting : Promise!GiveUp(W) => Promise!Next
    BY DEF Promise!Next
  <1>12. ASSUME NEW R \in SUBSET out, NEW C, ReleaseAndCancel(R, C)
         PROVE  Promise!Next
    <2>1. waiting \cap C \in SUBSET waiting
      OBVIOUS
    <2> QED
      BY <2>1, <1>6, <1>11, <1>12 DEF Promise!Next
  <1>13. \A w \in Wait : grants[w] > 0 => w \in out
    BY <1>0 DEF Hands, Typed
  <1>14. ASSUME NEW h \in Hop, NEW t \in Turn, HopFresh(h, t)
         PROVE  Promise!Next
    <2>1. Fresh \in Unused /\ Join(Fresh)
      BY <1>14, RoomMeansFresh DEF HopFresh
    <2>2. Fresh \in Place /\ Fresh \notin waiting /\ Fresh \notin out
      BY <2>1, UnusedApart
    <2> QED
      BY <2>1, <2>2, <1>3, <1>9
  <1>15. ASSUME NEW h \in Hop, HopLease(h)
         PROVE  [Promise!Next]_(Promise!vars)
    <2>1. CASE hop[h].wait \in parked /\ ~closed
      BY <2>1, <1>7, <1>15 DEF HopLease
    <2>2. CASE hop[h].wait \in parked /\ closed
      <3>1. hop[h].wait \in out
        BY <1>0, <1>15, <2>2 DEF HopLease, Told, ToldTruly
      <3>2. Serve(waiting, ahead, out \ {hop[h].wait})
        BY <1>15, <2>2 DEF HopLease
      <3> QED
        BY <3>1, <3>2, <1>4, <1>10
    <2>3. CASE hop[h].wait \notin parked
      <3>1. Join(Fresh) /\ hop[h].outcome = "lease"
        BY <1>15, <2>3 DEF HopLease
      <3>2. h \in Active
        BY <3>1 DEF Active, Idle, None
      <3>3. Fresh \in Unused
        BY <1>0, <3>2, RoomMeansFresh
      <3>4. Fresh \in Place /\ Fresh \notin waiting /\ Fresh \notin out
        BY <3>3, UnusedApart
      <3> QED
        BY <3>1, <3>4, <1>3, <1>9
    <2> QED
      BY <2>1, <2>2, <2>3
  <1>16. ASSUME NEW t \in timers, Reap(t)
         PROVE  [Promise!Next]_(Promise!vars)
    <2>1. CASE t.wait \in parked
      <3>1. Abandoned({t.wait}, waiting, ahead, out)
        BY <1>16, <2>1 DEF Reap
      <3>2. Promise!GiveUp(waiting \cap {t.wait})
        BY <3>1, <1>5 DEF Abandoned
      <3>3. waiting \cap {t.wait} \in SUBSET waiting
        OBVIOUS
      <3> QED
        BY <3>2, <3>3, <1>11
    <2>2. CASE t.wait \notin parked
      BY <2>2, <1>7, <1>16 DEF Reap
    <2> QED
      BY <2>1, <2>2
  <1>17. ASSUME NEW h \in Hop, (\E w \in Wait : HopResume(h, w)) \/ HopTimeout(h) \/ HopParks(h) \/ HopRefused(h)
         PROVE  UNCHANGED <<waiting, ahead, out>>
    BY <1>17 DEF HopResume, HopTimeout, HopParks, HopRefused
  <1>18. ASSUME NEW w \in Wait, Release(w) \/ DropLease(w)
         PROVE  Promise!Next
    <2>1. Serve(waiting, ahead, out \ {w}) /\ w \in out
      BY <1>0, <1>13, <1>18 DEF Release, DropLease, Typed
    <2> QED
      BY <2>1, <1>4, <1>10
  <1>19. ASSUME NEW o \in Other, OtherAcquire(o)
         PROVE  Promise!Next
    <2>1. o \in Place /\ o \notin waiting /\ o \notin out /\ Join(o)
      BY <1>19 DEF OtherAcquire, Place
    <2> QED
      BY <2>1, <1>3, <1>9
  <1>20. ASSUME NEW o \in Other, OtherRelease(o)
         PROVE  Promise!Next
    BY <1>4, <1>10, <1>20 DEF OtherRelease
  <1>21. ASSUME NEW t \in Turn, EndTurn(t)
         PROVE  Promise!Next
    <2>1. ReleaseAndCancel({w \in Wait : grants[w] > 0 /\ turnOf[w] = t}, {w \in parked : turnOf[w] = t})
      BY <1>21 DEF EndTurn
    <2>2. {w \in Wait : grants[w] > 0 /\ turnOf[w] = t} \in SUBSET out
      BY <1>13
    <2> QED
      BY <2>1, <2>2, <1>12
  <1>22. CASE Halt
    BY <1>12, <1>22 DEF Halt
  <1>23. CASE Close
    <2>1. ReleaseAndCancel({w \in Wait : grants[w] > 0}, parked)
      BY <1>23 DEF Close
    <2>2. {w \in Wait : grants[w] > 0} \in SUBSET out
      BY <1>13
    <2> QED
      BY <2>1, <2>2, <1>12
  <1>24. CASE UNCHANGED vars
    BY <1>7, <1>24 DEF vars
  <1> QED
    BY <1>7, <1>8, <1>14, <1>15, <1>16, <1>17, <1>18, <1>19, <1>20, <1>21, <1>22, <1>23, <1>24, Zenon DEF Next, Reaction

\* Waiting in instalments keeps the promise that waiting in one piece has: a place
\* that is kept, and one lease for it, whatever times out, is retried, reaped, ended,
\* drained or closed meanwhile.
THEOREM InstalmentsKeepThePromise == Spec => ImplementsAtomicLeases
  <1>1. Init => Promise!Init
    <2> SUFFICES ASSUME Init
                 PROVE  Promise!Init
      OBVIOUS
    <2>1. Limit \in [{"pool"} -> Nat] /\ Need \in [Place -> SUBSET {"pool"}]
      BY CapacityNat DEF Limit, Need
    <2> QED
      BY <2>1 DEF Init, Promise!Init, Need, Limit
  <1>2. Spec => []BrokerInv
    BY InitSound, StepKeeps, PTL DEF Spec
  <1>3. BrokerInv /\ [Next]_vars => [Promise!Next]_(Promise!vars)
    BY StepIsPromised
  <1> QED
    BY <1>1, <1>2, <1>3, PTL DEF Spec, ImplementsAtomicLeases, Promise!Spec
=============================================================================
