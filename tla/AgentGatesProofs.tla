-------------------------- MODULE AgentGatesProofs --------------------------
(***************************************************************************)
(* What AgentGates guarantees for any gates, trees, other lanes, turns and   *)
(* kills: who is in the pool's queue has somebody to queue for, a green      *)
(* phase is green but for a verdict the agent edited under, a stall is of a   *)
(* gate that fails, and the pool they all share is one of AtomicLeases.      *)
(***************************************************************************)
EXTENDS AgentGates, TLAPS, FiniteSetTheorems, WellFoundedInduction

Flight == [pc : {None, "checking", "queued", "granted", "running"}, turn : 0 .. MaxTurn,
           hash : Tree, fresh : BOOLEAN, aborted : BOOLEAN, saw : SUBSET Tree, edited : BOOLEAN]

\* A queue q told by a: everyone in it is in front of, or behind, everyone else.
Ordered(q, a) ==
    /\ q \in SUBSET Place /\ IsFiniteSet(q)
    /\ a \in [Place -> SUBSET q]
    /\ \A x \in Place \ q : a[x] = {}
    /\ \A x, y \in q : x = y \/ x \in a[y] \/ y \in a[x]
    /\ \A x, y \in q : x \in a[y] => a[x] \subseteq a[y] \ {x}

\* Whoever is in the queue waits for a slot that is taken.
PoolSound ==
    /\ Ordered(waiting, ahead)
    /\ holder \in (Place \cup {None}) \ waiting
    /\ holder = None => waiting = {}

\* What flight f of gate g says of its place is what the pool says, when w are
\* waiting and h holds the slot.
InPlace(f, g, w, h) ==
    /\ f.pc = "queued" <=> g \in w
    /\ f.pc \in {"granted", "running"} <=> h = g

\* A flight is of a turn there was, and of the live one while it may still queue.
Timely(f, t, ph, hl) ==
    f.pc # None =>
        /\ f.turn \in 1 .. t
        /\ f.pc = "queued" \/ (f.pc = "checking" /\ ~f.aborted) =>
              ~hl /\ ph = "working" /\ f.turn = t

FlightsSound ==
    \A g \in Gate : InPlace(flight[g], g, waiting, holder) /\ Timely(flight[g], turn, phase, halted)

\* The gate step is in line, or has the slot, exactly while it is at a gate.
StepSound ==
    /\ phase \notin {"gating", "running"} => Step \notin waiting \cup {holder}
    /\ phase = "running" => holder = Step
    /\ phase # "over" => turn <= MaxTurn

\* A gate is run again without the cache because it is the red one.
RerunSound == phase \in {"gating", "running"} /\ rerun # None => lastRed = [gate |-> rerun, tree |-> tree]

Typed ==
    /\ tree \in Tree
    /\ cache \in [Gate -> [Tree -> {None, "passed", "failed"}]]
    /\ flight \in [Gate -> Flight]
    /\ inner \in Gate \cup {None}
    /\ turn \in 1 .. MaxTurn + 1 /\ at \in 1 .. Len(Gates)
    /\ phase \in {"working", "ended", "gating", "running", "green", "stalled", "over"}
    /\ rerun \in Gate \cup {None} /\ lastRed \in [gate : Gate \cup {None}, tree : Tree]
    /\ halted \in BOOLEAN /\ mishaps \in 0 .. MaxMishaps

\* The inductive invariant, whatever the agent does.
GateInv == Typed /\ PoolSound /\ FlightsSound /\ StepSound /\ RerunSound

MixedTyped == mixed \subseteq Gate \X Tree

\* What is stored, hashed and passed is about the tree there is, but for what a
\* run gave that the agent edited under.
TrueOf(g, t) == t \in Passes[g] \/ <<g, t>> \in mixed

StoredTruly == \A g \in Gate, t \in Tree : cache[g][t] = "passed" => TrueOf(g, t)

HashedTruly(f) ==
    ~f.edited =>
        /\ f.pc \in {"queued", "granted", "running"} => f.hash = tree
        /\ f.pc = "running" => f.saw = {tree}

PassedTruly ==
    /\ phase \in {"gating", "running"} => \A i \in 1 .. at - 1 : TrueOf(Gates[i], tree)
    /\ phase = "green" => \A i \in 1 .. Len(Gates) : TrueOf(Gates[i], tree)

\* No flight ends, and no verdict changes with it, once the gate step has passed
\* one.
StepHolds ==
    /\ phase = "gating" /\ at > 1 => holder = Step
    /\ phase = "green" => holder \notin Gate

TruthInv == StoredTruly /\ (\A g \in Gate : HashedTruly(flight[g])) /\ PassedTruly

----------------------------------------------------------------------------
(* The queue *)

\* Names of the queue are not those of gates, of other lanes or of nobody.
LEMMA Apart ==
    /\ None \notin Place /\ With \in Place /\ Step \in Place /\ With # Step
    /\ Gate \subseteq Place /\ Other \subseteq Place
    /\ \A g \in Gate : g \notin Other /\ g # None /\ g # With /\ g # Step
    /\ \A o \in Other : o # None /\ o # With /\ o # Step
  BY NamesApart DEF Place, None, With, Step

\* What is left of a queue is one.
LEMMA WithoutOrdered ==
    ASSUME NEW q, NEW a, Ordered(q, a), NEW S
    PROVE  Ordered(q \ S, Without(a, S))
  <1>1. IsFiniteSet(q \ S)
    BY FS_Subset DEF Ordered
  <1>2. Without(a, S) \in [Place -> SUBSET (q \ S)]
    BY DEF Ordered, Without
  <1>3. \A x \in Place : Without(a, S)[x] = IF x \in S THEN {} ELSE a[x] \ S
    BY DEF Without
  <1> HIDE DEF Without
  <1> QED
    BY <1>1, <1>2, <1>3 DEF Ordered

\* Whoever joins is behind everyone.
LEMMA JoinOrdered ==
    ASSUME NEW q, NEW a, Ordered(q, a), NEW x \in Place \ q
    PROVE  Ordered(q \cup {x}, [a EXCEPT ![x] = q])
  <1>1. IsFiniteSet(q \cup {x})
    BY FS_AddElement DEF Ordered
  <1>2. [a EXCEPT ![x] = q] \in [Place -> SUBSET (q \cup {x})]
    BY DEF Ordered
  <1>3. \A y \in Place : [a EXCEPT ![x] = q][y] = IF y = x THEN q ELSE a[y]
    BY DEF Ordered
  <1>4. x \notin q /\ \A y \in Place : a[y] \subseteq q
    BY DEF Ordered
  <1> QED
    BY <1>1, <1>2, <1>3, <1>4 DEF Ordered

\* A queue with somebody in it has somebody at its front.
LEMMA SomeoneIsFirst ==
    ASSUME NEW q, NEW a, Ordered(q, a), q # {}
    PROVE  \E x \in q : a[x] = {}
  <1> DEFINE T == {Cardinality(a[x]) : x \in q}
  <1>1. \A x \in q : IsFiniteSet(a[x]) /\ a[x] \subseteq q /\ Cardinality(a[x]) \in Nat
    <2>1. \A x \in q : a[x] \subseteq q /\ IsFiniteSet(q)
      BY DEF Ordered
    <2> QED
      BY <2>1, FS_Subset, FS_CardinalityType
  <1>2. T \subseteq Nat /\ T # {}
    BY <1>1
  <1>3. PICK n \in T : \A m \in T : ~(<<m, n>> \in OpToRel(<, Nat))
    <2> HIDE DEF T
    <2> QED
      BY <1>2, NatLessThanWellFounded, WFMin
  <1>4. PICK x \in q : n = Cardinality(a[x])
    BY <1>3
  <1>5. ASSUME NEW y \in a[x] PROVE FALSE
    <2>1. y \in q /\ a[y] \subseteq a[x] /\ a[y] # a[x]
      BY <1>1, <1>5 DEF Ordered
    <2>2. Cardinality(a[y]) < Cardinality(a[x])
      <3>1. IsFiniteSet(a[x]) /\ Cardinality(a[x]) \in Nat /\ Cardinality(a[y]) \in Nat
        BY <1>1, <2>1
      <3> QED
        BY <2>1, <3>1, FS_Subset
    <2>3. Cardinality(a[y]) \in T
      BY <2>1
    <2> QED
      BY <1>2, <1>3, <1>4, <2>2, <2>3 DEF OpToRel
  <1> QED
    BY <1>5

\* At the front there is one.
LEMMA FrontIsOne ==
    ASSUME NEW q, NEW a, Ordered(q, a), NEW h, NEW x \in AtFront(q, a, h)
    PROVE  AtFront(q, a, h) = {x}
  BY DEF Ordered, AtFront

\* A queue that is served loses its front to a free slot, and nobody else.
LEMMA Served ==
    ASSUME NEW q, NEW a, Ordered(q, a), NEW h \in (Place \cup {None}) \ q, Serve(q, a, h)
    PROVE  /\ PoolSound'
           /\ waiting' = q \ {holder'}
           /\ h # None => holder' = h
           /\ h = None => holder' = None \/ holder' \in AtFront(q, a, h)
           /\ h = None /\ q # {} => holder' \in AtFront(q, a, h)
  <1> DEFINE G == AtFront(q, a, h)
  <1>1. waiting' = q \ G /\ ahead' = Without(a, G) /\ holder' \in IF G = {} THEN {h} ELSE G
    BY DEF Serve
  <1>2. G \subseteq q /\ (h # None => G = {}) /\ (h = None /\ q # {} => G # {})
    BY SomeoneIsFirst DEF AtFront
  <1>3. G # {} => G = {holder'}
    BY <1>1, FrontIsOne
  <1>4. q \subseteq Place
    BY DEF Ordered
  <1> HIDE DEF G
  <1>5. Ordered(waiting', ahead')
    BY <1>1, WithoutOrdered
  <1>6. waiting' = q \ {holder'}
    BY <1>1, <1>2, <1>3
  <1>7. PoolSound'
    BY <1>1, <1>2, <1>3, <1>4, <1>5, <1>6 DEF PoolSound
  <1> QED
    BY <1>1, <1>2, <1>3, <1>6, <1>7 DEF G

\* Whoever joins gets a free slot, and else waits for the one who has it.
LEMMA Joined ==
    ASSUME PoolSound, NEW x \in Place \ (waiting \cup {holder}), Join(x)
    PROVE  /\ PoolSound'
           /\ \/ holder = None /\ holder' = x /\ waiting' = waiting /\ waiting = {}
              \/ holder # None /\ holder' = holder /\ waiting' = waiting \cup {x}
  <1> DEFINE q == waiting \cup {x}
             a == [ahead EXCEPT ![x] = waiting]
  <1>1. Ordered(q, a)
    BY JoinOrdered DEF PoolSound
  <1>2. holder \in (Place \cup {None}) \ q /\ Serve(q, a, holder) /\ x # None
    BY Apart DEF PoolSound, Join
  <1>3. AtFront(q, a, holder) \subseteq q
    BY DEF AtFront
  <1> HIDE DEF a
  <1>4. /\ PoolSound' /\ waiting' = q \ {holder'}
        /\ holder # None => holder' = holder
        /\ holder = None => holder' \in q
    BY <1>1, <1>2, <1>3, Served
  <1> QED
    BY <1>2, <1>4 DEF PoolSound

\* A slot given back goes to somebody in line.
LEMMA GivenBack ==
    ASSUME PoolSound, GiveBack
    PROVE  /\ PoolSound'
           /\ \/ waiting = {} /\ waiting' = {} /\ holder' = None
              \/ holder' \in waiting /\ waiting' = waiting \ {holder'}
  <1>1. Ordered(waiting, ahead) /\ None \in (Place \cup {None}) \ waiting
    BY Apart DEF PoolSound, Ordered
  <1>2. Serve(waiting, ahead, None) /\ AtFront(waiting, ahead, None) \subseteq waiting
    BY DEF GiveBack, AtFront
  <1> QED
    BY <1>1, <1>2, Served

----------------------------------------------------------------------------
(* A flight at a time *)

LEMMA TypedIsType ==
    ASSUME Typed, MixedTyped, PoolSound PROVE TypeOK
  BY DEF Typed, MixedTyped, PoolSound, Ordered, TypeOK, Flight

LEMMA NoFlightTyped ==
    NoFlight \in Flight /\ NoFlight.pc = None
  <1>1. 0 \in 0 .. MaxTurn
    BY BoundsNat
  <1> QED
    BY <1>1, StartIsTree DEF NoFlight, Flight

\* The flight that a command of turn t starts.
Begun(f, t, b) == [f EXCEPT !.pc = "checking", !.turn = t, !.fresh = b]

LEMMA Started ==
    ASSUME NEW f \in Flight, NEW t \in 0 .. MaxTurn, NEW b \in BOOLEAN
    PROVE  Begun(f, t, b) \in Flight /\ Begun(f, t, b).pc = "checking" /\ Begun(f, t, b).turn = t
  <1> DEFINE r == Begun(f, t, b)
  <1>1. r = [f EXCEPT !.pc = "checking", !.turn = t, !.fresh = b]
    BY DEF Begun
  <1> HIDE DEF r
  <1>2. r \in Flight
    BY <1>1 DEF Flight
  <1>3. r.pc = "checking" /\ r.turn = t
    BY <1>1 DEF Flight
  <1> QED
    BY <1>2, <1>3 DEF r

\* A flight that is touched keeps what is not.
LEMMA Attached ==
    ASSUME NEW f \in Flight, NEW t \in 0 .. MaxTurn, NEW r, r = [f EXCEPT !.turn = t]
    PROVE  /\ r \in Flight /\ r.turn = t
           /\ r.pc = f.pc /\ r.hash = f.hash /\ r.saw = f.saw /\ r.aborted = f.aborted
           /\ r.edited = f.edited
  BY DEF Flight

LEMMA AbortedOne ==
    ASSUME NEW f \in Flight, NEW b \in BOOLEAN, NEW r, r = [f EXCEPT !.aborted = b]
    PROVE  /\ r \in Flight /\ r.aborted = b
           /\ r.pc = f.pc /\ r.hash = f.hash /\ r.saw = f.saw /\ r.turn = f.turn
           /\ r.edited = f.edited
  BY DEF Flight

\* The flight that was edited under, and has read S.
UnderEdit(f, S) == [f EXCEPT !.edited = f.pc \in {"queued", "granted", "running"}, !.saw = S]

LEMMA EditedOne ==
    ASSUME NEW f \in Flight, NEW S \in SUBSET Tree
    PROVE  LET r == UnderEdit(f, S) IN
           /\ r \in Flight /\ r.saw = S
           /\ ~r.edited => f.pc \notin {"queued", "granted", "running"}
           /\ r.pc = f.pc /\ r.hash = f.hash /\ r.aborted = f.aborted /\ r.turn = f.turn
  <1> DEFINE r == UnderEdit(f, S)
             e == f.pc \in {"queued", "granted", "running"}
  <1>1. r = [f EXCEPT !.edited = e, !.saw = S]
    BY DEF UnderEdit
  <1>2. CASE f.pc \in {"queued", "granted", "running"}
    <2>1. e = TRUE
      BY <1>2
    <2> HIDE DEF r, e
    <2>2. r = [f EXCEPT !.edited = TRUE, !.saw = S]
      BY <1>1, <2>1
    <2>3. r \in Flight /\ r.saw = S /\ r.edited
          /\ r.pc = f.pc /\ r.hash = f.hash /\ r.aborted = f.aborted /\ r.turn = f.turn
      BY <2>2 DEF Flight
    <2> QED
      BY <2>3 DEF r
  <1>3. CASE f.pc \notin {"queued", "granted", "running"}
    <2>1. e = FALSE
      BY <1>3
    <2> HIDE DEF r, e
    <2>2. r = [f EXCEPT !.edited = FALSE, !.saw = S]
      BY <1>1, <2>1
    <2>3. r \in Flight /\ r.saw = S
          /\ r.pc = f.pc /\ r.hash = f.hash /\ r.aborted = f.aborted /\ r.turn = f.turn
      BY <2>2 DEF Flight
    <2> QED
      BY <1>3, <2>3 DEF r
  <1> QED
    BY <1>2, <1>3

\* The flight that queues under hash t, and the one that runs and has read S.
Lines(f, t) == [f EXCEPT !.pc = "queued", !.hash = t, !.fresh = FALSE]
Runs(f, S) == [f EXCEPT !.pc = "running", !.saw = S]

LEMMA QueuedOne ==
    ASSUME NEW f \in Flight, NEW t \in Tree
    PROVE  LET r == Lines(f, t) IN
           /\ r \in Flight /\ r.pc = "queued" /\ r.hash = t
           /\ r.aborted = f.aborted /\ r.turn = f.turn
  <1> DEFINE r == Lines(f, t)
  <1>1. r = [f EXCEPT !.pc = "queued", !.hash = t, !.fresh = FALSE]
    BY DEF Lines
  <1> HIDE DEF r
  <1>2. r \in Flight
    BY <1>1 DEF Flight
  <1>3. r.pc = "queued" /\ r.hash = t /\ r.aborted = f.aborted /\ r.turn = f.turn
    BY <1>1 DEF Flight
  <1> QED
    BY <1>2, <1>3 DEF r

LEMMA SpawnedOne ==
    ASSUME NEW f \in Flight, NEW S \in SUBSET Tree
    PROVE  LET r == Runs(f, S) IN
           /\ r \in Flight /\ r.pc = "running" /\ r.saw = S
           /\ r.hash = f.hash /\ r.aborted = f.aborted /\ r.turn = f.turn /\ r.edited = f.edited
  <1> DEFINE r == Runs(f, S)
  <1>1. r = [f EXCEPT !.pc = "running", !.saw = S]
    BY DEF Runs
  <1> HIDE DEF r
  <1>2. r \in Flight
    BY <1>1 DEF Flight
  <1>3. r.pc = "running" /\ r.saw = S /\ r.hash = f.hash /\ r.aborted = f.aborted /\ r.turn = f.turn
        /\ r.edited = f.edited
    BY <1>1 DEF Flight
  <1> QED
    BY <1>2, <1>3 DEF r

LEMMA GrantedOne ==
    ASSUME NEW f \in Flight, NEW r, r = [f EXCEPT !.pc = "granted"]
    PROVE  /\ r \in Flight /\ r.pc = "granted"
           /\ r.hash = f.hash /\ r.saw = f.saw /\ r.aborted = f.aborted /\ r.turn = f.turn
           /\ r.edited = f.edited
  BY DEF Flight

\* The flights f when the slot has gone to somebody who was in line.
LEMMA GrantedFlights ==
    ASSUME NEW f \in [Gate -> Flight], NEW e, e = Granted(f)
    PROVE  /\ e \in [Gate -> Flight]
           /\ \A g \in Gate :
                 /\ f[g].pc = "queued" /\ holder' = g => e[g].pc = "granted"
                 /\ f[g].pc # "queued" \/ holder' # g => e[g] = f[g]
                 /\ e[g].turn = f[g].turn /\ e[g].aborted = f[g].aborted
                 /\ e[g].hash = f[g].hash /\ e[g].saw = f[g].saw
                 /\ e[g].edited = f[g].edited
  <1>1. \A g \in Gate : f[g] \in Flight
    OBVIOUS
  <1>2. \A g \in Gate : e[g] = IF f[g].pc = "queued" /\ holder' = g
                                     THEN [f[g] EXCEPT !.pc = "granted"] ELSE f[g]
    BY DEF Granted
  <1>3. e = [g \in Gate |-> e[g]]
    BY DEF Granted
  <1>4. ASSUME NEW g \in Gate
        PROVE  /\ e[g] \in Flight
               /\ f[g].pc = "queued" /\ holder' = g => e[g].pc = "granted"
               /\ f[g].pc # "queued" \/ holder' # g => e[g] = f[g]
               /\ e[g].turn = f[g].turn /\ e[g].aborted = f[g].aborted
               /\ e[g].hash = f[g].hash /\ e[g].saw = f[g].saw
               /\ e[g].edited = f[g].edited
    <2>1. CASE f[g].pc = "queued" /\ holder' = g
      <3>1. f[g] \in Flight /\ e[g] = [f[g] EXCEPT !.pc = "granted"]
        BY <1>1, <1>2, <2>1
      <3> QED
        BY <2>1, <3>1, GrantedOne
    <2>2. CASE ~(f[g].pc = "queued" /\ holder' = g)
      BY <1>1, <1>2, <2>2
    <2> QED
      BY <2>1, <2>2
  <1> QED
    BY <1>3, <1>4

\* The slot is given back with the flights as f has them.
LEMMA GivenBackFlights ==
    ASSUME PoolSound, GiveBack, NEW f \in [Gate -> Flight], flight' = Granted(f),
           \A g \in Gate : InPlace(f[g], g, waiting, None)
    PROVE  \A g \in Gate : InPlace(flight'[g], g, waiting', holder')
  <1>1. \/ waiting = {} /\ waiting' = {} /\ holder' = None
        \/ holder' \in waiting /\ waiting' = waiting \ {holder'}
    BY GivenBack
  <1> SUFFICES ASSUME NEW g \in Gate PROVE InPlace(flight'[g], g, waiting', holder')
    OBVIOUS
  <1>2. g # None
    BY Apart
  <1>3. /\ f[g].pc = "queued" /\ holder' = g => flight'[g].pc = "granted"
        /\ f[g].pc # "queued" \/ holder' # g => flight'[g] = f[g]
    BY GrantedFlights
  <1> QED
    BY <1>1, <1>2, <1>3 DEF InPlace

\* A flight that was granted is as timely as it was.
LEMMA GrantedTimely ==
    ASSUME NEW f \in [Gate -> Flight], flight' = Granted(f), NEW g \in Gate, NEW t, NEW ph, NEW hl,
           Timely(f[g], t, ph, hl)
    PROVE  Timely(flight'[g], t, ph, hl)
  <1>1. /\ f[g].pc = "queued" /\ holder' = g => flight'[g].pc = "granted"
        /\ f[g].pc # "queued" \/ holder' # g => flight'[g] = f[g]
        /\ flight'[g].turn = f[g].turn /\ flight'[g].aborted = f[g].aborted
    BY GrantedFlights
  <1> QED
    BY <1>1 DEF Timely, None

\* A flight that was granted hashed what it did.
LEMMA GrantedTruly ==
    ASSUME NEW f \in [Gate -> Flight], flight' = Granted(f), NEW g \in Gate,
           HashedTruly(f[g]), UNCHANGED tree
    PROVE  HashedTruly(flight[g])'
  <1>1. /\ f[g].pc = "queued" /\ holder' = g => flight'[g].pc = "granted"
        /\ f[g].pc # "queued" \/ holder' # g => flight'[g] = f[g]
        /\ flight'[g].hash = f[g].hash /\ flight'[g].saw = f[g].saw
        /\ flight'[g].edited = f[g].edited
    BY GrantedFlights
  <1> QED
    BY <1>1 DEF HashedTruly

----------------------------------------------------------------------------
(* The steps, whatever the agent does *)

LEMMA GateAt ==
    /\ Len(Gates) \in Nat \ {0} /\ Gate = {Gates[i] : i \in 1 .. Len(Gates)}
    /\ \A i \in 1 .. Len(Gates) : Gates[i] \in Gate
  BY GatesNonEmpty DEF Gate, ToSet

LEMMA InitSound ==
    ASSUME Init PROVE GateInv
  <1>1. Typed
    <2>1. 1 \in 1 .. MaxTurn + 1 /\ 1 \in 1 .. Len(Gates) /\ 0 \in 0 .. MaxMishaps
      BY BoundsNat, GateAt
    <2>2. NoRed \in [gate : Gate \cup {None}, tree : Tree]
      BY StartIsTree DEF NoRed
    <2>3. flight \in [Gate -> Flight]
      BY NoFlightTyped DEF Init
    <2>4. cache \in [Gate -> [Tree -> {None, "passed", "failed"}]]
      BY DEF Init
    <2> QED
      BY <2>1, <2>2, <2>3, <2>4, StartIsTree DEF Init, Typed
  <1>2. PoolSound
    <2>1. IsFiniteSet({})
      BY FS_EmptySet
    <2> QED
      BY <2>1, Apart DEF Init, PoolSound, Ordered
  <1>3. FlightsSound
    <2>1. \A g \in Gate : flight[g].pc = None /\ g # None
      BY NoFlightTyped, Apart DEF Init
    <2> QED
      BY <2>1 DEF Init, FlightsSound, InPlace, Timely, None
  <1>4. StepSound /\ RerunSound
    BY BoundsNat, Apart DEF Init, StepSound, RerunSound
  <1> QED
    BY <1>1, <1>2, <1>3, <1>4 DEF GateInv

\* One flight changes, and nothing of the pool.
LEMMA OneFlightKeeps ==
    ASSUME GateInv, NEW g \in Gate, NEW r \in Flight, flight' = [flight EXCEPT ![g] = r],
           InPlace(r, g, waiting, holder), Timely(r, turn, phase, halted),
           UNCHANGED <<tree, pool, turn, phase, step, halted, mishaps>>,
           cache' \in [Gate -> [Tree -> {None, "passed", "failed"}]], inner' \in Gate \cup {None}
    PROVE  GateInv'
  <1>1. /\ flight' \in [Gate -> Flight]
        /\ \A k \in Gate : flight'[k] = IF k = g THEN r ELSE flight[k]
    BY DEF GateInv, Typed
  <1>2. Typed'
    BY <1>1 DEF GateInv, Typed, step
  <1>3. FlightsSound'
    BY <1>1 DEF GateInv, FlightsSound, pool
  <1> QED
    BY <1>2, <1>3 DEF GateInv, PoolSound, StepSound, RerunSound, pool, step

LEMMA HopKeeps ==
    ASSUME GateInv, NEW g \in Gate, NEW fresh \in BOOLEAN, phase = "working", Hop(g, fresh),
           UNCHANGED <<tree, cache, pool, turn, phase, step, halted, mishaps>>,
           inner' \in Gate \cup {None}
    PROVE  GateInv'
  <1>1. /\ flight[g] \in Flight /\ turn \in 1 .. MaxTurn /\ cache' = cache
        /\ cache \in [Gate -> [Tree -> {None, "passed", "failed"}]]
    BY BoundsNat DEF GateInv, Typed, StepSound
  <1>2. InPlace(flight[g], g, waiting, holder) /\ Timely(flight[g], turn, phase, halted)
    BY DEF GateInv, FlightsSound
  <1>3. CASE flight[g].pc = None
    <2> DEFINE r == Begun(NoFlight, turn, fresh)
    <2>1. flight' = [flight EXCEPT ![g] = r] /\ ~halted
      BY <1>3 DEF Hop, None, Begun
    <2>2. turn \in 0 .. MaxTurn
      BY <1>1
    <2>3. r \in Flight /\ r.pc = "checking" /\ r.turn = turn
      BY <2>2, NoFlightTyped, Started
    <2> HIDE DEF r
    <2>4. InPlace(r, g, waiting, holder) /\ Timely(r, turn, phase, halted)
      BY <1>1, <1>2, <1>3, <2>1, <2>3 DEF InPlace, Timely, None
    <2> QED
      BY <1>1, <2>1, <2>3, <2>4, OneFlightKeeps
  <1>4. CASE flight[g].pc # None
    <2> DEFINE r == [flight[g] EXCEPT !.turn = turn]
    <2>1. flight' = [flight EXCEPT ![g] = r]
      BY <1>4 DEF Hop
    <2>2. turn \in 0 .. MaxTurn /\ r = [flight[g] EXCEPT !.turn = turn]
      BY <1>1
    <2> HIDE DEF r
    <2>3. r \in Flight /\ r.turn = turn /\ r.pc = flight[g].pc /\ r.aborted = flight[g].aborted
      BY <1>1, <2>2, Attached
    <2>4. InPlace(r, g, waiting, holder) /\ Timely(r, turn, phase, halted)
      BY <1>1, <1>2, <2>3 DEF InPlace, Timely
    <2> QED
      BY <1>1, <2>1, <2>3, <2>4, OneFlightKeeps
  <1> QED
    BY <1>3, <1>4

LEMMA AskKeeps ==
    ASSUME GateInv, NEW g \in Gate, (\E fresh \in BOOLEAN : Ask(g, fresh)) \/ AskInside(g)
    PROVE  GateInv'
  <1>1. ASSUME NEW fresh \in BOOLEAN, Ask(g, fresh) PROVE GateInv'
    BY <1>1, HopKeeps DEF Ask, GateInv, Typed
  <1>2. ASSUME AskInside(g) PROVE GateInv'
    BY <1>2, HopKeeps DEF AskInside
  <1> QED
    BY <1>1, <1>2

\* Somebody who is no gate queues.
LEMMA JoinKeeps ==
    ASSUME GateInv, NEW x \in Place \ (waiting \cup {holder}), x \notin Gate, Join(x),
           UNCHANGED <<flight, halted, turn>>, Typed',
           \A g \in Gate : Timely(flight[g], turn, phase', halted), StepSound', RerunSound'
    PROVE  GateInv'
  <1>1. /\ PoolSound'
        /\ \/ holder = None /\ holder' = x /\ waiting' = waiting /\ waiting = {}
           \/ holder # None /\ holder' = holder /\ waiting' = waiting \cup {x}
    BY Joined DEF GateInv
  <1>2. \A g \in Gate : InPlace(flight[g], g, waiting', holder') /\ g # None
    BY <1>1, Apart DEF GateInv, FlightsSound, InPlace
  <1>3. FlightsSound'
    BY <1>2 DEF FlightsSound
  <1> QED
    BY <1>1, <1>3 DEF GateInv

LEMMA WithAsksKeeps ==
    ASSUME GateInv, WithAsks PROVE GateInv'
  <1>1. With \in Place \ (waiting \cup {holder}) /\ With \notin Gate /\ With # Step /\ Join(With)
    BY Apart DEF WithAsks
  <1>2. Typed' /\ RerunSound' /\ (\A g \in Gate : Timely(flight[g], turn, phase', halted))
    BY DEF WithAsks, GateInv, Typed, RerunSound, FlightsSound, step
  <1>3. StepSound'
    <2>1. holder' \in {holder, With} /\ waiting' \subseteq waiting \cup {With}
      BY <1>1, Joined DEF GateInv
    <2> QED
      BY <1>1, <2>1 DEF WithAsks, GateInv, StepSound
  <1> QED
    BY <1>1, <1>2, <1>3, JoinKeeps DEF WithAsks

LEMMA OtherAsksKeeps ==
    ASSUME GateInv, NEW o \in Other, OtherAsks(o) PROVE GateInv'
  <1>1. o \in Place \ (waiting \cup {holder}) /\ o \notin Gate /\ o # Step /\ o # None /\ Join(o)
    BY Apart DEF OtherAsks
  <1>2. Typed' /\ RerunSound' /\ (\A g \in Gate : Timely(flight[g], turn, phase', halted))
    BY DEF OtherAsks, GateInv, Typed, RerunSound, FlightsSound, step
  <1>3. StepSound'
    <2>1. \/ holder' = holder /\ waiting' \subseteq waiting \cup {o}
          \/ holder = None /\ holder' = o /\ waiting' = waiting
      BY <1>1, Joined DEF GateInv
    <2> QED
      BY <1>1, <2>1, Apart DEF OtherAsks, GateInv, StepSound
  <1> QED
    BY <1>1, <1>2, <1>3, JoinKeeps DEF OtherAsks

LEMMA StepAsksKeeps ==
    ASSUME GateInv, StepAsks PROVE GateInv'
  <1>1. Step \in Place \ (waiting \cup {holder}) /\ Step \notin Gate /\ Join(Step)
    BY Apart DEF StepAsks, GateInv, StepSound
  <1>2. Typed' /\ RerunSound' /\ StepSound'
    <2>1. 1 \in 1 .. Len(Gates)
      BY GateAt
    <2> QED
      BY <2>1 DEF StepAsks, GateInv, Typed, RerunSound, StepSound
  <1>3. \A g \in Gate : Timely(flight[g], turn, phase', halted)
    BY DEF StepAsks, GateInv, FlightsSound, Timely
  <1> QED
    BY <1>1, <1>2, <1>3, JoinKeeps DEF StepAsks

LEMMA StoredTyped ==
    ASSUME Typed, NEW g \in Gate, NEW t \in Tree, NEW v \in {None, "passed", "failed"}
    PROVE  Stored(g, t, v) \in [Gate -> [Tree -> {None, "passed", "failed"}]]
  BY DEF Typed, Stored

LEMMA EditKeeps ==
    ASSUME GateInv, NEW t \in Tree, Edit(t) PROVE GateInv'
  <1>1. ASSUME NEW g \in Gate
        PROVE  /\ flight'[g] \in Flight /\ flight'[g].pc = flight[g].pc
               /\ flight'[g].turn = flight[g].turn /\ flight'[g].aborted = flight[g].aborted
    <2>1. flight[g] \in Flight
      BY DEF GateInv, Typed
    <2>2. PICK S \in SUBSET Tree :
              S = IF flight[g].pc = "running" THEN flight[g].saw \cup {t} ELSE flight[g].saw
      BY <2>1 DEF Flight
    <2>3. flight'[g] = UnderEdit(flight[g], S)
      BY <2>2 DEF Edit, UnderEdit
    <2> QED
      BY <2>1, <2>3, EditedOne
  <1>2. flight' = [g \in Gate |-> flight'[g]] /\ UNCHANGED <<pool, phase, turn, halted, step>>
    BY DEF Edit
  <1>3. flight' \in [Gate -> Flight]
    BY <1>1, <1>2
  <1>4. Typed'
    <2>1. mishaps' \in 0 .. MaxMishaps
      <3>1. mishaps' = mishaps \/ Mishap
        BY DEF Edit
      <3> QED
        BY <3>1, BoundsNat DEF Mishap, GateInv, Typed
    <2> QED
      BY <1>3, <2>1 DEF Edit, GateInv, Typed, step
  <1>5. FlightsSound'
    <2>1. ASSUME NEW g \in Gate
          PROVE  InPlace(flight'[g], g, waiting, holder) /\ Timely(flight'[g], turn, phase, halted)
      BY <1>1 DEF GateInv, FlightsSound, InPlace, Timely
    <2> QED
      BY <1>2, <2>1 DEF FlightsSound, pool
  <1> QED
    BY <1>2, <1>4, <1>5 DEF Edit, GateInv, PoolSound, StepSound, RerunSound, pool, step

LEMMA SpawnKeeps ==
    ASSUME GateInv, NEW g \in Gate, Spawn(g) PROVE GateInv'
  <1> DEFINE S == {tree}
             r == Runs(flight[g], S)
  <1>1. flight \in [Gate -> Flight] /\ flight[g] \in Flight /\ S \in SUBSET Tree
    BY DEF GateInv, Typed
  <1>2. flight' = [flight EXCEPT ![g] = r] /\ flight[g].pc = "granted"
    BY <1>1 DEF Spawn, Runs
  <1>3. InPlace(flight[g], g, waiting, holder) /\ Timely(flight[g], turn, phase, halted)
    BY DEF GateInv, FlightsSound
  <1> HIDE DEF S
  <1>5. r \in Flight /\ r.pc = "running" /\ r.aborted = flight[g].aborted /\ r.turn = flight[g].turn
    BY <1>1, SpawnedOne
  <1> HIDE DEF r
  <1>6. InPlace(r, g, waiting, holder) /\ Timely(r, turn, phase, halted)
    BY <1>2, <1>3, <1>5 DEF InPlace, Timely, None
  <1> QED
    BY <1>2, <1>5, <1>6, OneFlightKeeps DEF Spawn, GateInv, Typed

\* The checks before a run end with an answer.
LEMMA CheckAnswers ==
    ASSUME GateInv, NEW g \in Gate, flight[g].pc = "checking", flight' = Settled(g),
           UNCHANGED <<tree, pool, turn, phase, step, halted, mishaps>>,
           cache' \in [Gate -> [Tree -> {None, "passed", "failed"}]], inner' \in Gate \cup {None}
    PROVE  GateInv'
  <1>1. flight' = [flight EXCEPT ![g] = NoFlight] /\ NoFlight \in Flight /\ NoFlight.pc = None
    BY NoFlightTyped DEF Settled
  <1>2. InPlace(flight[g], g, waiting, holder)
    BY DEF GateInv, FlightsSound
  <1>3. InPlace(NoFlight, g, waiting, holder) /\ Timely(NoFlight, turn, phase, halted)
    BY <1>1, <1>2 DEF InPlace, Timely, None
  <1> QED
    BY <1>1, <1>3, OneFlightKeeps

\* They end in the queue.
LEMMA CheckQueues ==
    ASSUME GateInv, NEW g \in Gate, flight[g].pc = "checking", ~flight[g].aborted, Join(g),
           flight' = Granted([flight EXCEPT ![g].pc = "queued", ![g].hash = Hash, ![g].fresh = FALSE]),
           UNCHANGED <<tree, turn, phase, step, halted, mishaps, inner>>,
           cache' \in [Gate -> [Tree -> {None, "passed", "failed"}]]
    PROVE  GateInv'
  <1> DEFINE r == Lines(flight[g], tree)
             f == [flight EXCEPT ![g] = r]
  <1>1. flight[g] \in Flight /\ flight \in [Gate -> Flight] /\ tree \in Tree
    BY DEF GateInv, Typed
  <1>2. flight' = Granted(f)
    BY <1>1 DEF Hash, Lines
  <1>3. r \in Flight /\ r.pc = "queued" /\ r.aborted = flight[g].aborted /\ r.turn = flight[g].turn
    BY <1>1, QueuedOne
  <1> HIDE DEF r
  <1>4. f \in [Gate -> Flight] /\ \A k \in Gate : f[k] = IF k = g THEN r ELSE flight[k]
    BY <1>1, <1>3
  <1> HIDE DEF f
  <1>5. \A k \in Gate : InPlace(flight[k], k, waiting, holder) /\ Timely(flight[k], turn, phase, halted)
    BY DEF GateInv, FlightsSound
  <1>6. g \in Place \ (waiting \cup {holder}) /\ g # Step
    BY <1>5, Apart DEF InPlace
  <1>7. /\ PoolSound'
        /\ \/ holder = None /\ holder' = g /\ waiting' = waiting /\ waiting = {}
           \/ holder # None /\ holder' = holder /\ waiting' = waiting \cup {g}
    BY <1>6, Joined DEF GateInv
  <1>8. ASSUME NEW k \in Gate PROVE Timely(flight'[k], turn, phase, halted)
    <2>1. Timely(f[k], turn, phase, halted)
      BY <1>3, <1>4, <1>5 DEF Timely, None
    <2> QED
      BY <1>2, <1>4, <2>1, GrantedTimely
  <1>9. ASSUME NEW k \in Gate PROVE InPlace(flight'[k], k, waiting', holder')
    <2>1. /\ f[k].pc = "queued" /\ holder' = k => flight'[k].pc = "granted"
          /\ f[k].pc # "queued" \/ holder' # k => flight'[k] = f[k]
      BY <1>2, <1>4, GrantedFlights
    <2>2. k # None
      BY Apart
    <2> QED
      BY <1>3, <1>4, <1>5, <1>6, <1>7, <2>1, <2>2 DEF InPlace
  <1>10. FlightsSound'
    BY <1>8, <1>9 DEF FlightsSound
  <1>11. Typed'
    <2>1. flight' \in [Gate -> Flight]
      BY <1>2, <1>4, GrantedFlights
    <2> QED
      BY <2>1 DEF GateInv, Typed, step
  <1>12. StepSound' /\ RerunSound'
    BY <1>6, <1>7, Apart DEF GateInv, StepSound, RerunSound, step
  <1> QED
    BY <1>7, <1>10, <1>11, <1>12 DEF GateInv

LEMMA CheckKeeps ==
    ASSUME GateInv, NEW g \in Gate, Check(g) PROVE GateInv'
  <1>1. cache' \in [Gate -> [Tree -> {None, "passed", "failed"}]]
    <2>1. cache' = cache \/ cache' = Stored(g, tree, None)
      BY DEF Check, Hash
    <2>2. Typed /\ tree \in Tree /\ cache \in [Gate -> [Tree -> {None, "passed", "failed"}]]
      BY DEF GateInv, Typed
    <2> QED
      BY <2>1, <2>2, StoredTyped
  <1>2. Answered(g) \in Gate \cup {None}
    BY DEF Answered, GateInv, Typed
  <1> QED
    BY <1>1, <1>2, CheckQueues, CheckAnswers DEF Check, Wanted

\* The slot is given back.
LEMMA GiveBackKeeps ==
    ASSUME GateInv, GiveBack, NEW f \in [Gate -> Flight], flight' = Granted(f),
           \A g \in Gate : InPlace(f[g], g, waiting, None) /\ Timely(f[g], turn', phase', halted'),
           flight' \in [Gate -> Flight] => Typed',
           phase' # "running", phase' # "over" => turn' <= MaxTurn,
           phase' # "gating" => Step \notin waiting, RerunSound'
    PROVE  GateInv'
  <1>1. /\ PoolSound'
        /\ \/ waiting = {} /\ waiting' = {} /\ holder' = None
           \/ holder' \in waiting /\ waiting' = waiting \ {holder'}
    BY GivenBack DEF GateInv
  <1>2. Typed'
    BY GrantedFlights
  <1>3. FlightsSound'
    <2>1. \A g \in Gate : InPlace(flight'[g], g, waiting', holder')
      BY GivenBackFlights DEF GateInv
    <2>2. \A g \in Gate : Timely(flight'[g], turn', phase', halted')
      BY GrantedTimely
    <2> QED
      BY <2>1, <2>2 DEF FlightsSound
  <1>4. StepSound'
    BY <1>1, Apart DEF StepSound
  <1> QED
    BY <1>1, <1>2, <1>3, <1>4 DEF GateInv

\* The slot is given back by somebody who is at no gate step, of whom the
\* flights f have gone.
LEMMA HandOnKeeps ==
    ASSUME GateInv, GiveBack, holder # Step, NEW f \in [Gate -> Flight], flight' = Granted(f),
           \A g \in Gate : f[g] = NoFlight \/ (f[g] = flight[g] /\ holder # g),
           \A g \in Gate : f[g] = NoFlight => g \notin waiting,
           UNCHANGED <<tree, turn, phase, step, halted>>, mishaps' \in 0 .. MaxMishaps,
           cache' \in [Gate -> [Tree -> {None, "passed", "failed"}]], inner' \in Gate \cup {None}
    PROVE  GateInv'
  <1>1. ASSUME NEW g \in Gate
        PROVE  InPlace(f[g], g, waiting, None) /\ Timely(f[g], turn, phase, halted)
    <2>1. InPlace(flight[g], g, waiting, holder) /\ Timely(flight[g], turn, phase, halted) /\ g # None
      BY Apart DEF GateInv, FlightsSound
    <2>2. NoFlight.pc = None
      BY NoFlightTyped
    <2> QED
      BY <2>1, <2>2 DEF InPlace, Timely, None
  <1>2. flight' \in [Gate -> Flight] => Typed'
    BY DEF GateInv, Typed, step
  <1>3. RerunSound' /\ phase # "running" /\ (phase # "over" => turn <= MaxTurn)
        /\ (phase # "gating" => Step \notin waiting)
    BY DEF GateInv, StepSound, RerunSound, step
  <1> QED
    BY <1>1, <1>2, <1>3, GiveBackKeeps

LEMMA EndsKeeps ==
    ASSUME GateInv, NEW g \in Gate, NEW v \in {"passed", "failed", "timed_out"}, Ends(g, v),
           mishaps' \in 0 .. MaxMishaps
    PROVE  GateInv'
  <1> DEFINE f == Settled(g)
  <1>1. flight \in [Gate -> Flight] /\ NoFlight \in Flight
    BY NoFlightTyped DEF GateInv, Typed
  <1>2. f \in [Gate -> Flight] /\ \A k \in Gate : f[k] = IF k = g THEN NoFlight ELSE flight[k]
    BY <1>1 DEF Settled
  <1>3. holder = g /\ g \notin waiting /\ g # Step
    BY Apart DEF Ends, GateInv, FlightsSound, InPlace
  <1>4. cache' \in [Gate -> [Tree -> {None, "passed", "failed"}]]
    <2>1. Typed /\ cache \in [Gate -> [Tree -> {None, "passed", "failed"}]] /\ flight[g].hash \in Tree
      BY <1>1 DEF GateInv, Typed, Flight
    <2>2. v # "timed_out" => cache' = Stored(g, flight[g].hash, v)
      BY DEF Ends
    <2>3. v = "timed_out" => cache' = cache
      BY DEF Ends
    <2> QED
      BY <2>1, <2>2, <2>3, StoredTyped
  <1>5. inner' \in Gate \cup {None}
    BY DEF Ends, Answered, GateInv, Typed
  <1>6. \A k \in Gate : f[k] = NoFlight => k \notin waiting
    <2>1. \A k \in Gate : InPlace(flight[k], k, waiting, holder)
      BY DEF GateInv, FlightsSound
    <2> QED
      BY <1>2, <1>3, <2>1, NoFlightTyped DEF InPlace, None
  <1> HIDE DEF f
  <1> QED
    BY <1>2, <1>3, <1>4, <1>5, <1>6, HandOnKeeps DEF Ends, f

LEMMA FinishKeeps ==
    ASSUME GateInv, NEW g \in Gate, Finish(g) \/ Kill(g) PROVE GateInv'
  <1>1. mishaps \in 0 .. MaxMishaps
    BY DEF GateInv, Typed
  <1>2. ASSUME Finish(g) PROVE GateInv'
    <2>1. PICK v \in {Verdict(g, t) : t \in flight[g].saw} \cup {"timed_out"} : Ends(g, v)
      BY <1>2 DEF Finish
    <2>2. v \in {"passed", "failed", "timed_out"}
      BY DEF Verdict
    <2> QED
      BY <1>1, <1>2, <2>1, <2>2, EndsKeeps DEF Finish
  <1>3. ASSUME Kill(g) PROVE GateInv'
    <2>1. mishaps' \in 0 .. MaxMishaps
      BY <1>1, <1>3, BoundsNat DEF Kill, Mishap
    <2> QED
      BY <1>3, <2>1, EndsKeeps DEF Kill
  <1> QED
    BY <1>2, <1>3

LEMMA LeasesEndKeeps ==
    ASSUME GateInv, WithEnds \/ (\E o \in Other : OtherEnds(o)) PROVE GateInv'
  <1>1. /\ GiveBack /\ flight' = Granted(flight) /\ holder \in {With} \cup Other
        /\ UNCHANGED <<tree, cache, inner, turn, phase, step, halted, mishaps>>
    BY DEF WithEnds, OtherEnds
  <1>2. holder # Step /\ \A g \in Gate : holder # g
    BY <1>1, Apart
  <1>3. /\ flight \in [Gate -> Flight] /\ mishaps \in 0 .. MaxMishaps /\ inner \in Gate \cup {None}
        /\ cache \in [Gate -> [Tree -> {None, "passed", "failed"}]]
    BY DEF GateInv, Typed
  <1>4. \A g \in Gate : flight[g] = NoFlight => g \notin waiting
    <2>1. \A g \in Gate : InPlace(flight[g], g, waiting, holder)
      BY DEF GateInv, FlightsSound
    <2> QED
      BY <2>1, NoFlightTyped DEF InPlace, None
  <1> QED
    BY <1>1, <1>2, <1>3, <1>4, HandOnKeeps

----------------------------------------------------------------------------
(* The end of a turn, and of the run *)

LEMMA AbortedFlights ==
    ASSUME NEW f \in [Gate -> Flight], NEW who
    PROVE  /\ Aborted(f, who) \in [Gate -> Flight]
           /\ \A g \in Gate :
                 /\ g \notin who => Aborted(f, who)[g] = f[g]
                 /\ g \in who /\ f[g].pc = "queued" => Aborted(f, who)[g] = NoFlight
                 /\ g \in who /\ f[g].pc # "queued" =>
                       /\ Aborted(f, who)[g].aborted = (f[g].pc # "running")
                       /\ Aborted(f, who)[g].pc = f[g].pc /\ Aborted(f, who)[g].turn = f[g].turn
                       /\ Aborted(f, who)[g].hash = f[g].hash /\ Aborted(f, who)[g].saw = f[g].saw
                       /\ Aborted(f, who)[g].edited = f[g].edited
  <1> DEFINE e == Aborted(f, who)
  <1>1. e = [g \in Gate |-> e[g]]
    BY DEF Aborted
  <1>2. ASSUME NEW g \in Gate
        PROVE  /\ e[g] \in Flight
               /\ g \notin who => e[g] = f[g]
               /\ g \in who /\ f[g].pc = "queued" => e[g] = NoFlight
               /\ g \in who /\ f[g].pc # "queued" =>
                     /\ e[g].aborted = (f[g].pc # "running")
                     /\ e[g].pc = f[g].pc /\ e[g].turn = f[g].turn
                     /\ e[g].hash = f[g].hash /\ e[g].saw = f[g].saw
                     /\ e[g].edited = f[g].edited
    <2>1. f[g] \in Flight
      OBVIOUS
    <2>2. CASE g \notin who
      BY <2>1, <2>2 DEF Aborted
    <2>3. CASE g \in who /\ f[g].pc = "queued"
      BY <2>3, NoFlightTyped DEF Aborted
    <2>4. CASE g \in who /\ f[g].pc # "queued"
      <3> DEFINE b == f[g].pc # "running"
      <3>1. b \in BOOLEAN /\ e[g] = [f[g] EXCEPT !.aborted = b]
        BY <2>4 DEF Aborted
      <3> HIDE DEF b, e
      <3>2. /\ e[g] \in Flight /\ e[g].aborted = b
            /\ e[g].pc = f[g].pc /\ e[g].hash = f[g].hash /\ e[g].saw = f[g].saw /\ e[g].turn = f[g].turn
            /\ e[g].edited = f[g].edited
        BY <2>1, <3>1, AbortedOne
      <3> QED
        BY <2>4, <3>2 DEF b
    <2> QED
      BY <2>2, <2>3, <2>4
  <1> HIDE DEF e
  <1>3. e \in [Gate -> Flight]
    BY <1>1, <1>2
  <1> QED
    BY <1>2, <1>3 DEF e

\* Where the slot goes when a turn ends: to whoever is first once the turn's own
\* lease and wait are gone, whichever of its flights leave the line with them.
LEMMA FirstStaysFirst ==
    ASSUME PoolSound, NEW h, h = (IF holder = With THEN None ELSE holder),
           NEW next, next = AtFront(waiting \ {With}, Without(ahead, {With}), h),
           NEW gone, With \in gone, gone \cap next = {},
           Serve(waiting \ gone, Without(ahead, gone), h)
    PROVE  /\ PoolSound' /\ waiting' = (waiting \ gone) \ {holder'}
           /\ h # None => holder' = h
           /\ holder' \in {h} \cup (waiting \ gone)
           /\ next = waiting \cap {holder'}
  <1> DEFINE q == waiting \ gone
             a == Without(ahead, gone)
             b == Without(ahead, {With})
  <1>1. Ordered(waiting, ahead) /\ Serve(q, a, h)
    BY DEF PoolSound
  <1>2. Ordered(q, a) /\ Ordered(waiting \ {With}, b) /\ waiting \subseteq Place
    <2>1. waiting \subseteq Place
      BY <1>1 DEF Ordered
    <2> QED
      BY <1>1, <2>1, WithoutOrdered
  <1>3. h \in (Place \cup {None}) \ q /\ h \notin waiting
    BY Apart DEF PoolSound, Ordered
  <1>4. /\ PoolSound' /\ waiting' = q \ {holder'}
        /\ h # None => holder' = h
        /\ h = None => holder' = None \/ holder' \in AtFront(q, a, h)
        /\ h = None /\ q # {} => holder' \in AtFront(q, a, h)
    <2> HIDE DEF q, a
    <2> QED
      BY <1>1, <1>2, <1>3, Served
  <1>5. AtFront(q, a, h) \subseteq q
    BY DEF AtFront
  <1>6. ASSUME NEW x \in next PROVE h = None /\ x \in q /\ x = holder'
    <2>1. h = None /\ x \in waiting \ {With} /\ b[x] = {}
      BY <1>6 DEF AtFront
    <2>2. x \in q
      BY <1>6, <2>1
    <2>3. a[x] = {}
      BY <1>2, <2>1, <2>2 DEF Without
    <2>4. x \in AtFront(q, a, h)
      BY <2>1, <2>2, <2>3 DEF AtFront
    <2>5. AtFront(q, a, h) = {x}
      BY <1>2, <2>4, FrontIsOne
    <2> QED
      BY <1>4, <2>1, <2>2, <2>5
  <1>7. ASSUME holder' \in waiting PROVE holder' \in next
    <2>1. h = None /\ waiting \ {With} # {}
      BY <1>3, <1>4, <1>5, <1>7
    <2>2. PICK x \in waiting \ {With} : b[x] = {}
      BY <1>2, <2>1, SomeoneIsFirst
    <2>3. x \in next
      BY <2>1, <2>2 DEF AtFront
    <2> QED
      BY <1>6, <2>3
  <1> QED
    BY <1>4, <1>5, <1>6, <1>7

\* A flight when its turn ends: m are those the broker aborts.
LEMMA TurnEndsFlight ==
    ASSUME NEW g \in Gate, NEW f \in Flight, NEW e \in Flight, NEW r \in Flight,
           NEW w, NEW h, NEW m, NEW w2, NEW h2, NEW t,
           InPlace(f, g, w, h), Timely(f, t, "working", halted),
           f.pc = "queued" /\ h2 = g => e.pc = "granted" /\ e.turn = f.turn,
           f.pc # "queued" \/ h2 # g => e = f,
           g \notin m => r = e,
           g \in m /\ e.pc = "queued" => r = NoFlight,
           g \in m /\ e.pc # "queued" => r.aborted = (e.pc # "running") /\ r.pc = e.pc /\ r.turn = e.turn,
           f.pc = "queued" => (g \in m <=> h2 # g),
           f.pc = "checking" /\ f.turn = t => g \in m,
           f.pc = None => g \notin m,
           g \in w2 => g \in w /\ g \notin m,
           h2 = g => h = g \/ (g \in w /\ g \notin m),
           h = g => h2 = g, h2 \notin w2
    PROVE  InPlace(r, g, w2, h2) /\ Timely(r, t, "ended", halted)
  <1>1. NoFlight.pc = None
    BY NoFlightTyped
  <1>2. CASE f.pc = "queued"
    BY <1>1, <1>2 DEF InPlace, Timely, None
  <1>3. CASE f.pc = "checking"
    BY <1>3 DEF InPlace, Timely, None
  <1>4. CASE f.pc \in {"granted", "running"}
    BY <1>4 DEF InPlace, Timely, None
  <1>5. CASE f.pc = None
    BY <1>5 DEF InPlace, Timely, None
  <1> QED
    BY <1>2, <1>3, <1>4, <1>5 DEF Flight

LEMMA TurnEndsKeeps ==
    ASSUME GateInv, TurnEnds PROVE GateInv'
  <1> DEFINE h == IF holder = With THEN None ELSE holder
             next == AtFront(waiting \ {With}, Without(ahead, {With}), h)
             U == Unstarted({turn})
             mine == U \ next
             gone == {With} \cup mine
             e == Granted(flight)
  <1>1. /\ Serve(waiting \ gone, Without(ahead, gone), h) /\ flight' = Aborted(e, mine)
        /\ phase = "working" /\ phase' = "ended" /\ inner' = None
        /\ UNCHANGED <<tree, cache, turn, step, halted, mishaps>>
    BY DEF TurnEnds
  <1>2. PoolSound /\ Typed /\ flight \in [Gate -> Flight]
    BY DEF GateInv, Typed
  <1>3. /\ PoolSound' /\ waiting' = (waiting \ gone) \ {holder'}
        /\ h # None => holder' = h
        /\ holder' \in {h} \cup (waiting \ gone)
        /\ next = waiting \cap {holder'}
    <2>1. /\ h = (IF holder = With THEN None ELSE holder)
          /\ next = AtFront(waiting \ {With}, Without(ahead, {With}), h)
      OBVIOUS
    <2>2. With \in gone /\ gone \cap next = {}
      BY DEF AtFront
    <2>3. Serve(waiting \ gone, Without(ahead, gone), h)
      BY <1>1
    <2> HIDE DEF h, next, gone
    <2> QED
      BY <1>2, <2>1, <2>2, <2>3, FirstStaysFirst
  <1>4. /\ e \in [Gate -> Flight]
        /\ \A g \in Gate :
              /\ flight[g].pc = "queued" /\ holder' = g => e[g].pc = "granted"
              /\ flight[g].pc # "queued" \/ holder' # g => e[g] = flight[g]
              /\ e[g].turn = flight[g].turn
    BY <1>2, GrantedFlights
  <1>5. h \in {holder, None} /\ (h # holder => holder = With)
    OBVIOUS
  <1>6. \A g \in Gate : g \in U <=> flight[g].pc \notin {None, "running"} /\ flight[g].turn = turn
    BY DEF Unstarted, InFlight
  <1> HIDE DEF e, next, h, U
  <1>7. /\ flight' \in [Gate -> Flight]
        /\ \A g \in Gate :
              /\ g \notin mine => flight'[g] = e[g]
              /\ g \in mine /\ e[g].pc = "queued" => flight'[g] = NoFlight
              /\ g \in mine /\ e[g].pc # "queued" =>
                    /\ flight'[g].aborted = (e[g].pc # "running")
                    /\ flight'[g].pc = e[g].pc /\ flight'[g].turn = e[g].turn
    BY <1>1, <1>4, AbortedFlights
  <1>8. FlightsSound'
    <2> SUFFICES ASSUME NEW g \in Gate
                 PROVE  InPlace(flight'[g], g, waiting', holder') /\ Timely(flight'[g], turn, "ended", halted)
      BY <1>1 DEF FlightsSound
    <2>1. /\ InPlace(flight[g], g, waiting, holder) /\ Timely(flight[g], turn, "working", halted)
          /\ g # None /\ g # With
      BY <1>1, Apart DEF GateInv, FlightsSound
    <2>2. flight[g] \in Flight /\ e[g] \in Flight /\ flight'[g] \in Flight
      BY <1>2, <1>4, <1>7
    <2>3. holder \notin waiting
      BY <1>2 DEF PoolSound
    <2>4. flight[g].pc = "queued" => (g \in mine <=> holder' # g)
      BY <1>3, <1>6, <2>1, <2>3 DEF InPlace, Timely, None
    <2>5. /\ flight[g].pc = "checking" /\ flight[g].turn = turn => g \in mine
          /\ flight[g].pc = None => g \notin mine
      BY <1>3, <1>6, <2>1 DEF InPlace, None
    <2>6. /\ g \in waiting' => g \in waiting /\ g \notin mine
          /\ holder' = g => holder = g \/ (g \in waiting /\ g \notin mine)
          /\ holder = g => holder' = g
          /\ holder' \notin waiting'
      BY <1>3, <1>5, <2>1
    <2> HIDE DEF mine
    <2>7. /\ flight[g].pc = "queued" /\ holder' = g => e[g].pc = "granted" /\ e[g].turn = flight[g].turn
          /\ flight[g].pc # "queued" \/ holder' # g => e[g] = flight[g]
      BY <1>4
    <2>8. /\ g \notin mine => flight'[g] = e[g]
          /\ g \in mine /\ e[g].pc = "queued" => flight'[g] = NoFlight
          /\ g \in mine /\ e[g].pc # "queued" =>
                flight'[g].aborted = (e[g].pc # "running") /\ flight'[g].pc = e[g].pc /\ flight'[g].turn = e[g].turn
      BY <1>7
    <2> QED
      BY <2>1, <2>2, <2>4, <2>5, <2>6, <2>7, <2>8, TurnEndsFlight
  <1>9. Typed'
    BY <1>1, <1>2, <1>7 DEF Typed, step
  <1>10. StepSound' /\ RerunSound'
    BY <1>1, <1>3, <1>5, Apart DEF GateInv, StepSound, RerunSound
  <1> QED
    BY <1>3, <1>8, <1>9, <1>10 DEF GateInv

LEMMA StepUnwindsKeeps ==
    ASSUME GateInv, StepUnwinds PROVE GateInv'
  <1>1. /\ phase' = "over" /\ phase \in {"ended", "gating"} /\ holder # Step
        /\ waiting' = waiting \ {Step} /\ ahead' = Without(ahead, {Step})
        /\ UNCHANGED <<tree, cache, flight, holder, inner, turn, step, halted, mishaps>>
    BY DEF StepUnwinds
  <1>2. PoolSound'
    BY <1>1, WithoutOrdered DEF GateInv, PoolSound
  <1>3. Typed' /\ StepSound' /\ RerunSound'
    BY <1>1 DEF GateInv, Typed, StepSound, RerunSound, step
  <1>4. FlightsSound'
    <2>1. ASSUME NEW g \in Gate
          PROVE  InPlace(flight[g], g, waiting', holder) /\ Timely(flight[g], turn, phase', halted)
      BY <1>1, Apart DEF GateInv, FlightsSound, InPlace, Timely
    <2> QED
      BY <1>1, <2>1 DEF FlightsSound
  <1> QED
    BY <1>2, <1>3, <1>4 DEF GateInv

LEMMA HaltKeeps ==
    ASSUME GateInv, Halt PROVE GateInv'
  <1> DEFINE who == Unstarted(1 .. turn)
             gone == {With} \cup who
  <1>1. /\ Serve(waiting \ gone, Without(ahead, gone), holder) /\ flight' = Aborted(flight, who)
        /\ halted' = TRUE /\ inner' \in {inner, None}
        /\ UNCHANGED <<tree, cache, turn, phase, step, mishaps>>
    BY DEF Halt
  <1>2. /\ PoolSound /\ Typed /\ flight \in [Gate -> Flight] /\ Ordered(waiting, ahead)
        /\ holder \in (Place \cup {None}) \ waiting
    BY DEF GateInv, Typed, PoolSound
  <1>3. \A g \in Gate : g \in who <=> flight[g].pc \notin {None, "running"} /\ flight[g].turn \in 1 .. turn
    BY DEF Unstarted, InFlight
  <1> HIDE DEF who
  <1>4. PoolSound' /\ waiting' = waiting \ gone /\ holder' = holder
    <2>1. Ordered(waiting \ gone, Without(ahead, gone)) /\ holder \in (Place \cup {None}) \ (waiting \ gone)
      BY <1>2, WithoutOrdered
    <2>2. AtFront(waiting \ gone, Without(ahead, gone), holder) \subseteq waiting
      BY DEF AtFront
    <2>3. holder = None => waiting = {}
      BY <1>2 DEF PoolSound
    <2> HIDE DEF gone
    <2>4. /\ PoolSound' /\ waiting' = (waiting \ gone) \ {holder'}
          /\ holder # None => holder' = holder
          /\ holder = None => holder' = None
      BY <1>1, <2>1, <2>2, <2>3, Served
    <2> QED
      BY <1>2, <2>4
  <1>5. /\ flight' \in [Gate -> Flight]
        /\ \A g \in Gate :
              /\ g \notin who => flight'[g] = flight[g]
              /\ g \in who /\ flight[g].pc = "queued" => flight'[g] = NoFlight
              /\ g \in who /\ flight[g].pc # "queued" =>
                    /\ flight'[g].aborted = (flight[g].pc # "running")
                    /\ flight'[g].pc = flight[g].pc /\ flight'[g].turn = flight[g].turn
    BY <1>1, <1>2, AbortedFlights
  <1>6. FlightsSound'
    <2>1. ASSUME NEW g \in Gate
          PROVE  InPlace(flight'[g], g, waiting', holder) /\ Timely(flight'[g], turn, phase, TRUE)
      <3>1. /\ InPlace(flight[g], g, waiting, holder) /\ Timely(flight[g], turn, phase, halted)
            /\ g # None /\ g # With /\ NoFlight.pc = None
        BY Apart, NoFlightTyped DEF GateInv, FlightsSound
      <3>2. CASE g \in who
        BY <1>3, <1>4, <1>5, <3>1, <3>2 DEF InPlace, Timely, None
      <3>3. CASE g \notin who
        BY <1>3, <1>4, <1>5, <3>1, <3>3 DEF InPlace, Timely, None
      <3> QED
        BY <3>2, <3>3
    <2> QED
      BY <1>1, <1>4, <2>1 DEF FlightsSound
  <1>7. Typed'
    BY <1>1, <1>2, <1>5 DEF Typed, step
  <1>8. StepSound' /\ RerunSound'
    BY <1>1, <1>4 DEF GateInv, StepSound, RerunSound, step
  <1> QED
    BY <1>4, <1>6, <1>7, <1>8 DEF GateInv

----------------------------------------------------------------------------
(* The gate step *)

LEMMA LeaveKeeps ==
    ASSUME GateInv, phase \in {"gating", "running"}, holder = Step,
           NEW to \in {"working", "green", "stalled", "over"},
           NEW red \in [gate : Gate \cup {None}, tree : Tree], Leave(to, red),
           UNCHANGED <<tree, inner, halted>>, mishaps' \in 0 .. MaxMishaps,
           cache' \in [Gate -> [Tree -> {None, "passed", "failed"}]],
           turn' \in {turn, turn + 1}, to # "over" => turn' <= MaxTurn
    PROVE  GateInv'
  <1>1. /\ GiveBack /\ flight' = Granted(flight) /\ phase' = to /\ lastRed' = red
        /\ UNCHANGED <<at, rerun>>
    BY DEF Leave
  <1>2. /\ flight \in [Gate -> Flight] /\ turn \in 1 .. MaxTurn + 1 /\ turn <= MaxTurn
        /\ MaxTurn \in Nat /\ Step \notin waiting
    BY BoundsNat DEF GateInv, Typed, StepSound, PoolSound
  <1>3. ASSUME NEW g \in Gate
        PROVE  InPlace(flight[g], g, waiting, None) /\ Timely(flight[g], turn', phase', halted')
    <2>1. InPlace(flight[g], g, waiting, holder) /\ Timely(flight[g], turn, phase, halted)
          /\ g # None /\ g # Step
      BY Apart DEF GateInv, FlightsSound
    <2> QED
      BY <1>1, <1>2, <2>1 DEF InPlace, Timely
  <1>4. flight' \in [Gate -> Flight] => Typed'
    BY <1>1, <1>2 DEF GateInv, Typed
  <1>5. phase' # "running" /\ (phase' # "over" => turn' <= MaxTurn)
        /\ (phase' # "gating" => Step \notin waiting) /\ RerunSound'
    BY <1>1, <1>2 DEF RerunSound
  <1> QED
    BY <1>1, <1>2, <1>3, <1>4, <1>5, GiveBackKeeps

\* The step goes on with the slot.
LEMMA StaysKeeps ==
    ASSUME GateInv, phase \in {"gating", "running"}, holder = Step, phase' \in {"gating", "running"},
           UNCHANGED <<tree, inner, halted, flight, pool, lastRed, turn>>, mishaps' \in 0 .. MaxMishaps,
           cache' \in [Gate -> [Tree -> {None, "passed", "failed"}]],
           at' \in 1 .. Len(Gates), rerun' = rerun \/ (rerun' \in Gate /\ SameRed(rerun'))
    PROVE  GateInv'
  <1>1. Typed' /\ PoolSound'
    BY DEF GateInv, Typed, PoolSound, pool
  <1>2. StepSound' /\ RerunSound'
    BY DEF GateInv, StepSound, RerunSound, SameRed, pool
  <1>3. FlightsSound'
    <2>1. ASSUME NEW g \in Gate
          PROVE  InPlace(flight[g], g, waiting, holder) /\ Timely(flight[g], turn, phase', halted)
      BY DEF GateInv, FlightsSound, Timely
    <2> QED
      BY <2>1 DEF FlightsSound, pool
  <1> QED
    BY <1>1, <1>2, <1>3 DEF GateInv

LEMMA JudgedKeeps ==
    ASSUME GateInv, phase \in {"gating", "running"}, holder = Step, NEW v, NEW cached,
           Judged(v, cached), UNCHANGED <<tree, inner, halted>>, mishaps' \in 0 .. MaxMishaps,
           cache' \in [Gate -> [Tree -> {None, "passed", "failed"}]]
    PROVE  GateInv'
  <1> DEFINE g == Gates[at]
             red == [gate |-> g, tree |-> tree]
  <1>1. /\ at \in 1 .. Len(Gates) /\ g \in Gate /\ tree \in Tree /\ Len(Gates) \in Nat \ {0}
        /\ turn \in Nat /\ turn <= MaxTurn /\ MaxTurn \in Nat
        /\ lastRed \in [gate : Gate \cup {None}, tree : Tree]
        /\ NoRed \in [gate : Gate \cup {None}, tree : Tree]
    BY GateAt, BoundsNat, StartIsTree DEF GateInv, Typed, StepSound, NoRed
  <1>2. red \in [gate : Gate \cup {None}, tree : Tree]
    BY <1>1
  <1>3. CASE /\ v # "passed" /\ SameRed(g) /\ cached /\ rerun = None
             /\ at' = 1 /\ rerun' = g /\ phase' = "gating"
             /\ UNCHANGED <<flight, pool, lastRed, turn>>
    BY <1>1, <1>3, StaysKeeps DEF SameRed
  <1>4. CASE UNCHANGED turn /\ Leave("stalled", lastRed)
    BY <1>1, <1>4, LeaveKeeps
  <1>5. CASE Fix(red)
    <2> HIDE DEF red
    <2>1. PICK to \in {"working", "over"} : Leave(to, red) /\ turn' = turn + 1 /\ (to # "over" => turn < MaxTurn)
      BY <1>5 DEF Fix
    <2> QED
      BY <1>1, <1>2, <2>1, LeaveKeeps
  <1>6. CASE /\ v = "passed" /\ at < Len(Gates) /\ at' = at + 1 /\ phase' = "gating"
             /\ UNCHANGED <<rerun, lastRed, flight, pool, turn>>
    BY <1>1, <1>6, StaysKeeps
  <1>7. CASE UNCHANGED turn /\ Leave("green", NoRed)
    BY <1>1, <1>7, LeaveKeeps
  <1> QED
    BY <1>3, <1>4, <1>5, <1>6, <1>7 DEF Judged, Red

LEMMA StepLooksKeeps ==
    ASSUME GateInv, StepLooks PROVE GateInv'
  <1> DEFINE g == Gates[at]
  <1>1. /\ phase = "gating" /\ holder = Step /\ UNCHANGED <<tree, inner, halted, mishaps>>
        /\ at \in 1 .. Len(Gates) /\ g \in Gate /\ tree \in Tree /\ mishaps \in 0 .. MaxMishaps
        /\ Typed /\ cache \in [Gate -> [Tree -> {None, "passed", "failed"}]]
    BY GateAt DEF StepLooks, GateInv, Typed
  <1>2. CASE Judged(cache[g][Hash], TRUE) /\ UNCHANGED cache
    BY <1>1, <1>2, JudgedKeeps
  <1>3. CASE /\ cache' = IF rerun = g THEN Stored(g, Hash, None) ELSE cache
             /\ phase' = "running" /\ UNCHANGED <<flight, pool, turn, step>>
    <2>1. cache' \in [Gate -> [Tree -> {None, "passed", "failed"}]]
      BY <1>1, <1>3, StoredTyped DEF Hash
    <2> QED
      BY <1>1, <1>3, <2>1, StaysKeeps DEF step
  <1> QED
    BY <1>2, <1>3 DEF StepLooks

LEMMA StepEndsKeeps ==
    ASSUME GateInv, StepFinishes \/ StepKilled PROVE GateInv'
  <1>1. PICK v \in {"passed", "failed"} : StepEnds(v)
    BY DEF StepFinishes, StepKilled, Verdict
  <1>2. /\ at \in 1 .. Len(Gates) /\ Gates[at] \in Gate /\ tree \in Tree /\ Typed /\ mishaps \in 0 .. MaxMishaps
        /\ phase = "running" /\ holder = Step
    BY <1>1, GateAt DEF GateInv, Typed, StepSound, StepEnds
  <1>3. mishaps' \in 0 .. MaxMishaps
    BY <1>2, BoundsNat DEF StepFinishes, StepKilled, Mishap
  <1>4. cache' \in [Gate -> [Tree -> {None, "passed", "failed"}]]
    BY <1>1, <1>2, StoredTyped DEF StepEnds, Hash
  <1> QED
    BY <1>1, <1>2, <1>3, <1>4, JudgedKeeps DEF StepEnds

LEMMA NextSound ==
    ASSUME GateInv, [Next]_vars PROVE GateInv'
  <1>1. CASE UNCHANGED vars
    BY <1>1 DEF vars, pool, step, GateInv, Typed, PoolSound, FlightsSound, StepSound, RerunSound
  <1>2. CASE \E g \in Gate :
                \/ \E fresh \in BOOLEAN : Ask(g, fresh)
                \/ AskInside(g) \/ Check(g) \/ Spawn(g) \/ Finish(g) \/ Kill(g)
    BY <1>2, AskKeeps, CheckKeeps, SpawnKeeps, FinishKeeps
  <1>3. CASE \E o \in Other : OtherAsks(o) \/ OtherEnds(o)
    BY <1>3, OtherAsksKeeps, LeasesEndKeeps
  <1> QED
    BY <1>1, <1>2, <1>3, WithAsksKeeps, LeasesEndKeeps, EditKeeps, TurnEndsKeeps, HaltKeeps,
       StepAsksKeeps, StepUnwindsKeeps, StepLooksKeeps, StepEndsKeeps DEF Next

----------------------------------------------------------------------------

\* What is said of the stored verdicts is about gates and trees.
LEMMA MixedStaysTyped ==
    ASSUME GateInv, MixedTyped, [Next]_vars PROVE MixedTyped'
  <1>1. \A g \in Gate : flight[g].hash \in Tree
    BY DEF GateInv, Typed, Flight
  <1>2. CASE \E g \in Gate : Finish(g) \/ Kill(g)
    BY <1>1, <1>2 DEF Finish, Kill, Ends, MixedTyped
  <1>3. CASE ~ \E g \in Gate : Finish(g) \/ Kill(g)
    <2>1. mixed' \subseteq mixed
      BY <1>3 DEF Next, vars, Ask, AskInside, Check, Spawn, WithAsks, WithEnds, Edit, TurnEnds, Halt,
             OtherAsks, OtherEnds, StepAsks, StepUnwinds, StepLooks, StepFinishes, StepKilled, StepEnds
    <2> QED
      BY <2>1 DEF MixedTyped
  <1> QED
    BY <1>2, <1>3

\* For any gates, lanes, turns, kills and edits: no flight is left in the pool's
\* queue by a turn that ended or a run that drains (AgentGateBroker.endTurn and
\* halt, in every order with the pool's grants).
THEOREM NobodyQueuesForNobody == Spec => []QueuedIsWanted
  <1>1. GateInv /\ MixedTyped => QueuedIsWanted
    BY TypedIsType DEF GateInv, QueuedIsWanted, FlightsSound, Timely, None
  <1>2. Init => MixedTyped
    BY DEF Init, MixedTyped
  <1> QED
    BY <1>1, <1>2, InitSound, NextSound, MixedStaysTyped, PTL DEF Spec

\* A phase stalls only in a judgement of its gate step.
LEMMA StallsWhenJudged ==
    ASSUME GateInv, Next, phase' = "stalled", phase # "stalled"
    PROVE  StepLooks \/ StepFinishes \/ StepKilled
  BY DEF Next, Ask, AskInside, Check, Spawn, Finish, Kill, Ends, WithAsks, WithEnds, Edit, TurnEnds,
         Halt, OtherAsks, OtherEnds, StepAsks, StepUnwinds

\* And it does so over the gate it is at.
LEMMA StallsOverItsGate ==
    ASSUME GateInv, NEW v, NEW cached, Judged(v, cached), phase' = "stalled"
    PROVE  /\ v # "passed" /\ SameRed(Gates[at]) /\ lastRed' = lastRed
           /\ ~(cached /\ rerun = None)
  BY DEF Judged, Red, Fix, Leave

\* For any agent, patient or not: a phase is not put to a person as stalled over
\* a verdict that is stale, of another tree or of another gate, but only over one
\* that its gate has just given again on this tree, unless that run was killed
\* (Scheduler.#runGate).
THEOREM StallsAreReal == Spec => StallIsTrue
  <1>1. GateInv /\ [Next]_vars =>
            (phase' = "stalled" /\ phase # "stalled" =>
                mishaps' # mishaps \/ Verdict(lastRed'.gate, tree') = "failed")
    <2> SUFFICES ASSUME GateInv, [Next]_vars, phase' = "stalled", phase # "stalled", mishaps' = mishaps
                 PROVE  Verdict(lastRed'.gate, tree') = "failed"
      OBVIOUS
    <2>1. Next
      BY DEF vars
    <2>2. StepLooks \/ StepFinishes \/ StepKilled
      BY <2>1, StallsWhenJudged
    <2>3. ~StepKilled
      BY DEF StepKilled, Mishap, GateInv, Typed
    <2>4. ASSUME StepLooks PROVE FALSE
      <3>1. rerun # Gates[at] /\ Judged(cache[Gates[at]][Hash], TRUE) /\ phase = "gating"
        BY <2>4 DEF StepLooks
      <3>2. SameRed(Gates[at]) /\ rerun # None
        BY <3>1, StallsOverItsGate
      <3>3. lastRed = [gate |-> rerun, tree |-> tree]
        BY <3>1, <3>2 DEF GateInv, RerunSound
      <3>4. lastRed.gate = rerun /\ lastRed.gate = Gates[at]
        BY <3>2, <3>3 DEF SameRed
      <3> QED
        BY <3>1, <3>4
    <2>5. CASE StepFinishes
      <3> DEFINE v == Verdict(Gates[at], tree)
      <3>1. Judged(v, FALSE) /\ UNCHANGED tree
        BY <2>5 DEF StepFinishes, StepEnds
      <3>2. v # "passed" /\ SameRed(Gates[at]) /\ lastRed' = lastRed
        BY <3>1, StallsOverItsGate
      <3>3. lastRed'.gate = Gates[at]
        BY <3>2 DEF SameRed
      <3> QED
        BY <3>1, <3>2, <3>3 DEF Verdict
    <2> QED
      BY <2>2, <2>3, <2>4, <2>5
  <1> QED
    BY <1>1, InitSound, NextSound, PTL DEF Spec, StallIsTrue

----------------------------------------------------------------------------
(* What a green phase has behind it *)

LEMMA HopTruly ==
    ASSUME GateInv, TruthInv, NEW g \in Gate, NEW fresh \in BOOLEAN, phase = "working", Hop(g, fresh),
           UNCHANGED <<tree, cache, mixed, phase, step>>
    PROVE  TruthInv'
  <1>1. flight \in [Gate -> Flight] /\ turn \in 0 .. MaxTurn
    BY BoundsNat DEF GateInv, Typed, StepSound
  <1>2. ASSUME NEW k \in Gate PROVE HashedTruly(flight[k])'
    <2>1. HashedTruly(flight[k])
      BY DEF TruthInv
    <2>2. CASE flight' = [flight EXCEPT ![g] = Begun(NoFlight, turn, fresh)]
      <3>1. Begun(NoFlight, turn, fresh).pc = "checking"
        BY <1>1, NoFlightTyped, Started
      <3>2. k = g => flight'[k].pc = "checking"
        BY <1>1, <2>2, <3>1
      <3>3. k # g => flight'[k] = flight[k]
        BY <1>1, <2>2
      <3> QED
        BY <2>1, <3>2, <3>3 DEF HashedTruly
    <2>3. CASE flight' = [flight EXCEPT ![g].turn = turn]
      <3>1. /\ flight'[k].pc = flight[k].pc /\ flight'[k].hash = flight[k].hash
            /\ flight'[k].saw = flight[k].saw /\ flight'[k].edited = flight[k].edited
        BY <1>1, <2>3 DEF Flight
      <3> QED
        BY <2>1, <3>1 DEF HashedTruly
    <2> QED
      BY <2>2, <2>3 DEF Hop, Begun
  <1>3. StoredTruly' /\ PassedTruly'
    BY DEF TruthInv, StoredTruly, PassedTruly, TrueOf, step
  <1> QED
    BY <1>2, <1>3 DEF TruthInv

\* The slot is handed on, with the flights as f has them.
LEMMA GrantTruly ==
    ASSUME TruthInv, NEW f \in [Gate -> Flight], flight' = Granted(f), UNCHANGED tree,
           \A g \in Gate : HashedTruly(f[g]), StoredTruly', PassedTruly'
    PROVE  TruthInv'
  BY GrantedTruly DEF TruthInv

LEMMA SettledTruly ==
    ASSUME GateInv, TruthInv, NEW g \in Gate
    PROVE  /\ Settled(g) \in [Gate -> Flight]
           /\ \A k \in Gate : HashedTruly(Settled(g)[k])
  <1>1. flight \in [Gate -> Flight] /\ NoFlight \in Flight /\ NoFlight.pc = None
    BY NoFlightTyped DEF GateInv, Typed
  <1>2. \A k \in Gate : Settled(g)[k] = IF k = g THEN NoFlight ELSE flight[k]
    BY <1>1 DEF Settled
  <1>3. HashedTruly(NoFlight)
    BY <1>1 DEF HashedTruly, None
  <1> QED
    BY <1>1, <1>2, <1>3 DEF TruthInv, Settled

LEMMA CheckTruly ==
    ASSUME GateInv, TruthInv, NEW g \in Gate, Check(g) PROVE TruthInv'
  <1>1. flight \in [Gate -> Flight] /\ tree \in Tree /\ Typed /\ UNCHANGED <<tree, mixed, phase, at>>
    BY DEF GateInv, Typed, Check, step
  <1>2. StoredTruly'
    <2>1. cache' = cache \/ cache' = Stored(g, tree, None)
      BY DEF Check, Hash
    <2> QED
      BY <1>1, <2>1 DEF TruthInv, StoredTruly, TrueOf, Stored, Typed, None
  <1>3. PassedTruly'
    BY <1>1 DEF TruthInv, PassedTruly, TrueOf
  <1>4. CASE flight' = Settled(g)
    BY <1>1, <1>2, <1>3, <1>4, SettledTruly DEF TruthInv, HashedTruly
  <1>5. CASE flight' = Granted([flight EXCEPT ![g].pc = "queued", ![g].hash = Hash, ![g].fresh = FALSE])
    <2> DEFINE f == [flight EXCEPT ![g] = Lines(flight[g], tree)]
    <2>1. flight' = Granted(f)
      BY <1>1, <1>5 DEF Hash, Lines
    <2>2. Lines(flight[g], tree) \in Flight /\ Lines(flight[g], tree).pc = "queued"
          /\ Lines(flight[g], tree).hash = tree
      BY <1>1, QueuedOne
    <2>3. f \in [Gate -> Flight] /\ \A k \in Gate : f[k] = IF k = g THEN Lines(flight[g], tree) ELSE flight[k]
      BY <1>1, <2>2
    <2>4. \A k \in Gate : HashedTruly(f[k])
      BY <2>2, <2>3 DEF TruthInv, HashedTruly
    <2> HIDE DEF f
    <2> QED
      BY <1>1, <1>2, <1>3, <2>1, <2>3, <2>4, GrantTruly
  <1> QED
    BY <1>4, <1>5 DEF Check

LEMMA SpawnTruly ==
    ASSUME GateInv, TruthInv, NEW g \in Gate, Spawn(g) PROVE TruthInv'
  <1> DEFINE S == {tree}
             r == Runs(flight[g], S)
  <1>1. flight \in [Gate -> Flight] /\ S \in SUBSET Tree
    BY DEF GateInv, Typed
  <1>2. /\ flight' = [flight EXCEPT ![g] = r] /\ flight[g].pc = "granted"
        /\ UNCHANGED <<tree, cache, mixed, phase, at>>
    BY <1>1 DEF Spawn, Runs, step
  <1>3. r.pc = "running" /\ r.saw = S /\ r.hash = flight[g].hash /\ r.edited = flight[g].edited
    <2> HIDE DEF S
    <2> QED
      BY <1>1, SpawnedOne
  <1> HIDE DEF r
  <1>4. HashedTruly(r)
    BY <1>2, <1>3 DEF TruthInv, HashedTruly
  <1>5. \A k \in Gate : HashedTruly(flight'[k])
    BY <1>1, <1>2, <1>4 DEF TruthInv
  <1> QED
    BY <1>2, <1>5 DEF TruthInv, HashedTruly, StoredTruly, PassedTruly, TrueOf

\* A flight that ends had the slot, so the gate step has passed no gate.
LEMMA EndsTruly ==
    ASSUME GateInv, StepHolds, TruthInv, NEW g \in Gate, Finish(g) \/ Kill(g) PROVE TruthInv'
  <1>1. PICK v \in {Verdict(g, t) : t \in flight[g].saw} \cup {"timed_out", "failed"} : Ends(g, v)
    BY DEF Finish, Kill
  <1>2. v = "passed" /\ ~flight[g].edited => flight[g].hash \in Passes[g]
    <2> SUFFICES ASSUME v = "passed", ~flight[g].edited PROVE flight[g].hash \in Passes[g]
      OBVIOUS
    <2>1. flight[g].saw = {tree} /\ flight[g].hash = tree
      BY <1>1 DEF Ends, TruthInv, HashedTruly
    <2> QED
      BY <1>1, <2>1 DEF Verdict
  <1>3. Typed /\ flight[g].hash \in Tree
    BY DEF GateInv, Typed, Flight
  <1>4. StoredTruly'
    <2>1. CASE cache' = cache /\ mixed' = mixed
      BY <2>1 DEF TruthInv, StoredTruly, TrueOf
    <2>2. CASE /\ cache' = Stored(g, flight[g].hash, v)
               /\ mixed' = IF flight[g].edited THEN mixed \cup {<<g, flight[g].hash>>}
                           ELSE mixed \ {<<g, flight[g].hash>>}
      <3> SUFFICES ASSUME NEW k \in Gate, NEW t \in Tree, cache'[k][t] = "passed"
                   PROVE  t \in Passes[k] \/ <<k, t>> \in mixed'
        BY DEF StoredTruly, TrueOf
      <3>1. CASE k = g /\ t = flight[g].hash
        <4>1. v = "passed"
          BY <1>3, <2>2, <3>1 DEF Stored, Typed
        <4> QED
          BY <1>2, <2>2, <3>1, <4>1
      <3>2. CASE ~(k = g /\ t = flight[g].hash)
        <4>1. cache[k][t] = "passed"
          BY <1>3, <2>2, <3>2 DEF Stored, Typed
        <4>2. <<k, t>> # <<g, flight[g].hash>>
          BY <3>2
        <4> QED
          BY <2>2, <4>1, <4>2 DEF TruthInv, StoredTruly, TrueOf
      <3> QED
        BY <3>1, <3>2
    <2> QED
      BY <1>1, <2>1, <2>2 DEF Ends
  <1>5. flight' = Granted(Settled(g)) /\ UNCHANGED <<tree, phase, at>> /\ at \in 1 .. Len(Gates)
    BY <1>1, <1>3 DEF Ends, step, Typed
  <1>6. PassedTruly'
    <2>1. flight[g].pc = "running" /\ holder = g /\ g # Step
      BY <1>1, Apart DEF Ends, GateInv, FlightsSound, InPlace
    <2>2. phase \notin {"running", "green"} /\ (phase = "gating" => ~(at > 1))
      BY <2>1 DEF StepHolds, GateInv, StepSound
    <2>3. phase = "gating" => 1 .. at - 1 = {}
      BY <1>5, <2>2, GateAt
    <2> QED
      BY <1>5, <2>2, <2>3 DEF PassedTruly
  <1> QED
    BY <1>4, <1>5, <1>6, SettledTruly, GrantTruly

LEMMA EditTruly ==
    ASSUME GateInv, TruthInv, NEW t \in Tree, Edit(t) PROVE TruthInv'
  <1>1. ASSUME NEW g \in Gate
        PROVE  ~flight'[g].edited => flight'[g].pc \notin {"queued", "granted", "running"}
    <2>1. flight[g] \in Flight
      BY DEF GateInv, Typed
    <2>2. PICK S \in SUBSET Tree :
              S = IF flight[g].pc = "running" THEN flight[g].saw \cup {t} ELSE flight[g].saw
      BY <2>1 DEF Flight
    <2>3. flight'[g] = UnderEdit(flight[g], S)
      BY <2>2 DEF Edit, UnderEdit
    <2> QED
      BY <2>1, <2>3, EditedOne
  <1>2. phase = "working" /\ UNCHANGED <<cache, mixed, phase, at>>
    BY DEF Edit, step
  <1> QED
    BY <1>1, <1>2 DEF TruthInv, HashedTruly, StoredTruly, PassedTruly, TrueOf

\* The lane is told nothing new, and the flights are as they were.
LEMMA StaysTruly ==
    ASSUME TruthInv, UNCHANGED <<tree, cache, mixed, flight>>, PassedTruly'
    PROVE  TruthInv'
  BY DEF TruthInv, HashedTruly, StoredTruly, TrueOf

LEMMA AsksTruly ==
    ASSUME TruthInv, WithAsks \/ \E o \in Other : OtherAsks(o) PROVE TruthInv'
  <1>1. UNCHANGED <<tree, cache, mixed, flight, phase, at>>
    BY DEF WithAsks, OtherAsks, step
  <1>2. PassedTruly'
    BY <1>1 DEF TruthInv, PassedTruly, TrueOf
  <1> QED
    BY <1>1, <1>2, StaysTruly

LEMMA StepAsksTruly ==
    ASSUME TruthInv, StepAsks \/ StepUnwinds PROVE TruthInv'
  <1>1. UNCHANGED <<tree, cache, mixed, flight>> /\ ((phase' = "gating" /\ at' = 1) \/ phase' = "over")
    BY DEF StepAsks, StepUnwinds
  <1>2. PassedTruly'
    BY <1>1 DEF PassedTruly
  <1> QED
    BY <1>1, <1>2, StaysTruly

LEMMA LeasesEndTruly ==
    ASSUME GateInv, TruthInv, WithEnds \/ \E o \in Other : OtherEnds(o) PROVE TruthInv'
  <1>1. flight' = Granted(flight) /\ flight \in [Gate -> Flight] /\ UNCHANGED <<tree, cache, mixed, phase, at>>
    BY DEF WithEnds, OtherEnds, GateInv, Typed, step
  <1>2. StoredTruly' /\ PassedTruly'
    BY <1>1 DEF TruthInv, StoredTruly, PassedTruly, TrueOf
  <1> QED
    BY <1>1, <1>2, GrantTruly DEF TruthInv

\* Flights that are aborted hashed what they did.
LEMMA AbortedTruly ==
    ASSUME NEW f \in [Gate -> Flight], NEW who, \A g \in Gate : HashedTruly(f[g])
    PROVE  \A g \in Gate : HashedTruly(Aborted(f, who)[g])
  <1>1. NoFlight.pc = None
    BY NoFlightTyped
  <1> SUFFICES ASSUME NEW g \in Gate PROVE HashedTruly(Aborted(f, who)[g])
    OBVIOUS
  <1>2. CASE g \notin who
    BY <1>2, AbortedFlights
  <1>3. CASE g \in who /\ f[g].pc = "queued"
    <2>1. Aborted(f, who)[g] = NoFlight
      BY <1>3, AbortedFlights
    <2> QED
      BY <1>1, <2>1 DEF HashedTruly, None
  <1>4. CASE g \in who /\ f[g].pc # "queued"
    <2>1. /\ Aborted(f, who)[g].pc = f[g].pc
          /\ Aborted(f, who)[g].hash = f[g].hash /\ Aborted(f, who)[g].saw = f[g].saw
          /\ Aborted(f, who)[g].edited = f[g].edited
      BY <1>4, AbortedFlights
    <2> QED
      BY <2>1 DEF HashedTruly
  <1> QED
    BY <1>2, <1>3, <1>4

LEMMA TurnEndsTruly ==
    ASSUME GateInv, TruthInv, TurnEnds \/ Halt PROVE TruthInv'
  <1>1. flight \in [Gate -> Flight] /\ UNCHANGED <<tree, cache, mixed, at>>
        /\ (phase' = "ended" \/ UNCHANGED phase)
    BY DEF GateInv, Typed, TurnEnds, Halt, step
  <1>2. PICK f \in [Gate -> Flight], who \in {flight'} \cup SUBSET Gate :
            flight' = Aborted(f, who) /\ \A g \in Gate : HashedTruly(f[g])
    <2>1. CASE TurnEnds
      <3> DEFINE e == Granted(flight)
      <3>1. PICK who \in SUBSET Gate : flight' = Aborted(e, who)
        BY <2>1 DEF TurnEnds, Unstarted, InFlight
      <3>2. e \in [Gate -> Flight]
        BY <1>1, GrantedFlights
      <3>3. ASSUME NEW g \in Gate PROVE HashedTruly(e[g])
        <4>1. /\ flight[g].pc = "queued" /\ holder' = g => e[g].pc = "granted"
              /\ flight[g].pc # "queued" \/ holder' # g => e[g] = flight[g]
              /\ e[g].hash = flight[g].hash /\ e[g].saw = flight[g].saw
              /\ e[g].edited = flight[g].edited
          BY <1>1, GrantedFlights
        <4> HIDE DEF e
        <4> QED
          BY <4>1 DEF TruthInv, HashedTruly
      <3> QED
        BY <3>1, <3>2, <3>3
    <2>2. CASE Halt
      BY <1>1, <2>2 DEF Halt, Unstarted, InFlight, TruthInv
    <2> QED
      BY <2>1, <2>2
  <1>3. \A g \in Gate : HashedTruly(flight'[g])
    BY <1>2, AbortedTruly
  <1>4. StoredTruly' /\ PassedTruly'
    BY <1>1 DEF TruthInv, StoredTruly, PassedTruly, TrueOf
  <1> QED
    BY <1>1, <1>3, <1>4 DEF TruthInv, HashedTruly

\* The verdict the step judges by is true of the tree.
LEMMA JudgedTruly ==
    ASSUME GateInv, TruthInv, phase \in {"gating", "running"}, NEW v, NEW cached, Judged(v, cached),
           v = "passed" => tree \in Passes[Gates[at]] \/ <<Gates[at], tree>> \in mixed',
           mixed \ {<<Gates[at], tree>>} \subseteq mixed', UNCHANGED tree, StoredTruly'
    PROVE  TruthInv'
  <1>1. /\ at \in 1 .. Len(Gates) /\ Len(Gates) \in Nat \ {0} /\ flight \in [Gate -> Flight]
        /\ \A g \in Gate : HashedTruly(flight[g])
        /\ \A i \in 1 .. at - 1 : TrueOf(Gates[i], tree)
    BY GateAt DEF GateInv, Typed, TruthInv, PassedTruly
  <1>2. \A i \in 1 .. at - 1 : tree \in Passes[Gates[i]] \/ <<Gates[i], tree>> \in mixed'
    <2> SUFFICES ASSUME NEW i \in 1 .. at - 1, <<Gates[i], tree>> \in mixed
                 PROVE  <<Gates[i], tree>> \in mixed'
      BY <1>1 DEF TrueOf
    <2>1. i \in 1 .. Len(Gates) /\ i # at
      BY <1>1
    <2>2. Gates[i] # Gates[at]
      BY <1>1, <2>1, GatesNonEmpty DEF IsInjective
    <2>3. <<Gates[i], tree>> # <<Gates[at], tree>>
      BY <2>2
    <2> QED
      BY <2>3
  <1>3. v = "passed" => \A i \in 1 .. at : tree \in Passes[Gates[i]] \/ <<Gates[i], tree>> \in mixed'
    BY <1>1, <1>2
  <1>4. \/ v = "passed" /\ at = Len(Gates) /\ Leave("green", NoRed)
        \/ v = "passed" /\ at' = at + 1 /\ phase' = "gating" /\ UNCHANGED flight
        \/ at' = 1 /\ phase' = "gating" /\ UNCHANGED flight
        \/ \E to \in {"stalled", "working", "over"} : \E red : Leave(to, red)
    BY <1>1 DEF Judged, Red, Fix, pool
  <1>5. PassedTruly'
    BY <1>1, <1>3, <1>4 DEF PassedTruly, TrueOf, Leave
  <1>6. flight' = flight \/ flight' = Granted(flight)
    BY <1>4 DEF Leave
  <1>7. CASE flight' = flight
    BY <1>1, <1>5, <1>7 DEF TruthInv, HashedTruly
  <1>8. CASE flight' = Granted(flight)
    BY <1>1, <1>5, <1>8, GrantTruly
  <1> QED
    BY <1>6, <1>7, <1>8

LEMMA StepLooksTruly ==
    ASSUME GateInv, TruthInv, StepLooks PROVE TruthInv'
  <1> DEFINE g == Gates[at]
  <1>1. /\ phase = "gating" /\ UNCHANGED <<tree, mixed>> /\ at \in 1 .. Len(Gates) /\ g \in Gate /\ tree \in Tree
        /\ cache \in [Gate -> [Tree -> {None, "passed", "failed"}]]
    BY GateAt DEF StepLooks, GateInv, Typed
  <1>2. CASE Judged(cache[g][Hash], TRUE) /\ UNCHANGED cache
    <2>1. cache[g][Hash] = "passed" => tree \in Passes[g] \/ <<g, tree>> \in mixed'
      BY <1>1 DEF TruthInv, StoredTruly, TrueOf, Hash
    <2>2. StoredTruly'
      BY <1>1, <1>2 DEF TruthInv, StoredTruly, TrueOf
    <2>3. mixed \ {<<g, tree>>} \subseteq mixed'
      BY <1>1
    <2> QED
      BY <1>1, <1>2, <2>1, <2>2, <2>3, JudgedTruly
  <1>3. CASE /\ cache' = IF rerun = g THEN Stored(g, Hash, None) ELSE cache
             /\ phase' = "running" /\ UNCHANGED <<flight, pool, turn, step>>
    <2>1. StoredTruly'
      <3>1. cache' = cache \/ cache' = Stored(g, tree, None)
        BY <1>3 DEF Hash
      <3> QED
        BY <1>1, <3>1 DEF TruthInv, StoredTruly, TrueOf, Stored, None
    <2>2. PassedTruly'
      BY <1>1, <1>3 DEF TruthInv, PassedTruly, TrueOf, step
    <2> QED
      BY <1>1, <1>3, <2>1, <2>2 DEF TruthInv, HashedTruly
  <1> QED
    BY <1>2, <1>3 DEF StepLooks

LEMMA StepEndsTruly ==
    ASSUME GateInv, TruthInv, StepFinishes \/ StepKilled PROVE TruthInv'
  <1>1. PICK v \in {Verdict(Gates[at], tree), "failed"} : StepEnds(v)
    BY DEF StepFinishes, StepKilled
  <1>2. /\ at \in 1 .. Len(Gates) /\ Gates[at] \in Gate /\ tree \in Tree /\ UNCHANGED tree
        /\ cache \in [Gate -> [Tree -> {None, "passed", "failed"}]]
        /\ cache' = Stored(Gates[at], tree, v) /\ mixed' = mixed \ {<<Gates[at], tree>>}
        /\ phase = "running" /\ Judged(v, FALSE)
    BY <1>1, GateAt DEF GateInv, Typed, StepEnds, Hash
  <1>3. v = "passed" => tree \in Passes[Gates[at]]
    BY <1>1 DEF Verdict
  <1>4. StoredTruly'
    <2> SUFFICES ASSUME NEW k \in Gate, NEW t \in Tree, cache'[k][t] = "passed"
                 PROVE  t \in Passes[k] \/ <<k, t>> \in mixed'
      BY DEF StoredTruly, TrueOf
    <2>1. CASE k = Gates[at] /\ t = tree
      BY <1>2, <1>3, <2>1 DEF Stored
    <2>2. CASE ~(k = Gates[at] /\ t = tree)
      <3>1. cache[k][t] = "passed"
        BY <1>2, <2>2 DEF Stored
      <3>2. <<k, t>> # <<Gates[at], tree>>
        BY <2>2
      <3> QED
        BY <1>2, <3>1, <3>2 DEF TruthInv, StoredTruly, TrueOf
    <2> QED
      BY <2>1, <2>2
  <1> QED
    BY <1>2, <1>3, <1>4, JudgedTruly

LEMMA InitTruly ==
    ASSUME Init PROVE TruthInv
  <1>1. \A g \in Gate : flight[g].pc = None
    BY NoFlightTyped DEF Init
  <1> QED
    BY <1>1 DEF Init, TruthInv, StoredTruly, HashedTruly, PassedTruly, None

\* Away from the gate step, which has the slot or has passed no gate, a phase that
\* is past its turn gives the slot to no gate.
LEMMA OffStep ==
    ASSUME GateInv, phase # "working", [Next]_vars
    PROVE  \/ StepAsks \/ StepUnwinds \/ StepLooks \/ StepFinishes \/ StepKilled
           \/ /\ phase' = phase /\ at' = at
              /\ holder = Step => holder' = Step
              /\ holder' \in Gate => holder \in Gate
  <1>1. PoolSound /\ waiting \cap Gate = {} /\ Step \notin Gate /\ None \notin Gate
    BY Apart DEF GateInv, FlightsSound, InPlace, Timely, None
  <1>2. CASE UNCHANGED <<holder, phase, at>>
    BY <1>2
  <1>3. ASSUME NEW g \in Gate, Check(g) PROVE UNCHANGED <<holder, phase, at>>
    <2>1. ~Wanted(g)
      BY <1>3 DEF Check, Wanted, GateInv, FlightsSound, Timely, None
    <2> QED
      BY <1>3, <2>1 DEF Check, pool, step
  <1>4. CASE \/ \E g \in Gate : Finish(g) \/ Kill(g)
             \/ WithEnds \/ \E o \in Other : OtherEnds(o)
    <2>1. GiveBack /\ UNCHANGED <<phase, at>> /\ holder # Step
      BY <1>4, Apart DEF Finish, Kill, Ends, WithEnds, OtherEnds, GateInv, FlightsSound, InPlace, step
    <2>2. holder' = None \/ holder' \in waiting
      BY <1>1, <2>1, GivenBack
    <2> QED
      BY <1>1, <2>1, <2>2
  <1>5. ASSUME NEW o \in Other, OtherAsks(o)
        PROVE  UNCHANGED <<phase, at>> /\ (holder' = holder \/ (holder = None /\ holder' = o))
    <2>1. o \in Place \ (waiting \cup {holder}) /\ Join(o) /\ UNCHANGED <<phase, at>>
      BY <1>5, Apart DEF OtherAsks, step
    <2> QED
      BY <1>1, <2>1, Joined
  <1>6. CASE Halt
    <2> DEFINE gone == {With} \cup Unstarted(1 .. turn)
    <2>1. Serve(waiting \ gone, Without(ahead, gone), holder) /\ UNCHANGED <<phase, at>>
      BY <1>6 DEF Halt, step
    <2>2. AtFront(waiting \ gone, Without(ahead, gone), holder) = {}
      BY <1>1 DEF PoolSound, AtFront
    <2>3. holder' = holder
      BY <2>1, <2>2 DEF Serve
    <2> QED
      BY <2>1, <2>3
  <1>7. ASSUME NEW g \in Gate, Spawn(g) PROVE UNCHANGED <<holder, phase, at>>
    BY <1>7 DEF Spawn, pool, step
  <1>8. ~WithAsks /\ ~TurnEnds /\ (\A t \in Tree : ~Edit(t))
        /\ \A g \in Gate : ~AskInside(g) /\ \A fresh \in BOOLEAN : ~Ask(g, fresh)
    BY DEF WithAsks, TurnEnds, Edit, AskInside, Ask
  <1>9. CASE UNCHANGED vars
    BY <1>9 DEF vars
  <1>10. CASE Next
    <2>1. ASSUME NEW o \in Other, OtherAsks(o)
          PROVE  phase' = phase /\ at' = at /\ (holder = Step => holder' = Step)
                 /\ (holder' \in Gate => holder \in Gate)
      BY <1>5, <2>1, Apart
    <2> QED
      BY <1>2, <1>3, <1>4, <1>6, <1>7, <1>8, <1>10, <2>1 DEF Next
  <1> QED
    BY <1>9, <1>10

LEMMA StepHoldsKeeps ==
    ASSUME GateInv, StepHolds, [Next]_vars PROVE StepHolds'
  <1>1. PoolSound /\ (phase # "working" => waiting \cap Gate = {}) /\ Step \notin Gate /\ None \notin Gate
    BY Apart DEF GateInv, FlightsSound, InPlace, Timely, None
  <1>2. ASSUME phase \in {"gating", "running"}, holder = Step, NEW v, NEW cached, Judged(v, cached)
        PROVE  StepHolds'
    <2>1. CASE phase' = "gating"
      BY <1>2, <2>1 DEF Judged, Red, Fix, Leave, StepHolds, pool
    <2>2. CASE phase' = "green"
      <3>1. GiveBack
        BY <1>2, <2>2 DEF Judged, Red, Fix, Leave
      <3>2. holder' = None \/ holder' \in waiting
        BY <1>1, <3>1, GivenBack
      <3> QED
        BY <1>1, <1>2, <2>2, <3>2 DEF StepHolds
    <2> QED
      BY <2>1, <2>2 DEF StepHolds
  <1>3. CASE StepAsks \/ StepUnwinds
    BY <1>3 DEF StepAsks, StepUnwinds, StepHolds
  <1>4. CASE StepLooks
    <2>1. phase = "gating" /\ holder = Step
      BY <1>4 DEF StepLooks
    <2>2. CASE phase' = "running"
      BY <2>2 DEF StepHolds
    <2>3. CASE phase' # "running"
      <3>1. \E v, cached : Judged(v, cached)
        BY <1>4, <2>3 DEF StepLooks
      <3> QED
        BY <1>2, <2>1, <3>1
    <2> QED
      BY <2>2, <2>3
  <1>5. CASE StepFinishes \/ StepKilled
    <2>1. \E v, cached : Judged(v, cached)
      BY <1>5 DEF StepFinishes, StepKilled, StepEnds
    <2>2. phase = "running" /\ holder = Step
      BY <1>5 DEF StepFinishes, StepKilled, StepEnds, GateInv, StepSound
    <2> QED
      BY <1>2, <2>1, <2>2
  <1>6. CASE phase # "working" /\ ~(StepAsks \/ StepUnwinds \/ StepLooks \/ StepFinishes \/ StepKilled)
    BY <1>6, OffStep DEF StepHolds
  <1>7. CASE phase = "working"
    <2>1. phase' \in {"working", "ended"}
      BY <1>7 DEF Next, vars, Ask, AskInside, Check, Spawn, Finish, Kill, Ends, WithAsks, WithEnds, Edit,
             TurnEnds, Halt, OtherAsks, OtherEnds, StepAsks, StepUnwinds, StepLooks, StepFinishes,
             StepKilled, StepEnds
    <2> QED
      BY <2>1 DEF StepHolds
  <1> QED
    BY <1>3, <1>4, <1>5, <1>6, <1>7

LEMMA NextTruly ==
    ASSUME GateInv, StepHolds, TruthInv, [Next]_vars PROVE TruthInv'
  <1>1. CASE UNCHANGED vars
    BY <1>1 DEF vars, step, TruthInv, StoredTruly, HashedTruly, PassedTruly, TrueOf
  <1>2. CASE \E g \in Gate :
                \/ \E fresh \in BOOLEAN : Ask(g, fresh)
                \/ AskInside(g) \/ Check(g) \/ Spawn(g) \/ Finish(g) \/ Kill(g)
    <2>1. PICK g \in Gate :
                \/ \E fresh \in BOOLEAN : Ask(g, fresh)
                \/ AskInside(g) \/ Check(g) \/ Spawn(g) \/ Finish(g) \/ Kill(g)
      BY <1>2
    <2>2. CASE (\E fresh \in BOOLEAN : Ask(g, fresh)) \/ AskInside(g)
      <3>1. PICK fresh \in BOOLEAN : Hop(g, fresh)
        BY <2>2 DEF Ask, AskInside
      <3>2. phase = "working" /\ UNCHANGED <<tree, cache, mixed, phase, step>>
        BY <2>2 DEF Ask, AskInside
      <3> QED
        BY <3>1, <3>2, HopTruly
    <2> QED
      BY <2>1, <2>2, CheckTruly, SpawnTruly, EndsTruly
  <1>3. CASE \E o \in Other : OtherAsks(o) \/ OtherEnds(o)
    BY <1>3, AsksTruly, LeasesEndTruly
  <1> QED
    BY <1>1, <1>2, <1>3, AsksTruly, LeasesEndTruly, EditTruly, TurnEndsTruly, StepAsksTruly,
       StepLooksTruly, StepEndsTruly DEF Next

\* For any gates, lanes, turns, kills, edits and runs that drain: a phase is green
\* on a tree that every one of its gates passes on, whichever of the verdicts came
\* from the cache, from a flight of an agent or from the step itself, unless one is
\* of a run that the agent edited under after its tree was hashed
\* (Scheduler.#runGate over gates/cache.ts).
THEOREM GreenIsGreen == Spec => []GreenIsTrue
  <1>1. TruthInv => GreenIsTrue
    BY GateAt DEF TruthInv, PassedTruly, TrueOf, GreenIsTrue
  <1>2. Init => StepHolds
    BY DEF Init, StepHolds
  <1>3. GateInv /\ StepHolds /\ TruthInv /\ [Next]_vars => (GateInv /\ StepHolds /\ TruthInv)'
    BY NextSound, NextTruly, StepHoldsKeeps
  <1> QED
    BY <1>1, <1>2, <1>3, InitSound, InitTruly, PTL DEF Spec

----------------------------------------------------------------------------
(* The pool is one of AtomicLeases *)

LEMMA SameCount == \A S : Promise!Cardinality(S) = Cardinality(S)
  BY DEF Promise!Cardinality, Cardinality

\* The one pool is the same in every state.
LEMMA OnePool == Need' = Need /\ Limit' = Limit
  BY DEF Need, Limit

\* Whoever has the slot is a lease, and nobody is none.
LEMMA LeasesOfOne ==
    ASSUME NEW h \in Place \cup {None}
    PROVE  /\ Cardinality({x \in {h} \ {None} : "pool" \in Need[x]}) <= Limit["pool"]
           /\ h # None => Cardinality({x \in {h} \ {None} : "pool" \in Need[x]}) >= Limit["pool"]
  <1> DEFINE S == {x \in {h} \ {None} : "pool" \in Need[x]}
  <1>1. Limit["pool"] = 1
    BY DEF Limit
  <1>2. h # None => S = {h}
    BY DEF Need
  <1>3. h = None => S = {}
    OBVIOUS
  <1>4. Cardinality({h}) = 1 /\ Cardinality({}) = 0
    BY FS_Singleton, FS_EmptySet
  <1> HIDE DEF S
  <1>5. Cardinality(S) <= Limit["pool"] /\ (h # None => Cardinality(S) >= Limit["pool"])
    BY <1>1, <1>2, <1>3, <1>4
  <1> QED
    BY <1>5 DEF S

\* Serving a queue is what the pools promise of it.
LEMMA ServedIsSettled ==
    ASSUME NEW q, NEW a, Ordered(q, a), NEW h \in (Place \cup {None}) \ q, Serve(q, a, h)
    PROVE  Promise!Settle(q, a, Need, {h} \ {None}, Limit)
  <1> DEFINE G == AtFront(q, a, h)
             S == {h} \ {None}
  <1>1. waiting' = q \ G /\ ahead' = Without(a, G) /\ holder' \in IF G = {} THEN {h} ELSE G
    BY DEF Serve
  <1>2. G \in SUBSET q /\ (h # None => G = {}) /\ \A k \in G : a[k] = {}
    BY DEF AtFront
  <1>3. G # {} => G = {holder'}
    BY <1>1, FrontIsOne
  <1>4. q \subseteq Place /\ \A x \in Place \ q : a[x] = {}
    BY DEF Ordered
  <1>5. PoolSound'
    BY Served
  <1> HIDE DEF G
  <1>6. holder' \in Place \cup {None} /\ S \cup G = {holder'} \ {None}
    BY <1>1, <1>2, <1>3, <1>4, Apart
  <1>7. \A p \in {"pool"} : Cardinality({x \in S \cup G : p \in Need[x]}) <= Limit[p]
    BY <1>6, LeasesOfOne
  <1>8. ahead' = [x \in Place |-> IF x \in q \ G THEN a[x] \ G ELSE {}]
    BY <1>1, <1>4 DEF Without
  <1>9. ASSUME NEW x \in waiting'
        PROVE  \E p \in Need[x] : Cardinality({y \in {holder'} \ {None} : p \in Need[y]}) >= Limit[p]
    <2>1. holder' # None /\ "pool" \in Need[x]
      BY <1>1, <1>4, <1>5, <1>9 DEF PoolSound, Need
    <2> QED
      BY <1>6, <2>1, LeasesOfOne
  <1>10. \A k \in G : \A y \in a[k] \ G : FALSE
    BY <1>2
  <1> QED
    <2>1. Promise!Within(S \cup G, Need, Limit)
      BY <1>7, SameCount DEF Promise!Within
    <2>2. Promise!FrontIsServed'
      BY <1>9, SameCount, OnePool DEF Promise!FrontIsServed, Promise!Full
    <2>3. G \in SUBSET q /\ {holder'} \ {None} = S \cup G
      BY <1>2, <1>6
    <2>4. waiting' = q \ G
      BY <1>1
    <2>5. \E F \in SUBSET q :
             /\ Promise!Within(S \cup F, Need, Limit)
             /\ \A k \in F : \A y \in a[k] \ F : Need[y] \cap {} # {} \/ ~(Need[y] \subseteq Need[k])
             /\ waiting' = q \ F
             /\ ahead' = [x \in Place |-> IF x \in q \ F THEN a[x] \ F ELSE {}]
             /\ {holder'} \ {None} = S \cup F
      <3> HIDE DEF S
      <3> QED
        BY <1>8, <1>10, <2>1, <2>3, <2>4
    <2> QED
      BY <2>2, <2>5, OnePool DEF Promise!Settle

LEMMA JoinIsAsked ==
    ASSUME PoolSound, NEW x \in Place \ (waiting \cup {holder}), Join(x)
    PROVE  Promise!Next
  <1>1. Ordered(waiting \cup {x}, [ahead EXCEPT ![x] = waiting])
    BY JoinOrdered DEF PoolSound
  <1>2. holder \in (Place \cup {None}) \ (waiting \cup {x})
    BY DEF PoolSound
  <1>3. Promise!Settle(waiting \cup {x}, [ahead EXCEPT ![x] = waiting], Need, {holder} \ {None}, Limit)
    BY <1>1, <1>2, ServedIsSettled DEF Join
  <1>4. [Need EXCEPT ![x] = {"pool"}] = Need
    BY DEF Need
  <1>5. Promise!Ask(x, {"pool"})
    BY <1>3, <1>4 DEF Promise!Ask
  <1> QED
    BY <1>5 DEF Promise!Next

\* The queue without those who are called off.
LEMMA CalledOff ==
    ASSUME PoolSound, NEW W
    PROVE  /\ waiting \ W = waiting \ (waiting \cap W)
           /\ Without(ahead, W) = Promise!Without(waiting \cap W)
  <1>1. ahead \in [Place -> SUBSET waiting] /\ \A x \in Place \ waiting : ahead[x] = {}
    BY DEF PoolSound, Ordered
  <1>2. ASSUME NEW x \in Place
        PROVE  (IF x \in W THEN {} ELSE ahead[x] \ W)
                   = (IF x \in waiting \cap W THEN {} ELSE ahead[x] \ (waiting \cap W))
    BY <1>1
  <1> QED
    BY <1>2 DEF Without, Promise!Without

\* A lease that ends is given back, with the waits W that are called off.
LEMMA EndIsReturned ==
    ASSUME PoolSound, holder # None, NEW W, Serve(waiting \ W, Without(ahead, W), None)
    PROVE  Promise!Next
  <1> DEFINE V == waiting \cap W
  <1>1. Ordered(waiting, ahead) /\ waiting \subseteq Place
    BY DEF PoolSound, Ordered
  <1>2. waiting \ W = waiting \ V /\ Without(ahead, W) = Promise!Without(V)
    BY CalledOff
  <1>3. Ordered(waiting \ W, Without(ahead, W)) /\ None \in (Place \cup {None}) \ (waiting \ W)
    BY <1>1, WithoutOrdered, Apart
  <1>4. Promise!Settle(waiting \ W, Without(ahead, W), Need, {None} \ {None}, Limit)
    BY <1>3, ServedIsSettled
  <1>5. ({holder} \ {None}) \ {holder} = {None} \ {None}
    OBVIOUS
  <1>6. Promise!Return({holder}, V)
    BY <1>2, <1>4, <1>5 DEF Promise!Return
  <1> QED
    BY <1>6 DEF Promise!Next

LEMMA GivenBackIsReturned ==
    ASSUME PoolSound, holder # None, GiveBack PROVE Promise!Next
  <1>1. Ordered(waiting, ahead) /\ ahead \in [Place -> SUBSET waiting]
    BY DEF PoolSound, Ordered
  <1>2. waiting \ {} = waiting /\ Without(ahead, {}) = ahead
    BY <1>1 DEF Without
  <1> QED
    BY <1>2, EndIsReturned DEF GiveBack

\* Waits that are called off while somebody has the slot, or nobody waits.
LEMMA OffIsGivenUp ==
    ASSUME PoolSound, NEW W, waiting' = waiting \ W, ahead' = Without(ahead, W), holder' = holder
    PROVE  Promise!Next
  <1> DEFINE V == waiting \cap W
  <1>1. Promise!GiveUp(V)
    BY CalledOff DEF Promise!GiveUp
  <1> QED
    BY <1>1 DEF Promise!Next

LEMMA QuietOff ==
    ASSUME PoolSound, NEW W, Serve(waiting \ W, Without(ahead, W), holder)
    PROVE  Promise!Next
  <1> DEFINE q == waiting \ W
             a == Without(ahead, W)
             G == AtFront(q, a, holder)
  <1>1. G = {}
    BY DEF PoolSound, AtFront
  <1>2. waiting' = q /\ ahead' = Without(a, {}) /\ holder' = holder
    BY <1>1 DEF Serve
  <1>3. Ordered(q, a)
    BY WithoutOrdered DEF PoolSound
  <1>4. Without(a, {}) = a
    <2> HIDE DEF a
    <2> QED
      BY <1>3 DEF Without, Ordered
  <1> QED
    BY <1>2, <1>4, OffIsGivenUp

LEMMA TurnEndsPromised ==
    ASSUME GateInv, TurnEnds PROVE Promise!Next
  <1> DEFINE h == IF holder = With THEN None ELSE holder
             next == AtFront(waiting \ {With}, Without(ahead, {With}), h)
             gone == {With} \cup (Unstarted({turn}) \ next)
  <1>1. PoolSound /\ Serve(waiting \ gone, Without(ahead, gone), h)
    BY DEF TurnEnds, GateInv
  <1> HIDE DEF gone
  <1>2. CASE holder = With
    BY <1>1, <1>2, EndIsReturned, Apart
  <1>3. CASE holder # With
    BY <1>1, <1>3, QuietOff
  <1> QED
    BY <1>2, <1>3

LEMMA LeavePromised ==
    ASSUME GateInv, holder = Step, NEW to, NEW red, Leave(to, red) PROVE Promise!Next
  BY GivenBackIsReturned, Apart DEF Leave, GateInv

LEMMA JudgedPromised ==
    ASSUME GateInv, holder = Step, NEW v, NEW cached, Judged(v, cached)
    PROVE  Promise!Next \/ UNCHANGED pool
  BY LeavePromised DEF Judged, Red, Fix

LEMMA CheckPromised ==
    ASSUME GateInv, NEW g \in Gate, Check(g) PROVE Promise!Next \/ UNCHANGED pool
  <1>1. g \in Place \ (waiting \cup {holder})
    BY Apart DEF Check, GateInv, FlightsSound, InPlace
  <1> QED
    BY <1>1, JoinIsAsked DEF Check, GateInv

\* Every step is one of the pools', or leaves the pool alone.
LEMMA StepIsPromised ==
    ASSUME GateInv, [Next]_vars PROVE [Promise!Next]_(Promise!vars)
  <1>1. UNCHANGED pool => UNCHANGED Promise!vars
    BY DEF pool, Promise!vars
  <1>2. PoolSound
    BY DEF GateInv
  <1>3. ASSUME NEW g \in Gate, NEW fresh \in BOOLEAN, Ask(g, fresh) PROVE UNCHANGED pool
    BY <1>3 DEF Ask
  <1>4. ASSUME NEW g \in Gate, AskInside(g) \/ Spawn(g) PROVE UNCHANGED pool
    BY <1>4 DEF AskInside, Spawn
  <1>5. ASSUME NEW g \in Gate, Finish(g) \/ Kill(g) PROVE Promise!Next
    <2>1. flight[g].pc = "running" /\ GiveBack
      BY <1>5 DEF Finish, Kill, Ends
    <2>2. holder = g /\ g # None
      BY <2>1, Apart DEF GateInv, FlightsSound, InPlace
    <2> QED
      BY <1>2, <2>1, <2>2, GivenBackIsReturned
  <1>6. CASE WithAsks
    BY <1>2, <1>6, JoinIsAsked, Apart DEF WithAsks
  <1>7. CASE WithEnds
    BY <1>2, <1>7, GivenBackIsReturned, Apart DEF WithEnds
  <1>8. ASSUME NEW t \in Tree, Edit(t) PROVE UNCHANGED pool
    BY <1>8 DEF Edit
  <1>9. CASE Halt
    BY <1>2, <1>9, QuietOff DEF Halt
  <1>10. ASSUME NEW o \in Other, OtherAsks(o) PROVE Promise!Next
    BY <1>2, <1>10, JoinIsAsked, Apart DEF OtherAsks
  <1>11. ASSUME NEW o \in Other, OtherEnds(o) PROVE Promise!Next
    BY <1>2, <1>11, GivenBackIsReturned, Apart DEF OtherEnds
  <1>12. CASE StepAsks
    BY <1>2, <1>12, JoinIsAsked, Apart DEF StepAsks, GateInv, StepSound
  <1>13. CASE StepUnwinds
    BY <1>2, <1>13, OffIsGivenUp DEF StepUnwinds
  <1>14. CASE StepLooks
    BY <1>1, <1>14, JudgedPromised DEF StepLooks
  <1>15. CASE StepFinishes \/ StepKilled
    BY <1>1, <1>15, JudgedPromised DEF StepFinishes, StepKilled, StepEnds, GateInv, StepSound
  <1>16. CASE UNCHANGED vars
    BY <1>16 DEF vars, Promise!vars
  <1> QED
    BY <1>1, <1>3, <1>4, <1>5, <1>6, <1>7, <1>8, <1>9, <1>10, <1>11, <1>12, <1>13, <1>14, <1>15, <1>16,
       CheckPromised, TurnEndsPromised DEF Next

\* For any gates, lanes, turns, kills and edits: a flight, a command under `with`,
\* a gate step and the other lanes share the pool as its users are promised, though
\* the end of a turn takes its lease, its wait and its flights out of it in steps
\* the pool grants between (onTurnEnded, haltAgents).
THEOREM GatesKeepThePromise == Spec => ImplementsAtomicLeases
  <1>1. Init => Promise!Init
    <2>1. Limit \in [{"pool"} -> Nat] /\ Need \in [Place -> SUBSET {"pool"}] /\ {None} \ {None} = {}
      BY DEF Limit, Need
    <2> QED
      BY <2>1 DEF Init, Promise!Init
  <1>2. Spec => []GateInv
    BY InitSound, NextSound, PTL DEF Spec
  <1>3. GateInv /\ [Next]_vars => [Promise!Next]_(Promise!vars)
    BY StepIsPromised
  <1> QED
    BY <1>1, <1>2, <1>3, PTL DEF Spec, ImplementsAtomicLeases, Promise!Spec
=============================================================================
