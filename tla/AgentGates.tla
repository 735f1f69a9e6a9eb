----------------------------- MODULE AgentGates -----------------------------
(***************************************************************************)
(* Gates of one lane and the cache of their verdicts: those an agent asks    *)
(* for from inside a turn (packages/vinta-ai-maestro/src/resources/          *)
(* agent-gates.ts), and the gate step between two turns that decides what    *)
(* happens next (executor.ts `#runGate`, scheduler.ts `#runGate`).           *)
(*                                                                          *)
(* A gate an agent asks for is a flight of its own: clients watch it in       *)
(* bounded requests, may be killed, and find it again by its name.  It       *)
(* hashes the lane's tree, looks the verdict up, and on a miss queues for    *)
(* its pool, runs, and stores the verdict under the hash it took first.      *)
(* Meanwhile the agent may edit the tree, hold the same pool through `with`, *)
(* and end its turn; a run may be killed or time out, and the run drained.   *)
(*                                                                          *)
(* Every gate needs the one pool, so its queue is FIFO (ResourcePools has    *)
(* needs that differ); it is kept as the set of who waits and, for each, who  *)
(* is in front of it.  Codegen flights and `--full` are left out.            *)
(***************************************************************************)
EXTENDS Integers, Sequences, FiniteSets, SequencesExt

CONSTANTS
    Tree,       \* contents the lane's tree may have
    Start,      \* the one it has first
    Gates,      \* the node's gates, in the order it declares them
    Passes,     \* gate -> the trees it passes on
    Other,      \* holders of the pool from other lanes
    MaxTurn,    \* BOUND: turns of the node
    MaxMishaps  \* BOUND: runs killed by an operator or a cancelled run, and edits
                \*        while a gate the agent asked for is in flight

ASSUME StartIsTree == Start \in Tree
ASSUME GatesNonEmpty == Gates \in Seq(STRING) /\ Len(Gates) > 0 /\ IsInjective(Gates)
ASSUME BoundsNat == MaxTurn \in Nat \ {0} /\ MaxMishaps \in Nat

Gate == ToSet(Gates)
None == "none"      \* no verdict, no gate, no flight
With == "with"      \* the node's `with` command, in the pool's queue
Step == "step"      \* the node's gate step, in the pool's queue

Place == Gate \cup Other \cup {With, Step}

ASSUME NamesApart ==
    Gate \cap Other = {} /\ {None, With, Step} \cap (Gate \cup Other) = {}

VARIABLES
    tree,       \* what the lane holds now
    cache,      \* gate -> tree -> the verdict stored for it
    flight,     \* gate -> the agent's flight: #inFlight
    waiting,    \* pools.ts #queue: who is in it
    ahead,      \* place -> who is in front of it there
    holder,     \* who has the pool's one slot
    inner,      \* the gate the command under `with` waits for
    turn,       \* turns of the node so far
    phase,      \* what the node is doing
    at,         \* the gate step: the gate it is at
    rerun,      \* the gate step: the gate it runs without the cache
    lastRed,    \* scheduler.ts lastRed: the red gate and tree before the fixer
    halted,     \* the run drains
    mishaps,    \* kills, and edits under a gate in flight
    mixed       \* history: gates and trees whose stored verdict is of a run that the
                \*          agent edited under, once the tree was hashed

vars == <<tree, cache, flight, waiting, ahead, holder, inner, turn, phase, at, rerun, lastRed, halted, mishaps, mixed>>
pool == <<waiting, ahead, holder>>
step == <<at, rerun, lastRed>>

NoFlight == [pc |-> None, turn |-> 0, hash |-> Start, fresh |-> FALSE, aborted |-> FALSE,
             saw |-> {}, edited |-> FALSE]
NoRed == [gate |-> None, tree |-> Start]

Init ==
    /\ tree = Start
    /\ cache = [g \in Gate |-> [t \in Tree |-> None]]
    /\ flight = [g \in Gate |-> NoFlight]
    /\ waiting = {} /\ ahead = [x \in Place |-> {}] /\ holder = None
    /\ inner = None
    /\ turn = 1 /\ phase = "working"
    /\ at = 1 /\ rerun = None /\ lastRed = NoRed
    /\ halted = FALSE
    /\ mishaps = 0 /\ mixed = {}

----------------------------------------------------------------------------

Mishap == mishaps < MaxMishaps /\ mishaps' = mishaps + 1

----------------------------------------------------------------------------
(* The pool and the cache *)

\* The queue, told by a, without S.
Without(a, S) == [x \in Place |-> IF x \in S THEN {} ELSE a[x] \ S]

\* Whoever is at the front of q, when h, the holder of the slot, is nobody.
AtFront(q, a, h) == {x \in q : h = None /\ a[x] = {}}

\* The queue q is served.
Serve(q, a, h) ==
    LET G == AtFront(q, a, h)
    IN  /\ waiting' = q \ G /\ ahead' = Without(a, G)
        /\ holder' \in IF G = {} THEN {h} ELSE G

\* x queues.
Join(x) == Serve(waiting \cup {x}, [ahead EXCEPT ![x] = waiting], holder)

\* The holder gives the slot back.
GiveBack == Serve(waiting, ahead, None)

InFlight == {g \in Gate : flight[g].pc # None}

\* A flight whose request was granted starts; others are as they were.
Granted(f) ==
    [g \in Gate |-> IF f[g].pc = "queued" /\ holder' = g THEN [f[g] EXCEPT !.pc = "granted"]
                    ELSE f[g]]

\* Fault: the key is the committed tree's, without the uncommitted work.
HashOfHead == Start

\* laneTreeHash: the whole worktree, uncommitted work included.
Hash == tree

Stored(g, t, v) == [cache EXCEPT ![g][t] = v]
Verdict(g, t) == IF t \in Passes[g] THEN "passed" ELSE "failed"

----------------------------------------------------------------------------
(* The agent's turn *)

\* The node does not hold the gate's pool through `with`.
HoldsNoPool == holder # With

\* hop: start the gate, or attach to the flight that is there.
Hop(g, fresh) ==
    /\ ~halted \/ flight[g].pc = "running"
    /\ \/ /\ flight[g].pc = None /\ HoldsNoPool
          /\ flight' = [flight EXCEPT ![g] = [NoFlight EXCEPT !.pc = "checking", !.turn = turn,
                                                              !.fresh = fresh]]
       \/ /\ flight[g].pc # None
          /\ flight' = [flight EXCEPT ![g].turn = turn]

\* A command of the live turn asks for a gate.  One of an ended turn is refused.
Ask(g, fresh) ==
    /\ phase = "working"
    /\ Hop(g, fresh)
    /\ UNCHANGED <<tree, cache, mixed, pool, inner, turn, phase, step, halted, mishaps>>

\* `with <pool> -- vinta-ai-maestro gate <g>`, once the lease is granted.
AskInside(g) ==
    /\ phase = "working" /\ holder = With /\ inner = None
    /\ Hop(g, FALSE)
    /\ inner' = g
    /\ UNCHANGED <<tree, cache, mixed, pool, turn, phase, step, halted, mishaps>>

WithAsks ==
    /\ phase = "working" /\ ~halted
    /\ With \notin waiting \cup {holder}
    /\ Join(With)
    /\ UNCHANGED <<tree, cache, mixed, flight, inner, turn, phase, step, halted, mishaps>>

\* The command under `with` ends: not while it waits for a gate.
WithEnds ==
    /\ holder = With /\ inner = None
    /\ GiveBack
    /\ flight' = Granted(flight)
    /\ UNCHANGED <<tree, cache, mixed, inner, turn, phase, step, halted, mishaps>>

\* The agent edits a file; a gate that runs may read what it held before or after.
Edit(t) ==
    /\ phase = "working" /\ t # tree
    /\ tree' = t
    /\ IF InFlight = {} THEN UNCHANGED mishaps ELSE Mishap
    /\ flight' = [g \in Gate |->
                      [flight[g] EXCEPT !.edited = flight[g].pc \in {"queued", "granted", "running"},
                                        !.saw = IF flight[g].pc = "running" THEN @ \cup {t} ELSE @]]
    /\ UNCHANGED <<cache, mixed, pool, inner, turn, phase, step, halted>>

----------------------------------------------------------------------------
(* A flight *)

\* The flight settles: it is retired and whoever watched it goes on.
Settled(g) == [flight EXCEPT ![g] = NoFlight]
Answered(g) == IF inner = g THEN None ELSE inner

\* #earlierRed: a gate declared before g is red on this very tree.
EarlierRed(g) == \E i \in 1 .. SelectInSeq(Gates, LAMBDA x : x = g) - 1 : cache[Gates[i]][Hash] = "failed"

\* Fault: an abort before the request for the pool is lost.
Unaborted(g) == TRUE

\* pools.acquire takes no place for a signal that is aborted already.
Wanted(g) == ~flight[g].aborted

\* Past the first awaits: refuse, answer from the cache, or queue.
Check(g) ==
    /\ flight[g].pc = "checking"
    /\ LET hit == ~flight[g].fresh /\ cache[g][Hash] # None
           runs == ~EarlierRed(g) /\ ~hit /\ Wanted(g)
       IN  /\ cache' = IF flight[g].fresh /\ ~EarlierRed(g) THEN Stored(g, Hash, None) ELSE cache
           /\ IF runs
              THEN /\ Join(g)
                   /\ flight' = Granted([flight EXCEPT ![g].pc = "queued", ![g].hash = Hash,
                                                   ![g].fresh = FALSE])
                   /\ UNCHANGED inner
              ELSE /\ flight' = Settled(g)
                   /\ inner' = Answered(g)
                   /\ UNCHANGED pool
    /\ UNCHANGED <<tree, mixed, turn, phase, step, halted, mishaps>>

\* executeGate: the command is spawned, and the flight says it is running.
Spawn(g) ==
    /\ flight[g].pc = "granted"
    /\ flight' = [flight EXCEPT ![g].pc = "running", ![g].saw = {tree}]
    /\ UNCHANGED <<tree, cache, mixed, pool, inner, turn, phase, step, halted, mishaps>>

\* The run ends with verdict v, which is stored unless the run timed out.
Ends(g, v) ==
    /\ flight[g].pc = "running"
    /\ LET entry == <<g, flight[g].hash>>
       IN  IF v = "timed_out" THEN UNCHANGED <<cache, mixed>>
           ELSE /\ cache' = Stored(g, flight[g].hash, v)
                /\ mixed' = IF flight[g].edited THEN mixed \cup {entry} ELSE mixed \ {entry}
    /\ GiveBack
    /\ flight' = Granted(Settled(g))
    /\ inner' = Answered(g)
    /\ UNCHANGED <<tree, turn, phase, step, halted>>

Finish(g) ==
    /\ \E v \in {Verdict(g, t) : t \in flight[g].saw} \cup {"timed_out"} : Ends(g, v)
    /\ UNCHANGED mishaps

\* Killed by an operator or a cancelled run: a signal, which is no exit code 0.
Kill(g) ==
    /\ Mishap
    /\ Ends(g, "failed")

----------------------------------------------------------------------------
(* The end of a turn, and of the run *)

\* A session that ended releases its lease and leaves the queue, and then its
\* flights that are not running are aborted: a queued one settles, one that is
\* not queued yet will not be, one that was just granted goes on.
Aborted(f, who) ==
    [g \in Gate |-> IF g \notin who THEN f[g]
                    ELSE IF f[g].pc = "queued" THEN NoFlight
                    ELSE [f[g] EXCEPT !.aborted = f[g].pc # "running"]]

Unstarted(who) == {g \in InFlight : flight[g].turn \in who /\ flight[g].pc # "running"}

\* Fault: nobody is told that the session ended.
TurnEndsUnheard ==
    /\ phase = "working" /\ phase' = "ended"
    /\ UNCHANGED <<tree, cache, mixed, flight, pool, inner, turn, step, halted, mishaps>>

\* onTurnEnded: agentLeases.endTurn, then agentGates.endTurn.
TurnEnds ==
    /\ phase = "working" /\ phase' = "ended"
    /\ LET h == IF holder = With THEN None ELSE holder
           next == AtFront(waiting \ {With}, Without(ahead, {With}), h)
           mine == Unstarted({turn}) \ next
           gone == {With} \cup mine
       IN  /\ Serve(waiting \ gone, Without(ahead, gone), h)
           /\ flight' = Aborted(Granted(flight), mine)
    /\ inner' = None
    /\ UNCHANGED <<tree, cache, mixed, turn, step, halted, mishaps>>

\* haltAgents: queued waits and queued flights are cancelled, and nothing new
\* is taken.  The node's own turn ends at its next step.
Halt ==
    /\ ~halted /\ halted' = TRUE
    /\ LET who == Unstarted(1 .. turn)
           gone == {With} \cup who
       IN  /\ Serve(waiting \ gone, Without(ahead, gone), holder)
           /\ flight' = Aborted(flight, who)
           /\ inner' = IF inner # None /\ flight'[inner].pc = None THEN None ELSE inner
    /\ UNCHANGED <<tree, cache, mixed, turn, phase, step, mishaps>>

OtherAsks(o) ==
    /\ ~halted /\ o \notin waiting \cup {holder}
    /\ Join(o)
    /\ UNCHANGED <<tree, cache, mixed, flight, inner, turn, phase, step, halted, mishaps>>

OtherEnds(o) ==
    /\ holder = o
    /\ GiveBack
    /\ flight' = Granted(flight)
    /\ UNCHANGED <<tree, cache, mixed, inner, turn, phase, step, halted, mishaps>>

----------------------------------------------------------------------------
(* The gate step *)

StepAsks ==
    /\ phase = "ended" /\ phase' = "gating"
    /\ Join(Step)
    /\ at' = 1 /\ rerun' = None
    /\ UNCHANGED <<tree, cache, mixed, flight, inner, turn, lastRed, halted, mishaps>>

\* A drained run stops at the step boundary, and a queued step unwinds.
StepUnwinds ==
    /\ halted /\ phase \in {"ended", "gating"} /\ holder # Step
    /\ phase' = "over"
    /\ waiting' = waiting \ {Step} /\ ahead' = Without(ahead, {Step})
    /\ UNCHANGED <<tree, cache, mixed, flight, holder, inner, turn, step, halted, mishaps>>

\* The gate step is over, with lastRed as it leaves it.
Leave(to, red) ==
    /\ phase' = to
    /\ lastRed' = red
    /\ GiveBack
    /\ flight' = Granted(flight)
    /\ UNCHANGED <<at, rerun>>

\* Red: a fixer's turn, while there is one.
Fix(red) ==
    /\ turn' = turn + 1
    /\ Leave(IF turn < MaxTurn /\ ~halted THEN "working" ELSE "over", red)

\* A red the fixer left on the very tree it was red on.
SameRed(g) == lastRed = [gate |-> g, tree |-> tree]

\* Fault: a red the cache replayed is taken for one the gate gave again.
RedAgain(g, cached) ==
    IF SameRed(g)
    THEN UNCHANGED turn /\ Leave("stalled", lastRed)
    ELSE Fix([gate |-> g, tree |-> tree])

\* Red: told apart from a stall, which gets one run without the cache first.
Red(g, cached) ==
    IF SameRed(g) /\ cached /\ rerun = None
    THEN /\ at' = 1 /\ rerun' = g /\ phase' = "gating"
         /\ UNCHANGED <<flight, pool, lastRed, turn>>
    ELSE IF SameRed(g)
    THEN UNCHANGED turn /\ Leave("stalled", lastRed)
    ELSE Fix([gate |-> g, tree |-> tree])

\* The verdict on the gate the step is at.
Judged(v, cached) ==
    LET g == Gates[at] IN
    IF v # "passed" THEN Red(g, cached)
    ELSE IF at < Len(Gates)
    THEN at' = at + 1 /\ phase' = "gating" /\ UNCHANGED <<rerun, lastRed, flight, pool, turn>>
    ELSE UNCHANGED turn /\ Leave("green", NoRed)

\* The cache first, unless this is the gate to run again.
StepLooks ==
    /\ phase = "gating" /\ holder = Step
    /\ LET g == Gates[at] IN
       IF rerun # g /\ cache[g][Hash] # None
       THEN Judged(cache[g][Hash], TRUE) /\ UNCHANGED cache
       ELSE /\ cache' = IF rerun = g THEN Stored(g, Hash, None) ELSE cache
            /\ phase' = "running"
            /\ UNCHANGED <<flight, pool, turn, step>>
    /\ UNCHANGED <<tree, mixed, inner, halted, mishaps>>

StepEnds(v) ==
    /\ phase = "running"
    /\ cache' = Stored(Gates[at], Hash, v)
    /\ mixed' = mixed \ {<<Gates[at], Hash>>}
    /\ Judged(v, FALSE)
    /\ UNCHANGED <<tree, inner, halted>>

StepFinishes == StepEnds(Verdict(Gates[at], tree)) /\ UNCHANGED mishaps
StepKilled == Mishap /\ StepEnds("failed")

Next ==
    \/ \E g \in Gate :
          \/ \E fresh \in BOOLEAN : Ask(g, fresh)
          \/ AskInside(g)
          \/ Check(g) \/ Spawn(g) \/ Finish(g) \/ Kill(g)
    \/ WithAsks \/ WithEnds
    \/ \E t \in Tree : Edit(t)
    \/ TurnEnds
    \/ Halt
    \/ \E o \in Other : OtherAsks(o) \/ OtherEnds(o)
    \/ StepAsks \/ StepUnwinds \/ StepLooks \/ StepFinishes \/ StepKilled

Spec == Init /\ [][Next]_vars

\* A command that has the slot ends (a gate has a timeout), whosever it is, and the
\* scheduler goes from a turn to its gate step.  Nothing else is obliged: no flight
\* to queue, no command under `with` to end, no turn to end.
SlotMovesOn ==
    \/ \E g \in Gate : Spawn(g) \/ Finish(g)
    \/ \E o \in Other : OtherEnds(o)
    \/ StepLooks \/ StepFinishes

Fairness == WF_vars(SlotMovesOn) /\ WF_vars(StepAsks \/ StepUnwinds)

FairSpec == Spec /\ Fairness

----------------------------------------------------------------------------
(* Properties *)

TypeOK ==
    /\ tree \in Tree
    /\ cache \in [Gate -> [Tree -> {None, "passed", "failed"}]]
    /\ flight \in [Gate -> [pc : {None, "checking", "queued", "granted", "running"},
                            turn : 0 .. MaxTurn, hash : Tree, fresh : BOOLEAN,
                            aborted : BOOLEAN, saw : SUBSET Tree, edited : BOOLEAN]]
    /\ waiting \subseteq Place /\ ahead \in [Place -> SUBSET waiting]
    /\ holder \in (Place \cup {None}) \ waiting
    /\ inner \in Gate \cup {None}
    /\ turn \in 1 .. MaxTurn + 1 /\ at \in 1 .. Len(Gates)
    /\ phase \in {"working", "ended", "gating", "running", "green", "stalled", "over"}
    /\ rerun \in Gate \cup {None} /\ lastRed \in [gate : Gate \cup {None}, tree : Tree]
    /\ halted \in BOOLEAN /\ mishaps \in 0 .. MaxMishaps
    /\ mixed \subseteq Gate \X Tree

\* A phase whose gates are green has a tree they all pass on, however the
\* verdicts got into the cache (cache.ts:2-3: a result is keyed on the tree).  But
\* for a verdict on that very tree by a run that the agent edited under: it is of
\* what the run read, and stands until the gate has run on that tree undisturbed.
GreenIsTrue ==
    phase = "green" => \A g \in Gate : tree \in Passes[g] \/ <<g, tree>> \in mixed

\* A phase is put to a person as stalled (scheduler.ts:4063) only over a gate
\* that fails on its tree: a stale red is run again first.  But for a person who
\* kills that very run, which is a red like another.
StallIsTrue ==
    [][phase' = "stalled" /\ phase # "stalled" =>
          mishaps' # mishaps \/ Verdict(lastRed'.gate, tree') = "failed"]_vars

\* A flight that queues for the pool has somebody to queue for: neither a
\* session that ended nor a drained run leaves one in line.
QueuedIsWanted ==
    TypeOK /\ \A g \in Gate : flight[g].pc = "queued" =>
        ~halted /\ phase = "working" /\ flight[g].turn = turn

\* The gate step after a turn concludes: nothing the turn left running, queued
\* or leased holds it up for ever, not even a command that waits for itself.
StepsConclude ==
    phase = "ended" ~> phase \in {"working", "green", "stalled", "over"}

\* What AtomicLeases promises, of the one pool the gates need: whatever ends, is
\* killed, aborted or drained, in whatever order, nobody has the slot but who
\* asked and waited its turn, and none is free while somebody waits.
Limit == [x \in {"pool"} |-> 1]
Need == [x \in Place |-> {"pool"}]

Promise == INSTANCE AtomicLeases WITH
    Pool <- {"pool"}, Holder <- Place, NeedSets <- {{"pool"}}, Growing <- {}, Shared <- {},
    limit <- Limit, need <- Need, has <- {holder} \ {None}

ImplementsAtomicLeases == Promise!Spec
=============================================================================
