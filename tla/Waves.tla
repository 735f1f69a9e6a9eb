------------------------------- MODULE Waves -------------------------------
(***************************************************************************)
(* The wave spine: who builds `wave-<n>`, in which turn of the one           *)
(* integration worktree, and what counts as built                            *)
(* (packages/vinta-ai-maestro/src/executor/executor.ts #merge, #buildWaves,  *)
(* #integration; scheduler.ts #waveMerge).                                   *)
(*                                                                          *)
(* What a merge does inside its turn is module Integration; here it leaves   *)
(* the members in the branch, or some of them and an error.  Branches are    *)
(* what their tips contain: a phase that commits, and a wave that is moved,  *)
(* are no longer contained where they were.                                  *)
(***************************************************************************)
EXTENDS Integers, Sequences, FiniteSets

CONSTANTS
    Nodes, Late,   \* phases, and those an amendment adds
    Wave,          \* phase -> its wave
    Deps,          \* phase -> the phases it depends on
    None,          \* the queue entry of no phase
    Budget         \* BOUND: kills, amendments, holds and pauses ("events"), and
                   \* things that go wrong or are aborted ("faults")

Waves == {Wave[n] : n \in Nodes}

\* computeWaves: the waves of a plan have no gap, each is one above the deepest
\* dependency.
NoGap(p) == \A n \in p : 1 .. Wave[n] \subseteq {Wave[m] : m \in p}

ASSUME NoneAssumption == None \notin Nodes
ASSUME LateAssumption == Late \subseteq Nodes /\ NoGap(Nodes \ Late)
ASSUME WaveAssumption == Wave \in [Nodes -> Nat \ {0}] /\ NoGap(Nodes)
ASSUME DepsAssumption == Deps \in [Nodes -> SUBSET Nodes] /\ \A n \in Nodes : \A d \in Deps[n] : Wave[d] < Wave[n]
ASSUME BudgetAssumption == Budget \in [{"events", "faults"} -> Nat]

VARIABLES
    plan,     \* the phases of the workflow
    st,       \* phase -> where it is on its way to done
    arrived,  \* #arrived: in this process
    queued,   \* #queuedBuilds
    queue,    \* #integrationWaiting: [node, priority], the plan it counted
    turn,     \* who holds the worktree, and where it is
    paused,
    branch,   \* wave -> [made, on, has]: contains the tip of the wave below, and of `has`
    red,      \* waves whose last gate in the journal is red
    left,
    reached,  \* GHOST phases that have reached their merge, in any process
    gated,    \* GHOST waves whose gates passed on what the branch is now
    gaveUp,   \* GHOST a wave was skipped, a phase removed, or waves left to a turn
              \* that counted the plan before an amendment
    cutShort  \* GHOST a turn ended between what it merged and its gates

vars == <<plan, st, arrived, queued, queue, turn, paused, branch, red, left, reached, gated, gaveUp, cutShort>>

Idle == [pc |-> "idle", node |-> None, w |-> 0, i |-> 0, plan |-> {}]

Init ==
    /\ plan = Nodes \ Late
    /\ st = [n \in Nodes |-> "todo"]
    /\ arrived = {} /\ queued = {} /\ queue = <<>> /\ turn = Idle /\ paused = {}
    /\ branch = [w \in Waves |-> [made |-> FALSE, on |-> FALSE, has |-> {}]]
    /\ red = {} /\ left = Budget
    /\ reached = {} /\ gated = {} /\ gaveUp = FALSE /\ cutShort = FALSE

Spend(what) == left[what] > 0 /\ left' = [left EXCEPT ![what] = @ - 1]

git == <<branch, red, gated, cutShort>>
worktree == <<queue, turn>>
ghosts == <<reached, gaveUp>>

----------------------------------------------------------------------------
(* What is complete, and what is built *)

\* #wavePlan, of the plan it is given
Members(p, w) == {n \in p : Wave[n] = w}

\* Fault: an arrival before a restart is forgotten.
CompleteInProcess(p, w, here) == Members(p, w) # {} /\ Members(p, w) \subseteq here

\* #waveComplete
Complete(p, w, here) ==
    Members(p, w) # {} /\ \A n \in Members(p, w) : n \in here \/ st[n] = "done"

\* Fault: a branch with every member in it is built, whatever its gates said.
BuiltByContent(p, w) ==
    branch[w].made /\ (w > 1 => branch[w].on) /\ Members(p, w) \subseteq branch[w].has

\* #waveBuilt
Built(p, w) ==
    /\ branch[w].made
    /\ w > 1 => branch[w].on
    /\ Members(p, w) \subseteq branch[w].has
    /\ w \notin red

----------------------------------------------------------------------------
(* A phase, as far as its merge *)

\* It starts, or starts again; its dependencies are done or landed.
Work(n) ==
    /\ n \in plan /\ st[n] = "todo"
    /\ \A d \in Deps[n] : st[d] \in {"asked", "through", "done"}
    /\ st' = [st EXCEPT ![n] = "work"]
    /\ UNCHANGED <<plan, arrived, queued, worktree, paused, git, left, ghosts>>

Commit(n) ==
    /\ st[n] = "work"
    /\ branch' = [w \in Waves |-> [branch[w] EXCEPT !.has = @ \ {n}]]
    /\ UNCHANGED <<plan, st, arrived, queued, worktree, paused, red, gated, cutShort, left, ghosts>>

\* #merge, up to the queue: the plan is read and the wave counted in one step.
Arrives(n) ==
    /\ arrived' = arrived \cup {n}
    /\ reached' = reached \cup {n}
    /\ IF n \in plan /\ Complete(plan, Wave[n], arrived')
       THEN /\ st' = [st EXCEPT ![n] = "queued"]
            /\ queued' = queued \cup {Wave[n]}
            /\ queue' = Append(queue, [node |-> n, priority |-> FALSE, plan |-> plan])
       ELSE st' = [st EXCEPT ![n] = "through"] /\ UNCHANGED <<queued, queue>>
    /\ UNCHANGED <<plan, turn, paused, git, gaveUp>>

Arrive(n) == st[n] = "work" /\ Arrives(n) /\ UNCHANGED left

\* The wave could not be assembled, and what is to be made of it.
Answer(n) ==
    /\ st[n] = "asked"
    /\ \/ Arrives(n) /\ UNCHANGED left                             \* retry
       \/ /\ Spend("faults")
          /\ st' = [st EXCEPT ![n] = "through"] /\ gaveUp' = TRUE   \* skip
          /\ UNCHANGED <<plan, arrived, queued, worktree, paused, git, reached>>

\* What is left of the pipeline: push, open_pr, chores.
Finish(n) ==
    /\ st[n] = "through"
    /\ st' = [st EXCEPT ![n] = "done"]
    /\ UNCHANGED <<plan, arrived, queued, worktree, paused, git, left, ghosts>>

\* It is aborted, answered `stop`, or fails.  A turn it waits for or holds is not
\* taken from it.
Fail(n) ==
    /\ st[n] \in {"work", "queued", "turn", "asked", "through"}
    /\ Spend("faults")
    /\ st' = [st EXCEPT ![n] = "failed"]
    /\ UNCHANGED <<plan, arrived, queued, worktree, paused, git, ghosts>>

InQueue(n) == \E i \in DOMAIN queue : queue[i].node = n

\* A retry waits for the body it was aborted in to exit.
Retry(n) ==
    /\ n \in plan /\ st[n] = "failed" /\ ~InQueue(n) /\ turn.node # n
    /\ st' = [st EXCEPT ![n] = "todo"]
    /\ UNCHANGED <<plan, arrived, queued, worktree, paused, git, left, ghosts>>

----------------------------------------------------------------------------
(* #integration: the queue of the worktree *)

\* Fault: the first in the queue, or nobody.
MayGoFirstOnly(i) == i = 1 /\ (queue[i].node = None \/ queue[i].node \notin paused)

\* The first that is not paused.
MayGo(i) ==
    /\ queue[i].node = None \/ queue[i].node \notin paused
    /\ \A j \in 1 .. i - 1 : queue[j].node # None /\ queue[j].node \in paused

\* Fault: the turn counts against the plan there is when it starts.
TurnPlanNow(e) == plan

\* The plan as it was counted (`plan` in #merge).
TurnPlan(e) == e.plan

LetIn ==
    /\ turn.pc = "idle"
    /\ \E i \in DOMAIN queue :
         LET entry == queue[i] IN
         /\ MayGo(i)
         /\ queue' = SubSeq(queue, 1, i - 1) \o SubSeq(queue, i + 1, Len(queue))
         /\ IF entry.node = None
            THEN turn' = [Idle EXCEPT !.pc = "held"] /\ UNCHANGED <<st, queued>>
            ELSE /\ turn' = [Idle EXCEPT !.pc = "earlier", !.node = entry.node, !.w = Wave[entry.node], !.i = 1,
                                         !.plan = TurnPlan(entry)]
                 /\ queued' = queued \ {Wave[entry.node]}
                 /\ st' = [st EXCEPT ![entry.node] = IF @ = "queued" THEN "turn" ELSE @]
    /\ UNCHANGED <<plan, arrived, paused, git, left, ghosts>>

\* A person's, the coordinator's or an amendment's hold; a command by hand goes
\* ahead of every phase that waits.
Hold(priority) ==
    /\ Spend("events")
    /\ \E at \in 1 .. Len(queue) + 1 :
         /\ priority => \A j \in 1 .. at - 1 : queue[j].priority
         /\ at <= Len(queue) => priority /\ ~queue[at].priority
         /\ queue' = SubSeq(queue, 1, at - 1) \o <<[node |-> None, priority |-> priority, plan |-> {}]>>
                        \o SubSeq(queue, at, Len(queue))
    /\ UNCHANGED <<plan, st, arrived, queued, turn, paused, git, ghosts>>

HoldEnds ==
    /\ turn.pc = "held" /\ turn' = Idle
    /\ UNCHANGED <<plan, st, arrived, queued, queue, paused, git, left, ghosts>>

\* Ignored but for a node at work, or waiting for an answer.
Pause(n) ==
    /\ n \notin paused /\ st[n] \in {"work", "queued", "turn", "asked", "through"} /\ Spend("events")
    /\ paused' = paused \cup {n}
    /\ UNCHANGED <<plan, st, arrived, queued, worktree, git, ghosts>>

Unpause(n) ==
    /\ n \in paused
    /\ paused' = paused \ {n}
    /\ UNCHANGED <<plan, st, arrived, queued, worktree, git, left, ghosts>>

----------------------------------------------------------------------------
(* #buildWaves *)

To(pc, i) == turn' = [turn EXCEPT !.pc = pc, !.i = i]

TurnEnds(now) ==
    /\ turn' = Idle
    /\ st' = [st EXCEPT ![turn.node] = IF @ = "turn" THEN now ELSE @]

\* A turn ends where the one in the queue for `w` goes on, and that one counted a
\* plan without a phase of this one's.
LeftToOlder(w) ==
    \E i \in DOMAIN queue : queue[i].node # None /\ Wave[queue[i].node] = w /\ ~(turn.plan \subseteq queue[i].plan)

Leaves(w) == gaveUp' = (gaveUp \/ (turn'.pc = "idle" /\ LeftToOlder(w)))

\* A wave under this one that is missing is built first; one that is not in, or
\* whose own turn is still in the queue, takes this one with it.
Earlier ==
    /\ turn.pc = "earlier"
    /\ LET w == turn.i IN
       \/ w < turn.w /\ Built(turn.plan, w) /\ To("earlier", w + 1) /\ UNCHANGED st
       \/ /\ w < turn.w /\ ~Built(turn.plan, w)
          /\ IF ~Complete(turn.plan, w, arrived) \/ w \in queued
             THEN TurnEnds("through")      \* wave_deferred
             ELSE To("merge", w) /\ UNCHANGED st
       \/ w = turn.w /\ To("merge", w) /\ UNCHANGED st
    /\ Leaves(turn.i)
    /\ UNCHANGED <<plan, arrived, queued, queue, paused, git, left, reached>>

\* Fault: a wave above that is complete is left to whoever comes next.
AboveNever(w) == FALSE

\* Whether a wave above is this turn's to build.
Above(w) == w \in Waves /\ Complete(turn.plan, w, arrived) /\ w \notin queued

Later ==
    /\ turn.pc = "later"
    /\ LET w == turn.i IN
       \/ ~Above(w) /\ TurnEnds("through")
       \/ Above(w) /\ Built(turn.plan, w) /\ To("later", w + 1) /\ UNCHANGED st
       \/ Above(w) /\ ~Built(turn.plan, w) /\ To("merge", w) /\ UNCHANGED st
    /\ Leaves(turn.i)
    /\ UNCHANGED <<plan, arrived, queued, queue, paused, git, left, reached>>

\* mergeWave: the branch is kept when it is on the wave below as that is now, and
\* cut there otherwise; then what it lacks is merged.
Kept(w) == branch[w].made /\ (w > 1 => branch[w].on)
Missing(w) == Members(turn.plan, w) \ (IF Kept(w) THEN branch[w].has ELSE {})

\* The wave's branch with `has` in it.  The wave above contains it no longer
\* when it moved.
Moved(w, has) ==
    LET moved == ~Kept(w) \/ has # branch[w].has IN
    /\ branch' = [v \in Waves |-> IF v = w THEN [made |-> TRUE, on |-> w > 1, has |-> has]
                                  ELSE IF v = w + 1 /\ moved THEN [branch[v] EXCEPT !.on = FALSE]
                                  ELSE branch[v]]
    /\ gated' = IF moved THEN gated \ {w} ELSE gated

HasNow(w) == IF Kept(w) THEN branch[w].has ELSE {}

Merge ==
    /\ turn.pc = "merge"
    /\ Moved(turn.i, HasNow(turn.i) \cup Members(turn.plan, turn.i))
    /\ To("gates", turn.i)
    /\ UNCHANGED <<plan, st, arrived, queued, queue, paused, red, cutShort, left, ghosts>>

\* A merge is refused, or its conflict is not resolved; the ones before it stay.
MergeFails ==
    /\ turn.pc = "merge" /\ Spend("faults")
    /\ \E some \in SUBSET Missing(turn.i) :
         some # Missing(turn.i) /\ Moved(turn.i, HasNow(turn.i) \cup some)
    /\ cutShort' = (cutShort \/ branch' # branch)
    /\ TurnEnds("asked")
    /\ UNCHANGED <<plan, arrived, queued, queue, paused, red, ghosts>>

\* No agent for the conflict: the phase waits for capacity, and comes again.
MergeRefused ==
    /\ turn.pc = "merge" /\ Spend("faults")
    /\ Missing(turn.i) # {} /\ Moved(turn.i, HasNow(turn.i))
    /\ cutShort' = (cutShort \/ branch' # branch)
    /\ TurnEnds("work")
    /\ UNCHANGED <<plan, arrived, queued, queue, paused, red, ghosts>>

Next_(w) == IF w < turn.w THEN <<"earlier", w + 1>> ELSE <<"later", w + 1>>

\* #waveGates and what #buildWave does after: push, wave_built.
Green ==
    /\ turn.pc = "gates"
    /\ gated' = gated \cup {turn.i} /\ red' = red \ {turn.i}
    /\ To(Next_(turn.i)[1], Next_(turn.i)[2])
    /\ UNCHANGED <<plan, st, arrived, queued, queue, paused, branch, cutShort, left, ghosts>>

\* A gate is red, or could not be run and nothing is journalled of it.
NotGreen ==
    /\ turn.pc = "gates" /\ Spend("faults")
    /\ \/ red' = red \cup {turn.i} /\ UNCHANGED cutShort
       \/ cutShort' = TRUE /\ UNCHANGED red
    /\ TurnEnds("asked")
    /\ UNCHANGED <<plan, arrived, queued, queue, paused, branch, gated, ghosts>>

----------------------------------------------------------------------------
(* Around it *)

\* The process dies and the run is resumed: what is not done is pending again, and
\* comes to its merge again.
Kill ==
    /\ Spend("events")
    /\ st' = [n \in Nodes |-> IF st[n] = "done" THEN "done" ELSE "todo"]
    /\ arrived' = {} /\ queued' = {} /\ queue' = <<>> /\ turn' = Idle /\ paused' = {}
    /\ cutShort' = (cutShort \/ turn.pc = "gates")
    /\ UNCHANGED <<plan, branch, red, gated, ghosts>>

\* An amendment adds a phase, or removes one that is not at work.
Adopt ==
    /\ Spend("events")
    /\ \/ \E n \in Late \ plan : NoGap(plan \cup {n}) /\ plan' = plan \cup {n} /\ UNCHANGED gaveUp
       \/ \E n \in plan : /\ st[n] \in {"todo", "failed"} /\ ~InQueue(n) /\ turn.node # n
                          /\ \A m \in plan : n \notin Deps[m]
                          /\ plan' = plan \ {n} /\ gaveUp' = TRUE
    /\ UNCHANGED <<st, arrived, queued, worktree, paused, git, reached>>

Turn == Earlier \/ Later \/ Merge \/ MergeFails \/ MergeRefused \/ Green \/ NotGreen \/ HoldEnds

Next ==
    \/ \E n \in Nodes :
         Work(n) \/ Commit(n) \/ Arrive(n) \/ Answer(n) \/ Finish(n) \/ Fail(n) \/ Retry(n) \/ Pause(n) \/ Unpause(n)
    \/ LetIn \/ Turn \/ Kill \/ Adopt
    \/ \E priority \in BOOLEAN : Hold(priority)

Spec == Init /\ [][Next]_vars

\* The queue is pumped at every change, and a turn goes on by itself.  Nobody
\* has to lift a pause.
FairSpec == Spec /\ WF_vars(LetIn) /\ WF_vars(Turn)

----------------------------------------------------------------------------
(* Properties *)

\* A turn in progress is of a wave that was counted, and the flag of a wave
\* whose turn waits is the queue's.
TypeOK ==
    /\ \A n \in Nodes : st[n] = "queued" => InQueue(n)
    /\ \A n \in Nodes : st[n] = "turn" => turn.node = n
    /\ \A w \in queued : \E i \in DOMAIN queue : queue[i].node # None /\ Wave[queue[i].node] = w
    /\ turn.pc \in {"earlier", "merge", "gates", "later"} => Members(turn.plan, turn.w) # {}
    /\ \A w \in Waves : branch[w].on => w > 1

AtRest == turn.pc = "idle" /\ queue = <<>> /\ \A n \in plan : st[n] = "done"

\* When every phase is done, every wave is built, up to the last: through
\* restarts, turns that deferred to each other, waves that were complete before
\* the one under them, phases an amendment added; unless somebody skipped a wave
\* or took a phase out of the plan, for which nobody comes back, or a turn left
\* waves to one that counted an older plan.
DoneIsBuilt == TypeOK /\ (AtRest /\ ~gaveUp => \A w \in Waves : Members(plan, w) # {} => Built(plan, w))

\* A wave has no phase in it that never came to its merge, whatever an amendment
\* did to the plan while the turn was in the queue.
OnlyArrived == \A w \in Waves : branch[w].has \subseteq reached

\* executor.ts: "building on top of it would carry the regression up".  A wave
\* is recorded built only on one that is not red and that passed its gates as
\* it is, when no turn was cut short between what it merged and its gates.
BuiltOnPassing ==
    [][\A w \in Waves \ {1} : turn.pc = "gates" /\ turn.i = w /\ w \in gated' /\ turn'.pc # "gates"
          => w - 1 \notin red /\ branch[w].on /\ (w - 1 \in gated \/ cutShort)]_vars

\* A phase that waits for the worktree and is not paused gets it, or is paused
\* or given up: a pause ahead of it, a hold by hand or a deferral never strands
\* it.
TurnComes ==
    \A n \in Nodes : st[n] = "queued" /\ n \notin paused ~> st[n] # "queued" \/ n \in paused
=============================================================================
