# Verification of vinta-ai-maestro

TLA+ models of the orchestrator in `src/packages/vinta-ai-maestro`, the TLC runs
that check them on small instances, and theorems about them that TLAPS checks
for every value of the constants. The orchestrator takes a plan (a DAG of
phases), runs coding agents on its nodes in git worktrees under bounded
resources, gates, reviews and integrates what they produce, and lets an operator
steer all of it while it runs.

Paths are relative to `src/packages/vinta-ai-maestro/src` unless they begin with
`src/`. `PROJECT.json` maps every definition to the lines it stands for.

## The system

One process runs one plan on one JavaScript thread. Concurrency is therefore of
four kinds, and the models take each at its own grain:

- **awaits**: a node's body, a timer and an operator's request interleave at
  every `await` (an action is what runs between two of them);
- **promise reactions**, which run before the next request or timer
  (`AgentLeases` has them as steps everything else waits for);
- **agents**, which edit their worktree, and send and abandon HTTP requests,
  whenever they like;
- **other runs** on the machine, which share lock files (an action is one
  system call).

The process may die at any of these points, and another one continue from what
is on disk: the journal, admission's rows, lock files, git's branches and refs.

```
 plan ──► Scheduler ──► a node's body ──► pipeline (Phase) ──► effects
             │               │                                  │
             │               ├─ lane, gate pools ─► ResourcePools ─► HostSlots
             │               ├─ agent turn ──────► Admission ──► a harness CLI
             │               │                        agent ──HTTP─► AgentLeases, AgentGates
             │               ├─ gate step ───────► gate cache (AgentGates)
             │               └─ merge ───────────► Waves ──► Integration (one worktree)
             └─ questions, verbs ◄── operator, timers, Coordinator
 everything is appended to the journal, which a resumed run is seeded from
```

### Inventory

| Component | State it keeps | Operations | What makes it hard | What must hold | Model |
|---|---|---|---|---|---|
| Resource pools `resources/pools.ts` | capacity and held count per pool, the queue, the host poll | acquire, abandon, release, grow, poll | every operation re-walks one queue; aging; double releases; machine slots other runs take mid-walk | capacity respected, nobody starves, no silent stall | `ResourcePools` |
| Host slots `resources/host-slots.ts` | a lock file per slot, shared by all runs | tryTake, release | death between two system calls; a stale file is judged, then removed | one holder a slot; a dead run's slot comes back | `HostSlots` |
| Agent leases `resources/agent-leases.ts` | wait tokens, reapers, leases by turn | hop, renew, release, endTurn, halt, close | an unbounded wait in bounded requests that are retried and abandoned | one lease a wait, nothing held by no one, places kept | `AgentLeases` |
| Agent gates and the gate step `resources/agent-gates.ts`, `gates/*`, `executor/executor.ts`, `scheduler/scheduler.ts` | a flight per gate, the cache of verdicts, the last red | ask, check, run, kill, endTurn, halt, run_gate | verdicts keyed on a tree that is being edited; runs outlive turns; a command that waits for itself | a green phase passes; a stall is real; the step concludes | `AgentGates` |
| Admission `admission/*.ts` | ceiling, queue, start gate, wait and its timer, models out, login, outage; three durable rows | admit, release, refusals, logins, wake, restart | one timer and one gate for many callers; a crash between two rows | slots accounted, no stale spawn, sleepers wake, waits survive | `Admission` |
| Scheduler `scheduler/scheduler.ts` | node states, bodies, halt | dispatch, drive, recover, question, pause, abort, retry, halt | all of the above at every await | leases follow bodies, no lost wakeup, halts drain | `Scheduler` |
| Standard pipeline and interpreter `pipeline/*`, `chores.ts` | position, facts, budgets, questions, verbs that wait for a boundary | start, send, enter, resume; interrupt, step, reassign | nested loops; verbs that land between two steps | only approved and gated work merges; an unattended phase ends | `Phase` |
| Integration `integration/*` | the integration worktree, wave and `integ-` branches, refs of kept and abandoned merges, recorded fixes | prepareBase, mergeWave, mergeBranch, reclaim, fix rounds, commit and its refusal | a turn is cut anywhere and the next finds what it left; phases commit, rebase and are cut again meanwhile; agents and people write in the same worktree | a branch handed out has every member; what is committed was judged; nothing unfinished is lost | `Integration` |
| Waves `executor/executor.ts` | arrivals, the queue of the worktree, what the journal says of each wave | merge, buildWaves, integration, waveMerge | who builds which wave when arrivals, retries, restarts and amendments cross | when all is done all is built, on waves that passed, of phases that arrived | `Waves` |
| Coordinator `coordinator/*` | cursor, keys told, pending triggers, cool-down, budget, one wake | tick, notice, wake, die, resume | triggers that arrive during a wake or a cool-down; a session shared with the operator | each thing told once, nothing dropped, the budget is the run's | `Coordinator` |
| Journal and its fold `journal/*` | append-only table, projections | append, fold, seed | a crash between an effect and its event | a resumed run is where it was | what a run is seeded with: `Scheduler`; the rest planned |
| Landing `landing/*` | refs, pull requests | land, sync, propagate | half of a landing, beside turns in the worktree | only reviewed work lands, in order | planned |
| Review and interview stores `review/*`, `interview/*` | a file and a lock file | read-modify-write | several processes, stale locks | no lost update | planned |
| Amendments `amend/*` | an amended plan | propose, adopt | a plan that changes under its run | no running node changes | planned |
| Lanes, run host, job `lanes/*`, `run/*`, `job/*` | worktrees, databases, pid file | provision, recycle, start, reap | leftovers of dead runs | no two runs share a lane | who holds a lane: `Scheduler`, `ResourcePools` |

The other components (daemon handlers, CLI, UIs, harness wire formats, prompts,
configuration, doctor, analytics, post-mortem, simulation, installer) are listed
in `PROJECT.json` with the reason they are left out: they forward to the parts
above, fold over the journal, or are I/O.

## The modules

Composite state is a record; handlers that several actions share are operators
that take the state and give it back, so that an action is a whole handler with
every call it makes. A definition commented `Fault:` is not part of the model:
it is the definition after it with a plausible bug, and `PROJECT.json` says which
property must then fail. A merged property has one for each of its halves, and
an invariant that begins with `TypeOK` is the module's type invariant as well.

**AtomicLeases** is what the pools promise and no more: a holder asks for a set
of pools, gets all of it in one step or waits in a queue whose order is kept,
and leaves by giving back or giving up. `ResourcePools` implements it with
counters, walks, aging and a poll (`ahead` and `waiting` are its queue, `leased`
its leases; a machine slot in other runs' hands lowers the abstract `limit`).
`AgentLeases` implements it with tokens, timers and reapers (its holders are
wait tokens and other commands; a lease is there from the pool's grant, whoever
knows of it, to the release the code makes). `HostSlots` implements it too, as one run
sees it: a pool that others share; so does the one pool of `AgentGates`, which has a
lease for whoever holds it.

**ResourcePools.** `waiting` and `ahead` are the queue array, `held` the counter
the code grants on, `leased` the leases it handed out, `foreign` the machine
slots of other runs. `#pump` is declarative: `IsWalk` says which holders a walk
grants; `LoopGrants` is the loop as the source has it, over the fronts of the
queue, and `WalkIsTheLoop` says that the two agree on every queue an operation may
leave, and that nothing else satisfies `IsWalk`. Each operation builds the queue
it hands to the walk (`Arrival`, `Return`, `Growth`) and pumps in the same step.

**HostSlots.** A program counter per process walks `tryTake`, `#create`,
`#stale` and `release` one system call at a time; `Crash` takes a process down at
any of them. Nothing is assumed of who judges whose file when. Two histories say
where exclusivity is lost: `same`, the runs at `#stale` whose slot still has the file
they read, and `robbed`, the slots where the file of a live run was unlinked by a run
that had read another, which is what `slots_one_holder` shows the code doing.
`FilesAreLeases` is of the slots nobody was robbed of. `SlotsAreShared` says what
the pools of one run (`Me`) have of them: slots `Mine`, and a capacity less those that
are `Theirs`, which is the `foreign` of `ResourcePools`.

**AgentLeases.** A wait is a place in the pool's queue (`waiting`, and `ahead` for
who is in front of it), a grant (`out`), known to the broker (`parked`), watched
by requests (`hop`), and on a clock (`timers`). A reaper remembers whether the
code still has a reference to it, because the second of two parks forgets the
first's. A token is taken again once nobody refers to it; `RoomForFresh` keeps one
for every request that may need one. All commands want one pool, so its queue is
FIFO; `ResourcePools` is where needs differ.

**AgentGates.** One lane. Flights agents ask for and the gate step of the
scheduler meet in the pool's queue (`waiting`, `ahead`: one pool, so FIFO) and in
the cache. A tree is a value; `Hash` is what a flight hashed first, `saw` the
trees its command could have read. When a turn ends its lease goes before its
flights are aborted, in one step of the thread: who is at the front by then is
granted all the same (`next` in `TurnEnds`). The agent edits whenever it likes, under
its gates too, and a flight that runs outlives its turn. The history `mixed` has the
stored verdicts whose run was edited under once its tree was hashed; a run on that tree
that nobody edits under takes its verdict out again.

**Integration.** One turn at a time in the one worktree, a program counter for
where it is: `next` (git tries a merge), `settle` (a kept resolution, or the
attempt before this one), `round`, `fixing`, `judge`, `commit`, `ask`. Git is
reachability: a tip is a history and a length, a branch what it was cut from and
the merges on it since. What does not queue interleaves: phases that commit
(`Move`) or are redone (`Redo`), the fixing agent (`Worked`, everything it may
leave in the tree), a kill, a person. `Commit` is `git commit` with its hooks: taken as
it is or as a hook rewrote it, refused with a rewrite that is staged and tried once
more, or refused and asked about. While the question waits the worktree is the
operator's (`OperatorEdits`). The history `edited` says who changed what is staged since
the gates passed on it, and goes with the tree to its commit or the ref it is kept
under. Index and worktree are one tree here, and what a hook of `git merge` itself
rewrites is not followed.

**Waves.** The queue in front of that worktree. `Arrives` is `#merge` up to the
queue, where the plan is read and the wave counted; a turn takes the plan it was
counted under with it, and walks `earlier`, `merge`, `gates`, `later`. What a
merge does inside is `Integration`'s and is here all members, some and an error,
or an end. `arrived`, `queued` and `queue` are of the process and lost with it.

**Coordinator.** One phase, the loop beside the run and the session it shares
with the operator. A trigger is its key: an event's index, a multiple of a cost,
an occurrence of an error. `rows` is what the journal has of earlier wakes.

**Admission.** One harness. A wait's length is whether its wake time is still
ahead. `waitRow`, `ceilRow` and `open` are what a restart reads; `Crash` and
`Boot` may fall between any two steps, and `CrashInPark` between the two writes
of a park.

**Scheduler.** Any pipeline: the next piece of work of a body is any turn, gate,
merge, chore list, question or end. `pc` is where a body's `await` is, `st` the
status it journalled: they differ exactly where the hazards are. `Loop` is one
turn of `run`'s loop. A node's body leaves through `Leave`, whichever exit it
takes. `Restart` is the process that dies, or a run that ended being resumed:
`Seeded` is what the next process makes of the journal. A question about a failure or a
wave is asked with a timer or a watch on its inputs, one about a failure perhaps with
neither (`Unattended`); timers and watches that nothing cancelled are `stray`.

**Phase.** One phase on the standard pipeline: its `Transitions` and their
guards, `Sent`, `Entered` and `Stepped` as the interpreter's send, enter-effects
and enter, `Boundary` as the loop of `#drive` between two steps, `Answered` as
what an answer and the park it wakes do. Six history fields (`news`,
`verified`, `approved`, `byHand`, `owed`, `moved`) say what the properties need:
`byHand` that the operator stepped to the merge itself; `moved` is
also what the stall check compares trees by. Lanes, pools, aborts, halts and
failure questions are Scheduler's: a failed attempt here is retried or not.

## The runs

Bounds are constants of the modules, named there.

| Run | Bounds, and why they suffice | What it shows |
|---|---|---|
| `pools` | three holders, needs {lane} and {lane, gpu}, one pool that grows by one and one on the machine, aging 1: two requests that conflict on one pool and not the other, with a third to overtake them | the walk is the loop's, the pools implement `AtomicLeases` (capacity, one lease a wait, order), aging, every wait ends |
| `slots` | three runs, two slots, one run that sees only the first, every interleaving: a third run takes what two judge | one holder, files and leases agree but in slots that were robbed, a dead run's slot comes back |
| `slots_one_holder` | two runs, one slot, every interleaving | *violated*: two holders of one slot |
| `leases` | one session, two requests in flight, four wait tokens, one other holder, one slot: two requests on one wait, and a wait opened after it | waiting in instalments implements `AtomicLeases`, nothing is orphaned, every place settles |
| `gates` | two trees, two gates, two turns, one kill or one edit under a gate, one other lane: a red, a fix, and a second look | green and stalled verdicts are true (green but for a verdict of a run that was edited under), flights are wanted, the step concludes |
| `integration` | two branches (a base with one extra member, a wave of two), two turns, one event that does not queue (hooks included), an operator at each refused commit: the second turn meets what the first left, and the event what either does | a branch handed out is whole, commits are judged but for what was staged while committing, what stands or is taken down is told and kept, turns end |
| `integration_squash` | the same | *violated*: a phase counted as merged with none of its commits in the branch |
| `waves` | five phases in three waves over two roots, one of them added late, one event and one fault: a wave that is complete before the one under it, and one that grows | all is built when all is done, of arrivals, on waves that passed; whoever queues gets its turn |
| `coordinator` | three events, one cost, one error, a budget of two, two acts (questions, pauses, deaths): trouble during a wake and during the cool-down after it, in the process after a death | told once, within the budget, none dropped |
| `admission` | three nodes at a ceiling of two, two models with a fallback, two kinds of refusal, crashes anywhere: somebody always queues | slots accounted for, waits durable, priority, no stale spawn, sleepers wake |
| `scheduler` | two nodes that contend for one lane and one gate, a deferred third after both, one automatic retry, two acts of the operator or restarts, one failed or refused attempt | leases, containment, no lost wakeup, no body left over, timers and watches of questions, halts drain |
| `phase` | a fix budget of one and none, one chore of each timing, two attempts, two acts, one break, one question of an agent, steps to `fix`, `review` and `integrate` | merges are gated and approved, or stepped to, one way out of every state, cut turns run again, an unattended phase ends |

Two acts are the fewest that reach the hazards that are about verbs: the second
lands while the first waits for a boundary. One failure is what makes a node
recover, block others and be retried. In `integration` and `waves` one event is
what a second turn has to cope with; a second event doubles what is left behind
and adds no new kind of it, since a turn looks at one worktree and one queue.
(A commit refused again after its hook's rewrite was staged takes two events, and is in
the theorems only.)

**Deadlock** is checked, but for `AgentGates` (a phase is over), `Scheduler` (a
run has ended, or waits for a person), `Integration` (nobody asks for another
turn) and `Waves` (the plan is done, or a phase failed).

**Fairness** is what the code's own clocks guarantee. *Pools*: leases are
released (every command has a timeout), time passes, an armed timer fires; other
runs give slots back. *Slots*: a run takes its steps, a holder releases, a queue with
a waiter polls, time passes; all weak. *Leases*: some reaction runs while one is
due, and some lease is released while one is held; strong for requests and
timers, which the event loop serves in turn between reactions. *Gates*: a command
that has the slot ends (they have timeouts), and a node goes from its turn to its gate
step; no turn has to end, nor a command under `with`. *Admission*: time passes, and a
due timer runs, strong because a refusal may move it. *Integration*: a turn goes
on (git, gates and the fixing agent have time limits); whoever is asked about a
refused commit need not answer. *Waves*: the queue lets the next one in, and the
turn in the worktree goes on. *Coordinator*: its interval ticks, a cool-down
ends, a session's turn ends; that a hung one does not is left out. *Scheduler*: the loop and
every body go on; the operator and the questions' timers need not act. *Phase*:
turns, gates and merges end, timers fire, failed attempts are retried; the
operator need not act.

## Where the code differs from what it says

Two have a run whose counterexample shows it:

- **Two runs may hold one machine slot** (`slots_one_holder`,
  `resources/host-slots.ts`): `#stale` judges a file it read and unlinks whatever
  is at the path by then, which may be the file another run has just created.
- **A phase may be recorded as merged without its commits**
  (`integration_squash`, `integration/integrator.ts:1304`): whether the incoming
  branch is in the history is asked only when nothing is staged, so a fixer that
  aborts the merge and stages its resolution has it committed as one.

The others were met while modelling. Properties are stated so that they say what
does hold beside them.

*Gates*: a verdict is stored for the tree hashed before the gate queued and ran
(`gates/cache.ts:298`), so that an agent that edits in between has it stored for a tree
the run did not read (`mixed`, the exception of `GreenIsTrue`); a gate an
operator killed is stored as a verdict, and a person who also kills the run that
is to tell a stall apart has a phase stalled that its gate passes (the step
`StallIsTrue` sets apart); a gate may attach to a flight that waits behind its own
lease; the flight that the end of its own turn makes first in line runs for
nobody (against `resources/agent-gates.ts:325`).

*Phase*: a loop that goes through a scoped `verify` is never told to be stalled
(`scheduler/scheduler.ts:4080`), the green `gate` in between having cleared the
red; a pause that lands while the budget's question is raised makes `continue`
fail the phase (`:3464`); `step --to integrate` merges with no gate (`byHand`, the
exception of `MergedAsApproved`; against `scheduler/scheduler.ts:2417`); an interrupt
among the `after_pr` chores runs `integrate` again, merge first; an interrupt
that is taken back leaves `holdCut` set; the catch of the chores loop takes a
halt for a rejected review, and the next chore of a list starts under a halt.

*Scheduler*: a halt fails a node parked on the question of a thrown failure
(`:2861`), against "back to pending"; `#reopen` brings back a dependent another
failure still blocks, and the deadlock check may then end a run that an aborted
failure should hold open; an abort gives back the lane while a gate or a merge
works in it (`:2077`); a node aborted while it queues for admission, and refused
there, stays `waiting_on_capacity`; queued turns and gates still start after a
halt; a harness that comes back wakes its waiters and not the loop; `landed` is
not reset by a retry; a timer or a watch of an aborted question answers a later one.

*Integration*: a tree that a hook rewrote while refusing its commit is staged and
committed with no gate run (`integration/integrator.ts:1519`), and what the operator
stages while a refused commit is asked about is what `commit` and `no-verify` commit, or
`abort` keeps for a later turn to merge ungated (`:1529`), against "already past
`verify`" (`:1160`, `:413`, `SPEC.md:462`; the exception `edited` of
`CommittedIsJudged`); the comment that a base already correct is kept does not hold for
one whose members moved; an agent refused in round two discards what round one
left, and the fixer's own red commit is handed out by a retry; a tree staged with
no merge in progress makes every later merge be refused, and a merge of a named
branch that was killed after its base moved leaves the worktree busy, until
somebody acts; a recorded resolution is reused although `SPEC.md:464` says never
(`SPEC.md:556` says it is); an interrupt while a fixer spawns is lost, and its
handle outlives an amendment.

*Waves*: a turn cut between a merge and its gates leaves a wave that counts as
built and was never gated, pushed or announced (`executor/executor.ts:1090`,
against `SPEC.md:468`; the reason for `cutShort` in `BuiltOnPassing`, which merges
that fail between two members set too); when the last member that is missing is
skipped or removed, nobody builds the wave, and a turn reads what is complete
before it from the plan it was counted under (`:1038`, `:1060`), so that a wave an
amendment grew meanwhile may be left to nobody (`LeftToOlder`; both are the reason
for `gaveUp` in `DoneIsBuilt`).

*Coordinator*: a wake its process died in is not counted in the budget of the
next (`cut` in `WithinBudget`); trouble pending at a death is told by nobody; a
cost is told again by the next process; a digest behind an operator's question
is told as it was; a session that hangs keeps the loop busy for good.

*Admission*: in-flight sessions exceed a ceiling just halved, and the slot of a
refused spawn is handed on before the halving; after a restart an outage the
journal holds open is not closed. *Agent leases*: a wait is opened again for a
session that ended.

## What is proved

A component's theorems are in `<Module>Proofs`; those of `HostSlots` are with those
of `ResourcePools`, whose pools take its slots, and those of `Coordinator` with
those of `Scheduler`, whose journal it reads. The names that both modules of a pair
would have begin with `HS` in the one, with `Wake` in the other. The theorems hold
for every value of the constants that the named `ASSUME`s of the module admit
(finite sets of holders or nodes, positive capacities, bounds that are natural
numbers, waves that have phases), and of the unfair specification: liveness is not
needed for any of them.

| Component | Theorem | States |
|---|---|---|
| `ResourcePools` | `TypeCorrect` | types |
| | `CapacityNeverExceeded` | no history takes more slots than a pool has, and the counters grants are decided on are exact |
| | `QueueNeverStalls` | a queue nobody will pump is empty |
| | `AgedAreNotPassed` | a waiter past the aging window is not passed for a pool it needs |
| | `RequestsAreNotOvertaken` | a waiter is not passed by one that asks for all it asks for, on pools of the run |
| | `PoolsKeepThePromise` | the pools implement `AtomicLeases` |
| | `WalksAreLoops` | `WalkIsTheLoop` |
| `HostSlots` | `SlotsAreExclusive` | `FilesAreLeases`, types included: slots are shared or lost only by being robbed |
| | `OneRunsSlots` | what one run sees implements `AtomicLeases`, in every slot nobody was robbed of |
| `AgentLeases` | `CapacityIsSomeones` | `NoOrphanedCapacity`, types included |
| | `InstalmentsKeepThePromise` | the broker implements `AtomicLeases` |
| `AgentGates` | `NobodyQueuesForNobody` | `QueuedIsWanted`, types included |
| | `StallsAreReal` | `StallIsTrue` |
| | `GatesKeepThePromise` | the gates' pool implements `AtomicLeases` |
| | `GreenIsGreen` | `GreenIsTrue`, whenever the agent edits |
| `Admission` | `WaitsSurvive`, `NothingSpawnsStale` | `WaitIsDurable`, `NoStaleSpawn` |
| | `SlotsAreHeld` | `SlotsAccounted`, types included |
| | `RankDecides` | `CriticalPathFirst` |
| `Scheduler` | `LeasesAreInTheirPlace` | `LeasesFollowBodies`, types included |
| | `RetriesStartAlone` | `NoBodyLeftOver` |
| | `FailuresStandBehind` | `BlockedHasCause` |
| | `NoWakeupIsLost` | `SleepMissesNothing` |
| | `TimersOutliveHolds` | `QuestionKeepsTimer` |
| `Phase` | `OnlyApprovedMerges` | `MergedAsApproved`, wherever steps lead |
| | `NoPhaseIsStuck` | `OneWayOut`, types included |
| | `CutTurnsAreOwed` | `CutTurnsRunAgain` |
| `Integration` | `BranchesAreWhole` | `HandedOutWhole`, types included |
| | `CommitsAreJudged` | `CommittedIsJudged` |
| | `StandingIsTold` | `StandsOnlyWhenToldSo` |
| | `TakenDownIsThere` | `TakenDownIsKept` |
| `Waves` | `WavesAreWhatArrived` | `OnlyArrived` |
| | `WavesStandOnPassed` | `BuiltOnPassing` |
| | `EveryWaveIsBuilt` | `DoneIsBuilt`, types included |
| `Coordinator` | `NothingToldTwice`, `BudgetIsOfTheRun` | `ToldOnce`, `WithinBudget` |

No theorem assumes anything of how runs, agents or operators behave. Where the code
lets one of them break what it promises, the property names that one step as its
exception, by a history variable, and the theorem says that there is no other way:
`robbed` (`SlotsAreExclusive`, `OneRunsSlots`), `mixed` (`GreenIsGreen`), `edited`
(`CommitsAreJudged`), `byHand` (`OnlyApprovedMerges`). Each exception is reached on the
instance of its run.

Two refinements, `OneRunsSlots` and `GatesKeepThePromise`, are in no run: TLC finds
both true on the instances of `slots` and `gates` (the property is `SlotsAreShared`
of the one module, `ImplementsAtomicLeases` of the other), and what they say is for
every instance.

*Arguments.* None of these is inductive alone.

- **Pools.** Capacity is decided on counters, so they must equal the leases they
  count (`HeldCountsLeases`); a walk that grants several holders is sound only if
  "in front of" is an order of the waiters alone (`QueueOrder`); that nobody
  stalls needs both. `PoolInv` is their conjunction. Every operation either pumps
  a queue it prepared or leaves the counters alone (`StepPumps`); what it prepares
  is sound (`ArrivalHanded`, `ReturnHanded`, `GrowthHanded`); a walk of a sound
  queue stays within capacity (`WalkWithinCapacity`) and leaves somebody only when
  somebody else holds or a poll is armed (`WalkLeavesNoStall`, through the front
  of a finite order). The two orders of grants are action properties of the same
  walk, and the refinement is a walk mapped to `Settle`. That the walk is the loop
  goes front by front (`FrontByFront`): there is a walk of every queue
  (`WalkExists`), two would differ first at a waiter that sees the same in front of
  it (`WalkIsOne`), and what the loop has counted, reserved and granted after a
  front is what the walk says of it (`KnownAfterOne`).
- **Host slots.** `SlotInv` adds what a run relies on between two system calls:
  the file it is about to write or remove is its own (`OwnFile`), and what it
  read is still so when it judges, and nobody's when it unlinks, as long as the slot
  has the file it read (`StillStale`); an unlink of any other file of a live run is
  what `robbed` records.
- **Agent leases.** The queue is a finite order (`Ordered`) whose first waits for a
  slot that is taken (`PoolSound`); a wait is parked, has its lease or is on its way
  back, never two of them (`OneHand`), each request knows of its wait what the pool
  does (`Told`), and a wait nobody watches is on a clock (`Attended`). A grant is a `Settle` of the abstract pools, a request that comes back a stutter.
- **Agent gates.** What a flight says of its place is what the pool says
  (`InPlace`), and one that may still queue is of the live turn of a run that is not
  draining (`Timely`). The end of a turn is the hard step: its lease, its wait and
  its flights leave in an order the pool can grant in between, and whoever was
  first without the lease is first without the flights too (`FirstStaysFirst`), which
  makes of it one return of the abstract pool, or one giving up. A
  stall is told from what the step remembers: a gate is run again only because it
  is the red one on this tree (`RerunSound`). A green phase is a second invariant,
  `TruthInv`: what is stored, hashed and passed is true of the tree it is of, unless
  the run was edited under (`StoredTruly`, `HashedTruly`, `PassedTruly`).
- **Admission.** A notice is out exactly when a wait is on disk (`WaitInv`), in
  every order of refusals, timers, crashes and boots. `NoStaleSpawn` is an action
  property: it follows from the checks of `admit` after its awaits alone, and that
  is what the theorem shows about them. For `SlotsAccounted` the callers inside
  `admit` are those who stand in the line, those who spawn are past its gate, and
  nobody is left in it while there is room (`LineInv`). `#pump` and the chain of
  fallbacks are steps repeated from a start; that there is such a run, and what its
  end is like, is shown once for any set closed under the step (`Repeats`).
- **Scheduler.** `SchedInv` says of every node that it is `Sound` (its leases,
  status and timers are those of the place its body is in), that a deferral is
  asked once, that a node whose session is being killed is still in the turn or
  out of it, that what is blocked has a cause (`Caused`) and that a loop that
  sleeps has nothing to do (`SleepMissesNothing`). Every handler is a chain of a
  few operators; a lemma for each says what it leaves of the others (`Others`)
  and takes from its node (`Less`), and that the last one *lands*: all nodes are
  sound after it (`Lands`). Actions then follow by composition (`LandsThen`), and
  only two of them, the grants, add a lease (`OneMore`). Whoever changes what the
  loop decides on wakes it, or changes it to what the loop would not start.
- **Phase.** `Good` is the shape of a phase: what each `pc` may have in its other
  fields (`Placed`) and that a phase past its gates or its review has earned it
  since its last edit, or was stepped to its merge (`Earned`). `Entered`, `Sent`, `Stepped` and `Boundary` preserve
  it, and every action is one of them after a few fields. `Whole` adds the types
  and the counters the guards of the transitions are decided on, which `OneWay`
  turns into exactly one way out for each state; a second shape has what a turn
  that was cut owes.
- **Integration.** The worktree is where the turn is, and has a merge in it only
  while one of the turn's is not concluded (`Placed`); what is being merged is what
  the turn is at and is still in its branch (`StillThere`). For `HandedOutWhole`, a
  member is there or still to be merged (`Whole`), which a turn that keeps a branch
  has from the list of what it missed (`MissingIs`), and nothing is there of a
  history its phase no longer has (`Current`). What was kept from a refused commit
  had passed, unless somebody staged something since (`Saved`), which is what concluding
  it later rests on. A merge that
  stands between turns though nothing was said is of a plan branch that has moved
  (`Standing`), so that it makes the worktree busy.
- **Waves.** Whoever is counted has come to its merge (`Reaches`), and what a turn
  is about to merge was complete when it was counted, in the plan it carries
  (`TurnCounted`); an amendment cannot add to it. What a turn passes over is gated
  or was cut (`GatedOrCut`, `Climbs`). For `DoneIsBuilt` it is known where everybody is
  (`Placed`), and either somebody still comes to a merge, or all is built, or the
  turn climbs towards what is not with the plan as it is now (`Held`).
- **Coordinator.** What was told is behind the cursor or among the keys
  (`ToldIsPast`), one wake is in the line (`OneWake`), and wakes begun are those
  recorded, the one at work and those cut (`Counts`).

What is a loop in the code is a recursive function in the modules that are proved
about. What the proofs need of one is shown with a set that every step stays in, or
for a smallest counterexample (`WFMin` of `WellFoundedInduction`), the induction
rules themselves being out of the prover's reach.

## What is only model-checked

Liveness everywhere (`EveryWaitEnds`, `DeadSlotsComeBack`, `EveryPlaceSettles`,
`StepsConclude`, `SleepersWake`, `HaltDrains`, `UnattendedEnds`, `TurnEnds`,
`TurnComes`, `TroubleIsTold`): temporal reasoning under fairness is out of the
prover's reach. Every invariant and every action property of the runs is a
theorem.

## Not modelled

Of the components the models cover: needs that differ (leases, gates), codegen
flights, judge gates and `--full` (gates), several harnesses and a
spawn that throws, which would keep its slot (`admission/admission.ts:363`) and which
no adapter in the tree does (admission), crew,
login questions, amendments, takeover, redirect and the counts of failures alike that
decide between a timer and a watch (scheduler), other pipelines and an operator's own
edits during a hold (phase), pull requests, codegen, reverted deletions and
merging the plan branch into a later wave (integration), named branches (waves),
what the agent may do when it is woken and triggers about elapsed time
(coordinator).

`Scheduler` and `Phase` are not composed: the first takes any pipeline, so what it
shows holds of the standard one; the second takes a node with its lane. Nor are
`Waves` and `Integration`: the first takes any outcome of a merge.

The components without a model are listed in `PROJECT.json`, each with its reason.
Most of the repository's lines are theirs, and are of four kinds: handlers,
command line and interfaces that forward to the parts above; adapters whose
answers are the inputs of a model (a refusal, a dead pid, a red gate); read-only
folds over the journal; and prompts, schemas and rendering. A model of those would
restate them. Landing, amendments, the journal and the review store do carry
state of their own and are the plan.

## Plan

1. **Amendments** over `Scheduler` and `Waves`, whose graph then varies while
   bodies run: what `adopt` may touch.
2. **Journal**: a crash between an effect and its event, with an abstract run
   that a resumed one refines; `Seeded` is where it meets `Scheduler`.
3. **Landing** beside the turns of `Integration`; the **review lock** (`HostSlots`
   with an age for a pid).
4. **Halts in Phase**, with the list of chores one turn at a time; crew and
   sessions as operators against their rules.
