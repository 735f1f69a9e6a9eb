----------------------------- MODULE Scheduler -----------------------------
(***************************************************************************)
(* The scheduler of one run                                                  *)
(* (packages/vinta-ai-maestro/src/scheduler/scheduler.ts): the dispatch loop, *)
(* the body of each node from its lane to its end, failures and what is done  *)
(* about them, questions and their timers, and the operator's verbs: answer,  *)
(* pause, resume, abort, retry and halt.                                      *)
(*                                                                            *)
(* An action is what runs between two awaits.  A pipeline is data, so the     *)
(* next piece of work of a body is any: an agent turn, a gate, a merge, the   *)
(* chores after the PR, a question, or an end.  Lanes and gate pools are      *)
(* counted; the order they are granted in is ResourcePools.                   *)
(***************************************************************************)
EXTENDS Integers, FiniteSets

CONSTANTS
    Node,
    Deps,        \* node -> the nodes it depends on
    Deferred,    \* nodes the plan defers
    Lanes,       \* worktrees
    Gates,       \* capacity of the gate pool
    OnFailure,   \* "retry", "ask" or "stop"
    Retries,     \* automatic attempts a failure gets
    MaxOps,      \* bound: acts of the operator
    MaxFalls     \* bound: attempts that fail or are refused

ASSUME NodeFinite == IsFiniteSet(Node)
ASSUME DepsType == Deps \in [Node -> SUBSET Node] /\ Deferred \subseteq Node
ASSUME CapacityType == Lanes \in Nat \ {0} /\ Gates \in Nat \ {0}
ASSUME PolicyType == OnFailure \in {"retry", "ask", "stop"} /\ Retries \in Nat
ASSUME BoundsType == MaxOps \in Nat /\ MaxFalls \in Nat

VARIABLES
    node,    \* node -> its state (NodeState) and where its body is
    killing, \* nodes whose abort waits for the session's kill
    parked,  \* the harness is parked by admission control
    halt,    \* #halt, "none" for null
    awake,   \* the loop was woken since it last slept
    ended,   \* "no", or the status run_ended was journalled with
    ops, falls

vars == <<node, killing, parked, halt, awake, ended, ops, falls>>
env == <<killing, parked, halt, ended, ops, falls>>

Working == {"prep", "admit", "turn", "gateq", "gate", "merge"}
InLane == Working \cup {"asked", "hold", "wave"}
Parked == {"asked", "hold", "wave", "retry", "deferred"}
Settled == {"done", "failed", "blocked"}
Work == {"admit", "chore", "gateq", "merge"}
Final == {"done", "failed"}

NodeState == [
    st : {"pending", "running", "awaiting_human", "waiting_on_capacity"} \cup Settled,
    pc : {"out", "lane", "judge", "capacity"} \cup Working \cup Parked,
    lane : BOOLEAN, gate : BOOLEAN,          \* leases
    aborted : BOOLEAN, queued : BOOLEAN,     \* retryQueued
    auto : 0 .. Retries,                     \* autoRetries
    thrown : BOOLEAN,                        \* #recover was called from the catch
    pause : BOOLEAN, held : BOOLEAN,
    landed : BOOLEAN, released : BOOLEAN,
    timer : {"none", "armed", "rearm", "watched", "never"}, \* the unattended retry
                                             \* of its question
    stray : SUBSET {"armed", "watched"}]     \* those of questions it left

Fresh == [st |-> "pending", pc |-> "out", lane |-> FALSE, gate |-> FALSE,
          aborted |-> FALSE, queued |-> FALSE, auto |-> 0, thrown |-> FALSE,
          pause |-> FALSE, held |-> FALSE, landed |-> FALSE, released |-> FALSE,
          timer |-> "none", stray |-> {}]

Init ==
    /\ node = [n \in Node |-> Fresh]
    /\ killing = {} /\ parked = FALSE
    /\ halt = "none" /\ awake = TRUE /\ ended = "no"
    /\ ops = 0 /\ falls = 0

\* transitiveDependents, of each node
Below ==
    LET r[k \in 0 .. Cardinality(Node)] ==
            IF k = 0 THEN [n \in Node |-> {m \in Node : n \in Deps[m]}]
            ELSE [n \in Node |-> r[k - 1][n] \cup {m \in Node : Deps[m] \cap r[k - 1][n] # {}}]
    IN r[Cardinality(Node)]

----------------------------------------------------------------------------
(* What the handlers are made of: each takes the nodes and gives them back *)

Released(N, n) == [N EXCEPT ![n].lane = FALSE, ![n].gate = FALSE]

\* Failure containment: only dependents that have not started.
Fail(N, n) ==
    [m \in Node |->
        IF m = n THEN [N[n] EXCEPT !.st = "failed"]
        ELSE IF m \in Below[n] /\ N[m].st = "pending" THEN [N[m] EXCEPT !.st = "blocked"]
        ELSE N[m]]

\* Fault: what the failure blocked stays blocked.
ReopenAlone(N, n) ==
    [N EXCEPT ![n].st = "pending", ![n].aborted = FALSE, ![n].queued = FALSE,
              ![n].pause = FALSE, ![n].held = FALSE, ![n].auto = 0]

\* The node and what its failure blocked go back to pending.
Reopen(N, n) ==
    [m \in Node |->
        IF m = n
        THEN [N[n] EXCEPT !.st = "pending", !.aborted = FALSE, !.queued = FALSE,
                          !.pause = FALSE, !.held = FALSE, !.auto = 0]
        ELSE IF m \in Below[n] /\ N[m].st = "blocked" THEN [N[m] EXCEPT !.st = "pending"]
        ELSE N[m]]

\* A body returns; a retry queued behind it starts now.
Leave(N, n) ==
    LET M == [N EXCEPT ![n].pc = "out", ![n].queued = FALSE, ![n].timer = "none"] IN
    IF N[n].queued /\ N[n].st = "failed" /\ ended = "no" THEN Reopen(M, n) ELSE M

\* Where a halt puts a node.
Unwind(N, n) ==
    LET M == [Released(N, n) EXCEPT ![n].held = FALSE] IN
    Leave(IF N[n].st \in Settled THEN M ELSE [M EXCEPT ![n].st = "pending"], n)

\* The top of #runNode's loop: the lane is asked for, unless the run halts.
Attempt(N, n) == IF halt # "none" THEN Unwind(N, n) ELSE [N EXCEPT ![n].pc = "lane"]

\* Fault: the lane is kept across the question.
RecoverInLane(N, n, thrown) ==
    IF OnFailure = "stop" \/ N[n].aborted THEN Leave(Fail(Released(N, n), n), n)
    ELSE [N EXCEPT ![n].pc = "judge", ![n].thrown = thrown, ![n].gate = FALSE]

\* #recover, up to its await: everything the node held is back.
Recover(N, n, thrown) ==
    LET M == Released(N, n) IN
    IF OnFailure = "stop" \/ N[n].aborted THEN Leave(Fail(M, n), n)
    ELSE [M EXCEPT ![n].pc = "judge", ![n].thrown = thrown]

\* #park
Park(N, n, at) ==
    IF halt # "none" THEN Unwind(N, n)
    ELSE [N EXCEPT ![n].pc = at, ![n].st = "awaiting_human"]

\* The effect door: the one every new piece of work goes through.
Enter(N, n, next) ==
    IF N[n].aborted THEN Leave(Released(N, n), n)
    ELSE IF halt # "none" THEN Unwind(N, n)
    ELSE IF next = "chore" THEN [N EXCEPT ![n].pc = "admit", ![n].landed = TRUE]
    ELSE [N EXCEPT ![n].pc = next]

\* #drive between two steps.
Boundary(N, n, next) ==
    LET M == [N EXCEPT ![n].gate = FALSE] IN
    IF N[n].aborted THEN Leave(Released(M, n), n)
    ELSE IF halt = "cancelled" /\ next \notin Final THEN Unwind(M, n)
    ELSE IF next = "ask" THEN Park(M, n, "asked")
    ELSE IF next = "done" THEN Leave([Released(M, n) EXCEPT ![n].st = "done"], n)
    ELSE IF next = "failed" THEN Recover(M, n, FALSE)
    ELSE IF N[n].pause THEN Park([M EXCEPT ![n].pause = FALSE], n, "hold")
    ELSE Enter(M, n, next)

\* Fault: a landing wakes nobody.
WakesOnStatus(N) ==
    \E n \in Node :
        \/ N[n].st # node[n].st
        \/ N[n].pc = "out" /\ node[n].pc # "out" /\ (halt # "none" \/ node[n].pc = "deferred")

\* Every status change wakes the loop, so do a landing, a body's return under a
\* halt and a deferred body's.  Waking on a status set to itself is left out:
\* the loop finds nothing then.
Wakes(N) ==
    \E n \in Node :
        \/ N[n].st # node[n].st
        \/ N[n].landed # node[n].landed
        \/ N[n].pc = "out" /\ node[n].pc # "out" /\ (halt # "none" \/ node[n].pc = "deferred")

Set(N) == node' = N /\ awake' = (awake \/ Wakes(N))

----------------------------------------------------------------------------
(* The loop *)

Ready(n) ==
    /\ node[n].st = "pending" /\ node[n].pc = "out"
    /\ \A d \in Deps[n] : node[d].st = "done" \/ node[d].landed

\* #dispatchReady.  A deferred node is asked for while its question is not up.
Dispatched ==
    IF halt # "none" THEN node
    ELSE [n \in Node |->
            IF ~Ready(n) THEN node[n]
            ELSE IF n \in Deferred /\ ~node[n].released
            THEN [node[n] EXCEPT !.pc = "deferred", !.st = "awaiting_human"]
            ELSE [node[n] EXCEPT !.pc = "lane", !.st = "running"]]

AllSettled(N) == \A n \in Node : N[n].st \in Settled

HoldsAborted(N) ==
    OnFailure # "stop" /\ \E n \in Node : N[n].aborted /\ N[n].st = "failed"

AwaitingRetry(N) == halt = "none" /\ HoldsAborted(N)

Active(N) == {n \in Node : N[n].pc # "out"}

Deadlocked(N) ==
    /\ \A n \in Node : N[n].st \notin {"running", "awaiting_human", "waiting_on_capacity"}
    /\ ~parked
    /\ \E n \in Node : N[n].st = "pending"

\* Fault: a halted run ends without its drain.
DrainedAtOnce(N) == (AllSettled(N) /\ ~AwaitingRetry(N)) \/ halt # "none"

Drained(N) ==
    \/ AllSettled(N) /\ ~AwaitingRetry(N)
    \/ halt # "none" /\ Active(N) = {}

RunOver(N) == Drained(N) \/ Deadlocked(N)

\* What run_ended says.
Outcome(N) ==
    IF halt # "none" /\ ~(AllSettled(N) /\ ~HoldsAborted(N)) THEN halt
    ELSE IF \A n \in Node : N[n].st = "done" THEN "done" ELSE "failed"

Loop ==
    /\ awake
    /\ node' = Dispatched
    /\ awake' = FALSE
    /\ ended' = IF RunOver(Dispatched) THEN Outcome(Dispatched) ELSE "no"
    /\ UNCHANGED <<killing, parked, halt, ops, falls>>

----------------------------------------------------------------------------
(* A node's body *)

LaneGranted(n) ==
    /\ node[n].pc = "lane"
    /\ Cardinality({m \in Node : node[m].lane}) < Lanes
    /\ Set(IF halt # "none" THEN Unwind(node, n)
           ELSE [node EXCEPT ![n].lane = TRUE, ![n].pc = "prep"])
    /\ UNCHANGED env

GateGranted(n) ==
    /\ node[n].pc = "gateq"
    /\ Cardinality({m \in Node : node[m].gate}) < Gates
    /\ Set([node EXCEPT ![n].gate = TRUE, ![n].pc = "gate"])
    /\ UNCHANGED env

\* Admission lets the session start; nothing is looked at on the way.
Admitted(n) ==
    /\ node[n].pc = "admit"
    /\ Set([node EXCEPT ![n].pc = "turn"])
    /\ UNCHANGED env

\* The lane is prepared and the pipeline starts: no pause is read before it.
Prepared(n) ==
    /\ node[n].pc = "prep"
    /\ \E next \in Work \ {"chore"} : Set(Enter(node, n, next))
    /\ UNCHANGED env

\* A lane that fails is replaced and given back, and the node queues again.
LaneUnhealthy(n) ==
    /\ node[n].pc = "prep"
    /\ falls < MaxFalls /\ falls' = falls + 1
    /\ Set(Attempt(Released(node, n), n))
    /\ UNCHANGED <<killing, parked, halt, ended, ops>>

\* A step ends.
StepEnds(n) ==
    /\ node[n].pc \in {"turn", "gate", "merge"}
    /\ \E next \in Work \cup Final \cup {"ask"} :
        /\ next = "failed" => falls < MaxFalls
        /\ next = "chore" => node[n].pc = "merge"
        /\ Set(Boundary(node, n, next))
        /\ falls' = IF next = "failed" THEN falls + 1 ELSE falls
    /\ UNCHANGED <<killing, parked, halt, ended, ops>>

\* A step throws: preparation, a spawn, a gate, a merge, a stuck pipeline.
Throws(n) ==
    /\ node[n].pc \in Working
    /\ falls < MaxFalls /\ falls' = falls + 1
    /\ Set(IF node[n].pc = "turn" /\ node[n].aborted THEN Leave(Released(node, n), n)
           ELSE Recover(node, n, TRUE))
    /\ UNCHANGED <<killing, parked, halt, ended, ops>>

\* CapacityRetry: a spawn refused, or a window that closed under a turn, which
\* is read after the abort.
Refused(n) ==
    /\ node[n].pc = "admit" \/ (node[n].pc = "turn" /\ ~node[n].aborted)
    /\ falls < MaxFalls /\ falls' = falls + 1
    /\ parked' = TRUE
    /\ Set([Released(node, n) EXCEPT ![n].pc = "capacity", ![n].st = "waiting_on_capacity"])
    /\ UNCHANGED <<killing, halt, ended, ops>>

\* Fault: a halt is not raced against the wait.
CapacityEndsAlone(n) ==
    /\ node[n].pc = "capacity" /\ ~parked
    /\ Set(IF node[n].aborted THEN Leave(node, n)
           ELSE Attempt([node EXCEPT ![n].st = "running"], n))
    /\ UNCHANGED env

CapacityEnds(n) ==
    /\ node[n].pc = "capacity"
    /\ ~parked \/ halt # "none"
    /\ Set(IF node[n].aborted THEN Leave(node, n)
           ELSE IF halt # "none" THEN Unwind(node, n)
           ELSE Attempt([node EXCEPT ![n].st = "running"], n))
    /\ UNCHANGED env

HarnessBack == parked /\ parked' = FALSE /\ UNCHANGED <<node, killing, halt, awake, ended, ops, falls>>

\* What retries for an operator who does not answer: a timer; the first look at
\* inputs that moved, after failures on the same ones; and nothing, after setups
\* that failed alike.  The counts of those failures are not followed.
Unattended(at) == {"armed", "watched"} \cup (IF at = "retry" THEN {"never"} ELSE {})

\* Where a question is asked, unless the run halts.
Armed(N, n, at, t) == IF N[n].pc = at THEN [N EXCEPT ![n].timer = t] ELSE N

\* #recover after its await: another attempt, or the question.
Recovers(n) ==
    /\ node[n].pc = "judge"
    /\ \/ /\ OnFailure = "retry" /\ node[n].auto < Retries
          /\ Set(Attempt([node EXCEPT ![n].auto = @ + 1, ![n].st = "running"], n))
       \/ IF node[n].aborted \/ (halt # "none" /\ node[n].thrown)
          THEN Set(Leave(Fail(node, n), n))
          ELSE \E t \in Unattended("retry") : Set(Armed(Park(node, n, "retry"), n, "retry", t))
    /\ UNCHANGED env

\* The wave its merge completes cannot be built: the node is landed and asks.
WaveFails(n) ==
    /\ node[n].pc = "merge"
    /\ falls < MaxFalls /\ falls' = falls + 1
    /\ \E t \in Unattended("wave") :
        Set(IF node[n].aborted THEN Leave(Released(node, n), n)
            ELSE Armed(Park([node EXCEPT ![n].landed = TRUE], n, "wave"), n, "wave", t))
    /\ UNCHANGED <<killing, parked, halt, ended, ops>>

\* A parked body woken by an abort or a halt.  Thrown inside the catch, it
\* reaches the dispatch's own catch, which fails the node.
Woken(n) ==
    LET N == [node EXCEPT ![n].stray = IF node[n].pc = "retry" /\ node[n].timer \in {"armed", "watched"}
                                       THEN @ \cup {node[n].timer} ELSE @] IN
    /\ node[n].pc \in Parked
    /\ node[n].aborted \/ halt # "none"
    /\ Set(IF node[n].pc = "deferred"
           THEN Leave(IF node[n].aborted THEN N ELSE [N EXCEPT ![n].st = "pending"], n)
           ELSE IF node[n].pc = "retry" /\ node[n].thrown THEN Leave(Fail(N, n), n)
           ELSE IF node[n].aborted THEN Leave(Released(N, n), n)
           ELSE Unwind(N, n))
    /\ UNCHANGED env

----------------------------------------------------------------------------
(* Answers *)

\* A body that can be answered: #park's promise is still out.
Asking(n) == node[n].pc \in Parked /\ ~node[n].aborted /\ halt = "none"

Answered(n) == [node EXCEPT ![n].held = FALSE, ![n].timer = "none", ![n].st = "running"]

\* `retry` to a failure's or a wave's question.
AnswersRetry(n) ==
    Set(IF node[n].pc = "retry" THEN Attempt(Answered(n), n)
        ELSE [Answered(n) EXCEPT ![n].pc = "merge"])

\* An answer the pipeline reads, `resume`, or `skip`: the body goes on.
GoesOn(n) ==
    \E next \in Work \cup Final \cup {"ask"} :
        /\ next = "chore" => node[n].pc = "wave"
        /\ next = "failed" => falls < MaxFalls
        /\ Set(Boundary(Answered(n), n, next))
        /\ falls' = IF next = "failed" THEN falls + 1 ELSE falls

Stops(n) == Set(Leave(Fail(Released(node, n), n), n))

Starts(n) == Set(Leave([node EXCEPT ![n].released = TRUE, ![n].st = "pending"], n))

Act == ended = "no" /\ ops < MaxOps /\ ops' = ops + 1

Answer(n) ==
    /\ Act /\ Asking(n)
    /\ \/ node[n].pc \in {"retry", "wave"} /\ AnswersRetry(n) /\ UNCHANGED falls
       \/ node[n].pc \in {"asked", "hold", "wave"} /\ GoesOn(n)
       \/ node[n].pc \in {"retry", "wave", "deferred"} /\ Stops(n) /\ UNCHANGED falls
       \/ node[n].pc = "deferred" /\ Starts(n) /\ UNCHANGED falls
    /\ UNCHANGED <<killing, parked, halt, ended>>

\* The unattended retry of a node's own question: withheld while it is held.  A
\* watch looks again later.
TimerFires(n) ==
    /\ Asking(n)
    /\ \/ ~node[n].held /\ node[n].timer \in {"armed", "watched"} /\ AnswersRetry(n)
       \/ node[n].held /\ node[n].timer = "armed" /\ Set([node EXCEPT ![n].timer = "rearm"])
    /\ UNCHANGED env

\* A timer or a watch nothing cancelled answers whatever the node is parked on by
\* then.
StrayFires(n) ==
    \E w \in node[n].stray :
        LET left == node[n].stray \ {w}
            N == [node EXCEPT ![n].stray = left]
            B == [Answered(n) EXCEPT ![n].stray = left] IN
        /\ UNCHANGED <<killing, parked, halt, ended, ops, falls>>
        /\ \/ ~Asking(n) /\ Set(N)
           \/ Asking(n) /\ node[n].held /\ w = "armed" /\ Set([N EXCEPT ![n].timer = "rearm"])
           \/ /\ Asking(n) /\ ~node[n].held
              /\ \/ node[n].pc = "retry" /\ Set(Attempt(B, n))
                 \/ node[n].pc = "wave" /\ Set([B EXCEPT ![n].pc = "merge"])
                 \/ /\ node[n].pc \in {"asked", "hold"}
                    /\ \E next \in Work \ {"chore"} : Set(Boundary(B, n, next))
                 \/ node[n].pc = "deferred" /\ Set(Leave(Fail(N, n), n))

----------------------------------------------------------------------------
(* The operator *)

Pause(n) ==
    /\ Act
    /\ \/ Asking(n) /\ ~node[n].held /\ Set([node EXCEPT ![n].held = TRUE])
       \/ /\ node[n].st = "running" /\ ~node[n].pause
          /\ Set([node EXCEPT ![n].pause = TRUE])
    /\ UNCHANGED <<killing, parked, halt, ended, falls>>

\* Fault: a question let go gets no timer back.
ResumeUnarmed(n) ==
    /\ Act
    /\ \/ node[n].pause /\ Set([node EXCEPT ![n].pause = FALSE])
       \/ /\ ~node[n].pause /\ node[n].pc # "hold" /\ node[n].held
          /\ Set([node EXCEPT ![n].held = FALSE])
    /\ UNCHANGED <<killing, parked, halt, ended, falls>>

Resume(n) ==
    /\ Act
    /\ \/ /\ node[n].pause
          /\ Set([node EXCEPT ![n].pause = FALSE]) /\ UNCHANGED falls
       \/ ~node[n].pause /\ node[n].pc = "hold" /\ Asking(n) /\ GoesOn(n)
       \/ /\ ~node[n].pause /\ node[n].pc # "hold" /\ node[n].held
          /\ Set([node EXCEPT ![n].held = FALSE,
                              ![n].timer = IF @ = "rearm" THEN "armed" ELSE @])
          /\ UNCHANGED falls
    /\ UNCHANGED <<killing, parked, halt, ended>>

\* The end of an abort: contained, and what the node held is back.
Aborted(N, n) == Released(Fail(N, n), n)

Abort(n) ==
    LET N == [node EXCEPT ![n].aborted = TRUE, ![n].pause = FALSE, ![n].held = FALSE] IN
    /\ Act
    /\ node[n].st \notin Settled /\ n \notin killing
    /\ IF node[n].pc = "turn"
       THEN Set(N) /\ killing' = killing \cup {n}
       ELSE Set(Aborted(N, n)) /\ UNCHANGED killing
    /\ UNCHANGED <<parked, halt, ended, falls>>

\* The session's kill returns, whether or not its body has left.
KillReturns(n) ==
    /\ n \in killing
    /\ killing' = killing \ {n}
    /\ Set(Aborted(node, n))
    /\ UNCHANGED <<parked, halt, ended, ops, falls>>

\* Fault: the body still unwinding is not waited for.
RetryAtOnce(n) ==
    /\ Act /\ node[n].st = "failed"
    /\ Set(Reopen(node, n))
    /\ UNCHANGED <<killing, parked, halt, ended, falls>>

Retry(n) ==
    /\ Act /\ node[n].st = "failed"
    /\ IF node[n].pc # "out" THEN ~node[n].queued /\ Set([node EXCEPT ![n].queued = TRUE])
       ELSE Set(Reopen(node, n))
    /\ UNCHANGED <<killing, parked, halt, ended, falls>>

Halt(mode) ==
    /\ Act
    /\ halt # mode /\ halt # "cancelled"
    /\ halt' = mode /\ awake' = TRUE
    /\ UNCHANGED <<node, killing, parked, ended, falls>>

----------------------------------------------------------------------------
(* The process, and the next one *)

\* Fault: what the journal says of a node that is over is believed.
SeededSettled ==
    [n \in Node |-> IF node[n].st \in {"done", "blocked"} THEN [Fresh EXCEPT !.st = node[n].st] ELSE Fresh]

\* #seed: `done` is all that outlives the process.
Seeded == [n \in Node |-> IF node[n].st = "done" THEN [Fresh EXCEPT !.st = "done"] ELSE Fresh]

\* The process dies, or the run has ended, and the run is resumed, unless it is
\* done or cancelled.  Admission remembers that the harness is parked.
Restart ==
    /\ ended \notin {"done", "cancelled"}
    /\ ops < MaxOps /\ ops' = ops + 1
    /\ node' = Seeded
    /\ killing' = {} /\ halt' = "none" /\ awake' = TRUE /\ ended' = "no"
    /\ UNCHANGED <<parked, falls>>

----------------------------------------------------------------------------

Body(n) ==
    \/ LaneGranted(n) \/ GateGranted(n) \/ Admitted(n) \/ Prepared(n)
    \/ StepEnds(n) \/ CapacityEnds(n) \/ Recovers(n) \/ Woken(n)

Adversity(n) ==
    LaneUnhealthy(n) \/ Throws(n) \/ Refused(n) \/ WaveFails(n)

Operator(n) ==
    Answer(n) \/ Pause(n) \/ Resume(n) \/ Abort(n) \/ Retry(n)

Over == ended # "no" /\ UNCHANGED vars

Next ==
    \/ /\ ended = "no"
       /\ \/ Loop \/ HarnessBack
          \/ \E n \in Node :
                \/ Body(n) \/ Adversity(n) \/ Operator(n)
                \/ TimerFires(n) \/ StrayFires(n) \/ KillReturns(n)
          \/ \E mode \in {"paused", "cancelled"} : Halt(mode)
    \/ Restart
    \/ Over

Spec == Init /\ [][Next]_vars

FairSpec ==
    /\ Spec
    /\ WF_vars(ended = "no" /\ Loop)
    /\ \A n \in Node : WF_vars(ended = "no" /\ Body(n))

----------------------------------------------------------------------------
(* Properties *)

\* Everything is of its type.
TypeOK ==
    /\ node \in [Node -> NodeState]
    /\ killing \subseteq Node /\ parked \in BOOLEAN /\ awake \in BOOLEAN
    /\ halt \in {"none", "paused", "cancelled"}
    /\ ended \in {"no", "done", "failed", "paused", "cancelled"}
    /\ ops \in 0 .. MaxOps /\ falls \in 0 .. MaxFalls

\* However a body leaves a step, a lane or a gate pool is held by a node that is
\* in the place it is for, and a node at work has not lost its lane, unless it
\* was aborted: nothing is kept across a failure's question or a capacity wait
\* (SPEC 6, 6.1).
LeasesFollowBodies ==
    /\ TypeOK
    /\ \A n \in Node :
        /\ node[n].lane => node[n].pc \in InLane
        /\ node[n].gate => node[n].pc = "gate"
        /\ node[n].pc \in InLane /\ ~node[n].aborted => node[n].lane
    /\ Cardinality({n \in Node : node[n].lane}) <= Lanes
    /\ Cardinality({n \in Node : node[n].gate}) <= Gates

\* A node blocked by failures has one behind it still: it comes back when the
\* last of them is retried.
BlockedHasCause ==
    \A n \in Node : node[n].st = "blocked" =>
        \E m \in Node : n \in Below[m] /\ (node[m].st = "failed" \/ node[m].aborted)

\* No wakeup is lost: while the loop sleeps it has nothing to dispatch and the
\* run is neither settled nor drained.  (A harness that comes back wakes its
\* waiters, not the loop, so a deadlock it hid is not seen until the next wake.)
SleepMissesNothing ==
    ended = "no" /\ ~awake => Dispatched = node /\ ~Drained(node)

\* No body is left over: a retry never starts a second attempt beside one that
\* is still unwinding, and a run that ends leaves nobody at work and nothing held,
\* but for an aborted node, which the deadlock check does not count.
NoBodyLeftOver ==
    \A n \in Node :
        /\ node[n].st = "pending" => node[n].pc = "out"
        /\ ended # "no" =>
            node[n].aborted \/ (node[n].pc = "out" /\ ~node[n].lane /\ ~node[n].gate)

\* A question nobody answers keeps what it was asked with, its timer or its watch,
\* whenever it was held and let go again; only that of a failure may wait for its
\* operator for good ("only the self-answer is withheld", scheduler.ts:3582).
QuestionKeepsTimer ==
    \A n \in Node :
        node[n].pc \in {"retry", "wave"} /\ ~node[n].held /\ Asking(n) =>
            node[n].timer \in Unattended(node[n].pc)

\* A halted run ends, whatever its nodes were in the middle of, or is resumed
\* because its process died.
HaltDrains == halt # "none" ~> ended # "no" \/ halt = "none"
=============================================================================
