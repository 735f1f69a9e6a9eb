-------------------------------- MODULE Phase --------------------------------
(***************************************************************************)
(* One phase on its way through the standard pipeline                        *)
(* (packages/vinta-ai-maestro/src/pipeline/standard.ts), as the interpreter   *)
(* runs it (pipeline/interpreter.ts) and the scheduler drives it              *)
(* (scheduler/scheduler.ts, #drive, #chores, #runGate): the fix, review and   *)
(* budget loops, the questions and who answers them, attempts, and the verbs  *)
(* that move a phase under its operator's hands: answer, pause, interrupt,    *)
(* resume, reassign and step.                                                 *)
(*                                                                            *)
(* Lanes, pools, aborts, halts and the question a failure asks are Scheduler; *)
(* here a failed attempt is retried or it is not.  The run is unattended: a   *)
(* budget question has a timer.                                               *)
(***************************************************************************)
EXTENDS Integers

CONSTANTS
    Limits,      \* the max_fix_rounds a plan may give the phase
    Unlimited,   \* the one of a plan that gives none
    Reviews, Polish, AfterPr,  \* how many chores the phase has of each timing
    Fatal,       \* the states whose chores have on_failure: fail
    StepTo,      \* where the operator moves the pipeline by hand
    MaxAttempts, MaxOps, MaxFalls, MaxAsks \* bounds: attempts, the operator's
                 \* acts, turns and steps that break, questions of agents

ASSUME LimitsType == Unlimited \notin Nat /\ Limits \subseteq Nat \cup {Unlimited}
ASSUME ChoresType == {Reviews, Polish, AfterPr} \subseteq Nat /\ Fatal \subseteq {"polish", "integrate"}
ASSUME BoundsType == {MaxAttempts, MaxOps, MaxFalls, MaxAsks} \subseteq Nat /\ MaxAttempts > 0

VARIABLES phase, attempt, ops, falls, asks

vars == <<phase, attempt, ops, falls, asks>>

State == {"implement", "gate", "fix", "exhausted", "review", "unapproved",
          "polish", "verify", "integrate", "done", "failed"}
Final == {"done", "failed"}
Questions == {"exhausted", "unapproved"}

ASSUME StepsType == StepTo \subseteq State \ Final

Turns == [implement |-> 1, fix |-> 1, review |-> Reviews, polish |-> Polish, integrate |-> AfterPr]

Running == {"spawn", "turn", "gate", "merge", "asking"}
Parked == {"asked", "question", "hold"}

PhaseState == [
    at : State,
    pc : Running \cup Parked \cup {"done", "failed"},
    left : 0 .. Reviews + Polish + AfterPr + 1, \* turns its state has yet to run
    limit : Limits, rounds : Nat,               \* fixRounds
    \* the guards' facts: gate, review.verdict, human.answer
    gate : {"none", "green", "red", "stalled"}, verdict : {"none", "pass", "fail"},
    answer : {"none", "continue", "accept", "stop", "resume", "step"},
    red : {"none", "red", "fixed"},             \* lastRed, and its fixedSince
    moved : BOOLEAN,                            \* the tree is not the red one
    given : [Questions -> 0 .. 2],              \* unattendedGiven, past 2 is 2
    timer : {"none", "armed", "rearm"}, held : BOOLEAN,
    pause : BOOLEAN, hold : BOOLEAN, cut : BOOLEAN, reassign : BOOLEAN,
    step : StepTo \cup {"none"},
    again : BOOLEAN,                            \* the `cut` of #drive, while it parks
    \* history: the last red was not the one before, the tree passed in full,
    \* was approved, the merge was entered by hand, and the state whose turn was
    \* cut and has to run again
    news : BOOLEAN, verified : BOOLEAN, approved : BOOLEAN, byHand : BOOLEAN,
    owed : State \cup {"none"}]

----------------------------------------------------------------------------
(* The pipeline: its transitions, and the guards on them *)

\* Fault: a fix goes to the gates that merge, past the review.
ShortEdge(from, on, to) ==
    [from |-> from, on |-> on, to |-> IF from = "fix" THEN "verify" ELSE to]

Edge(from, on, to) == [from |-> from, on |-> on, to |-> to]

Transitions == {
    Edge("implement", "always", "gate"),
    Edge("gate", "green", "review"), Edge("gate", "fixable", "fix"), Edge("gate", "spent", "exhausted"),
    Edge("fix", "always", "gate"),
    Edge("exhausted", "continue", "fix"), Edge("exhausted", "notContinue", "failed"),
    Edge("review", "pass", "polish"), Edge("review", "notPass", "unapproved"),
    Edge("unapproved", "continue", "review"), Edge("unapproved", "accept", "polish"),
    Edge("unapproved", "neither", "failed"),
    Edge("polish", "always", "verify"),
    Edge("verify", "green", "integrate"), Edge("verify", "fixable", "fix"), Edge("verify", "spent", "exhausted"),
    Edge("integrate", "always", "done")}

Fixable(q) == q.gate = "red" /\ (q.limit = Unlimited \/ q.rounds < q.limit)

\* Fault: the budget is spent one round later than it runs out.
SpentLate(q) == q.gate = "stalled" \/ (q.gate = "red" /\ q.limit # Unlimited /\ q.rounds > q.limit)

Spent(q) == q.gate = "stalled" \/ (q.gate = "red" /\ q.limit # Unlimited /\ q.rounds >= q.limit)

\* A missing fact makes a comparison false.
Guard(q) == [
    always |-> TRUE, green |-> q.gate = "green", fixable |-> Fixable(q), spent |-> Spent(q),
    pass |-> q.verdict = "pass", notPass |-> q.verdict # "pass",
    continue |-> q.answer = "continue", notContinue |-> q.answer # "continue",
    accept |-> q.answer = "accept", neither |-> q.answer \notin {"continue", "accept"}]

Ways(q) == {e \in Transitions : e.from = q.at /\ Guard(q)[e.on]}

----------------------------------------------------------------------------
(* What the handlers are made of: each takes the phase and gives it back *)

\* A state is entered, and its effects begin.
Entered(q, s) ==
    LET r == [q EXCEPT !.at = s, !.owed = IF @ = s THEN "none" ELSE @] IN
    CASE s \in {"gate", "verify"} -> [r EXCEPT !.pc = "gate"]
      [] s \in Questions -> [r EXCEPT !.pc = "asking"]
      [] s = "integrate" -> [r EXCEPT !.pc = "merge"]
      [] s \in Final -> [r EXCEPT !.pc = s]
      [] s = "review" -> [r EXCEPT !.pc = "spawn", !.left = Turns[s], !.verdict = "pass",
                                   !.approved = FALSE]
      [] OTHER -> [r EXCEPT !.pc = "spawn", !.left = Turns[s]]

\* send: the one transition that matches.  `continue` on a budget grants it again.
Sent(q) ==
    IF Ways(q) = {} THEN [q EXCEPT !.pc = "failed"]
    ELSE LET to == (CHOOSE e \in Ways(q) : TRUE).to IN
         Entered([q EXCEPT !.rounds = IF q.at = "exhausted" /\ to = "fix" THEN 0 ELSE @,
                           !.byHand = FALSE,
                           !.approved = @ \/ (q.at = "unapproved" /\ to = "polish")], to)

\* enter, where a step says: past the review, or past the gates as well, by a
\* person's word.
Stepped(q) ==
    Entered([q EXCEPT !.step = "none", !.owed = "none", !.byHand = q.step = "integrate",
                      !.approved = @ \/ q.step \in {"polish", "verify"}], q.step)

\* Fault: a cut turn is taken for one that ended.
BoundaryForgets(q) ==
    LET r == [q EXCEPT !.pause = FALSE, !.hold = FALSE, !.cut = FALSE, !.reassign = FALSE] IN
    IF q.step # "none" THEN Stepped(r)
    ELSE IF q.reassign THEN Sent(r)
    ELSE IF q.pause \/ q.hold THEN [r EXCEPT !.pc = "hold", !.held = q.hold]
    ELSE Sent(q)

\* #drive between two steps: a verb that waited for it, or the next transition.
Boundary(q) ==
    LET r == [q EXCEPT !.pause = FALSE, !.hold = FALSE, !.cut = FALSE, !.reassign = FALSE] IN
    IF q.step # "none" THEN Stepped(r)
    ELSE IF q.reassign THEN IF q.cut THEN Entered(r, q.at) ELSE Sent(r)
    ELSE IF q.pause \/ q.hold THEN [r EXCEPT !.pc = "hold", !.held = q.hold, !.again = q.cut]
    ELSE Sent(q)

\* A turn of the implementer or the fixer ends.
Worked(q, m) ==
    [q EXCEPT !.pc = "spawn", !.left = 0, !.moved = @ \/ m,
              !.rounds = IF q.at = "fix" /\ q.limit # Unlimited THEN @ + 1 ELSE @,
              !.red = IF q.at = "fix" /\ @ = "red" THEN "fixed" ELSE @]

\* A review ends: the first that does not approve is the last.
Reviewed(q, v) ==
    [q EXCEPT !.pc = "spawn", !.left = IF v = "pass" THEN @ - 1 ELSE 0,
              !.verdict = IF v = "pass" THEN @ ELSE "fail"]

\* Any other chore ends, well or not, or is skipped.
Chored(q, m) == [q EXCEPT !.pc = "spawn", !.left = @ - 1, !.moved = @ \/ (m /\ q.at = "polish")]

\* A chore the phase may go on without.
Dispensable(q) == q.at \in {"polish", "integrate"} \ Fatal

\* #restartAttempt, and a new run of the pipeline.
Restarted(q) ==
    Entered([q EXCEPT !.rounds = 0, !.given = [k \in Questions |-> 0],
                      !.gate = "none", !.verdict = "none", !.answer = "none", !.red = "none",
                      !.cut = FALSE, !.step = "none", !.moved = FALSE, !.news = FALSE,
                      !.verified = FALSE, !.approved = FALSE, !.byHand = FALSE, !.owed = "none"], "implement")

Blank == [
    at |-> "implement", pc |-> "spawn", left |-> 1, limit |-> Unlimited, rounds |-> 0,
    gate |-> "none", verdict |-> "none", answer |-> "none", red |-> "none", moved |-> FALSE,
    given |-> [k \in Questions |-> 0], timer |-> "none", held |-> FALSE,
    pause |-> FALSE, hold |-> FALSE, cut |-> FALSE, reassign |-> FALSE, step |-> "none",
    again |-> FALSE, news |-> FALSE, verified |-> FALSE, approved |-> FALSE, byHand |-> FALSE,
    owed |-> "none"]

Init ==
    /\ phase \in {[Blank EXCEPT !.limit = l] : l \in Limits}
    /\ attempt = 1 /\ ops = 0 /\ falls = 0 /\ asks = 0

Becomes(q) == phase' = q

----------------------------------------------------------------------------
(* Steps *)

\* The next turn of a state is admitted, or the state's work is over.
Spawn ==
    /\ phase.pc = "spawn"
    /\ Becomes(IF phase.left = 0
               THEN Boundary([phase EXCEPT !.approved = @ \/ (phase.at = "review" /\ phase.verdict = "pass")])
               ELSE [phase EXCEPT !.pc = "turn",
                        !.verified = @ /\ phase.at \notin {"implement", "fix", "polish"},
                        !.approved = @ /\ phase.at \notin {"implement", "fix"}])
    /\ UNCHANGED <<attempt, ops, falls, asks>>

TurnEnds ==
    /\ phase.pc = "turn"
    /\ CASE phase.at = "review" -> \E v \in {"pass", "fail"} : Becomes(Reviewed(phase, v))
         [] phase.at \in {"implement", "fix"} -> \E m \in BOOLEAN : Becomes(Worked(phase, m))
         [] OTHER -> \E m \in BOOLEAN : Becomes(Chored(phase, m))
    /\ UNCHANGED <<attempt, ops, falls, asks>>

\* A turn that stops on a question: it is not over while it is asked.
AgentAsks ==
    /\ phase.pc = "turn"
    /\ asks < MaxAsks /\ asks' = asks + 1
    /\ Becomes([phase EXCEPT !.pc = "asked", !.timer = "armed"])
    /\ UNCHANGED <<attempt, ops, falls>>

\* #runGate: green, red as it was on the tree it was red on, or red otherwise.
\* A cached red is run afresh first.
GateEnds ==
    /\ phase.pc = "gate"
    /\ \E r \in {"green", "same", "other"} :
        /\ r = "same" => phase.red # "none" /\ ~phase.moved
        /\ Becomes(Boundary(
            [phase EXCEPT
                !.gate = CASE r = "green" -> "green"
                           [] r = "same" /\ phase.red = "fixed" -> "stalled"
                           [] OTHER -> "red",
                !.red = IF r = "green" THEN "none" ELSE "red",
                !.moved = FALSE,
                !.news = r = "other" /\ phase.red # "none",
                !.verified = r = "green" /\ phase.at = "verify"]))
    /\ UNCHANGED <<attempt, ops, falls, asks>>

\* Merged and pushed, with a PR to run the last chores on or without.
MergeEnds ==
    /\ phase.pc = "merge"
    /\ \E n \in {0, AfterPr} : Becomes([phase EXCEPT !.pc = "spawn", !.left = n])
    /\ UNCHANGED <<attempt, ops, falls, asks>>

\* The question is journalled; once the notification is out the phase parks.
Raised ==
    /\ phase.pc = "asking"
    /\ Becomes([phase EXCEPT !.pc = "question", !.timer = "armed"])
    /\ UNCHANGED <<attempt, ops, falls, asks>>

Spawning == phase.pc = "turn" \/ (phase.pc = "spawn" /\ phase.left > 0)

\* A turn, a gate or a merge breaks.
Throws ==
    /\ Spawning \/ phase.pc \in {"gate", "merge"}
    /\ falls < MaxFalls /\ falls' = falls + 1
    /\ Becomes(IF Spawning /\ phase.at = "review" THEN Reviewed(phase, "fail")
               ELSE IF Spawning /\ Dispensable(phase) THEN Chored(phase, FALSE)
               ELSE [phase EXCEPT !.pc = "failed"])
    /\ UNCHANGED <<attempt, ops, asks>>

\* No capacity, for a turn or for the fixer of a merge: the phase is driven again
\* from the start, unless it can skip the turn.  Out of quota, it may move to
\* another harness and take the turn again.
Refused ==
    /\ Spawning \/ phase.pc = "merge"
    /\ falls < MaxFalls /\ falls' = falls + 1
    /\ \/ Becomes(IF Spawning /\ Dispensable(phase) THEN Chored(phase, FALSE) ELSE Restarted(phase))
       \/ phase.pc = "turn" /\ Becomes([phase EXCEPT !.pc = "spawn"])
    /\ UNCHANGED <<attempt, ops, asks>>

NextAttempt ==
    /\ phase.pc = "failed"
    /\ attempt < MaxAttempts /\ attempt' = attempt + 1
    /\ Becomes(Restarted(phase))
    /\ UNCHANGED <<ops, falls, asks>>

----------------------------------------------------------------------------
(* Answers *)

\* #settleQuestion, and what the park it wakes does with it.
Answered(q, a) ==
    LET r == [q EXCEPT !.held = FALSE, !.timer = "none", !.again = FALSE,
                       !.answer = IF q.pc = "asked" THEN @ ELSE a] IN
    IF q.pc = "asked" THEN [r EXCEPT !.pc = "turn"]
    ELSE IF q.step # "none" THEN Stepped(r)
    ELSE IF q.pc = "question" THEN Boundary(r)
    ELSE IF q.again THEN Entered(r, q.at) ELSE Sent(r)

\* Fault: the answers nobody gave are not counted.
Uncounted(q) == q

\* unattendedGiven counts the answer; it is `continue` once, then `stop`.
Counted(q) ==
    IF q.pc = "question" THEN [q EXCEPT !.given[q.at] = IF @ = 2 THEN 2 ELSE @ + 1] ELSE q

TimerFires ==
    /\ phase.pc \in {"question", "asked"} /\ phase.timer = "armed"
    /\ Becomes(IF phase.held THEN [phase EXCEPT !.timer = "rearm"]
               ELSE Answered(Counted(phase),
                        IF phase.at \in Questions /\ phase.given[phase.at] = 0 THEN "continue" ELSE "stop"))
    /\ UNCHANGED <<attempt, ops, falls, asks>>

Act == ops < MaxOps /\ ops' = ops + 1 /\ UNCHANGED <<attempt, falls, asks>>

Answer ==
    /\ Act /\ phase.pc \in Parked
    /\ \E a \in CASE phase.pc = "hold" -> {"resume"}
                  [] phase.at = "unapproved" -> {"continue", "accept", "stop"}
                  [] OTHER -> {"continue", "stop"} :
            Becomes(Answered(phase, a))

----------------------------------------------------------------------------
(* The operator's other verbs *)

\* A body the verbs that wait for its boundary reach.
AtWork == phase.pc \in Running

Cutting(q) == IF q.pc = "turn" THEN [q EXCEPT !.cut = TRUE, !.owed = q.at] ELSE q

Pause ==
    /\ Act
    /\ \/ phase.pc \in Parked /\ Becomes([phase EXCEPT !.held = TRUE])
       \/ AtWork /\ Becomes([phase EXCEPT !.pause = TRUE])

Interrupt ==
    /\ Act /\ AtWork
    /\ Becomes(Cutting([phase EXCEPT !.hold = TRUE]))

\* A verb that waits is withdrawn, but not the memory of the turn it cut; a hold
\* is let go, and a held question gets its timer back.
Resume ==
    /\ Act
    /\ IF phase.pause \/ phase.hold
       THEN Becomes([phase EXCEPT !.pause = FALSE, !.hold = FALSE, !.owed = "none"])
       ELSE IF phase.pc = "hold" THEN Becomes(Answered(phase, "resume"))
       ELSE /\ phase.held
            /\ Becomes([phase EXCEPT !.held = FALSE, !.timer = IF @ = "rearm" THEN "armed" ELSE @])

\* Now, which cuts the turn, or after it; a hold is let go.
Reassign ==
    /\ Act
    /\ \/ AtWork /\ \E q \in {phase, Cutting(phase)} : Becomes([q EXCEPT !.reassign = TRUE])
       \/ phase.pc = "hold" /\ Becomes(Answered(phase, "resume"))

\* A question or a hold is left for `s`, a turn is cut and left for it.
Step ==
    /\ Act
    /\ \E s \in StepTo :
        LET q == [phase EXCEPT !.step = s] IN
        \/ phase.pc \in {"question", "hold"} /\ Becomes(Answered(q, "step"))
        \/ AtWork /\ Becomes([q EXCEPT !.cut = @ \/ phase.pc = "turn"])

----------------------------------------------------------------------------

\* Nothing moves the phase but a person.
Resting ==
    \/ phase.pc = "done" \/ phase.pc = "hold"
    \/ phase.pc = "failed" /\ attempt = MaxAttempts
    \/ phase.pc \in {"question", "asked"} /\ phase.held

Rest == Resting /\ phase.timer # "armed" /\ UNCHANGED vars

Works == Spawn \/ TurnEnds \/ GateEnds \/ MergeEnds \/ Raised \/ TimerFires \/ NextAttempt

Next ==
    \/ Works \/ AgentAsks \/ Throws \/ Refused
    \/ Answer \/ Pause \/ Interrupt \/ Resume \/ Reassign \/ Step
    \/ Rest

Spec == Init /\ [][Next]_vars

\* Turns, gates and merges end, timers fire, and a failed attempt is retried.
FairSpec == Spec /\ WF_vars(Works)

----------------------------------------------------------------------------
(* Properties *)

\* Everything is of its type.
TypeOK ==
    /\ phase \in PhaseState
    /\ attempt \in 1 .. MaxAttempts
    /\ ops \in 0 .. MaxOps /\ falls \in 0 .. MaxFalls /\ asks \in 0 .. MaxAsks

\* Whatever loops, cuts, moves and attempts led to it, what is merged passed its
\* gates in full after the last turn that could edit it, and was approved by
\* the review or by a person after the last turn that wrote it: a red `verify`
\* "goes back through `fix` and `gate` to the review" (standard.ts:49).  The one
\* other way to a merge is a step to `integrate` itself, which is admitted
\* although "The gates still decide" (scheduler.ts:2417): whatever loop or step
\* takes the phase out of there again, that word is not good for the next merge.
MergedAsApproved ==
    phase.pc = "merge" => phase.byHand \/ (phase.verified /\ phase.approved)

\* In every state the pipeline stops in, exactly one way out matches what is
\* known: the doors of a red gate neither overlap nor leave a gap, and no phase
\* is stranded (PipelineStuckError).
OneWayOut ==
    /\ TypeOK
    /\ (phase.pc = "spawn" /\ phase.left = 0) \/ phase.pc = "hold" =>
        \E e \in Ways(phase) : Ways(phase) = {e}

\* A turn that was cut short is run again before the pipeline leaves its state,
\* whoever holds the phase by then, unless the attempt is over or the operator
\* moved it or took the interrupt back ("so nothing is skipped", scheduler.ts:2162).
CutTurnsRunAgain == phase.owed # "none" => phase.at = phase.owed

\* Nobody answering, a phase comes to an end, or to a person's hold: each budget
\* question is answered `continue` once, and a phase with no budget stops when
\* its fixers change nothing, but for a red `verify`: a green `gate` before it makes
\* #runGate forget the last one, so its loop is never told to be stalled.
UnattendedEnds ==
    \/ <>[]Resting
    \/ []<>(phase.limit = Unlimited /\ (phase.moved \/ phase.news \/ phase.at = "verify"))
=============================================================================
