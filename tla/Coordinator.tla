---------------------------- MODULE Coordinator ----------------------------
(***************************************************************************)
(* The clock that wakes the run's coordinator beside the run                *)
(* (packages/vinta-ai-maestro/src/coordinator/loop.ts, triggers.ts; the     *)
(* session it shares with the operator, monitor/monitor.ts).                *)
(*                                                                          *)
(* One phase.  What the coordinator does when it is woken is its own; here   *)
(* it may act on the phase, and its turn ends.                              *)
(*                                                                          *)
(* Its names are other than the scheduler's, whose journal it reads, so that *)
(* SchedulerProofs can speak of both.                                        *)
(***************************************************************************)
EXTENDS Integers, Sequences, FiniteSets, SequencesExt

CONSTANTS
    WakeBudget, \* interventionBudget
    MaxLog,     \* BOUND: events of the phase
    MaxCost,    \* BOUND: multiples of its ceiling a gate costs
    MaxErrors,  \* BOUND: errors maestro logs in one process
    MaxActs     \* BOUND: questions of the operator, pauses and deaths, together

ASSUME BoundsAssumption ==
    {WakeBudget, MaxLog, MaxCost, MaxErrors, MaxActs} \subseteq Nat

VARIABLES
    log,      \* the journal's events about the phase
    rows,     \* the journal's `coordinator_woke` rows
    cost,     \* multiples of its ceiling the gate has cost, by the journal
    running,  \* the run's status is `running`
    up,       \* the loop's process is alive
    loop,     \* startCoordinatorLoop's variables
    errors,   \* occurrences of the logged error in this process
    line,     \* Monitor's turns, in order: what the first is told is being told
    acts,
    heard,    \* GHOST trigger -> wakes that told it, but for errors of other processes
    begun,    \* GHOST wakes
    cut       \* GHOST wakes whose process died in them

wakeVars == <<log, rows, cost, running, up, loop, errors, line, acts, heard, begun, cut>>

\* The triggers, by their keys: an event, a multiple of a cost, an occurrence of
\* an error.
Key == ({"event"} \X (1 .. MaxLog)) \cup ({"cost"} \X (1 .. MaxCost)) \cup ({"error"} \X (1 .. MaxErrors))

ask == [by |-> "operator", keys |-> {}]
wake(found) == [by |-> "loop", keys |-> found]

\* Fault: a resumed run's history is news.
FromTheStart(l) == 0

\* lastEventId
LastEvent(l) == Len(l)

\* Fault: a resumed run's coordinator is given its budget again.
WakesAnew(r) == 0

WakesBefore(r) == r

\* startCoordinatorLoop
Started(l, r) ==
    [cursor |-> LastEvent(l), told |-> {}, pending |-> {}, wakes |-> WakesBefore(r),
     cooling |-> FALSE, busy |-> FALSE, exhausted |-> FALSE]

WakeInit ==
    /\ log = <<>> /\ rows = 0 /\ cost = 0 /\ running = TRUE /\ up = TRUE
    /\ loop = Started(log, rows)
    /\ errors = 0 /\ line = <<>> /\ acts = 0
    /\ heard = [k \in Key |-> 0] /\ begun = 0 /\ cut = 0

Spend == acts < MaxActs /\ acts' = acts + 1

----------------------------------------------------------------------------
(* What there is to tell *)

\* The last event of kind `what` before i.
LastOf(what, i) == Max({0} \cup {j \in 1 .. i - 1 : log[j] = what})

\* noteCoordinatorAct: the coordinator acted on the phase since it was last put
\* to `running`.
Handled(i) == LastOf("act", i) > LastOf("running", i)

\* What the journal says went wrong.
Trouble(i) == log[i] = "failed" \/ (log[i] = "error" /\ ~Handled(i))

\* triggersFrom: events since the cursor, costs over the whole run, at the
\* multiple they are at.
TriggersFrom(since) ==
    ({"event"} \X {i \in since + 1 .. Len(log) : Trouble(i)}) \cup ({"cost"} \X ({cost} \ {0}))

\* What the scheduler, or the coordinator in a turn, makes of the phase next: an
\* attempt that failed is followed by another one, a question, or the end.
Follows(what) ==
    LET last == IF log = <<>> THEN "running" ELSE log[Len(log)] IN
    CASE what = "running" -> last # "running"
      [] what = "error" -> last \notin {"error", "failed"}
      [] what = "failed" -> last # "failed"
      [] what = "act" -> line # <<>>

Happens(what) ==
    /\ up /\ running /\ Len(log) < MaxLog /\ Follows(what)
    /\ log' = Append(log, what)
    /\ UNCHANGED <<rows, cost, running, up, loop, errors, line, acts, heard, begun, cut>>

Costs ==
    /\ up /\ running /\ cost < MaxCost
    /\ \E more \in cost + 1 .. MaxCost : cost' = more
    /\ UNCHANGED <<log, rows, running, up, loop, errors, line, acts, heard, begun, cut>>

\* tapErrors and notify: the 1st, 2nd, 4th occurrence.
Logged ==
    /\ up /\ errors < MaxErrors
    /\ errors' = errors + 1
    /\ LET key == <<"error", errors'>> IN
       loop' = IF errors' \in {1, 2, 4} /\ key \notin loop.told
               THEN [loop EXCEPT !.pending = @ \cup {key}] ELSE loop
    /\ UNCHANGED <<log, rows, cost, running, up, line, acts, heard, begun, cut>>

----------------------------------------------------------------------------
(* tick *)

\* collect
Collected(l) ==
    [l EXCEPT !.pending = @ \cup (TriggersFrom(l.cursor) \ l.told), !.cursor = Len(log)]

\* Fault: what cannot be told now is dropped.
DeferredDropped(l) == [l EXCEPT !.pending = {}]

\* Kept for a later tick: a run that is not running, a turn in flight, the
\* cool-down after one.
KeptForLater(l) == l

Tick ==
    /\ up
    /\ LET l == Collected(loop)
           found == l.pending
           telling == [l EXCEPT !.pending = {}, !.told = @ \cup found] IN
       IF found = {} \/ ~running \/ l.busy \/ l.cooling
       THEN loop' = KeptForLater(l) /\ UNCHANGED <<rows, line, heard, begun>>
       ELSE IF l.wakes >= WakeBudget
       THEN /\ loop' = [telling EXCEPT !.exhausted = TRUE]
            /\ rows' = IF l.exhausted THEN rows ELSE rows + 1     \* budget_spent
            /\ UNCHANGED <<line, heard, begun>>
       ELSE /\ loop' = [telling EXCEPT !.wakes = @ + 1, !.busy = TRUE, !.cooling = TRUE]
            /\ line' = Append(line, wake(found))
            /\ heard' = [k \in Key |-> IF k \in found THEN heard[k] + 1 ELSE heard[k]]
            /\ begun' = begun + 1
            /\ UNCHANGED rows
    /\ UNCHANGED <<log, cost, running, up, errors, acts, cut>>

CooldownEnds ==
    /\ up /\ loop.cooling
    /\ loop' = [loop EXCEPT !.cooling = FALSE]
    /\ UNCHANGED <<log, rows, cost, running, up, errors, line, acts, heard, begun, cut>>

----------------------------------------------------------------------------
(* The coordinator's session *)

Ask ==
    /\ up /\ Spend
    /\ line' = Append(line, ask)
    /\ UNCHANGED <<log, rows, cost, running, up, loop, errors, heard, begun, cut>>

\* The turn in front ends, or cannot be had; a wake is recorded either way.
TurnEnds ==
    /\ up /\ line # <<>>
    /\ line' = Tail(line)
    /\ IF Head(line).by = "loop"
       THEN rows' = rows + 1 /\ loop' = [loop EXCEPT !.busy = FALSE]
       ELSE UNCHANGED <<rows, loop>>
    /\ UNCHANGED <<log, cost, running, up, errors, acts, heard, begun, cut>>

----------------------------------------------------------------------------
(* The run around it *)

\* Everything waits for capacity or a person, or goes on.
StatusMoves ==
    /\ up /\ Spend
    /\ running' = ~running
    /\ UNCHANGED <<log, rows, cost, up, loop, errors, line, heard, begun, cut>>

Dies ==
    /\ up /\ Spend
    /\ up' = FALSE /\ line' = <<>>
    /\ cut' = IF loop.busy THEN cut + 1 ELSE cut
    /\ UNCHANGED <<log, rows, cost, running, loop, errors, heard, begun>>

\* The run is resumed in another process.
Resumes ==
    /\ ~up
    /\ up' = TRUE /\ running' = TRUE
    /\ loop' = Started(log, rows)
    /\ errors' = 0
    /\ heard' = [k \in Key |-> IF k[1] = "event" THEN heard[k] ELSE 0]
    /\ UNCHANGED <<log, rows, cost, line, acts, begun, cut>>

WakeNext ==
    \/ \E what \in {"running", "act", "error", "failed"} : Happens(what)
    \/ Costs \/ Logged \/ Tick \/ CooldownEnds \/ Ask \/ TurnEnds
    \/ StatusMoves \/ Dies \/ Resumes

WakeSpec == WakeInit /\ [][WakeNext]_wakeVars

\* The timer ticks, time passes, and a turn of the coordinator's ends: nothing in
\* the code ends it, so that is the agent's.
WakeFairness == WF_wakeVars(Tick) /\ WF_wakeVars(CooldownEnds) /\ WF_wakeVars(TurnEnds)
WakeFairSpec == WakeSpec /\ WakeFairness

----------------------------------------------------------------------------
(* Properties *)

WakeTypeOK ==
    /\ log \in Seq({"running", "act", "error", "failed"}) /\ Len(log) <= MaxLog
    /\ loop.cursor \in 0 .. Len(log) /\ loop.told \subseteq Key /\ loop.pending \subseteq Key
    /\ up => (loop.busy <=> \E i \in DOMAIN line : line[i].by = "loop")

\* "Once per thing" (loop.ts:14): whatever ticks, notices, deferrals and
\* restarts come in between, an event wakes the coordinator once in the life
\* of the run, and a cost or a logged error once in a process.
ToldOnce == WakeTypeOK /\ \A k \in Key : heard[k] <= 1

\* "A run wakes its coordinator at most `budget` times" (loop.ts:22), over all
\* its processes; but a wake its process died in is not counted by the next,
\* being recorded when it is over.
WithinBudget == begun <= WakeBudget + cut

\* "keeps what it found for the next wake rather than dropping it" (loop.ts:17):
\* trouble in a run that is not over for good wakes the coordinator, unless its
\* budget is spent or the process dies with it.
TroubleIsTold ==
    <>[]running =>
        \A i \in 1 .. MaxLog :
            i \in DOMAIN log /\ i > loop.cursor /\ Trouble(i) ~> heard[<<"event", i>>] > 0 \/ loop.exhausted \/ ~up
=============================================================================
