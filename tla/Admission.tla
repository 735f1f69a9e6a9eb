----------------------------- MODULE Admission -----------------------------
(***************************************************************************)
(* Admission control for one harness                                        *)
(* (packages/vinta-ai-maestro/src/admission): the ceiling on running agents  *)
(* and its priority queue, the one-spawn-at-a-time gate, the shared capacity *)
(* wait, models out of quota and their fallbacks, the login hold, outages,   *)
(* and what of that survives a restart.                                     *)
(*                                                                          *)
(* Everything between two awaits is one action.  A wait's length is          *)
(* abstracted to whether its wake time is still ahead.                      *)
(***************************************************************************)
EXTENDS Integers, Sequences, FiniteSets, Functions

CONSTANTS
    Node,          \* nodes of the run on this harness
    Priority,      \* node -> its height in the graph
    Model,         \* model ids
    NoModel,       \* no fallback
    Want,          \* node -> the model its task asks for
    Fallback,      \* model -> the model to run instead, or NoModel
    Configured,    \* configured ceiling
    IncreaseAfter, \* clean spawns before the ceiling grows
    SerialStart,   \* whether spawns start one at a time
    Kinds,         \* refusal kinds the vendor uses
    CanCrash       \* whether the daemon may die

ASSUME NodeFinite == IsFiniteSet(Node) /\ IsFiniteSet(Model)
ASSUME PriorityType == Priority \in [Node -> Nat]
ASSUME ModelType == Want \in [Node -> Model] /\ Fallback \in [Model -> Model \cup {NoModel}]
ASSUME NoModelType == NoModel \notin Model
ASSUME CeilingType == Configured \in Nat \ {0} /\ IncreaseAfter \in Nat \ {0}
ASSUME FlagType == SerialStart \in BOOLEAN /\ CanCrash \in BOOLEAN
ASSUME KindType == Kinds \subseteq {"concurrency", "rate_limit", "quota", "transient"}

VARIABLES
    up,        \* the daemon runs
    pc,        \* node -> where its call or its turn is
    model,     \* node -> the model its call is on
    found,     \* node -> models its call found out of quota
    line,      \* inFlight, the queue for a slot, the order of starting spawns
    ceiling, clean,
    wake,      \* the wait: "none", wake time "ahead", or "past" with its timer still to run
    notified,
    login,     \* loginRequired # null
    exhausted, \* models out of quota
    outage,    \* state.outage
    waitRow,   \* durable: the wait
    ceilRow,   \* durable: the ceiling hint, 0 for none
    open,      \* durable: what the journal says of outages, "no", "open" or "overdue":
               \*          still open though a turn has completed since
    notices    \* onWait calls since the harness was last free to spawn

vars == <<up, pc, model, found, line, ceiling, clean, wake, notified, login,
          exhausted, outage, waitRow, ceilRow, open, notices>>
call == <<model, found>>
aimd == <<ceiling, clean, ceilRow>>
wait == <<wake, notified, waitRow, notices>>
hold == <<login, outage, open>>

NoLine == [inFlight |-> 0, slots |-> <<>>, gate |-> <<>>]

Init ==
    /\ up = TRUE
    /\ pc = [n \in Node |-> "out"]
    /\ model = Want /\ found = [n \in Node |-> {}]
    /\ line = NoLine
    /\ ceiling = Configured /\ clean = 0
    /\ wake = "none" /\ notified = FALSE /\ notices = 0
    /\ login = FALSE /\ exhausted = {} /\ outage = "none"
    /\ waitRow = "none" /\ ceilRow = 0 /\ open = "no"

----------------------------------------------------------------------------
(* Models and their fallbacks *)

Behind(m) == IF m = NoModel THEN NoModel ELSE Fallback[m]

\* The chain of fallbacks behind model m.
Chain(m) ==
    LET f[k \in 0 .. Cardinality(Model)] == IF k = 0 THEN m ELSE Behind(f[k - 1])
    IN f

\* nextFallback: the first of the chain not out itself, up to a cycle.
NextFallback(m, out) ==
    LET f == Chain(m)
        first == {k \in 1 .. Cardinality(Model) :
                     /\ f[k] \notin out \cup {NoModel}
                     /\ \A j \in 1 .. k - 1 : f[j] \in out
                     /\ \A i, j \in 0 .. k : f[i] = f[j] => i = j}
    IN IF first = {} THEN NoModel ELSE f[CHOOSE k \in first : TRUE]

\* #avoidExhausted: the original again when the whole chain is out.
Avoid(m) ==
    LET next == NextFallback(m, exhausted) IN
    IF m \in exhausted /\ next # NoModel THEN next ELSE m

----------------------------------------------------------------------------
(* The line: slots, then the start gate *)

\* Fault: arrival order only.
BestByArrival(q) == 1

\* The queued slot #pump grants: highest priority, earliest arrival.
Best(q) ==
    CHOOSE i \in DOMAIN q : \A j \in DOMAIN q \ {i} :
        \/ Priority[q[i]] > Priority[q[j]]
        \/ Priority[q[i]] = Priority[q[j]] /\ i < j

Without(q, i) == SubSeq(q, 1, i - 1) \o SubSeq(q, i + 1, Len(q))

Grant(l) ==
    LET i == Best(l.slots) IN
    [inFlight |-> l.inFlight + 1,
     slots |-> Without(l.slots, i),
     gate |-> Append(l.gate, l.slots[i])]

\* One round of the loop of #pump.
Pumped(l, ceil) == IF l.slots # <<>> /\ l.inFlight < ceil THEN Grant(l) ELSE l

\* #pump: grants until the queue is empty or the ceiling reached.
Pump(l, ceil) ==
    LET p[k \in 0 .. Cardinality(Node)] == IF k = 0 THEN l ELSE Pumped(p[k - 1], ceil)
    IN p[Cardinality(Node)]

\* #acquireSlot, and the place in the start gate when granted at once.
Acquire(n, l) ==
    IF l.inFlight < ceiling /\ l.slots = <<>>
    THEN [l EXCEPT !.inFlight = @ + 1, !.gate = Append(@, n)]
    ELSE [l EXCEPT !.slots = Append(@, n)]

\* started(): the next spawn of the gate may go.
Opened(n, l) == [l EXCEPT !.gate = Without(@, CHOOSE i \in DOMAIN @ : @[i] = n)]

\* Fault: the gate is not handed on.
GivenBackSlot(n, ceil) == Pump([line EXCEPT !.inFlight = @ - 1], ceil)

\* started(), then #releaseSlot.
GivenBack(n, ceil) == Pump([Opened(n, line) EXCEPT !.inFlight = @ - 1], ceil)

----------------------------------------------------------------------------
(* The wait *)

Remembered(ceil) == IF ceil >= Configured THEN 0 ELSE ceil

Halved == IF ceiling \div 2 >= 1 THEN ceiling \div 2 ELSE 1

Later(a, b) == IF "ahead" \in {a, b} THEN "ahead" ELSE "past"

\* waitLog.record
Record(w) == waitRow' = w

\* onWait, once for the window.
Notify ==
    /\ notified' = TRUE
    /\ notices' = IF notified \/ notices = 2 THEN notices ELSE notices + 1

\* #outageStarted
OutageStarts(cause) ==
    /\ outage' = IF outage = "none" THEN cause ELSE outage
    /\ open' = IF outage = "none" /\ open = "no" THEN "open" ELSE open

Shrink(kind) ==
    IF kind \in {"concurrency", "rate_limit"}
    THEN ceiling' = Halved /\ ceilRow' = Remembered(Halved)
    ELSE UNCHANGED <<ceiling, ceilRow>>

\* #park: until a stated reset, which may be past already, or a backoff.
Park(kind) ==
    /\ clean' = 0
    /\ Shrink(kind)
    /\ \E until \in {"ahead", "past"} : wake' = Later(wake, until) /\ Record(wake')
    /\ IF kind = "transient" THEN OutageStarts("network") ELSE UNCHANGED <<outage, open>>
    /\ Notify
    /\ UNCHANGED login

----------------------------------------------------------------------------
(* admit *)

\* The head of the loop in admit, entered with the line as l.
Attempt(n, l) ==
    IF login THEN pc' = [pc EXCEPT ![n] = "asking"] /\ line' = l
    ELSE IF wake = "ahead" THEN pc' = [pc EXCEPT ![n] = "retry"] /\ line' = l
    ELSE pc' = [pc EXCEPT ![n] = "admitting"] /\ line' = Acquire(n, l)

Admit(n) ==
    /\ up /\ pc[n] = "out"
    /\ model' = [model EXCEPT ![n] = Avoid(Want[n])]
    /\ found' = [found EXCEPT ![n] = {}]
    /\ Attempt(n, line)
    /\ UNCHANGED <<up, aimd, wait, hold, exhausted>>

AtGate(n) ==
    /\ up /\ pc[n] = "admitting" /\ n \in Range(line.gate)
    /\ SerialStart => Head(line.gate) = n

\* Fault: what happened while queueing is not looked at again.
StartUnchecked(n) ==
    /\ AtGate(n)
    /\ pc' = [pc EXCEPT ![n] = "spawning"]
    /\ UNCHANGED <<up, call, line, aimd, wait, hold, exhausted>>

\* After the slot and the gate: the conditions are looked at again.
Start(n) ==
    /\ AtGate(n)
    /\ IF login \/ wake = "ahead"
       THEN /\ pc' = [pc EXCEPT ![n] = IF login THEN "asking" ELSE "retry"]
            /\ line' = GivenBack(n, ceiling)
            /\ UNCHANGED call
       ELSE /\ pc' = [pc EXCEPT ![n] = "spawning"]
            /\ model' = [model EXCEPT ![n] = Avoid(model[n])]
            /\ UNCHANGED <<line, found>>
    /\ UNCHANGED <<up, aimd, wait, hold, exhausted>>

\* Fault: a grown ceiling waits for the next release to be used.
OnCleanQuiet(l) ==
    /\ clean' = IF clean + 1 < IncreaseAfter THEN clean + 1 ELSE 0
    /\ ceiling' = IF clean' = 0 /\ ceiling < Configured THEN ceiling + 1 ELSE ceiling
    /\ ceilRow' = IF ceiling' # ceiling THEN Remembered(ceiling') ELSE ceilRow
    /\ line' = l

\* #onClean
OnClean(l) ==
    IF clean + 1 < IncreaseAfter
    THEN clean' = clean + 1 /\ line' = l /\ UNCHANGED <<ceiling, ceilRow>>
    ELSE /\ clean' = 0
         /\ ceiling' = IF ceiling < Configured THEN ceiling + 1 ELSE ceiling
         /\ ceilRow' = IF ceiling' # ceiling THEN Remembered(ceiling') ELSE ceilRow
         /\ line' = Pump(l, ceiling')

SpawnOk(n) ==
    /\ up /\ pc[n] = "spawning"
    /\ pc' = [pc EXCEPT ![n] = "running"]
    /\ OnClean(Opened(n, line))
    /\ UNCHANGED <<up, call, wait, hold, exhausted>>

\* fatal, stale_session: an answer about the task, not about the harness.
SpawnFails(n) ==
    /\ up /\ pc[n] = "spawning"
    /\ pc' = [pc EXCEPT ![n] = "out"]
    /\ line' = GivenBack(n, ceiling)
    /\ UNCHANGED <<up, call, aimd, wait, hold, exhausted>>

SpawnUnauthenticated(n) ==
    /\ up /\ pc[n] = "spawning"
    /\ pc' = [pc EXCEPT ![n] = "asking"]
    /\ line' = GivenBack(n, ceiling)
    /\ login' = TRUE /\ OutageStarts("auth")
    /\ UNCHANGED <<up, call, aimd, wait, exhausted>>

\* Out of quota, with something to fall back to: the loop goes round.
SpawnFallsBack(n) ==
    LET next == NextFallback(model[n], exhausted) IN
    /\ up /\ pc[n] = "spawning" /\ "quota" \in Kinds /\ next # NoModel
    /\ exhausted' = exhausted \cup {model[n]}
    /\ found' = [found EXCEPT ![n] = @ \cup {model[n]}]
    /\ model' = [model EXCEPT ![n] = next]
    /\ Attempt(n, GivenBack(n, ceiling))
    /\ UNCHANGED <<up, aimd, wait, hold>>

\* Any other refusal parks the harness; one for quota forgets what the call found.
SpawnRefused(n, kind) ==
    /\ up /\ pc[n] = "spawning"
    /\ kind = "quota" => NextFallback(model[n], exhausted) = NoModel
    /\ exhausted' = IF kind = "quota" THEN exhausted \ found[n] ELSE exhausted
    /\ pc' = [pc EXCEPT ![n] = "retry"]
    /\ line' = GivenBack(n, ceiling)
    /\ Park(kind)
    /\ UNCHANGED <<up, call>>

----------------------------------------------------------------------------
(* The turn, and what the scheduler tells admission when it ends *)

Released(n) == Pump([line EXCEPT !.inFlight = @ - 1], ceiling)

\* The stream ends and release() runs; then, before any await, the report.
TurnEnds(n, next) ==
    /\ up /\ pc[n] = "running"
    /\ pc' = [pc EXCEPT ![n] = next]
    /\ line' = Released(n)
    /\ UNCHANGED <<up, call>>

\* Aborted, or an error that says nothing about the harness.
TurnFails(n) == TurnEnds(n, "out") /\ UNCHANGED <<aimd, wait, hold, exhausted>>

TurnCompleted(n) ==
    /\ TurnEnds(n, "out")
    /\ outage' = "none"
    /\ open' = IF outage # "none" \/ open = "no" THEN "no" ELSE "overdue"
    /\ UNCHANGED <<aimd, wait, login, exhausted>>

LoginLapsed(n) ==
    /\ TurnEnds(n, "out")
    /\ login' = TRUE /\ OutageStarts("auth")
    /\ UNCHANGED <<aimd, wait, exhausted>>

RefusedMidTurn(n, kind) ==
    LET next == NextFallback(model[n], exhausted) IN
    IF kind = "quota" /\ next # NoModel
    THEN /\ TurnEnds(n, "out")
         /\ exhausted' = exhausted \cup {model[n]}
         /\ UNCHANGED <<aimd, wait, hold>>
    ELSE TurnEnds(n, "retry") /\ Park(kind) /\ UNCHANGED exhausted

----------------------------------------------------------------------------
(* The caller's wait, the timer, the operator, the vendor *)

\* outcome.wait(), any time after the refusal.
Wait(n) ==
    /\ up /\ pc[n] = "retry"
    /\ pc' = [pc EXCEPT ![n] = IF wake = "ahead" THEN "sleeping" ELSE "out"]
    /\ UNCHANGED <<up, call, line, aimd, wait, hold, exhausted>>

TimePasses ==
    /\ waitRow = "ahead" \/ wake = "ahead"
    /\ waitRow' = IF waitRow = "ahead" THEN "past" ELSE waitRow
    /\ wake' = IF wake = "ahead" THEN "past" ELSE wake
    /\ UNCHANGED <<up, pc, call, line, aimd, notified, notices, hold, exhausted>>

\* Fault: the row stays.
TimerLeavesRow ==
    /\ up /\ wake = "past"
    /\ wake' = "none" /\ notified' = FALSE /\ notices' = 0
    /\ pc' = [n \in Node |-> IF pc[n] = "sleeping" THEN "out" ELSE pc[n]]
    /\ UNCHANGED <<up, call, line, aimd, waitRow, hold, exhausted>>

\* Fault: only one waiter is woken.
TimerWakesOne ==
    /\ up /\ wake = "past"
    /\ wake' = "none" /\ notified' = FALSE /\ waitRow' = "none" /\ notices' = 0
    /\ IF \E n \in Node : pc[n] = "sleeping"
       THEN \E n \in Node : pc[n] = "sleeping" /\ pc' = [pc EXCEPT ![n] = "out"]
       ELSE UNCHANGED pc
    /\ UNCHANGED <<up, call, line, aimd, hold, exhausted>>

\* The timer of #arm.
TimerFires ==
    /\ up /\ wake = "past"
    /\ wake' = "none" /\ notified' = FALSE /\ waitRow' = "none" /\ notices' = 0
    /\ pc' = [n \in Node |-> IF pc[n] = "sleeping" THEN "out" ELSE pc[n]]
    /\ UNCHANGED <<up, call, line, aimd, hold, exhausted>>

LetGo == pc' = [n \in Node |-> IF pc[n] = "asking" THEN "out" ELSE pc[n]]

\* The operator answers the one login question: everybody waiting on it goes.
LoggedIn ==
    /\ up /\ \E n \in Node : pc[n] = "asking"
    /\ login' = FALSE /\ LetGo
    /\ UNCHANGED <<up, call, line, aimd, wait, outage, open, exhausted>>

\* isExhausted finds the stated reset past, or the vendor lets the model again.
ModelReturns(m) ==
    /\ up /\ m \in exhausted
    /\ exhausted' = exhausted \ {m}
    /\ UNCHANGED <<up, pc, call, line, aimd, wait, hold>>

----------------------------------------------------------------------------
(* Crash and boot *)

\* What dies with the process.
Forget ==
    /\ up' = FALSE
    /\ pc' = [n \in Node |-> "out"]
    /\ model' = Want /\ found' = [n \in Node |-> {}]
    /\ line' = NoLine
    /\ ceiling' = Configured /\ clean' = 0
    /\ wake' = "none" /\ notified' = FALSE
    /\ login' = FALSE /\ exhausted' = {} /\ outage' = "none"

Crash ==
    /\ CanCrash /\ up /\ Forget
    /\ UNCHANGED <<waitRow, ceilRow, open, notices>>

\* Inside #park, after the ceiling is remembered and before the wait is.
CrashInPark ==
    /\ CanCrash /\ up /\ Forget
    /\ Kinds \cap {"concurrency", "rate_limit"} # {}
    /\ \E n \in Node : pc[n] \in {"spawning", "running"}
    /\ ceilRow' = Remembered(Halved)
    /\ UNCHANGED <<waitRow, open, notices>>

\* Fault: a resumed wait is news.
BootAnew ==
    /\ ~up /\ up' = TRUE
    /\ wake' = waitRow /\ notified' = FALSE
    /\ ceiling' = IF ceilRow # 0 THEN ceilRow ELSE Configured
    /\ UNCHANGED <<pc, call, line, clean, hold, exhausted, waitRow, ceilRow, notices>>

\* The constructor: recorded waits resume, and the hint is used while fresh.
Boot ==
    /\ ~up /\ up' = TRUE
    /\ wake' = waitRow /\ notified' = (waitRow # "none")
    /\ \E fresh \in BOOLEAN :
          ceiling' = IF fresh /\ ceilRow # 0 /\ ceilRow < Configured THEN ceilRow ELSE Configured
    /\ UNCHANGED <<pc, call, line, clean, hold, exhausted, waitRow, ceilRow, notices>>

----------------------------------------------------------------------------

Next ==
    \/ \E n \in Node :
          \/ Admit(n) \/ Start(n) \/ SpawnOk(n) \/ SpawnFails(n)
          \/ SpawnUnauthenticated(n) \/ SpawnFallsBack(n) \/ Wait(n)
          \/ TurnFails(n) \/ TurnCompleted(n) \/ LoginLapsed(n)
          \/ \E kind \in Kinds : SpawnRefused(n, kind) \/ RefusedMidTurn(n, kind)
    \/ \E m \in Model : ModelReturns(m)
    \/ TimePasses \/ TimerFires \/ LoggedIn \/ Crash \/ CrashInPark \/ Boot

Spec == Init /\ [][Next]_vars

\* Clocks advance and timers run.  SF for the timer: a refusal may move its wake
\* time, and Node runs due timers before it polls for the I/O of another spawn.
Fairness == WF_vars(TimePasses) /\ SF_vars(TimerFires)

FairSpec == Spec /\ Fairness

----------------------------------------------------------------------------
(* Properties *)

\* Every variable stays within its type.
TypeOK ==
    /\ up \in BOOLEAN /\ notified \in BOOLEAN /\ login \in BOOLEAN /\ open \in {"no", "open", "overdue"}
    /\ pc \in [Node -> {"out", "admitting", "spawning", "running", "retry", "sleeping", "asking"}]
    /\ model \in [Node -> Model] /\ found \in [Node -> SUBSET Model]
    /\ line.inFlight \in 0 .. Cardinality(Node)
    /\ line.slots \in Seq(Node) /\ line.gate \in Seq(Node)
    /\ ceiling \in 1 .. Configured /\ clean \in 0 .. IncreaseAfter - 1
    /\ wake \in {"none", "ahead", "past"} /\ waitRow \in {"none", "ahead", "past"}
    /\ exhausted \subseteq Model /\ outage \in {"none", "auth", "network"}
    /\ ceilRow \in 0 .. Configured - 1 /\ notices \in 0 .. 2

At(labels) == {n \in Node : pc[n] \in labels}

\* Every slot handed out is held by exactly one live call or turn, on every path
\* out of admit; each caller inside admit is in exactly one of the queues; and
\* nobody queues while the ceiling leaves room, however it moved meanwhile.
SlotsAccounted ==
    /\ TypeOK
    /\ line.inFlight = Len(line.gate) + Cardinality(At({"running"}))
    /\ Len(line.gate) + Len(line.slots) = Cardinality(At({"admitting", "spawning"}))
    /\ Range(line.gate) \cup Range(line.slots) = At({"admitting", "spawning"})
    /\ line.slots # <<>> => line.inFlight >= ceiling

\* Whoever is granted a slot from the queue ranks before all who stay in it; and
\* while sessions outnumber a ceiling that was halved under them nobody is
\* granted one, queued or not.  (The slot of a spawn that is refused is handed
\* on before the ceiling is halved for it.)
CriticalPathFirst ==
    [][up' => \A n \in Range(line'.gate) \ Range(line.gate) :
          /\ line'.inFlight <= ceiling \/ line'.inFlight <= ceiling'
          /\ n \in Range(line.slots) =>
                \A q \in Range(line'.slots) \cap Range(line.slots) : Priority[n] >= Priority[q]]_vars

Starts(n) == pc[n] = "admitting" /\ pc'[n] = "spawning"

\* A spawn starts on the state of the harness as it is, not as it was when its
\* caller began to queue: not on one parked or logged out meanwhile, and on a
\* model known to be out only when its whole chain is.
NoStaleSpawn ==
    [][\A n \in Node : Starts(n) =>
          /\ wake # "ahead" /\ ~login
          /\ model'[n] \in exhausted => NextFallback(model'[n], exhausted) = NoModel]_vars

\* A wait is always on disk exactly as it is in memory: a restart at any moment
\* resumes it, none outlives its timer, and the operator is told of it once,
\* over all its refusals and restarts.
WaitIsDurable == (up => wake = waitRow) /\ notices <= 1

\* A caller that sleeps on the wait is woken, however often the wait is moved.
SleepersWake == \A n \in Node : pc[n] = "sleeping" ~> pc[n] # "sleeping"
=============================================================================
