--------------------------- MODULE ResourcePools ---------------------------
(***************************************************************************)
(* Named capacity pools with atomic multi-pool acquisition                  *)
(* (packages/vinta-ai-maestro/src/resources/pools.ts).                      *)
(*                                                                          *)
(* A holder asks for a set of pools and gets all of them or none.  Every    *)
(* arrival, release, growth and poll runs one synchronous walk of the queue *)
(* ("pump") in arrival order, granting whoever fits; a holder passed over   *)
(* for longer than the aging window reserves its pools against everyone     *)
(* behind it.  The queue array is kept as the set of waiters together with, *)
(* for each, the set of waiters in front of it.  Time is kept as the age of *)
(* each waiter, in ticks, up to the aging window.                           *)
(*                                                                          *)
(* A pool of HostPool also takes a slot of the machine, which other runs    *)
(* take too.  They run in other processes: a slot may be taken, and given   *)
(* back, between any two steps of a walk, so the walk may find any host     *)
(* request refused.                                                         *)
(***************************************************************************)
EXTENDS Integers, FiniteSets

CONSTANTS
    Pool,           \* names of the declared resources
    Holder,         \* callers: each queues for, or holds, one lease at a time
    NeedSets,       \* the sets of pools a caller may ask for
    InitCapacity,   \* declared capacity of each pool
    Growable,       \* pools that grow mid-run (the lanes of a spare crew member)
    MaxCapacity,    \* BOUND: growth stops here
    HostPool,       \* pools declared `scope: host`
    Aging           \* ticks before a waiter reserves its pools; 0 is strict FIFO

ASSUME HolderFinite == IsFiniteSet(Holder)
ASSUME NeedsDeclared == NeedSets \subseteq SUBSET Pool
ASSUME CapacityPositive == InitCapacity \in [Pool -> Nat \ {0}]
ASSUME PoolKinds == Growable \subseteq Pool /\ HostPool \subseteq Pool
ASSUME BoundsNat == MaxCapacity \in Nat /\ Aging \in Nat

VARIABLES
    capacity,   \* pool -> slots
    held,       \* pool -> slots this run has taken: the counter `Pool.held`
    waiting,    \* holders in the queue
    ahead,      \* holder -> the waiters in front of it in the queue
    need,       \* holder -> the pools it last asked for
    age,        \* holder -> ticks spent waiting, up to Aging
    leased,     \* holders with a lease that is not released
    spent,      \* holders that may call `release` again on a released lease
    foreign,    \* pool -> machine slots other runs hold
    poll        \* the host poll timer is armed

vars == <<capacity, held, waiting, ahead, need, age, leased, spent, foreign, poll>>

----------------------------------------------------------------------------
(* The walk of the queue *)

NeedsHost(n) == n \cap HostPool # {}

\* The state a walk starts from, as the operation that pumps leaves it.
Queue == [waiting |-> waiting, ahead |-> ahead, need |-> need,
          held |-> held, leased |-> leased, capacity |-> capacity]

\* How many of the holders in S ask for pool p.
Claims(S, n, p) == Cardinality({h \in S : p \in n[h]})

\* Fault: no aging.
NeverReserved(h, p, G, q) == FALSE

\* Some waiter in front of h that the walk passed over is old enough to
\* reserve p.
Reserved(h, p, G, q) ==
    \E k \in q.ahead[h] \ G : p \in q.need[k] /\ age[k] >= Aging

\* Slots of p in use when the walk reaches h: held before it, granted by it.
InUse(h, p, G, q) ==
    q.held[p] + foreign[p] + Claims(q.ahead[h] \cap G, q.need, p)

\* Fault: one slot too many.
FitsOffByOne(h, G, refused, q) ==
    /\ h \notin refused
    /\ \A p \in q.need[h] :
          /\ ~Reserved(h, p, G, q)
          /\ InUse(h, p, G, q) <= q.capacity[p]

\* h can be granted, when G is what the walk grants and `refused` are the
\* waiters whose machine slots another run had at that moment.
Fits(h, G, refused, q) ==
    /\ h \notin refused
    /\ \A p \in q.need[h] :
          /\ ~Reserved(h, p, G, q)
          /\ InUse(h, p, G, q) < q.capacity[p]

\* Fault: the walk starts from the back of the queue.
NewestFirst(G, refused, q) ==
    LET behind == [h \in Holder |-> {k \in q.waiting : h \in q.ahead[k]}]
    IN  \A h \in q.waiting : h \in G <=> Fits(h, G, refused, [q EXCEPT !.ahead = behind])

\* The walk grants exactly the waiters that fit, each seen after those ahead.
IsWalk(G, refused, q) ==
    \A h \in q.waiting : h \in G <=> Fits(h, G, refused, q)

\* Fault: a host wait that is not polled.
NeverPolls(left, n) == FALSE

\* The poll is armed while someone still waits for a machine slot.
PollArmed(left, n) == \E h \in left : NeedsHost(n[h])

\* #pump, #hostSlotsFor and #schedulePoll.
Pump(q) ==
    \E G \in SUBSET q.waiting,
       refused \in SUBSET {h \in q.waiting : NeedsHost(q.need[h])} :
        /\ IsWalk(G, refused, q)
        /\ waiting' = q.waiting \ G
        /\ ahead' = [h \in Holder |-> IF h \in q.waiting \ G THEN q.ahead[h] \ G ELSE {}]
        /\ age' = [h \in Holder |-> IF h \in q.waiting \ G THEN age[h] ELSE 0]
        /\ held' = [p \in Pool |-> q.held[p] + Claims(G, q.need, p)]
        /\ leased' = q.leased \cup G
        /\ need' = q.need
        /\ capacity' = q.capacity
        /\ poll' = PollArmed(q.waiting \ G, q.need)

----------------------------------------------------------------------------
(* The walk as #pump writes it *)

\* The queue array up to each of its places.
Fronts(q) == {q.ahead[h] : h \in q.waiting} \cup {q.waiting}

LastOf(S, q) == CHOOSE h \in S : S = q.ahead[h] \cup {h}

\* One turn of the loop: the slots taken and the pools reserved so far, and the
\* waiters granted, once the loop has been at h.
AfterOne(acc, h, refused, q) ==
    IF h \notin refused /\ \A p \in q.need[h] : p \notin acc.reserved /\ acc.held[p] < q.capacity[p]
    THEN [held |-> [p \in Pool |-> acc.held[p] + (IF p \in q.need[h] THEN 1 ELSE 0)],
          reserved |-> acc.reserved, granted |-> acc.granted \cup {h}]
    ELSE [held |-> acc.held, granted |-> acc.granted,
          reserved |-> acc.reserved \cup (IF age[h] >= Aging THEN q.need[h] ELSE {})]

LoopGrants(refused, q) ==
    LET after[S \in Fronts(q)] ==
          IF S = {} THEN [held |-> [p \in Pool |-> q.held[p] + foreign[p]],
                          reserved |-> {}, granted |-> {}]
          ELSE AfterOne(after[S \ {LastOf(S, q)}], LastOf(S, q), refused, q)
    IN  after[q.waiting].granted

----------------------------------------------------------------------------
(* Operations *)

Init ==
    /\ capacity = InitCapacity
    /\ held = [p \in Pool |-> 0]
    /\ waiting = {}
    /\ ahead = [h \in Holder |-> {}]
    /\ need = [h \in Holder |-> {}]
    /\ age = [h \in Holder |-> 0]
    /\ leased = {}
    /\ spent = {}
    /\ foreign = [p \in Pool |-> 0]
    /\ poll = FALSE

\* What an arrival, a release and a growth do to the queue before they pump.
Arrival(h, n) ==
    [Queue EXCEPT !.waiting = waiting \cup {h},
                  !.ahead = [ahead EXCEPT ![h] = waiting],
                  !.need = [need EXCEPT ![h] = n]]

Return(h) ==
    [Queue EXCEPT !.leased = leased \ {h},
                  !.held = [p \in Pool |-> IF p \in need[h] THEN held[p] - 1 ELSE held[p]]]

Growth(p) == [Queue EXCEPT !.capacity = [capacity EXCEPT ![p] = @ + 1]]

\* acquire(needs) and wait(needs): push at the back of the queue, then pump.
Acquire(h, n) ==
    /\ h \notin waiting \cup leased
    /\ Pump(Arrival(h, n))
    /\ UNCHANGED <<spent, foreign>>

\* An aborted `acquire`, or `abandon` of a wait not yet granted: off the queue
\* for good, and nobody is pumped.
Abandon(h) ==
    /\ h \in waiting
    /\ waiting' = waiting \ {h}
    /\ ahead' = [k \in Holder |-> IF k = h THEN {} ELSE ahead[k] \ {h}]
    /\ age' = [age EXCEPT ![h] = 0]
    /\ UNCHANGED <<capacity, held, need, leased, spent, foreign, poll>>

\* The first `release` of a lease.  `abandon` of a wait that was granted
\* meanwhile ends here too: it releases the lease nobody came back for.
Release(h) ==
    /\ h \in leased
    /\ spent' = spent \cup {h}
    /\ Pump(Return(h))
    /\ UNCHANGED foreign

\* A later `release` of the same lease, which the `released` flag turns away.
ReleaseAgain(h) ==
    /\ h \in spent
    /\ spent' = spent \ {h}
    /\ UNCHANGED <<capacity, held, waiting, ahead, need, age, leased, foreign, poll>>

\* One more slot, for good.
Grow(p) ==
    /\ p \in Growable
    /\ capacity[p] < MaxCapacity
    /\ Pump(Growth(p))
    /\ UNCHANGED <<spent, foreign>>

\* The poll timer of a queue that waits on a machine slot.
Poll ==
    /\ poll
    /\ Pump(Queue)
    /\ UNCHANGED <<spent, foreign>>

\* Time passes: everyone in the queue gets older.
Tick ==
    /\ \E h \in waiting : age[h] < Aging
    /\ age' = [h \in Holder |-> IF h \in waiting /\ age[h] < Aging THEN age[h] + 1 ELSE age[h]]
    /\ UNCHANGED <<capacity, held, waiting, ahead, need, leased, spent, foreign, poll>>

\* Another run on the machine takes one of the slots, or gives one back.
ForeignTake(p) ==
    /\ held[p] + foreign[p] < capacity[p]
    /\ foreign' = [foreign EXCEPT ![p] = @ + 1]
    /\ UNCHANGED <<capacity, held, waiting, ahead, need, age, leased, spent, poll>>

ForeignRelease(p) ==
    /\ foreign[p] > 0
    /\ foreign' = [foreign EXCEPT ![p] = @ - 1]
    /\ UNCHANGED <<capacity, held, waiting, ahead, need, age, leased, spent, poll>>

Next ==
    \/ \E h \in Holder :
          \/ \E n \in NeedSets : Acquire(h, n)
          \/ Abandon(h)
          \/ Release(h)
          \/ ReleaseAgain(h)
    \/ \E p \in Growable : Grow(p)
    \/ Poll
    \/ Tick
    \/ \E p \in HostPool : ForeignTake(p) \/ ForeignRelease(p)

Spec == Init /\ [][Next]_vars

\* Whoever holds a lease releases it in the end (every command ends or is
\* killed by its own timeout), other runs' holders too, the clock advances, an
\* armed timer fires.
Fairness ==
    /\ WF_vars(Tick)
    /\ WF_vars(Poll)
    /\ \A h \in Holder : WF_vars(Release(h))
    /\ \A p \in HostPool : WF_vars(ForeignRelease(p))

FairSpec == Spec /\ Fairness

----------------------------------------------------------------------------
(* Properties *)

TypeOK ==
    /\ capacity \in [Pool -> Nat \ {0}]
    /\ held \in [Pool -> Nat]
    /\ waiting \subseteq Holder
    /\ ahead \in [Holder -> SUBSET Holder]
    /\ need \in [Holder -> SUBSET Pool]
    /\ age \in [Holder -> 0 .. Aging]
    /\ leased \subseteq Holder
    /\ spent \subseteq Holder
    /\ foreign \in [Pool -> Nat] /\ \A p \in Pool \ HostPool : foreign[p] = 0
    /\ poll \in BOOLEAN

\* The queue is an order: everyone in it is in front of, or behind, everyone
\* else, and nobody outside it is in front of anyone.
QueueOrder ==
    /\ waiting \cap leased = {}
    /\ \A h \in Holder : ahead[h] \subseteq waiting /\ h \notin ahead[h]
    /\ \A h \in Holder \ waiting : ahead[h] = {} /\ age[h] = 0
    /\ \A h, k \in waiting : h = k \/ h \in ahead[k] \/ k \in ahead[h]
    /\ \A h, k \in waiting : h \in ahead[k] => ahead[h] \subseteq ahead[k] \ {h}

\* The queues there are to walk: an operation's, or the poll's.
Queues == {Queue} \cup {Arrival(h, n) : h \in Holder \ (waiting \cup leased), n \in NeedSets}
                 \cup {Return(h) : h \in leased}
                 \cup {Growth(p) : p \in {g \in Growable : capacity[g] < MaxCapacity}}

\* Whatever is asked, released or grown next, and whatever the other runs refuse,
\* what `#pump` (pools.ts:270) grants is what the declarative walk says, and
\* nothing else satisfies it: the walk is a function of the queue.
WalkIsTheLoop ==
    \A q \in Queues :
        \A refused \in SUBSET {h \in q.waiting : NeedsHost(q.need[h])} :
            {G \in SUBSET q.waiting : IsWalk(G, refused, q)} = {LoopGrants(refused, q)}

\* No interleaving of grants, growth, double releases, abandoned waits and
\* other runs takes more slots of a pool than it has (pools.ts:213).
CapacityRespected == \A p \in Pool : held[p] + foreign[p] <= capacity[p]

\* The counter each grant is decided on is the number of unreleased leases
\* that cover the pool: a lease counted twice or given back twice would make
\* the pool leak or over-grant for the rest of the run.
HeldCountsLeases == \A p \in Pool : held[p] = Claims(leased, need, p)

\* Nobody waits for an event that cannot come: while a holder queues there is
\* a lease whose release will pump, or an armed poll timer.
NoSilentStall == waiting # {} => leased # {} \/ poll

\* The holders a step grants although h, which stays in the queue, was in
\* front of them: those queued behind it, and those that just arrived.
GrantedPast(h) == {k \in leased' \ leased : k \in waiting => h \in ahead[k]}

\* Once a waiter is older than the aging window, nobody behind it is granted
\* a pool it needs before it is.
AgedNotPassed ==
    [][\A h \in waiting \cap waiting' : age[h] >= Aging =>
          \A k \in GrantedPast(h) : need[h] \cap need'[k] = {}]_vars

\* Aging or not, a waiter is never passed by one that asks for everything it
\* asks for, and possibly more: whatever let the second in would have let the
\* first in.  (Not so for machine slots, which may come free mid-walk.)
NoOvertakeSameNeed ==
    [][\A h \in waiting \cap waiting' : ~NeedsHost(need[h]) =>
          \A k \in GrantedPast(h) : ~(need[h] \subseteq need'[k])]_vars

\* The front of the queue waits although every pool it needs has a free slot.
FrontIsRefused ==
    \E h \in waiting : ahead[h] = {} /\ \A p \in need[h] : held[p] + foreign[p] < capacity[p]

\* Other runs leave the machine slots alone from some moment on: they take
\* none, and a walk that grants somebody finds the free ones.
OthersStop ==
    <>[][/\ \A p \in HostPool : foreign'[p] <= foreign[p]
         /\ leased' \subseteq leased \/ ~FrontIsRefused']_vars

\* Aging makes the queue starvation free: a stream of small requests that
\* always fits cannot keep a holder of several pools waiting for ever.  Other
\* runs can, taking every machine slot between two polls, so it is said of a
\* machine on which they stop.
EveryWaitEnds ==
    OthersStop => \A h \in Holder : h \in waiting ~> h \notin waiting

\* The walk, the aging window, the growing pools and the machine slots keep the
\* promise of AtomicLeases: nobody who uses the pools sees more than it says.
Promise == INSTANCE AtomicLeases WITH
    limit <- [p \in Pool |-> capacity[p] - foreign[p]], has <- leased,
    Growing <- Growable, Shared <- HostPool

ImplementsAtomicLeases == Promise!Spec
=============================================================================
