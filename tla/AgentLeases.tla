---------------------------- MODULE AgentLeases ----------------------------
(***************************************************************************)
(* Leases an agent's commands take on a pool from inside a turn              *)
(* (packages/vinta-ai-maestro/src/resources/agent-leases.ts).                *)
(*                                                                          *)
(* A command waits in instalments: each request ("hop") watches a queue      *)
(* place for a bounded time and is answered with a grant, a refusal, or a    *)
(* token to come back with.  Between hops the place is parked, on a timer.   *)
(*                                                                          *)
(* The broker runs on one JavaScript thread.  A request, a timer or a call   *)
(* runs to completion; promise reactions it caused (a hop whose wait was     *)
(* settled, the release of an abandoned grant) run before the next one.      *)
(* They are steps of their own here, and everything else waits for them.     *)
(*                                                                          *)
(* All commands want the one pool, so the queue of pools.ts is plain FIFO:   *)
(* see ResourcePools for needs that differ, and for a queue array kept as    *)
(* the set of waiters with, for each, the set of those in front of it.       *)
(***************************************************************************)
EXTENDS Integers, FiniteSets

CONSTANTS
    Turn,        \* agent sessions
    Hop,         \* requests in flight at once
    MaxWait,     \* BOUND: wait tokens in use at once
    Other,       \* in-process holders of the pool: lanes, gates
    Capacity     \* slots of the pool

ASSUME CapacityNat == Capacity \in Nat \ {0}
ASSUME MaxWaitNat == MaxWait \in Nat
ASSUME HopFinite == IsFiniteSet(Hop)

Wait == 1 .. MaxWait
Place == Wait \cup Other     \* who may stand in the queue

ASSUME OtherApart == Other \cap Wait = {}

None == "none"          \* no turn, no wait, no outcome

VARIABLES
    waiting,    \* pools.ts #queue: the waits and others in it
    ahead,      \* place -> who is in front of it there
    out,        \* waits and others whose pool lease is granted and not released
    dropped,    \* granted waits whose abandon will release the lease
    parked,     \* #parked: the waits the broker knows
    turnOf,     \* wait -> the turn it was opened for
    timers,     \* armed reapers
    grants,     \* #held: wait -> leases minted from it and not released
    ended,      \* #endedTurns
    halted,     \* #halted is set
    closed,     \* #closed
    hop         \* hop -> the wait it watches, its turn and its outcome

vars == <<waiting, ahead, out, dropped, parked, turnOf, timers, grants, ended, halted, closed, hop>>

Idle == [wait |-> 0, turn |-> None, outcome |-> None]

Init ==
    /\ waiting = {} /\ ahead = [x \in Place |-> {}]
    /\ out = {} /\ dropped = {} /\ parked = {}
    /\ turnOf = [w \in Wait |-> None]
    /\ timers = {}
    /\ grants = [w \in Wait |-> 0]
    /\ ended = {} /\ halted = FALSE /\ closed = FALSE
    /\ hop = [h \in Hop |-> Idle]

----------------------------------------------------------------------------
(* The thread, the queue and the timers *)

Active == {h \in Hop : hop[h] # Idle}

\* No promise reaction is due: the thread is free for a request or a timer.
Quiet == dropped = {} /\ \A h \in Hop : hop[h].outcome = None

\* The queue, told by a, without S.
Without(a, S) == [x \in Place |-> IF x \in S THEN {} ELSE a[x] \ S]

\* Those the pool grants at the front of q while o leaves a slot free.
Granted(q, a, o) == {x \in q : Cardinality(a[x]) < Capacity - Cardinality(o)}
Serve(q, a, o) ==
    LET G == Granted(q, a, o)
    IN  waiting' = q \ G /\ ahead' = Without(a, G) /\ out' = o \cup G

\* x joins the queue, and the pool grants what it can.
Join(x) == Serve(waiting \cup {x}, [ahead EXCEPT ![x] = waiting], out)

\* The waits nobody refers to; the next randomUUID is one of them.
Unused == {w \in Wait : /\ w \notin parked \cup out \cup waiting
                        /\ \A h \in Hop : hop[h].wait # w
                        /\ \A t \in timers : t.wait # w}
Fresh == CHOOSE w \in Unused : \A v \in Unused : w <= v

\* Fault: a grant that is abandoned is forgotten.
AbandonedUngiven(waits, q, a, o) ==
    /\ UNCHANGED dropped
    /\ out' = o
    /\ waiting' = q \ waits /\ ahead' = Without(a, waits)

\* `waits` leave the queue or, past the grant, are released by a reaction.
Abandoned(waits, q, a, o) ==
    /\ dropped' = dropped \cup (waits \cap o)
    /\ out' = o
    /\ waiting' = q \ waits /\ ahead' = Without(a, waits)

\* A reaper armed while other hops watch the wait outlives them: a hop is cut
\* off after seconds, a parked wait after a minute.
Reaper(w, ref, hops) == [wait |-> w, ref |-> ref, after |-> hops]

\* A hop has answered: timers no longer wait for it.
Elapsed(ts, h) == {[t EXCEPT !.after = @ \ {h}] : t \in ts}

\* Fault: a wait left unattended without a timer.
ParkUntimed(w, h, ts) == Elapsed(ts, h)

\* `#park`: arm a reaper.  One that was armed already is forgotten, not cleared.
Park(w, h, ts) ==
    {IF t.wait = w THEN [t EXCEPT !.ref = FALSE] ELSE t : t \in Elapsed(ts, h)}
        \cup {Reaper(w, TRUE, {g \in Active \ {h} : hop[g].wait = w})}

\* Clearing the reaper an entry refers to.
Cleared(ts, waits) == {t \in ts : t.wait \notin waits \/ ~t.ref}

\* What the watchers of each wait see: the grant first, then a cancellation.
Settled(cancelled) ==
    [h \in Hop |->
        IF hop[h].outcome # None \/ hop[h].wait = 0 THEN hop[h]
        ELSE IF hop[h].wait \in out' THEN [hop[h] EXCEPT !.outcome = "lease"]
        ELSE IF hop[h].wait \in cancelled THEN [hop[h] EXCEPT !.outcome = "refused"]
        ELSE hop[h]]

----------------------------------------------------------------------------
(* Requests *)

\* BOUND: room for the wait of one more request, and for a fresh one of every
\* request that is then in flight.
RoomForFresh == Cardinality(Unused) > Cardinality(Active) + 1

Admitted(t) == ~closed /\ ~halted /\ t \notin ended

\* A hop with no token, or with one the broker no longer knows.
HopFresh(h, t) ==
    /\ Quiet /\ hop[h] = Idle /\ Admitted(t) /\ RoomForFresh
    /\ LET w == Fresh IN
        /\ Join(w)
        /\ parked' = parked \cup {w}
        /\ turnOf' = [turnOf EXCEPT ![w] = t]
        /\ hop' = [Settled({}) EXCEPT
                     ![h] = [wait |-> w, turn |-> t,
                             outcome |-> IF w \in out' THEN "lease" ELSE None]]
    /\ UNCHANGED <<dropped, timers, grants, ended, halted, closed>>

\* Fault: the place is given up at every hop, as an abort at the hop boundary did.
HopRequeue(h, w) ==
    /\ Quiet /\ hop[h] = Idle /\ w \in parked /\ w \notin out /\ Admitted(turnOf[w])
    /\ RoomForFresh
    /\ timers' = Cleared(timers, {w})
    /\ waiting' = waiting \cup {w}
    /\ ahead' = [Without(ahead, {w}) EXCEPT ![w] = waiting \ {w}]
    /\ hop' = [hop EXCEPT ![h] = [wait |-> w, turn |-> turnOf[w], outcome |-> None]]
    /\ UNCHANGED <<out, dropped, parked, turnOf, grants, ended, halted, closed>>

\* A hop with the token of a parked wait: the same place in the queue.  A client
\* may come back while its last hop is still unanswered.
HopResume(h, w) ==
    /\ Quiet /\ hop[h] = Idle /\ w \in parked /\ Admitted(turnOf[w])
    /\ RoomForFresh
    /\ timers' = Cleared(timers, {w})
    /\ hop' = [hop EXCEPT ![h] = [wait |-> w, turn |-> turnOf[w],
                                  outcome |-> IF w \in out THEN "lease" ELSE None]]
    /\ UNCHANGED <<waiting, ahead, out, dropped, parked, turnOf, grants, ended, halted, closed>>

\* The bounded wait of a hop is over.
HopTimeout(h) ==
    /\ Quiet /\ hop[h] # Idle
    /\ hop' = [hop EXCEPT ![h].outcome = "timeout"]
    /\ UNCHANGED <<waiting, ahead, out, dropped, parked, turnOf, timers, grants, ended, halted, closed>>

\* The client releases its lease, or its expiry timer does (it fires unless
\* renewed, and a client may stop renewing at any time).
Release(w) ==
    /\ Quiet /\ grants[w] > 0
    /\ grants' = [grants EXCEPT ![w] = @ - 1]
    /\ Serve(waiting, ahead, out \ {w})
    /\ hop' = Settled({})
    /\ UNCHANGED <<dropped, parked, turnOf, timers, ended, halted, closed>>

OtherAcquire(o) ==
    /\ Quiet /\ o \notin out /\ o \notin waiting
    /\ Join(o)
    /\ hop' = Settled({})
    /\ UNCHANGED <<dropped, parked, turnOf, timers, grants, ended, halted, closed>>

OtherRelease(o) ==
    /\ Quiet /\ o \in out
    /\ Serve(waiting, ahead, out \ {o})
    /\ hop' = Settled({})
    /\ UNCHANGED <<dropped, parked, turnOf, timers, grants, ended, halted, closed>>

----------------------------------------------------------------------------
(* Promise reactions *)

\* Fault: every watcher of a granted wait mints a lease from it.
HopLeaseShared(h) ==
    LET w == hop[h].wait IN
    /\ hop[h].outcome = "lease"
    /\ parked' = parked \ {w}
    /\ grants' = [grants EXCEPT ![w] = @ + 1]
    /\ timers' = Elapsed(timers, h)
    /\ hop' = [hop EXCEPT ![h] = Idle]
    /\ UNCHANGED <<waiting, ahead, out, dropped, turnOf, ended, halted, closed>>

\* The grant reached a hop: it mints the lease if its entry is still the
\* parked one, and opens a new wait if it is not.
HopLease(h) ==
    LET w == hop[h].wait IN
    /\ hop[h].outcome = "lease"
    /\ \/ /\ w \in parked /\ ~closed
          /\ parked' = parked \ {w}
          /\ grants' = [grants EXCEPT ![w] = @ + 1]
          /\ timers' = Elapsed(timers, h)
          /\ hop' = [hop EXCEPT ![h] = Idle]
          /\ UNCHANGED <<waiting, ahead, out, turnOf>>
       \/ /\ w \in parked /\ closed
          /\ parked' = parked \ {w}
          /\ Serve(waiting, ahead, out \ {w})
          /\ timers' = Elapsed(timers, h)
          /\ hop' = [Settled({}) EXCEPT ![h] = Idle]
          /\ UNCHANGED <<grants, turnOf>>
       \/ /\ w \notin parked
          /\ LET n == Fresh IN
               /\ Join(n)
               /\ parked' = parked \cup {n}
               /\ turnOf' = [turnOf EXCEPT ![n] = hop[h].turn]
               /\ timers' = Park(n, h, timers)
          /\ hop' = [Settled({}) EXCEPT ![h] = Idle]
          /\ UNCHANGED grants
    /\ UNCHANGED <<dropped, ended, halted, closed>>

\* The hop is answered with its token, and the wait is left on a timer.
HopParks(h) ==
    LET w == hop[h].wait IN
    /\ hop[h].outcome = "timeout"
    /\ parked' = parked \cup {w}
    /\ timers' = Park(w, h, timers)
    /\ hop' = [hop EXCEPT ![h] = Idle]
    /\ UNCHANGED <<waiting, ahead, out, dropped, turnOf, grants, ended, halted, closed>>

HopRefused(h) ==
    /\ hop[h].outcome = "refused"
    /\ timers' = Elapsed(timers, h)
    /\ hop' = [hop EXCEPT ![h] = Idle]
    /\ UNCHANGED <<waiting, ahead, out, dropped, parked, turnOf, grants, ended, halted, closed>>

\* `abandon` of a wait that was granted already: its lease is given back.
DropLease(w) ==
    /\ w \in dropped
    /\ dropped' = dropped \ {w}
    /\ Serve(waiting, ahead, out \ {w})
    /\ hop' = Settled({})
    /\ UNCHANGED <<parked, turnOf, timers, grants, ended, halted, closed>>

----------------------------------------------------------------------------
(* Timers and the run *)

\* Fault: a reaped wait stays in the queue.
ReapForgetful(t) ==
    /\ Quiet /\ t.after = {}
    /\ timers' = timers \ {t}
    /\ parked' = parked \ {t.wait}
    /\ UNCHANGED <<waiting, ahead, out, dropped, turnOf, grants, ended, halted, closed, hop>>

\* A reaper fires: nobody came back for the wait in time.
Reap(t) ==
    /\ Quiet /\ t.after = {}
    /\ timers' = timers \ {t}
    /\ parked' = parked \ {t.wait}
    /\ IF t.wait \in parked
       THEN Abandoned({t.wait}, waiting, ahead, out)
       ELSE UNCHANGED <<waiting, ahead, out, dropped>>
    /\ UNCHANGED <<turnOf, grants, ended, halted, closed, hop>>

\* Releases first, so the pool may grant a wait that is then cancelled.
ReleaseAndCancel(released, cancelled) ==
    LET left == out \ released
        G == Granted(waiting, ahead, left)
    IN  /\ grants' = [w \in Wait |-> IF w \in released THEN 0 ELSE grants[w]]
        /\ Abandoned(cancelled, waiting \ G, Without(ahead, G), left \cup G)
        /\ parked' = parked \ cancelled
        /\ timers' = Cleared(timers, cancelled)
        /\ hop' = Settled(cancelled)

\* Fault: a turn that ends keeps its leases.
EndTurnKeeps(t) ==
    /\ Quiet /\ t \notin ended
    /\ ended' = ended \cup {t}
    /\ ReleaseAndCancel({}, {w \in parked : turnOf[w] = t})
    /\ UNCHANGED <<turnOf, halted, closed>>

\* The session is over: its leases are released, then its waits cancelled.
EndTurn(t) ==
    /\ Quiet /\ t \notin ended
    /\ ended' = ended \cup {t}
    /\ ReleaseAndCancel({w \in Wait : grants[w] > 0 /\ turnOf[w] = t},
                        {w \in parked : turnOf[w] = t})
    /\ UNCHANGED <<turnOf, halted, closed>>

\* The run drains: every wait is cancelled, leases are left alone.
Halt ==
    /\ Quiet /\ ~halted
    /\ halted' = TRUE
    /\ ReleaseAndCancel({}, parked)
    /\ UNCHANGED <<turnOf, ended, closed>>

Close ==
    /\ Quiet /\ ~closed
    /\ closed' = TRUE
    /\ ReleaseAndCancel({w \in Wait : grants[w] > 0}, parked)
    /\ UNCHANGED <<turnOf, ended, halted>>

Reaction(h) == HopLease(h) \/ HopParks(h) \/ HopRefused(h)

Next ==
    \/ \E h \in Hop :
          \/ \E t \in Turn : HopFresh(h, t)
          \/ \E w \in Wait : HopResume(h, w)
          \/ HopTimeout(h)
          \/ Reaction(h)
    \/ \E w \in Wait : Release(w) \/ DropLease(w)
    \/ \E o \in Other : OtherAcquire(o) \/ OtherRelease(o)
    \/ \E t \in timers : Reap(t)
    \/ \E t \in Turn : EndTurn(t)
    \/ Halt
    \/ Close

Spec == Init /\ [][Next]_vars

\* Reactions run; the event loop serves every request and timer in its turn,
\* though reactions come first; a lease is released or expires; a wait nobody
\* comes back for is reaped.
Fairness ==
    /\ WF_vars((\E h \in Hop : Reaction(h)) \/ (\E w \in Wait : DropLease(w)))
    /\ \A h \in Hop : SF_vars(HopTimeout(h))
    /\ SF_vars(\E w \in Wait : Release(w))
    /\ \A o \in Other : SF_vars(OtherRelease(o))
    /\ \A w \in Wait : SF_vars(\E t \in timers : t.wait = w /\ Reap(t))

FairSpec == Spec /\ Fairness

----------------------------------------------------------------------------
(* Properties *)

TypeOK ==
    /\ waiting \subseteq Place /\ ahead \in [Place -> SUBSET waiting]
    /\ out \subseteq Place /\ Cardinality(out) <= Capacity
    /\ dropped \subseteq out \cap Wait /\ parked \subseteq Wait
    /\ turnOf \in [Wait -> Turn \cup {None}]
    /\ timers \subseteq [wait : Wait, ref : BOOLEAN, after : SUBSET Hop]
    /\ grants \in [Wait -> 0 .. Cardinality(Hop)]
    /\ ended \subseteq Turn /\ halted \in BOOLEAN /\ closed \in BOOLEAN
    /\ hop \in [Hop -> [wait : 0 .. MaxWait, turn : Turn \cup {None},
                        outcome : {None, "lease", "timeout", "refused"}]]

\* Capacity is never held by no one, or twice: however many requests watch a wait,
\* one of them mints a lease from it; whatever a command took from the pool is a
\* lease the broker can expire, a wait it can reap, or about to be returned; and
\* a lease is of a session that has not ended.  A wait nobody watches is on
\* a clock, so it cannot keep a slot or a place for ever.
NoOrphanedCapacity ==
    /\ TypeOK
    /\ \A w \in Wait : grants[w] <= 1 /\ (grants[w] = 1 => w \in out)
    /\ \A w \in out \cap Wait : grants[w] > 0 \/ w \in parked \/ w \in dropped
    /\ \A w \in Wait : grants[w] > 0 => turnOf[w] \notin ended
    /\ Quiet => \A w \in parked : (\E h \in Hop : hop[h].wait = w) \/ (\E t \in timers : t.wait = w)

\* A client that dies wedges nothing: every place in the queue is granted or
\* given up in the end, whoever stops coming back.
EveryPlaceSettles == \A x \in Place : x \in waiting ~> x \notin waiting

\* Waiting in instalments, with tokens, retries, reapers and turns that end, a
\* command gets from the pool what a caller that waits in one piece gets: a
\* place that is kept, and one lease for it.
Promise == INSTANCE AtomicLeases WITH
    Pool <- {"pool"}, Holder <- Place, NeedSets <- {{"pool"}}, Growing <- {}, Shared <- {},
    limit <- [p \in {"pool"} |-> Capacity], need <- [x \in Place |-> {"pool"}],
    has <- out

ImplementsAtomicLeases == Promise!Spec
=============================================================================
