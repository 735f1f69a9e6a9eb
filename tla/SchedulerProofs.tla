--------------------------- MODULE SchedulerProofs ---------------------------
(***************************************************************************)
(* What Scheduler guarantees for any graph, any number of lanes and gate     *)
(* slots, and any pipeline: leases follow bodies, no body is left over, what  *)
(* is blocked has a failure behind it, no wakeup is lost and questions keep   *)
(* their timers, whatever fails, waits, is answered, aborted, retried, halted *)
(* or resumed.                                                                *)
(*                                                                            *)
(* A handler is a chain of steps from nodes to nodes.  Each step says what it *)
(* leaves of the others (Others) and of its own node (Less); the last one     *)
(* lands (Lands) on nodes that are all sound.                                 *)
(*                                                                            *)
(* Last, what Coordinator guarantees for every budget, every history of a     *)
(* phase, and any number of deaths of the process beside the scheduler's: a   *)
(* thing is told once, and the budget counts every wake but those a process   *)
(* died in.                                                                   *)
(***************************************************************************)
EXTENDS Scheduler, Coordinator, TLAPS, FiniteSetTheorems, SequenceTheorems

\* The status of a node with a body: a failure is contained behind it.
Busy(s) == s.st \notin {"pending", "blocked"} /\ (s.st \in {"done", "failed"} => s.aborted)

\* A node whose leases and status are those of the place its body is in.
Sound(s) ==
    /\ s \in NodeState
    /\ s.lane => s.pc \in InLane
    /\ s.gate => s.pc = "gate"
    /\ s.pc \in InLane /\ ~s.aborted => s.lane
    /\ IF s.pc = "out" THEN s.timer = "none" ELSE Busy(s)
    /\ s.pc \in {"retry", "wave"} /\ ~s.aborted =>
          s.timer \in Unattended(s.pc) \/ (s.timer = "rearm" /\ s.held)

\* All are sound but n, whose handler is at work.
Pre(N, n) == N \in [Node -> NodeState] /\ \A m \in Node \ {n} : Sound(N[m])

\* What a handler of one node may do to another.
Aside(s, t) ==
    /\ t.pc = s.pc /\ t.lane = s.lane /\ t.gate = s.gate /\ t.aborted = s.aborted
    /\ t.timer = s.timer /\ t.held = s.held /\ t.released = s.released /\ t.stray = s.stray
    /\ t.st = s.st \/ {s.st, t.st} \subseteq {"pending", "blocked"}

Besides(N, M, n) == \A m \in Node \ {n} : Aside(N[m], M[m])

\* Whatever is blocked has a failure behind it.
Caused(N) ==
    \A k \in Node : N[k].st = "blocked" =>
        \E m \in Node : k \in Below[m] /\ (N[m].st = "failed" \/ N[m].aborted)

\* A handler of n does no more than that to the others, and leaves nothing blocked
\* for no reason.
Others(N, M, n) == Besides(N, M, n) /\ (Caused(N) => Caused(M))

\* What no handler but that of a deferral's answer, or of a timer, changes.
Marks(s, t) == t.released = s.released /\ t.stray = s.stray

\* A failure is taken back by a retry alone, and no handler blocks its own node.
Owns(s, t) ==
    /\ s.aborted => t.aborted
    /\ s.st = "failed" => t.st = "failed" \/ t.aborted
    /\ t.st = "blocked" => s.st = "blocked"

Kept(s, t) == Marks(s, t) /\ Owns(s, t)

\* A handler goes on: n holds no more than it did.
Less(s, t) == (t.lane => s.lane) /\ (t.gate => s.gate) /\ Kept(s, t)

\* It ends: a retry that was queued may have put n back to pending.
Ends(s, t) ==
    /\ t.lane => s.lane
    /\ t.gate => s.gate
    /\ Marks(s, t)
    /\ s.aborted => t.aborted \/ t.st = "pending"

Lands(N, M, n) ==
    /\ M \in [Node -> NodeState] /\ \A m \in Node : Sound(M[m])
    /\ Others(N, M, n) /\ Ends(N[n], M[n]) /\ M[n].pc # "deferred"

----------------------------------------------------------------------------
(* Handlers *)

LEMMA OthersThen ==
    ASSUME NEW n \in Node, NEW N, NEW M, NEW P, Others(N, M, n), Others(M, P, n) PROVE Others(N, P, n)
  BY DEF Others, Besides, Aside

LEMMA LandsThen ==
    ASSUME NEW n \in Node, NEW N, NEW M, NEW P, Others(N, M, n), Lands(M, P, n),
           Less(N[n], M[n])
    PROVE  Lands(N, P, n)
  BY OthersThen DEF Lands, Less, Ends, Kept, Marks, Owns

\* One that writes its own node alone.
LEMMA OwnCaused ==
    ASSUME NEW n \in Node, NEW N, N \in [Node -> NodeState], NEW s, Owns(N[n], s), Caused(N)
    PROVE  Caused([N EXCEPT ![n] = s])
  <1> DEFINE M == [N EXCEPT ![n] = s]
  <1>1. M[n] = s /\ \A m \in Node \ {n} : M[m] = N[m]
    OBVIOUS
  <1> HIDE DEF M
  <1>2. SUFFICES ASSUME NEW k \in Node, M[k].st = "blocked"
                 PROVE  \E m \in Node : k \in Below[m] /\ (M[m].st = "failed" \/ M[m].aborted)
    BY DEF Caused, M
  <1>3. N[k].st = "blocked"
    BY <1>1, <1>2 DEF Owns
  <1>4. PICK m \in Node : k \in Below[m] /\ (N[m].st = "failed" \/ N[m].aborted)
    BY <1>3 DEF Caused
  <1>5. M[m].st = "failed" \/ M[m].aborted
    BY <1>1, <1>4 DEF Owns
  <1> QED
    BY <1>4, <1>5

LEMMA OwnStep ==
    ASSUME NEW n \in Node, NEW N, Pre(N, n), NEW s \in NodeState, Owns(N[n], s)
    PROVE  LET M == [N EXCEPT ![n] = s] IN Pre(M, n) /\ Others(N, M, n) /\ M[n] = s
  <1> DEFINE M == [N EXCEPT ![n] = s]
  <1>1. Caused(N) => Caused(M)
    BY OwnCaused DEF Pre
  <1>2. Pre(M, n) /\ Besides(N, M, n) /\ M[n] = s
    BY DEF Pre, Besides, Aside
  <1> QED
    BY <1>1, <1>2 DEF Others

LEMMA OwnLands ==
    ASSUME NEW n \in Node, NEW N, Pre(N, n), NEW s, Sound(s), Less(N[n], s),
           s.pc # "deferred"
    PROVE  Lands(N, [N EXCEPT ![n] = s], n)
  <1> DEFINE M == [N EXCEPT ![n] = s]
  <1>1. s \in NodeState /\ Owns(N[n], s) /\ Ends(N[n], s)
    BY DEF Sound, Less, Ends, Kept, Owns
  <1>2. Pre(M, n) /\ Others(N, M, n) /\ M[n] = s
    BY <1>1, OwnStep
  <1> QED
    BY <1>1, <1>2 DEF Lands, Pre

LEMMA ReleasedStep ==
    ASSUME NEW n \in Node, NEW N, Pre(N, n)
    PROVE  LET M == Released(N, n) IN
           /\ Pre(M, n) /\ Others(N, M, n)
           /\ M[n] = [N[n] EXCEPT !.lane = FALSE, !.gate = FALSE]
  <1> DEFINE s == [N[n] EXCEPT !.lane = FALSE, !.gate = FALSE]
  <1>1. Released(N, n) = [N EXCEPT ![n] = s]
    BY DEF Released, Pre
  <1>2. s \in NodeState /\ Owns(N[n], s)
    <2>1. N[n] \in NodeState
      BY DEF Pre
    <2>2. s \in NodeState
      BY <2>1, Zenon DEF NodeState
    <2>3. Owns(N[n], s)
      BY <2>1 DEF NodeState, Owns
    <2> QED
      BY <2>2, <2>3
  <1> HIDE DEF s
  <1>3. LET M == [N EXCEPT ![n] = s] IN Pre(M, n) /\ Others(N, M, n) /\ M[n] = s
    BY <1>2, OwnStep
  <1> QED
    BY <1>1, <1>3 DEF s

\* Statuses of dependents that have no body move between pending and blocked.
Spread(N, n, s, S, from, to) ==
    [m \in Node |-> IF m = n THEN s
                    ELSE IF m \in S /\ N[m].st = from THEN [N[m] EXCEPT !.st = to]
                    ELSE N[m]]

LEMMA SpreadStep ==
    ASSUME NEW n \in Node, NEW N, Pre(N, n), NEW s \in NodeState, NEW S \in SUBSET Node,
           NEW from \in {"pending", "blocked"}, NEW to \in {"pending", "blocked"}
    PROVE  LET M == Spread(N, n, s, S, from, to) IN Pre(M, n) /\ Besides(N, M, n) /\ M[n] = s
  <1> DEFINE M == Spread(N, n, s, S, from, to)
  <1> USE DEF Spread
  <1>1. ASSUME NEW m \in Node \ {n} PROVE Sound(M[m]) /\ Aside(N[m], M[m])
    <2>1. Sound(N[m])
      BY DEF Pre
    <2>2. CASE m \in S /\ N[m].st = from
      <3>1. M[m] = [N[m] EXCEPT !.st = to]
        BY <2>2
      <3>2. N[m] \in NodeState
        BY <2>1 DEF Sound
      <3>3. [N[m] EXCEPT !.st = to] \in NodeState
        BY <3>2, Zenon DEF NodeState, Settled
      <3>4. /\ M[m].st = to /\ M[m].pc = N[m].pc /\ M[m].lane = N[m].lane
            /\ M[m].gate = N[m].gate /\ M[m].aborted = N[m].aborted
            /\ M[m].timer = N[m].timer /\ M[m].held = N[m].held /\ M[m].released = N[m].released
            /\ M[m].stray = N[m].stray
        BY <3>1, <3>2 DEF NodeState
      <3> QED
        BY <2>1, <2>2, <3>1, <3>3, <3>4 DEF Sound, Busy, Aside
    <2>3. CASE ~(m \in S /\ N[m].st = from)
      <3>1. M[m] = N[m]
        BY <2>3
      <3> QED
        BY <2>1, <3>1 DEF Aside
    <2> QED
      BY <2>2, <2>3
  <1>2. M[n] = s
    OBVIOUS
  <1>3. M \in [Node -> NodeState]
    <2>1. ASSUME NEW m \in Node PROVE M[m] \in NodeState
      BY <1>1, <1>2 DEF Sound
    <2> QED
      BY <2>1
  <1> QED
    BY <1>1, <1>2, <1>3 DEF Pre, Besides

LEMMA FailStep ==
    ASSUME NEW n \in Node, NEW N, Pre(N, n)
    PROVE  LET M == Fail(N, n) IN
           Pre(M, n) /\ Others(N, M, n) /\ M[n] = [N[n] EXCEPT !.st = "failed"]
  <1> DEFINE s == [N[n] EXCEPT !.st = "failed"]
             S == {m \in Node : m \in Below[n]}
  <1>1. s \in NodeState
    <2>1. N[n] \in NodeState
      BY DEF Pre
    <2> QED
      BY <2>1, Zenon DEF NodeState, Settled
  <1>2. Fail(N, n) = Spread(N, n, s, S, "pending", "blocked")
    BY DEF Fail, Spread
  <1>3. S \in SUBSET Node
    OBVIOUS
  <1> HIDE DEF s, S
  <1> DEFINE M == Fail(N, n)
  <1>4. Pre(M, n) /\ Besides(N, M, n) /\ M[n] = s
    BY <1>1, <1>2, <1>3, SpreadStep
  <1>5. ASSUME Caused(N) PROVE Caused(M)
    <2>1. M[n].st = "failed"
      BY <1>1, <1>4 DEF Pre, s, NodeState
    <2>2. ASSUME NEW k \in Node \ {n}
          PROVE  \/ M[k] = N[k]
                 \/ N[k].st = "pending" /\ M[k].st = "blocked" /\ M[k].aborted = N[k].aborted /\ k \in Below[n]
      <3>1. N[k] \in NodeState
        BY DEF Pre
      <3> QED
        BY <3>1 DEF Fail, NodeState
    <2> HIDE DEF M
    <2>3. SUFFICES ASSUME NEW k \in Node, M[k].st = "blocked"
                   PROVE  \E m \in Node : k \in Below[m] /\ (M[m].st = "failed" \/ M[m].aborted)
      BY DEF Caused, M
    <2>4. k # n /\ (k \in Below[n] \/ N[k].st = "blocked")
      BY <2>1, <2>2, <2>3
    <2>5. CASE k \in Below[n]
      BY <2>1, <2>5
    <2>6. CASE N[k].st = "blocked"
      <3>1. PICK m \in Node : k \in Below[m] /\ (N[m].st = "failed" \/ N[m].aborted)
        BY <1>5, <2>6 DEF Caused
      <3>2. M[m].st = "failed" \/ M[m].aborted
        BY <2>1, <2>2, <3>1
      <3> QED
        BY <3>1, <3>2
    <2> QED
      BY <2>4, <2>5, <2>6
  <1> QED
    BY <1>4, <1>5 DEF s, Others

LEMMA ReopenStep ==
    ASSUME NEW n \in Node, NEW N, Pre(N, n)
    PROVE  LET M == Reopen(N, n) IN
           /\ Pre(M, n) /\ Others(N, M, n) /\ M[n].st = "pending"
           /\ M[n].pc = N[n].pc /\ M[n].lane = N[n].lane /\ M[n].gate = N[n].gate
           /\ M[n].timer = N[n].timer /\ Marks(N[n], M[n])
  <1> DEFINE s == [N[n] EXCEPT !.st = "pending", !.aborted = FALSE, !.queued = FALSE,
                               !.pause = FALSE, !.held = FALSE, !.auto = 0]
             S == {m \in Node : m \in Below[n]}
  <1>1. /\ s \in NodeState /\ s.st = "pending" /\ s.pc = N[n].pc /\ s.lane = N[n].lane /\ s.gate = N[n].gate
        /\ s.timer = N[n].timer /\ Marks(N[n], s)
    <2>1. N[n] \in NodeState
      BY DEF Pre
    <2>2. 0 \in 0 .. Retries
      BY PolicyType
    <2>3. s \in NodeState
      BY <2>1, <2>2, Zenon DEF NodeState
    <2>4. /\ s.st = "pending" /\ s.pc = N[n].pc /\ s.lane = N[n].lane /\ s.gate = N[n].gate
          /\ s.timer = N[n].timer /\ Marks(N[n], s)
      BY <2>1 DEF NodeState, Marks
    <2> QED
      BY <2>3, <2>4
  <1>2. Reopen(N, n) = Spread(N, n, s, S, "blocked", "pending")
    BY DEF Reopen, Spread
  <1>3. S \in SUBSET Node
    OBVIOUS
  <1> HIDE DEF s, S
  <1> DEFINE M == Reopen(N, n)
  <1>4. Pre(M, n) /\ Besides(N, M, n) /\ M[n] = s
    BY <1>1, <1>2, <1>3, SpreadStep
  <1>5. ASSUME Caused(N) PROVE Caused(M)
    <2>1. ASSUME NEW k \in Node \ {n}
          PROVE  \/ M[k] = N[k] /\ (k \in Below[n] => N[k].st # "blocked")
                 \/ N[k].st = "blocked" /\ M[k].st = "pending" /\ M[k].aborted = N[k].aborted
      <3>1. N[k] \in NodeState
        BY DEF Pre
      <3> QED
        BY <3>1 DEF Reopen, NodeState
    <2>2. M[n].st = "pending"
      BY <1>1, <1>4
    <2> HIDE DEF M
    <2>3. SUFFICES ASSUME NEW k \in Node, M[k].st = "blocked"
                   PROVE  \E m \in Node : k \in Below[m] /\ (M[m].st = "failed" \/ M[m].aborted)
      BY DEF Caused, M
    <2>4. N[k].st = "blocked" /\ k \notin Below[n]
      BY <2>1, <2>2, <2>3
    <2>5. PICK m \in Node : k \in Below[m] /\ (N[m].st = "failed" \/ N[m].aborted)
      BY <1>5, <2>4 DEF Caused
    <2>6. M[m].st = "failed" \/ M[m].aborted
      BY <2>1, <2>4, <2>5
    <2> QED
      BY <2>5, <2>6
  <1> QED
    BY <1>1, <1>4, <1>5 DEF Others

\* A body that leaves with nothing in its hands.
LEMMA LeaveLands ==
    ASSUME NEW n \in Node, NEW N, Pre(N, n), ~N[n].lane, ~N[n].gate
    PROVE  /\ Lands(N, Leave(N, n), n) /\ Leave(N, n)[n].pc = "out"
           /\ N[n].st # "failed" => Leave(N, n)[n].st = N[n].st /\ Leave(N, n)[n].aborted = N[n].aborted
  <1> DEFINE s == [N[n] EXCEPT !.pc = "out", !.queued = FALSE, !.timer = "none"]
             M == [N EXCEPT ![n] = s]
  <1>1. N[n] \in NodeState
    BY DEF Pre
  <1>2. s \in NodeState
    BY <1>1, Zenon DEF NodeState
  <1>3. s.timer = "none" /\ s.pc = "out" /\ ~s.lane /\ ~s.gate /\ s.st = N[n].st /\ s.aborted = N[n].aborted /\ Kept(N[n], s)
    BY <1>1 DEF NodeState, Kept, Marks, Owns
  <1>4. Leave(N, n) = IF N[n].queued /\ N[n].st = "failed" /\ ended = "no" THEN Reopen(M, n) ELSE M
    BY DEF Leave, Pre
  <1> HIDE DEF s
  <1>5. Pre(M, n) /\ Others(N, M, n) /\ M[n] = s
    BY <1>2, <1>3, OwnStep DEF Kept
  <1>6. Sound(s)
    BY <1>2, <1>3 DEF Sound, InLane, Working
  <1> HIDE DEF M
  <1>7. CASE Leave(N, n) = M
    BY <1>3, <1>5, <1>6, <1>7 DEF Lands, Pre, Ends, Kept, Owns
  <1>8. CASE Leave(N, n) = Reopen(M, n) /\ N[n].st = "failed"
    <2> DEFINE P == Reopen(M, n)
    <2>1. /\ Pre(P, n) /\ Others(M, P, n) /\ P[n].st = "pending"
          /\ P[n].pc = s.pc /\ P[n].lane = s.lane /\ P[n].gate = s.gate
          /\ P[n].timer = s.timer /\ Marks(s, P[n])
      BY <1>5, ReopenStep
    <2> HIDE DEF P
    <2>2. P[n] \in NodeState
      BY <2>1 DEF Pre
    <2>3. Sound(P[n])
      BY <1>3, <2>1, <2>2 DEF Sound, InLane, Working
    <2>4. Others(N, P, n)
      BY <1>5, <2>1, OthersThen
    <2> QED
      BY <1>3, <1>8, <2>1, <2>3, <2>4 DEF Lands, Pre, P, Ends, Kept, Marks
  <1> QED
    BY <1>4, <1>7, <1>8

LEMMA FreedLands ==
    ASSUME NEW n \in Node, NEW N, Pre(N, n)
    PROVE  LET M == Leave(Released(N, n), n) IN
           /\ Lands(N, M, n) /\ M[n].pc = "out" /\ ~M[n].lane
           /\ N[n].st # "failed" => M[n].st = N[n].st /\ M[n].aborted = N[n].aborted
  <1> DEFINE R == Released(N, n)
  <1>1. Pre(R, n) /\ Others(N, R, n) /\ R[n] = [N[n] EXCEPT !.lane = FALSE, !.gate = FALSE]
    BY ReleasedStep
  <1>2. N[n] \in NodeState
    BY DEF Pre
  <1>3. ~R[n].lane /\ ~R[n].gate /\ R[n].st = N[n].st /\ R[n].aborted = N[n].aborted /\ Kept(N[n], R[n])
    BY <1>1, <1>2 DEF NodeState, Kept, Marks, Owns
  <1> HIDE DEF R
  <1>4. /\ Lands(R, Leave(R, n), n) /\ Leave(R, n)[n].pc = "out"
        /\ R[n].st # "failed" => Leave(R, n)[n].st = R[n].st /\ Leave(R, n)[n].aborted = R[n].aborted
    BY <1>1, <1>3, LeaveLands
  <1>5. Lands(N, Leave(R, n), n) /\ ~Leave(R, n)[n].lane
    <2>1. Lands(N, Leave(R, n), n)
      BY <1>1, <1>3, <1>4, LandsThen DEF Less
    <2>2. ~Leave(R, n)[n].lane
      BY <1>3, <1>4 DEF Lands, Ends
    <2> QED
      BY <2>1, <2>2
  <1> QED
    BY <1>3, <1>4, <1>5 DEF R

LEMMA FailedLands ==
    ASSUME NEW n \in Node, NEW N, Pre(N, n), ~N[n].lane, ~N[n].gate
    PROVE  Lands(N, Leave(Fail(N, n), n), n) /\ Leave(Fail(N, n), n)[n].pc = "out"
  <1> DEFINE F == Fail(N, n)
  <1>1. Pre(F, n) /\ Others(N, F, n) /\ F[n] = [N[n] EXCEPT !.st = "failed"]
    BY FailStep
  <1>2. N[n] \in NodeState
    BY DEF Pre
  <1>3. ~F[n].lane /\ ~F[n].gate /\ Kept(N[n], F[n])
    BY <1>1, <1>2 DEF NodeState, Kept, Marks, Owns
  <1> HIDE DEF F
  <1>4. Lands(F, Leave(F, n), n) /\ Leave(F, n)[n].pc = "out"
    BY <1>1, <1>3, LeaveLands
  <1> QED
    BY <1>1, <1>3, <1>4, LandsThen DEF F, Less, Kept, Marks, Owns

LEMMA UnwindLands ==
    ASSUME NEW n \in Node, NEW N, Pre(N, n) PROVE Lands(N, Unwind(N, n), n) /\ Unwind(N, n)[n].pc = "out"
  <1> DEFINE R == Released(N, n)
             s == [R[n] EXCEPT !.held = FALSE]
             M == [R EXCEPT ![n] = s]
             t == [s EXCEPT !.st = "pending"]
             P == [M EXCEPT ![n] = t]
  <1>1. Pre(R, n) /\ Others(N, R, n) /\ R[n] = [N[n] EXCEPT !.lane = FALSE, !.gate = FALSE]
    BY ReleasedStep
  <1>2. N[n] \in NodeState /\ R[n] \in NodeState
    BY <1>1 DEF Pre
  <1>3. s \in NodeState
    BY <1>2, Zenon DEF NodeState
  <1>4. ~s.lane /\ ~s.gate /\ Kept(N[n], s)
    BY <1>1, <1>2 DEF NodeState, Kept, Marks, Owns
  <1>5. Unwind(N, n) = Leave(IF N[n].st \in Settled THEN M ELSE P, n)
    BY <1>1 DEF Unwind, Pre
  <1>6. t \in NodeState
    BY <1>3, Zenon DEF NodeState
  <1>7. ~t.lane /\ ~t.gate /\ (N[n].st \notin Settled => Kept(N[n], t) /\ Owns(s, t))
    <2>1. s.st = N[n].st
      BY <1>1, <1>2 DEF NodeState
    <2> QED
      BY <1>3, <1>4, <2>1 DEF NodeState, Kept, Marks, Owns, Settled
  <1> HIDE DEF s, t, R
  <1>8. Pre(M, n) /\ Others(R, M, n) /\ M[n] = s
    <2>1. Owns(R[n], s)
      BY <1>2 DEF NodeState, Owns, s
    <2> QED
      BY <1>1, <1>3, <2>1, OwnStep
  <1> HIDE DEF M
  <1>9. Others(N, M, n)
    BY <1>1, <1>8, OthersThen
  <1>10. CASE Unwind(N, n) = Leave(M, n)
    <2>1. Lands(M, Leave(M, n), n) /\ Leave(M, n)[n].pc = "out"
      BY <1>4, <1>8, LeaveLands
    <2> QED
      BY <1>4, <1>8, <1>9, <1>10, <2>1, LandsThen DEF Less
  <1>11. CASE N[n].st \notin Settled /\ Unwind(N, n) = Leave(P, n)
    <2>1. Pre(P, n) /\ Others(M, P, n) /\ P[n] = t
      BY <1>6, <1>7, <1>8, <1>11, OwnStep
    <2> HIDE DEF P
    <2>2. Lands(P, Leave(P, n), n) /\ Leave(P, n)[n].pc = "out"
      BY <1>7, <2>1, LeaveLands
    <2>3. Others(N, P, n)
      BY <1>9, <2>1, OthersThen
    <2> QED
      BY <1>7, <1>11, <2>1, <2>2, <2>3, LandsThen DEF Less
  <1> QED
    BY <1>5, <1>10, <1>11

LEMMA AttemptLands ==
    ASSUME NEW n \in Node, NEW N, Pre(N, n), Busy(N[n]), ~N[n].lane, ~N[n].gate
    PROVE  Lands(N, Attempt(N, n), n)
  <1> DEFINE s == [N[n] EXCEPT !.pc = "lane"]
  <1>1. N[n] \in NodeState
    BY DEF Pre
  <1>2. s \in NodeState
    BY <1>1, Zenon DEF NodeState
  <1>3. s.pc = "lane" /\ ~s.lane /\ ~s.gate /\ s.st = N[n].st /\ s.aborted = N[n].aborted /\ Kept(N[n], s)
    BY <1>1 DEF NodeState, Kept, Marks, Owns
  <1>4. Attempt(N, n) = IF halt # "none" THEN Unwind(N, n) ELSE [N EXCEPT ![n] = s]
    BY DEF Attempt, Pre
  <1> HIDE DEF s
  <1>5. Sound(s)
    BY <1>2, <1>3 DEF Sound, Busy, InLane, Working
  <1>6. Lands(N, [N EXCEPT ![n] = s], n)
    BY <1>3, <1>5, OwnLands DEF Less, Kept, Marks, Owns
  <1> QED
    BY <1>4, <1>6, UnwindLands

LEMMA RecoverLands ==
    ASSUME NEW n \in Node, NEW N, Pre(N, n), Busy(N[n]), NEW thrown \in BOOLEAN
    PROVE  Lands(N, Recover(N, n, thrown), n)
  <1> DEFINE R == Released(N, n)
             s == [R[n] EXCEPT !.pc = "judge", !.thrown = thrown]
  <1>1. Pre(R, n) /\ Others(N, R, n) /\ R[n] = [N[n] EXCEPT !.lane = FALSE, !.gate = FALSE]
    BY ReleasedStep
  <1>2. N[n] \in NodeState /\ R[n] \in NodeState
    BY <1>1 DEF Pre
  <1>3. ~R[n].lane /\ ~R[n].gate /\ R[n].st = N[n].st /\ R[n].aborted = N[n].aborted /\ Kept(N[n], R[n])
    BY <1>1, <1>2 DEF NodeState, Kept, Marks, Owns
  <1> HIDE DEF R
  <1>4. s \in NodeState
    BY <1>2, Zenon DEF NodeState
  <1>5. s.pc = "judge" /\ ~s.lane /\ ~s.gate /\ s.st = N[n].st /\ s.aborted = N[n].aborted /\ Kept(R[n], s)
    BY <1>2, <1>3 DEF NodeState, Kept, Marks, Owns
  <1>6. \/ Recover(N, n, thrown) = Leave(Fail(R, n), n)
        \/ Recover(N, n, thrown) = [R EXCEPT ![n] = s]
    BY <1>1 DEF Recover, R, Pre
  <1> HIDE DEF s
  <1>7. Sound(s)
    BY <1>4, <1>5 DEF Sound, Busy, InLane, Working
  <1>8. Lands(R, [R EXCEPT ![n] = s], n)
    BY <1>1, <1>5, <1>7, OwnLands DEF Less, Kept, Marks, Owns
  <1>9. Lands(R, Leave(Fail(R, n), n), n)
    BY <1>1, <1>3, FailedLands
  <1> QED
    BY <1>1, <1>3, <1>6, <1>8, <1>9, LandsThen DEF Less, Kept, Marks, Owns

\* A question whose answer is the operator's alone.
LEMMA ParkLands ==
    ASSUME NEW n \in Node, NEW N, Pre(N, n), Busy(N[n]), ~N[n].gate, NEW at \in {"asked", "hold"},
           ~N[n].aborted => N[n].lane
    PROVE  Lands(N, Park(N, n, at), n)
  <1> DEFINE s == [N[n] EXCEPT !.pc = at, !.st = "awaiting_human"]
  <1>1. N[n] \in NodeState
    BY DEF Pre
  <1>2. s \in NodeState
    BY <1>1, Zenon DEF NodeState, Parked
  <1>3. /\ s.pc = at /\ s.lane = N[n].lane /\ ~s.gate /\ s.st = "awaiting_human"
        /\ s.aborted = N[n].aborted /\ Kept(N[n], s)
    BY <1>1 DEF NodeState, Kept, Marks, Owns, Busy
  <1>4. Park(N, n, at) = IF halt # "none" THEN Unwind(N, n) ELSE [N EXCEPT ![n] = s]
    BY DEF Park, Pre
  <1> HIDE DEF s
  <1>5. Sound(s)
    BY <1>2, <1>3 DEF Sound, Busy, InLane, Working
  <1>6. Lands(N, [N EXCEPT ![n] = s], n)
    BY <1>3, <1>5, OwnLands DEF Less, Kept, Marks, Owns
  <1> QED
    BY <1>4, <1>6, UnwindLands

\* One with what answers it when nobody does.
LEMMA AskLands ==
    ASSUME NEW n \in Node, NEW N, Pre(N, n), Busy(N[n]), ~N[n].gate, NEW at \in {"retry", "wave"},
           NEW w \in Unattended(at),
           at = "wave" /\ ~N[n].aborted => N[n].lane, at = "retry" => ~N[n].lane
    PROVE  Lands(N, Armed(Park(N, n, at), n, at, w), n)
  <1> DEFINE s == [N[n] EXCEPT !.pc = at, !.st = "awaiting_human"]
             t == [s EXCEPT !.timer = w]
             M == [N EXCEPT ![n] = s]
  <1>1. N[n] \in NodeState
    BY DEF Pre
  <1>2. s \in NodeState
    BY <1>1, Zenon DEF NodeState, Parked
  <1>3. t \in NodeState
    <2>1. w \in {"none", "armed", "rearm", "watched", "never"}
      BY DEF Unattended
    <2> QED
      BY <1>2, <2>1, Zenon DEF NodeState
  <1>4. s.pc = at
    BY <1>1 DEF NodeState
  <1>5. /\ t.pc = at /\ t.lane = N[n].lane /\ ~t.gate /\ t.st = "awaiting_human" /\ t.timer = w
        /\ t.aborted = N[n].aborted /\ Kept(N[n], t)
    BY <1>1 DEF NodeState, Kept, Marks, Owns, Busy
  <1>6. Park(N, n, at) = IF halt # "none" THEN Unwind(N, n) ELSE M
    BY DEF Park, Pre
  <1>7. [M EXCEPT ![n].timer = w] = [N EXCEPT ![n] = t] /\ M[n].pc = at
    BY <1>1, <1>4 DEF Pre
  <1> HIDE DEF s, t, M
  <1>8. Sound(t)
    BY <1>3, <1>5 DEF Sound, Busy, InLane, Working
  <1>9. Lands(N, [N EXCEPT ![n] = t], n)
    BY <1>5, <1>8, OwnLands DEF Less, Kept, Marks, Owns
  <1>10. Lands(N, Unwind(N, n), n) /\ Unwind(N, n)[n].pc = "out"
    BY UnwindLands
  <1> QED
    BY <1>6, <1>7, <1>9, <1>10 DEF Armed

LEMMA EnterLands ==
    ASSUME NEW n \in Node, NEW N, Pre(N, n), Busy(N[n]), ~N[n].gate, ~N[n].aborted => N[n].lane,
           NEW next \in Work
    PROVE  Lands(N, Enter(N, n, next), n)
  <1> DEFINE c == [N[n] EXCEPT !.pc = "admit", !.landed = TRUE]
             s == [N[n] EXCEPT !.pc = next]
  <1>1. N[n] \in NodeState
    BY DEF Pre
  <1>2. c \in NodeState
    BY <1>1, Zenon DEF NodeState, Working
  <1>3. c.pc = "admit" /\ c.lane = N[n].lane /\ ~c.gate /\ c.st = N[n].st /\ c.aborted = N[n].aborted /\ Kept(N[n], c)
    BY <1>1 DEF NodeState, Kept, Marks, Owns
  <1>4. ASSUME next # "chore" PROVE s \in NodeState
    <2>1. next \in Working
      BY <1>4 DEF Work, Working
    <2> QED
      BY <1>1, <2>1, Zenon DEF NodeState
  <1>5. s.pc = next /\ s.lane = N[n].lane /\ ~s.gate /\ s.st = N[n].st /\ s.aborted = N[n].aborted /\ Kept(N[n], s)
    BY <1>1 DEF NodeState, Kept, Marks, Owns
  <1>6. \/ Enter(N, n, next) = Leave(Released(N, n), n)
        \/ Enter(N, n, next) = Unwind(N, n)
        \/ Enter(N, n, next) = [N EXCEPT ![n] = c]
        \/ next # "chore" /\ Enter(N, n, next) = [N EXCEPT ![n] = s]
    BY DEF Enter, Pre
  <1> HIDE DEF c, s
  <1>7. Lands(N, [N EXCEPT ![n] = c], n)
    <2>1. Sound(c)
      BY <1>2, <1>3 DEF Sound, Busy, InLane, Working
    <2> QED
      BY <1>3, <2>1, OwnLands DEF Less, Kept, Marks, Owns
  <1>8. next # "chore" => Lands(N, [N EXCEPT ![n] = s], n)
    <2>1. next # "chore" => Sound(s)
      BY <1>4, <1>5 DEF Sound, Busy, InLane, Working, Work
    <2> QED
      BY <1>5, <2>1, OwnLands DEF Less, Kept, Marks, Owns, Work
  <1> QED
    BY <1>6, <1>7, <1>8, FreedLands, UnwindLands

LEMMA BoundaryLands ==
    ASSUME NEW n \in Node, NEW N, Pre(N, n), Busy(N[n]), ~N[n].aborted => N[n].lane,
           NEW next \in Work \cup Final \cup {"ask"}
    PROVE  Lands(N, Boundary(N, n, next), n)
  <1> DEFINE g == [N[n] EXCEPT !.gate = FALSE]
             M == [N EXCEPT ![n] = g]
             R == Released(M, n)
             d == [R[n] EXCEPT !.st = "done"]
             p == [g EXCEPT !.pause = FALSE]
  <1>1. N[n] \in NodeState
    BY DEF Pre
  <1>2. g \in NodeState
    BY <1>1, Zenon DEF NodeState
  <1>3. g.lane = N[n].lane /\ ~g.gate /\ g.st = N[n].st /\ g.aborted = N[n].aborted /\ g.pause = N[n].pause /\ Kept(N[n], g)
    BY <1>1 DEF NodeState, Kept, Marks, Owns
  <1>4. p \in NodeState
    BY <1>2, Zenon DEF NodeState
  <1>5. p.lane = N[n].lane /\ ~p.gate /\ p.st = N[n].st /\ p.aborted = N[n].aborted /\ Kept(N[n], p)
    BY <1>2, <1>3 DEF NodeState, Kept, Marks, Owns
  <1> HIDE DEF g
  <1>6. Pre(M, n) /\ Others(N, M, n) /\ M[n] = g
    BY <1>2, <1>3, OwnStep DEF Kept
  <1>7. Boundary(N, n, next) =
            IF N[n].aborted THEN Leave(R, n)
            ELSE IF halt = "cancelled" /\ next \notin Final THEN Unwind(M, n)
            ELSE IF next = "ask" THEN Park(M, n, "asked")
            ELSE IF next = "done" THEN Leave([R EXCEPT ![n].st = "done"], n)
            ELSE IF next = "failed" THEN Recover(M, n, FALSE)
            ELSE IF N[n].pause THEN Park([M EXCEPT ![n].pause = FALSE], n, "hold")
            ELSE Enter(M, n, next)
    BY DEF Boundary, g, Pre
  <1> HIDE DEF M
  <1>8. Pre(R, n) /\ Others(M, R, n) /\ R[n] = [M[n] EXCEPT !.lane = FALSE, !.gate = FALSE]
    BY <1>6, ReleasedStep
  <1>9. R[n] \in NodeState /\ ~R[n].lane /\ ~R[n].gate /\ Kept(M[n], R[n])
    BY <1>2, <1>6, <1>8 DEF NodeState, Pre, Kept, Marks, Owns
  <1> HIDE DEF R
  <1>10. d \in NodeState
    BY <1>9, Zenon DEF NodeState, Settled
  <1>11. ~d.lane /\ ~d.gate /\ (~N[n].aborted => Kept(R[n], d))
    <2>1. R[n].st = N[n].st
      BY <1>2, <1>3, <1>6, <1>8 DEF NodeState
    <2> QED
      BY <1>9, <2>1 DEF NodeState, Kept, Marks, Owns, Busy
  <1>12. [R EXCEPT ![n].st = "done"] = [R EXCEPT ![n] = d] /\ [M EXCEPT ![n].pause = FALSE] = [M EXCEPT ![n] = p]
    BY <1>6, <1>8 DEF Pre
  <1> HIDE DEF d, p
  <1>13. ~N[n].aborted => Lands(M, Leave([R EXCEPT ![n].st = "done"], n), n)
    <2> SUFFICES ASSUME ~N[n].aborted PROVE Lands(M, Leave([R EXCEPT ![n].st = "done"], n), n)
      OBVIOUS
    <2> DEFINE D == [R EXCEPT ![n] = d]
    <2>1. Pre(D, n) /\ Others(R, D, n) /\ D[n] = d
      BY <1>8, <1>10, <1>11, OwnStep DEF Kept
    <2> HIDE DEF D
    <2>2. Lands(D, Leave(D, n), n)
      BY <1>11, <2>1, LeaveLands
    <2>3. Others(M, D, n)
      BY <1>8, <2>1, OthersThen
    <2> QED
      BY <1>9, <1>11, <1>12, <2>1, <2>2, <2>3, LandsThen DEF D, Less, Kept, Marks, Owns
  <1>14. ~N[n].aborted => Lands(M, Park([M EXCEPT ![n].pause = FALSE], n, "hold"), n)
    <2> DEFINE P == [M EXCEPT ![n] = p]
    <2>1. Pre(P, n) /\ Others(M, P, n) /\ P[n] = p
      <3>1. Owns(g, p)
        BY <1>3, <1>5 DEF Owns, Kept
      <3> QED
        BY <1>4, <1>6, <3>1, OwnStep
    <2> HIDE DEF P
    <2>2. Lands(P, Park(P, n, "hold"), n)
      BY <1>5, <2>1, ParkLands DEF Busy
    <2> QED
      BY <1>3, <1>5, <1>6, <1>12, <2>1, <2>2, LandsThen DEF P, Less, Kept, Marks, Owns
  <1>15. Busy(M[n]) /\ ~M[n].gate /\ (~M[n].aborted => M[n].lane)
    BY <1>3, <1>6 DEF Busy
  <1>16. Lands(M, Boundary(N, n, next), n)
    <2>1. CASE Boundary(N, n, next) \in {Leave(R, n), Unwind(M, n)}
      BY <1>6, <2>1, FreedLands, UnwindLands DEF R
    <2>2. CASE Boundary(N, n, next) = Park(M, n, "asked")
      BY <1>6, <1>15, <2>2, ParkLands
    <2>3. CASE Boundary(N, n, next) = Recover(M, n, FALSE)
      BY <1>6, <1>15, <2>3, RecoverLands
    <2>4. CASE Boundary(N, n, next) = Enter(M, n, next) /\ next \in Work
      BY <1>6, <1>15, <2>4, EnterLands
    <2> QED
      BY <1>7, <1>13, <1>14, <2>1, <2>2, <2>3, <2>4 DEF Final
  <1> QED
    BY <1>3, <1>6, <1>16, LandsThen DEF Less, Kept, Marks, Owns

\* A body that was aborted leaves its step as it is.
LEMMA AbortedLeaves ==
    ASSUME NEW n \in Node, NEW N, Pre(N, n), N[n].aborted, N[n].st # "failed",
           NEW next \in Work \cup Final \cup {"ask"}
    PROVE  LET M == Boundary(N, n, next) IN M[n].pc = "out" /\ M[n].st = N[n].st /\ M[n].aborted
  <1> DEFINE g == [N[n] EXCEPT !.gate = FALSE]
             M == [N EXCEPT ![n] = g]
  <1>1. N[n] \in NodeState
    BY DEF Pre
  <1>2. g \in NodeState
    BY <1>1, Zenon DEF NodeState
  <1>3. g.st = N[n].st /\ g.aborted = N[n].aborted /\ Owns(N[n], g)
    BY <1>1 DEF NodeState, Owns
  <1>4. Boundary(N, n, next) = Leave(Released(M, n), n)
    BY DEF Boundary, Pre
  <1> HIDE DEF g
  <1>5. Pre(M, n) /\ M[n] = g
    BY <1>2, <1>3, OwnStep
  <1> HIDE DEF M
  <1> QED
    BY <1>3, <1>4, <1>5, FreedLands

----------------------------------------------------------------------------
(* The invariant *)

\* A deferral is asked once: what was started stays released.
Deferral(n, s) ==
    /\ s.pc = "deferred" => n \in Deferred /\ ~s.released /\ s.timer = "none"
    /\ n \in Deferred /\ ~s.released => s.pc \in {"out", "deferred"} /\ s.stray = {}

\* A node whose session is being killed: its body leaves by its abort alone.
Killed(s) == s.aborted /\ s.pc \in {"turn", "out"} /\ s.st \notin {"pending"} \cup Settled

Rest ==
    /\ parked \in BOOLEAN /\ awake \in BOOLEAN /\ halt \in {"none", "paused", "cancelled"}
    /\ ended \in {"no", "done", "failed", "paused", "cancelled"}
    /\ ops \in 0 .. MaxOps /\ falls \in 0 .. MaxFalls

InLanes == {m \in Node : node[m].lane}
AtGates == {m \in Node : node[m].gate}

SchedInv ==
    /\ node \in [Node -> NodeState]
    /\ \A m \in Node : Sound(node[m]) /\ Deferral(m, node[m])
    /\ killing \in SUBSET Node /\ \A m \in killing : Killed(node[m])
    /\ Rest
    /\ Cardinality(InLanes) <= Lanes /\ Cardinality(AtGates) <= Gates
    /\ ended # "no" => \A m \in Node : node[m].aborted \/ node[m].pc = "out"
    /\ Caused(node)
    /\ SleepMissesNothing

LEMMA Smaller ==
    ASSUME NEW S \in SUBSET Node, NEW T \in SUBSET S, NEW k \in Nat, Cardinality(S) <= k
    PROVE  Cardinality(T) <= k
  <1>1. IsFiniteSet(S) /\ IsFiniteSet(T)
    BY NodeFinite, FS_Subset
  <1> QED
    BY <1>1, FS_Subset, FS_CardinalityType

LEMMA OneMore ==
    ASSUME NEW S \in SUBSET Node, NEW n \in Node, NEW k \in Nat, Cardinality(S) < k
    PROVE  Cardinality(S \cup {n}) <= k
  <1>1. IsFiniteSet(S)
    BY NodeFinite, FS_Subset
  <1>2. Cardinality(S) \in Nat
    BY <1>1, FS_CardinalityType
  <1>3. CASE n \in S
    <2>1. S \cup {n} = S
      BY <1>3
    <2> QED
      BY <1>2, <2>1
  <1>4. CASE n \notin S
    <2>1. Cardinality(S \cup {n}) = Cardinality(S) + 1
      BY <1>1, <1>4, FS_AddElement
    <2> QED
      BY <1>2, <2>1
  <1> QED
    BY <1>3, <1>4

\* While the loop sleeps, a step that wakes it for nothing leaves it nothing to do:
\* no status changes, nothing lands, and a halted run keeps the body it waits for.
LEMMA SleepsOn ==
    ASSUME SchedInv, ended = "no", NEW n \in Node, NEW N \in [Node -> NodeState], node' = N,
           halt' = halt, awake' = (awake \/ Wakes(N)), Others(node, N, n),
           node[n].aborted => N[n].aborted \/ N[n].st = "pending"
    PROVE  SleepMissesNothing'
  <1> SUFFICES ASSUME ~awake' PROVE Dispatched' = node' /\ ~Drained(node)'
    BY DEF SleepMissesNothing
  <1>1. Dispatched = node /\ ~Drained(node)
    BY DEF SchedInv, SleepMissesNothing
  <1>2. ASSUME NEW k \in Node
        PROVE  /\ N[k].st = node[k].st /\ N[k].landed = node[k].landed
               /\ N[k].pc = "out" => node[k].pc = "out" \/ halt = "none"
    BY DEF Wakes
  <1>3. ASSUME NEW k \in Node, node[k].aborted, N[k].st = "failed" PROVE N[k].aborted
    <2>1. CASE k = n
      BY <1>3, <2>1
    <2>2. CASE k # n
      BY <1>3, <2>2 DEF Others, Besides, Aside
    <2> QED
      BY <2>1, <2>2
  <1>4. ASSUME halt = "none", NEW k \in Node PROVE ~Ready(k)'
    <2>1. node[k] \in NodeState /\ Sound(node[k])
      BY DEF SchedInv, Sound
    <2>2. ~Ready(k)
      <3>1. SUFFICES ASSUME Ready(k) PROVE Dispatched[k].pc # "out"
        BY <1>1 DEF Ready
      <3> QED
        BY <1>4, <2>1, <3>1 DEF Dispatched, NodeState
    <2>3. Deps[k] \subseteq Node
      BY DepsType
    <2>4. SUFFICES ASSUME N[k].st = "pending", \A d \in Deps[k] : N[d].st = "done" \/ N[d].landed
                   PROVE  FALSE
      BY DEF Ready
    <2>5. node[k].st = "pending" /\ node[k].pc = "out"
      BY <1>2, <2>1, <2>4 DEF Sound, Busy
    <2>6. \A d \in Deps[k] : node[d].st = "done" \/ node[d].landed
      BY <1>2, <2>3, <2>4
    <2> QED
      BY <2>2, <2>5, <2>6 DEF Ready
  <1>5. Dispatched' = node'
    <2>1. CASE halt # "none"
      BY <2>1 DEF Dispatched
    <2>2. CASE halt = "none"
      <3>1. Dispatched' = [k \in Node |-> N[k]]
        BY <1>4, <2>2 DEF Dispatched
      <3> QED
        BY <3>1
    <2> QED
      BY <2>1, <2>2
  <1>6. ~Drained(N)'
    <2>1. AllSettled(N) => AwaitingRetry(N)
      <3>1. SUFFICES ASSUME AllSettled(N) PROVE AwaitingRetry(N)
        OBVIOUS
      <3>2. AllSettled(node)
        BY <1>2, <3>1 DEF AllSettled
      <3>3. halt = "none" /\ OnFailure # "stop"
        BY <1>1, <3>2 DEF Drained, AwaitingRetry, HoldsAborted
      <3>4. PICK k \in Node : node[k].aborted /\ node[k].st = "failed"
        BY <1>1, <3>2 DEF Drained, AwaitingRetry, HoldsAborted
      <3>5. N[k].aborted /\ N[k].st = "failed"
        BY <1>2, <1>3, <3>4
      <3> QED
        BY <3>3, <3>5 DEF AwaitingRetry, HoldsAborted
    <2>2. halt # "none" => Active(N) # {}
      <3>1. SUFFICES ASSUME halt # "none" PROVE Active(N) # {}
        OBVIOUS
      <3>2. PICK k \in Node : node[k].pc # "out"
        BY <1>1, <3>1 DEF Drained, Active
      <3>3. N[k].pc # "out"
        BY <1>2, <3>1, <3>2
      <3> QED
        BY <3>3 DEF Active
    <2> QED
      BY <2>1, <2>2 DEF Drained, AwaitingRetry
  <1> QED
    BY <1>5, <1>6

\* What a handler of n makes of the others keeps the invariant.
LEMMA StepInv ==
    ASSUME SchedInv, ended = "no", NEW n \in Node,
           node' \in [Node -> NodeState], \A m \in Node : Sound(node'[m]), Others(node, node', n),
           Deferral(n, node'[n]), node[n].aborted => node'[n].aborted \/ node'[n].st = "pending",
           killing' \in SUBSET (killing \cup {n}), n \in killing' => Killed(node'[n]), Rest', ended' = "no",
           halt' = halt, awake' = (awake \/ Wakes(node')),
           Cardinality(InLanes') <= Lanes, Cardinality(AtGates') <= Gates
    PROVE  SchedInv'
  <1>1. ASSUME NEW m \in Node PROVE Deferral(m, node'[m])
    <2>1. CASE m # n
      BY <2>1 DEF SchedInv, Others, Besides, Aside, Deferral
    <2> QED
      BY <2>1
  <1>2. ASSUME NEW m \in killing' PROVE Killed(node'[m])
    <2>1. CASE m # n
      <3>1. Killed(node[m]) /\ Aside(node[m], node'[m])
        BY <1>2, <2>1 DEF SchedInv, Others, Besides
      <3> QED
        BY <3>1 DEF Aside, Killed, Settled
    <2> QED
      BY <1>2, <2>1
  <1>3. killing' \in SUBSET Node
    BY DEF SchedInv
  <1>4. Caused(node)'
    BY DEF SchedInv, Others
  <1>5. SleepMissesNothing'
    BY SleepsOn
  <1> QED
    BY <1>1, <1>2, <1>3, <1>4, <1>5 DEF SchedInv

LEMMA LandsInv ==
    ASSUME SchedInv, ended = "no", NEW n \in Node, Lands(node, node', n),
           halt' = halt, awake' = (awake \/ Wakes(node')),
           node[n].pc \in {"out", "deferred"} => node'[n].pc = "out",
           killing' \in SUBSET (killing \cup {n}), n \in killing' => Killed(node'[n]), Rest', ended' = "no"
    PROVE  SchedInv'
  <1>1. InLanes' \in SUBSET InLanes /\ AtGates' \in SUBSET AtGates
    BY DEF Lands, Others, Besides, Aside, Ends, InLanes, AtGates
  <1>2. Cardinality(InLanes') <= Lanes /\ Cardinality(AtGates') <= Gates
    <2>1. InLanes \in SUBSET Node /\ AtGates \in SUBSET Node
      BY DEF InLanes, AtGates
    <2> QED
      BY <1>1, <2>1, Smaller, CapacityType DEF SchedInv
  <1>3. Deferral(n, node'[n])
    <2>1. Ends(node[n], node'[n]) /\ node'[n].pc # "deferred" /\ Deferral(n, node[n])
      BY DEF Lands, SchedInv
    <2> QED
      BY <2>1 DEF Ends, Marks, Deferral
  <1> QED
    BY <1>2, <1>3, StepInv DEF Lands, Ends

LEMMA SetRest ==
    ASSUME Rest, NEW N, Set(N), UNCHANGED <<parked, halt, ended>>,
           ops' \in 0 .. MaxOps, falls' \in 0 .. MaxFalls
    PROVE  node' = N /\ Rest' /\ awake' = (awake \/ Wakes(node'))
  <1>1. awake' \in BOOLEAN
    BY DEF Set
  <1>2. node' = N /\ awake' = (awake \/ Wakes(N))
    BY DEF Set
  <1> QED
    BY <1>1, <1>2 DEF Rest

\* What every handler starts from.
LEMMA Here ==
    ASSUME SchedInv, NEW n \in Node
    PROVE  /\ Pre(node, n) /\ node[n] \in NodeState /\ Sound(node[n]) /\ Deferral(n, node[n]) /\ Rest
           /\ node[n].pc \notin {"turn", "out"} => n \notin killing
  BY DEF SchedInv, Pre, Sound, Killed

\* A handler that sets the nodes and nothing else of the invariant.
LEMMA SetInv ==
    ASSUME SchedInv, ended = "no", NEW n \in Node, NEW M, Set(M), Lands(node, M, n),
           node[n].pc \in {"out", "deferred"} => M[n].pc = "out",
           killing' \in SUBSET (killing \cup {n}), n \in killing' => Killed(M[n]),
           UNCHANGED <<parked, halt, ended>>, ops' \in 0 .. MaxOps, falls' \in 0 .. MaxFalls
    PROVE  SchedInv'
  <1>1. node' = M /\ Rest' /\ awake' = (awake \/ Wakes(node'))
    BY SetRest DEF SchedInv
  <1> QED
    BY <1>1, LandsInv

\* The same from the nodes as a handler has them in between.
LEMMA SetThenInv ==
    ASSUME SchedInv, ended = "no", NEW n \in Node, node[n].pc \notin {"out", "deferred", "turn"},
           NEW N, Others(node, N, n), Less(node[n], N[n]),
           NEW M, Set(M), Lands(N, M, n),
           UNCHANGED <<killing, parked, halt, ended>>, ops' \in 0 .. MaxOps, falls' \in 0 .. MaxFalls
    PROVE  SchedInv'
  <1>1. Lands(node, M, n)
    BY LandsThen
  <1>2. n \notin killing
    BY Here
  <1> QED
    BY <1>1, <1>2, SetInv

\* A handler that ends wherever it likes, holding no more than before.
LEMMA MoveInv ==
    ASSUME SchedInv, ended = "no", NEW n \in Node, NEW M, Set(M), Pre(M, n), Sound(M[n]),
           Others(node, M, n), Deferral(n, M[n]),
           M[n].lane => node[n].lane, M[n].gate => node[n].gate,
           node[n].aborted => M[n].aborted \/ M[n].st = "pending",
           killing' \in SUBSET (killing \cup {n}), n \in killing' => Killed(M[n]),
           UNCHANGED <<parked, halt, ended>>, ops' \in 0 .. MaxOps, falls' \in 0 .. MaxFalls
    PROVE  SchedInv'
  <1>1. node' = M /\ Rest' /\ awake' = (awake \/ Wakes(node'))
    BY SetRest DEF SchedInv
  <1>2. node' \in [Node -> NodeState] /\ \A m \in Node : Sound(node'[m])
    BY <1>1 DEF Pre
  <1>3. InLanes' \in SUBSET InLanes /\ AtGates' \in SUBSET AtGates
    BY <1>1 DEF Others, Besides, Aside, InLanes, AtGates
  <1>4. InLanes \in SUBSET Node /\ AtGates \in SUBSET Node
    BY DEF InLanes, AtGates
  <1>5. Cardinality(InLanes') <= Lanes /\ Cardinality(AtGates') <= Gates
    BY <1>3, <1>4, Smaller, CapacityType DEF SchedInv
  <1> QED
    BY <1>1, <1>2, <1>5, StepInv

\* A parked body that goes on, from the nodes as its handler has them: a deferral
\* leaves its place started, or not at all.
LEMMA FromInv ==
    ASSUME SchedInv, ended = "no", NEW n \in Node, n \notin killing,
           NEW N, Others(node, N, n), N[n].lane => node[n].lane, N[n].gate => node[n].gate,
           node[n].aborted => N[n].aborted,
           NEW M, Set(M), Lands(N, M, n),
           n \in Deferred /\ ~N[n].released => M[n].pc = "out" /\ N[n].stray = {},
           UNCHANGED <<killing, parked, halt, ended>>, ops' \in 0 .. MaxOps, falls' \in 0 .. MaxFalls
    PROVE  SchedInv'
  <1>1. Others(node, M, n)
    BY OthersThen DEF Lands
  <1>2. Pre(M, n) /\ Sound(M[n])
    BY DEF Lands, Pre
  <1>3. Deferral(n, M[n])
    BY DEF Lands, Ends, Marks, Deferral
  <1>4. /\ (M[n].lane => node[n].lane) /\ (M[n].gate => node[n].gate)
        /\ node[n].aborted => M[n].aborted \/ M[n].st = "pending"
    BY DEF Lands, Ends
  <1> QED
    BY <1>1, <1>2, <1>3, <1>4, MoveInv

\* One that leaves a mark on its node.
LEMMA MarkInv ==
    ASSUME SchedInv, ended = "no", NEW n \in Node, NEW s \in NodeState, Set([node EXCEPT ![n] = s]),
           s.st = node[n].st, s.pc = node[n].pc, s.lane = node[n].lane, s.gate = node[n].gate,
           s.aborted = node[n].aborted, s.released = node[n].released, s.stray \subseteq node[n].stray,
           node[n].pc \in {"out", "deferred"} => s.timer = node[n].timer,
           s.pc \in {"retry", "wave"} /\ ~s.aborted =>
              s.timer \in Unattended(s.pc) \/ (s.timer = "rearm" /\ s.held),
           UNCHANGED <<killing, parked, halt, ended>>, ops' \in 0 .. MaxOps, falls' \in 0 .. MaxFalls
    PROVE  SchedInv'
  <1> DEFINE M == [node EXCEPT ![n] = s]
  <1>1. Pre(node, n) /\ Sound(node[n]) /\ Deferral(n, node[n])
    BY Here
  <1>2. Pre(M, n) /\ Others(node, M, n) /\ M[n] = s
    BY <1>1, OwnStep DEF Owns
  <1>3. Set(M)
    OBVIOUS
  <1> HIDE DEF M
  <1>4. Sound(s)
    BY <1>1 DEF Sound, Busy
  <1>5. Deferral(n, s)
    BY <1>1 DEF Deferral
  <1>6. n \in killing => Killed(s)
    BY DEF SchedInv, Killed
  <1> QED
    BY <1>2, <1>3, <1>4, <1>5, <1>6, MoveInv

LEMMA FallsType ==
    ASSUME Rest
    PROVE  /\ falls < MaxFalls => falls + 1 \in 0 .. MaxFalls
           /\ ops < MaxOps => ops + 1 \in 0 .. MaxOps
           /\ falls \in 0 .. MaxFalls /\ ops \in 0 .. MaxOps
  BY BoundsType DEF Rest

----------------------------------------------------------------------------
(* A node's body *)

LEMMA LaneGrantedInv ==
    ASSUME SchedInv, ended = "no", NEW n \in Node, LaneGranted(n) PROVE SchedInv'
  <1>0. /\ node[n].pc = "lane" /\ UNCHANGED env /\ Cardinality(InLanes) < Lanes
        /\ Set(IF halt # "none" THEN Unwind(node, n)
               ELSE [node EXCEPT ![n].lane = TRUE, ![n].pc = "prep"])
    BY DEF LaneGranted, InLanes
  <1>1. /\ Pre(node, n) /\ node[n] \in NodeState /\ Sound(node[n]) /\ Deferral(n, node[n]) /\ Rest
        /\ n \notin killing
    BY <1>0, Here
  <1>2. CASE halt # "none"
    <2>1. Lands(node, Unwind(node, n), n)
      BY <1>1, UnwindLands
    <2> QED
      BY <1>0, <1>1, <1>2, <2>1, SetInv, FallsType DEF env
  <1>3. CASE halt = "none"
    <2> DEFINE s == [node[n] EXCEPT !.lane = TRUE, !.pc = "prep"]
               M == [node EXCEPT ![n] = s]
    <2>1. s \in NodeState
      BY <1>1, Zenon DEF NodeState, Working
    <2>2. /\ s.lane /\ s.pc = "prep" /\ s.gate = node[n].gate /\ s.st = node[n].st
          /\ s.aborted = node[n].aborted /\ Kept(node[n], s)
      BY <1>1 DEF NodeState, Kept, Marks, Owns
    <2>3. Set(M)
      BY <1>0, <1>3 DEF SchedInv
    <2> HIDE DEF s
    <2>4. Sound(s)
      BY <1>0, <1>1, <2>1, <2>2 DEF Sound, Busy, InLane, Working
    <2>5. node' = M /\ Rest' /\ awake' = (awake \/ Wakes(node'))
      BY <1>0, <1>1, <2>3, SetRest, FallsType DEF env
    <2>6. node' \in [Node -> NodeState] /\ (\A m \in Node : Sound(node'[m])) /\ Others(node, node', n)
          /\ node'[n] = s
      <3>1. Pre(M, n) /\ Others(node, M, n) /\ M[n] = s
        BY <1>1, <2>1, <2>2, OwnStep DEF Kept
      <3> QED
        BY <2>4, <2>5, <3>1 DEF Pre
    <2>7. Deferral(n, node'[n])
      BY <1>0, <1>1, <2>2, <2>6 DEF Deferral, Kept, Marks, Owns
    <2>8. InLanes' = InLanes \cup {n} /\ AtGates' = AtGates
      BY <2>2, <2>6 DEF Others, Besides, Aside, InLanes, AtGates
    <2>9. Cardinality(InLanes') <= Lanes
      <3>1. InLanes \in SUBSET Node
        BY DEF InLanes
      <3> QED
        BY <1>0, <2>8, <3>1, OneMore, CapacityType
    <2> QED
      BY <1>0, <1>1, <2>2, <2>5, <2>6, <2>7, <2>8, <2>9, StepInv DEF env, SchedInv
  <1> QED
    BY <1>2, <1>3

LEMMA GateGrantedInv ==
    ASSUME SchedInv, ended = "no", NEW n \in Node, GateGranted(n) PROVE SchedInv'
  <1>0. /\ node[n].pc = "gateq" /\ UNCHANGED env /\ Cardinality(AtGates) < Gates
        /\ Set([node EXCEPT ![n].gate = TRUE, ![n].pc = "gate"])
    BY DEF GateGranted, AtGates
  <1>1. /\ Pre(node, n) /\ node[n] \in NodeState /\ Sound(node[n]) /\ Deferral(n, node[n]) /\ Rest
        /\ n \notin killing
    BY <1>0, Here
  <1> DEFINE s == [node[n] EXCEPT !.gate = TRUE, !.pc = "gate"]
             M == [node EXCEPT ![n] = s]
  <1>2. s \in NodeState
    BY <1>1, Zenon DEF NodeState, Working
  <1>3. /\ s.gate /\ s.pc = "gate" /\ s.lane = node[n].lane /\ s.st = node[n].st
        /\ s.aborted = node[n].aborted /\ Kept(node[n], s)
    BY <1>1 DEF NodeState, Kept, Marks, Owns
  <1>4. Set(M)
    BY <1>0 DEF SchedInv
  <1> HIDE DEF s
  <1>5. Sound(s)
    BY <1>0, <1>1, <1>2, <1>3 DEF Sound, Busy, InLane, Working
  <1>6. node' = M /\ Rest' /\ awake' = (awake \/ Wakes(node'))
    BY <1>0, <1>1, <1>4, SetRest, FallsType DEF env
  <1>7. node' \in [Node -> NodeState] /\ (\A m \in Node : Sound(node'[m])) /\ Others(node, node', n)
        /\ node'[n] = s
    <2>1. Pre(M, n) /\ Others(node, M, n) /\ M[n] = s
      BY <1>1, <1>2, <1>3, OwnStep DEF Kept
    <2> QED
      BY <1>5, <1>6, <2>1 DEF Pre
  <1>8. Deferral(n, node'[n])
    BY <1>0, <1>1, <1>3, <1>7 DEF Deferral, Kept, Marks, Owns
  <1>9. InLanes' = InLanes /\ AtGates' = AtGates \cup {n}
    BY <1>3, <1>7 DEF Others, Besides, Aside, InLanes, AtGates
  <1>10. Cardinality(AtGates') <= Gates
    <2>1. AtGates \in SUBSET Node
      BY DEF AtGates
    <2> QED
      BY <1>0, <1>9, <2>1, OneMore, CapacityType
  <1> QED
    BY <1>0, <1>1, <1>3, <1>6, <1>7, <1>8, <1>9, <1>10, StepInv DEF env, SchedInv

LEMMA AdmittedInv ==
    ASSUME SchedInv, ended = "no", NEW n \in Node, Admitted(n) PROVE SchedInv'
  <1>0. node[n].pc = "admit" /\ UNCHANGED env /\ Set([node EXCEPT ![n].pc = "turn"])
    BY DEF Admitted
  <1>1. /\ Pre(node, n) /\ node[n] \in NodeState /\ Sound(node[n]) /\ Rest /\ n \notin killing
    BY <1>0, Here
  <1> DEFINE s == [node[n] EXCEPT !.pc = "turn"]
  <1>2. s \in NodeState
    BY <1>1, Zenon DEF NodeState, Working
  <1>3. /\ s.pc = "turn" /\ s.lane = node[n].lane /\ s.gate = node[n].gate /\ s.st = node[n].st
        /\ s.aborted = node[n].aborted /\ Kept(node[n], s)
    BY <1>1 DEF NodeState, Kept, Marks, Owns
  <1>4. Set([node EXCEPT ![n] = s])
    BY <1>0 DEF SchedInv
  <1> HIDE DEF s
  <1>5. Sound(s)
    BY <1>0, <1>1, <1>2, <1>3 DEF Sound, Busy, InLane, Working
  <1>6. Lands(node, [node EXCEPT ![n] = s], n)
    BY <1>1, <1>3, <1>5, OwnLands DEF Less
  <1> QED
    BY <1>0, <1>1, <1>4, <1>6, SetInv, FallsType DEF env

LEMMA PreparedInv ==
    ASSUME SchedInv, ended = "no", NEW n \in Node, Prepared(n) PROVE SchedInv'
  <1>1. PICK next \in Work \ {"chore"} : Set(Enter(node, n, next))
    BY DEF Prepared
  <1>2. node[n].pc = "prep" /\ UNCHANGED env
    BY DEF Prepared
  <1>3. Pre(node, n) /\ Sound(node[n]) /\ Rest /\ n \notin killing
    BY <1>2, Here
  <1>4. Busy(node[n]) /\ ~node[n].gate /\ (~node[n].aborted => node[n].lane)
    BY <1>2, <1>3 DEF Sound, InLane, Working
  <1>5. Lands(node, Enter(node, n, next), n)
    BY <1>3, <1>4, EnterLands
  <1> QED
    BY <1>1, <1>2, <1>3, <1>5, SetInv, FallsType DEF env

LEMMA LaneUnhealthyInv ==
    ASSUME SchedInv, ended = "no", NEW n \in Node, LaneUnhealthy(n) PROVE SchedInv'
  <1> DEFINE R == Released(node, n)
  <1>1. /\ node[n].pc = "prep" /\ falls < MaxFalls /\ falls' = falls + 1 /\ Set(Attempt(R, n))
        /\ UNCHANGED <<killing, parked, halt, ended, ops>>
    BY DEF LaneUnhealthy
  <1>2. Pre(node, n) /\ node[n] \in NodeState /\ Sound(node[n]) /\ Rest
    BY Here
  <1>3. Pre(R, n) /\ Others(node, R, n) /\ R[n] = [node[n] EXCEPT !.lane = FALSE, !.gate = FALSE]
    BY <1>2, ReleasedStep
  <1>4. ~R[n].lane /\ ~R[n].gate /\ R[n].st = node[n].st /\ R[n].aborted = node[n].aborted /\ Kept(node[n], R[n])
    BY <1>2, <1>3 DEF NodeState, Kept, Marks, Owns
  <1> HIDE DEF R
  <1>5. Busy(R[n])
    BY <1>1, <1>2, <1>4 DEF Sound, Busy
  <1>6. Lands(R, Attempt(R, n), n)
    BY <1>3, <1>4, <1>5, AttemptLands
  <1> QED
    BY <1>1, <1>2, <1>3, <1>4, <1>6, SetThenInv, FallsType DEF Less

LEMMA StepEndsInv ==
    ASSUME SchedInv, ended = "no", NEW n \in Node, StepEnds(n) PROVE SchedInv'
  <1>1. PICK next \in Work \cup Final \cup {"ask"} :
            /\ next = "failed" => falls < MaxFalls
            /\ Set(Boundary(node, n, next))
            /\ falls' = IF next = "failed" THEN falls + 1 ELSE falls
    BY DEF StepEnds
  <1>2. node[n].pc \in {"turn", "gate", "merge"} /\ UNCHANGED <<killing, parked, halt, ended, ops>>
    BY DEF StepEnds
  <1>3. Pre(node, n) /\ Sound(node[n]) /\ Rest
    BY Here
  <1>4. Busy(node[n]) /\ (~node[n].aborted => node[n].lane)
    BY <1>2, <1>3 DEF Sound, InLane, Working
  <1>5. Lands(node, Boundary(node, n, next), n)
    BY <1>3, <1>4, BoundaryLands
  <1>6. n \in killing => Killed(Boundary(node, n, next)[n])
    <2> SUFFICES ASSUME n \in killing PROVE Killed(Boundary(node, n, next)[n])
      OBVIOUS
    <2>1. Killed(node[n])
      BY DEF SchedInv
    <2> QED
      BY <1>3, <2>1, AbortedLeaves DEF Killed, Settled
  <1>7. falls' \in 0 .. MaxFalls /\ ops' \in 0 .. MaxOps
    BY <1>1, <1>2, <1>3, FallsType
  <1> QED
    BY <1>1, <1>2, <1>5, <1>6, <1>7, SetInv
LEMMA ThrowsInv ==
    ASSUME SchedInv, ended = "no", NEW n \in Node, Throws(n) PROVE SchedInv'
  <1>1. /\ node[n].pc \in Working /\ falls < MaxFalls /\ falls' = falls + 1
        /\ UNCHANGED <<killing, parked, halt, ended, ops>>
        /\ Set(IF node[n].pc = "turn" /\ node[n].aborted THEN Leave(Released(node, n), n)
               ELSE Recover(node, n, TRUE))
    BY DEF Throws
  <1>2. Pre(node, n) /\ Sound(node[n]) /\ Rest
    BY Here
  <1>3. CASE node[n].pc = "turn" /\ node[n].aborted
    <2> DEFINE M == Leave(Released(node, n), n)
    <2>1. /\ Lands(node, M, n) /\ M[n].pc = "out"
          /\ node[n].st # "failed" => M[n].st = node[n].st /\ M[n].aborted = node[n].aborted
      BY <1>2, FreedLands
    <2>2. Set(M)
      BY <1>1, <1>3
    <2> HIDE DEF M
    <2>3. n \in killing => Killed(M[n])
      BY <2>1 DEF SchedInv, Killed, Settled
    <2> QED
      BY <1>1, <1>2, <2>1, <2>2, <2>3, SetInv, FallsType
  <1>4. CASE ~(node[n].pc = "turn" /\ node[n].aborted)
    <2>1. Set(Recover(node, n, TRUE))
      BY <1>1, <1>4
    <2>2. n \notin killing /\ node[n].pc \notin {"out", "deferred"}
      BY <1>1, <1>4 DEF SchedInv, Killed, Working
    <2>3. Busy(node[n])
      BY <1>2, <2>2 DEF Sound
    <2>4. Lands(node, Recover(node, n, TRUE), n)
      BY <1>2, <2>3, RecoverLands
    <2> QED
      BY <1>1, <1>2, <2>1, <2>2, <2>4, SetInv, FallsType
  <1> QED
    BY <1>3, <1>4

LEMMA RefusedInv ==
    ASSUME SchedInv, ended = "no", NEW n \in Node, Refused(n) PROVE SchedInv'
  <1> DEFINE s == [node[n] EXCEPT !.lane = FALSE, !.gate = FALSE, !.pc = "capacity",
                                  !.st = "waiting_on_capacity"]
             M == [node EXCEPT ![n] = s]
  <1>1. /\ node[n].pc = "admit" \/ (node[n].pc = "turn" /\ ~node[n].aborted)
        /\ falls < MaxFalls /\ falls' = falls + 1 /\ parked' = TRUE
        /\ UNCHANGED <<killing, halt, ended, ops>>
    BY DEF Refused
  <1>2. Pre(node, n) /\ node[n] \in NodeState /\ Rest
    BY Here
  <1>3. s \in NodeState
    BY <1>2, Zenon DEF NodeState
  <1>4. ~s.lane /\ ~s.gate /\ s.pc = "capacity" /\ s.st = "waiting_on_capacity" /\ Kept(node[n], s)
    <2>1. Busy(node[n])
      BY <1>1, Here DEF Sound
    <2> QED
      BY <1>2, <2>1 DEF NodeState, Kept, Marks, Owns, Busy
  <1>5. Set(M)
    BY <1>2 DEF Refused, Released, Pre
  <1> HIDE DEF s
  <1>6. Sound(s)
    BY <1>3, <1>4 DEF Sound, Busy, InLane, Working
  <1>7. Lands(node, M, n)
    BY <1>2, <1>4, <1>6, OwnLands DEF Less
  <1> HIDE DEF M
  <1>8. Rest' /\ node' = M /\ awake' = (awake \/ Wakes(node'))
    <2>1. node' = M /\ awake' = (awake \/ Wakes(M))
      BY <1>5 DEF Set
    <2>2. awake' \in BOOLEAN
      BY <2>1
    <2> QED
      BY <1>1, <1>2, <2>1, <2>2, FallsType DEF Rest
  <1>9. n \notin killing
    BY <1>1 DEF SchedInv, Killed
  <1> QED
    BY <1>1, <1>7, <1>8, <1>9, LandsInv

LEMMA CapacityEndsInv ==
    ASSUME SchedInv, ended = "no", NEW n \in Node, CapacityEnds(n) PROVE SchedInv'
  <1> DEFINE s == [node[n] EXCEPT !.st = "running"]
             N == [node EXCEPT ![n] = s]
  <1>1. /\ node[n].pc = "capacity" /\ UNCHANGED env
        /\ Set(IF node[n].aborted THEN Leave(node, n)
               ELSE IF halt # "none" THEN Unwind(node, n)
               ELSE Attempt([node EXCEPT ![n].st = "running"], n))
    BY DEF CapacityEnds
  <1>2. /\ Pre(node, n) /\ node[n] \in NodeState /\ Sound(node[n]) /\ Rest /\ n \notin killing
        /\ ~node[n].lane /\ ~node[n].gate /\ Busy(node[n])
    BY <1>1, Here DEF Sound, InLane, Working
  <1>3. CASE Set(Leave(node, n))
    BY <1>1, <1>2, <1>3, LeaveLands, SetInv, FallsType DEF env
  <1>4. CASE Set(Unwind(node, n))
    BY <1>1, <1>2, <1>4, UnwindLands, SetInv, FallsType DEF env
  <1>5. CASE Set(Attempt([node EXCEPT ![n].st = "running"], n))
    <2>1. s \in NodeState
      BY <1>2, Zenon DEF NodeState
    <2>2. s.st = "running" /\ ~s.lane /\ ~s.gate /\ Kept(node[n], s)
      BY <1>2 DEF NodeState, Kept, Marks, Owns, Busy
    <2>3. Set(Attempt(N, n))
      BY <1>2, <1>5 DEF Pre
    <2> HIDE DEF s
    <2>4. Pre(N, n) /\ Others(node, N, n) /\ N[n] = s
      BY <1>2, <2>1, <2>2, OwnStep DEF Kept
    <2> HIDE DEF N
    <2>5. Lands(N, Attempt(N, n), n)
      BY <2>2, <2>4, AttemptLands DEF Busy
    <2> QED
      BY <1>1, <1>2, <2>2, <2>3, <2>4, <2>5, SetThenInv, FallsType DEF Less, env
  <1> QED
    BY <1>1, <1>3, <1>4, <1>5
LEMMA RecoversInv ==
    ASSUME SchedInv, ended = "no", NEW n \in Node, Recovers(n) PROVE SchedInv'
  <1>1. node[n].pc = "judge" /\ UNCHANGED env
    BY DEF Recovers
  <1>2. /\ Pre(node, n) /\ node[n] \in NodeState /\ Sound(node[n]) /\ Rest /\ n \notin killing
        /\ ~node[n].lane /\ ~node[n].gate /\ Busy(node[n])
    BY <1>1, Here DEF Sound, InLane, Working
  <1>3. CASE node[n].auto < Retries /\ Set(Attempt([node EXCEPT ![n].auto = @ + 1, ![n].st = "running"], n))
    <2> DEFINE s == [node[n] EXCEPT !.auto = @ + 1, !.st = "running"]
               N == [node EXCEPT ![n] = s]
    <2>1. s \in NodeState
      <3>1. node[n].auto \in 0 .. Retries
        BY <1>2 DEF NodeState
      <3>2. node[n].auto + 1 \in 0 .. Retries
        BY <1>3, <3>1, PolicyType
      <3> QED
        BY <1>2, <3>2, Zenon DEF NodeState
    <2>2. s.st = "running" /\ ~s.lane /\ ~s.gate /\ Kept(node[n], s)
      BY <1>2 DEF NodeState, Kept, Marks, Owns, Busy
    <2>3. Set(Attempt(N, n))
      BY <1>2, <1>3 DEF Pre
    <2> HIDE DEF s
    <2>4. Pre(N, n) /\ Others(node, N, n) /\ N[n] = s
      BY <1>2, <2>1, <2>2, OwnStep DEF Kept
    <2> HIDE DEF N
    <2>5. Lands(N, Attempt(N, n), n)
      BY <2>2, <2>4, AttemptLands DEF Busy
    <2> QED
      BY <1>1, <1>2, <2>2, <2>3, <2>4, <2>5, SetThenInv, FallsType DEF Less, env
  <1>4. CASE Set(Leave(Fail(node, n), n))
    BY <1>1, <1>2, <1>4, FailedLands, SetInv, FallsType DEF env
  <1>5. CASE \E w \in Unattended("retry") : Set(Armed(Park(node, n, "retry"), n, "retry", w))
    <2>1. PICK w \in Unattended("retry") : Set(Armed(Park(node, n, "retry"), n, "retry", w))
      BY <1>5
    <2> DEFINE M == Armed(Park(node, n, "retry"), n, "retry", w)
    <2>2. Lands(node, M, n) /\ Set(M)
      BY <1>2, <2>1, AskLands
    <2> HIDE DEF M
    <2> QED
      BY <1>1, <1>2, <2>2, SetInv, FallsType DEF env
  <1> QED
    BY <1>3, <1>4, <1>5 DEF Recovers

LEMMA WaveFailsInv ==
    ASSUME SchedInv, ended = "no", NEW n \in Node, WaveFails(n) PROVE SchedInv'
  <1> DEFINE s == [node[n] EXCEPT !.landed = TRUE]
             N == [node EXCEPT ![n] = s]
             M == Park(N, n, "wave")
  <1>1. /\ node[n].pc = "merge" /\ falls < MaxFalls /\ falls' = falls + 1
        /\ UNCHANGED <<killing, parked, halt, ended, ops>>
    BY DEF WaveFails
  <1>2. /\ Pre(node, n) /\ node[n] \in NodeState /\ Sound(node[n]) /\ Rest /\ n \notin killing
        /\ (~node[n].aborted => node[n].lane) /\ ~node[n].gate /\ Busy(node[n])
    BY <1>1, Here DEF Sound, InLane, Working
  <1>3. s \in NodeState
    BY <1>2, Zenon DEF NodeState
  <1>4. /\ s.lane = node[n].lane /\ ~s.gate /\ s.aborted = node[n].aborted /\ s.st = node[n].st
        /\ Kept(node[n], s)
    BY <1>2 DEF NodeState, Kept, Marks, Owns
  <1>5. \/ Set(Leave(Released(node, n), n))
        \/ \E w \in Unattended("wave") : Set(Armed(M, n, "wave", w))
    BY <1>2 DEF WaveFails, Pre
  <1> HIDE DEF s
  <1>6. Pre(N, n) /\ Others(node, N, n) /\ N[n] = s
    BY <1>2, <1>3, <1>4, OwnStep DEF Kept
  <1> HIDE DEF N
  <1>7. \A w \in Unattended("wave") : Lands(N, Armed(M, n, "wave", w), n)
    BY <1>2, <1>4, <1>6, AskLands DEF Busy
  <1> HIDE DEF M
  <1>8. Less(node[n], N[n])
    BY <1>4, <1>6 DEF Less
  <1>9. falls' \in 0 .. MaxFalls /\ ops' \in 0 .. MaxOps
    BY <1>1, <1>2, FallsType
  <1>10. CASE Set(Leave(Released(node, n), n))
    BY <1>1, <1>2, <1>9, <1>10, FreedLands, SetInv
  <1>11. CASE \E w \in Unattended("wave") : Set(Armed(M, n, "wave", w))
    BY <1>1, <1>6, <1>7, <1>8, <1>9, <1>11, SetThenInv
  <1> QED
    BY <1>5, <1>10, <1>11

LEMMA WithStray ==
    ASSUME NEW s \in NodeState, NEW v \in SUBSET {"armed", "watched"}
    PROVE  [s EXCEPT !.stray = v] \in NodeState
  BY Zenon DEF NodeState

LEMMA BackToPending ==
    ASSUME NEW s \in NodeState PROVE [s EXCEPT !.st = "pending"] \in NodeState
  BY Zenon DEF NodeState

LEMMA WokenInv ==
    ASSUME SchedInv, ended = "no", NEW n \in Node, Woken(n) PROVE SchedInv'
  <1> DEFINE stray == IF node[n].pc = "retry" /\ node[n].timer \in {"armed", "watched"}
                      THEN node[n].stray \cup {node[n].timer} ELSE node[n].stray
             s == [node[n] EXCEPT !.stray = stray]
             N == [node EXCEPT ![n] = s]
             t == [s EXCEPT !.st = "pending"]
             P == [N EXCEPT ![n] = t]
  <1>1. node[n].pc \in Parked /\ UNCHANGED env
    BY DEF Woken
  <1>2. /\ Pre(node, n) /\ node[n] \in NodeState /\ Sound(node[n]) /\ Deferral(n, node[n])
        /\ Rest /\ n \notin killing
    BY <1>1, Here DEF Parked
  <1>3. s \in NodeState
    <2>1. stray \in SUBSET {"armed", "watched"}
      BY <1>2 DEF NodeState
    <2> HIDE DEF stray
    <2> QED
      BY <1>2, <2>1, WithStray
  <1>4. /\ s.lane = node[n].lane /\ s.gate = node[n].gate /\ s.pc = node[n].pc
        /\ s.released = node[n].released /\ (s.pc # "retry" => s.stray = node[n].stray)
        /\ s.st = node[n].st /\ s.aborted = node[n].aborted
    BY <1>2 DEF NodeState
  <1>5. t \in NodeState
    BY <1>3, BackToPending
  <1>6. /\ t.lane = s.lane /\ t.gate = s.gate /\ t.released = s.released /\ t.stray = s.stray
        /\ ~node[n].aborted => Owns(s, t)
    <2>1. Busy(node[n])
      BY <1>1, <1>2 DEF Sound, Parked
    <2> QED
      BY <1>3, <1>4, <2>1 DEF NodeState, Owns, Busy
  <1>7. [N EXCEPT ![n].st = "pending"] = P
    BY <1>2 DEF Pre
  <1>8. Set(IF node[n].pc = "deferred" THEN Leave(IF node[n].aborted THEN N ELSE P, n)
            ELSE IF node[n].pc = "retry" /\ node[n].thrown THEN Leave(Fail(N, n), n)
            ELSE IF node[n].aborted THEN Leave(Released(N, n), n)
            ELSE Unwind(N, n))
    BY <1>7, <1>2 DEF Woken, Pre
  <1> HIDE DEF s, t
  <1>9. Pre(N, n) /\ Others(node, N, n) /\ N[n] = s
    BY <1>2, <1>3, <1>4, OwnStep DEF Owns
  <1> HIDE DEF N
  <1>10. ~node[n].aborted => Pre(P, n) /\ Others(N, P, n) /\ P[n] = t
    BY <1>5, <1>6, <1>9, OwnStep
  <1> HIDE DEF P
  <1>11. node[n].pc \in {"deferred", "retry"} => ~s.lane /\ ~s.gate
    BY <1>2, <1>4 DEF Sound, InLane, Working
  <1>12. n \in Deferred /\ ~s.released => s.stray = {}
    BY <1>1, <1>2, <1>4 DEF Deferral, Parked
  <1>13. falls' \in 0 .. MaxFalls /\ ops' \in 0 .. MaxOps /\ UNCHANGED <<killing, parked, halt, ended>>
    BY <1>1, <1>2, FallsType DEF env
  <1>14. ASSUME NEW M, Set(M), Lands(N, M, n), M[n].pc = "out" PROVE SchedInv'
    BY <1>2, <1>4, <1>9, <1>12, <1>13, <1>14, FromInv
  <1>15. CASE node[n].pc = "deferred"
    <2>1. Lands(N, Leave(N, n), n) /\ Leave(N, n)[n].pc = "out"
      BY <1>9, <1>11, <1>15, LeaveLands
    <2>2. ~node[n].aborted => Lands(P, Leave(P, n), n) /\ Leave(P, n)[n].pc = "out"
      BY <1>6, <1>10, <1>11, <1>15, LeaveLands
    <2>3. ~node[n].aborted => Lands(N, Leave(P, n), n)
      BY <1>6, <1>9, <1>10, <2>2, LandsThen DEF Less, Kept, Marks
    <2> QED
      BY <1>8, <1>14, <1>15, <2>1, <2>2, <2>3
  <1>16. CASE node[n].pc = "retry" /\ Set(Leave(Fail(N, n), n))
    BY <1>9, <1>11, <1>14, <1>16, FailedLands
  <1>17. CASE Set(Leave(Released(N, n), n))
    BY <1>9, <1>14, <1>17, FreedLands
  <1>18. CASE Set(Unwind(N, n))
    BY <1>9, <1>14, <1>18, UnwindLands
  <1> QED
    BY <1>8, <1>15, <1>16, <1>17, <1>18
----------------------------------------------------------------------------
(* Answers *)

LEMMA MarkedAnswered ==
    ASSUME NEW s \in NodeState, Busy(s)
    PROVE  LET t == [s EXCEPT !.held = FALSE, !.timer = "none", !.st = "running"] IN
           /\ t \in NodeState /\ t.st = "running" /\ t.pc = s.pc /\ t.lane = s.lane /\ t.gate = s.gate
           /\ t.aborted = s.aborted /\ Kept(s, t)
  <1> DEFINE t == [s EXCEPT !.held = FALSE, !.timer = "none", !.st = "running"]
  <1>1. t \in NodeState
    BY Zenon DEF NodeState
  <1>2. /\ t.st = "running" /\ t.pc = s.pc /\ t.lane = s.lane /\ t.gate = s.gate
        /\ t.aborted = s.aborted /\ Kept(s, t)
    BY DEF NodeState, Kept, Marks, Owns, Busy
  <1> QED
    BY <1>1, <1>2

\* A body parked on a question, as its answer finds it.
LEMMA Asked ==
    ASSUME SchedInv, NEW n \in Node, Asking(n)
    PROVE  /\ Pre(node, n) /\ node[n] \in NodeState /\ Sound(node[n]) /\ Deferral(n, node[n])
           /\ Rest /\ n \notin killing /\ node[n].pc \in Parked /\ ~node[n].gate
           /\ Busy(node[n]) /\ ~node[n].aborted
           /\ node[n].pc \in {"asked", "hold", "wave"} => node[n].lane
           /\ node[n].pc \in {"retry", "deferred"} => ~node[n].lane
           /\ node[n].pc # "deferred" => n \notin Deferred \/ node[n].released
  BY Here DEF Asking, Parked, Sound, InLane, Working, Deferral

LEMMA AnsweredStep ==
    ASSUME SchedInv, NEW n \in Node, Asking(n), node[n].pc # "deferred"
    PROVE  LET A == Answered(n) IN
           /\ Pre(A, n) /\ Others(node, A, n) /\ Busy(A[n]) /\ A[n] \in NodeState
           /\ A[n].st = "running" /\ A[n].pc = node[n].pc /\ A[n].lane = node[n].lane
           /\ ~A[n].gate /\ ~A[n].aborted /\ Kept(node[n], A[n])
  <1> DEFINE s == [node[n] EXCEPT !.held = FALSE, !.timer = "none", !.st = "running"]
  <1>1. Pre(node, n) /\ node[n] \in NodeState /\ ~node[n].gate /\ Busy(node[n])
    BY Asked
  <1>2. /\ s \in NodeState /\ s.st = "running" /\ s.pc = node[n].pc /\ s.lane = node[n].lane
        /\ s.gate = node[n].gate /\ s.aborted = node[n].aborted /\ Kept(node[n], s)
    BY <1>1, MarkedAnswered
  <1>3. Answered(n) = [node EXCEPT ![n] = s]
    BY <1>1 DEF Answered, Pre
  <1> HIDE DEF s
  <1>4. LET A == [node EXCEPT ![n] = s] IN Pre(A, n) /\ Others(node, A, n) /\ A[n] = s
    BY <1>1, <1>2, OwnStep DEF Kept
  <1> QED
    BY <1>1, <1>2, <1>3, <1>4 DEF Busy, Asking

LEMMA ToMerge ==
    ASSUME NEW n \in Node, NEW N, Pre(N, n), Busy(N[n]), N[n].lane, ~N[n].gate
    PROVE  Lands(N, [N EXCEPT ![n].pc = "merge"], n)
  <1> DEFINE s == [N[n] EXCEPT !.pc = "merge"]
  <1>1. N[n] \in NodeState
    BY DEF Pre
  <1>2. s \in NodeState
    BY <1>1, Zenon DEF NodeState, Working
  <1>3. /\ s.pc = "merge" /\ s.lane /\ ~s.gate /\ s.st = N[n].st /\ s.aborted = N[n].aborted
        /\ Kept(N[n], s)
    BY <1>1 DEF NodeState, Kept, Marks, Owns
  <1>4. [N EXCEPT ![n].pc = "merge"] = [N EXCEPT ![n] = s]
    BY DEF Pre
  <1> HIDE DEF s
  <1>5. Sound(s)
    BY <1>2, <1>3 DEF Sound, Busy, InLane, Working
  <1> QED
    BY <1>3, <1>4, <1>5, OwnLands DEF Less

LEMMA AnswersRetryInv ==
    ASSUME SchedInv, ended = "no", NEW n \in Node, Asking(n), node[n].pc # "deferred", AnswersRetry(n),
           UNCHANGED <<killing, parked, halt, ended>>, ops' \in 0 .. MaxOps, falls' \in 0 .. MaxFalls
    PROVE  SchedInv'
  <1> DEFINE A == Answered(n)
  <1>1. /\ Pre(A, n) /\ Others(node, A, n) /\ Busy(A[n]) /\ A[n].lane = node[n].lane
        /\ ~A[n].gate /\ Kept(node[n], A[n])
    BY AnsweredStep
  <1>2. /\ n \notin killing /\ node[n].pc \in Parked /\ ~node[n].aborted
        /\ node[n].pc # "retry" => node[n].lane
        /\ node[n].pc = "retry" => ~node[n].lane
        /\ n \notin Deferred \/ node[n].released
    BY Asked DEF Parked
  <1>3. Set(IF node[n].pc = "retry" THEN Attempt(A, n) ELSE [A EXCEPT ![n].pc = "merge"])
    BY DEF AnswersRetry
  <1> HIDE DEF A
  <1>4. ASSUME NEW M, Set(M), Lands(A, M, n) PROVE SchedInv'
    BY <1>1, <1>2, <1>4, FromInv DEF Kept, Marks, Owns
  <1>5. CASE node[n].pc = "retry"
    BY <1>1, <1>2, <1>3, <1>4, <1>5, AttemptLands
  <1>6. CASE node[n].pc # "retry"
    BY <1>1, <1>2, <1>3, <1>4, <1>6, ToMerge
  <1> QED
    BY <1>5, <1>6

LEMMA GoesOnInv ==
    ASSUME SchedInv, ended = "no", NEW n \in Node, Asking(n), node[n].pc \in {"asked", "hold", "wave"},
           GoesOn(n), UNCHANGED <<killing, parked, halt, ended>>, ops' \in 0 .. MaxOps
    PROVE  SchedInv'
  <1> DEFINE A == Answered(n)
  <1>1. PICK next \in Work \cup Final \cup {"ask"} :
            /\ next = "failed" => falls < MaxFalls
            /\ Set(Boundary(A, n, next))
            /\ falls' = IF next = "failed" THEN falls + 1 ELSE falls
    BY DEF GoesOn
  <1>2. /\ Pre(A, n) /\ Others(node, A, n) /\ Busy(A[n]) /\ A[n].lane = node[n].lane
        /\ ~A[n].gate /\ Kept(node[n], A[n])
    BY AnsweredStep
  <1>3. /\ n \notin killing /\ node[n].lane /\ Rest /\ ~node[n].aborted
        /\ n \notin Deferred \/ node[n].released
    BY Asked
  <1> HIDE DEF A
  <1>4. Lands(A, Boundary(A, n, next), n)
    BY <1>2, <1>3, BoundaryLands
  <1>5. falls' \in 0 .. MaxFalls
    BY <1>1, <1>3, FallsType
  <1> QED
    BY <1>1, <1>2, <1>3, <1>4, <1>5, FromInv DEF Kept, Marks, Owns

LEMMA StopsInv ==
    ASSUME SchedInv, ended = "no", NEW n \in Node, Asking(n), Stops(n),
           UNCHANGED <<killing, parked, halt, ended, falls>>, ops' \in 0 .. MaxOps
    PROVE  SchedInv'
  <1> DEFINE R == Released(node, n)
             M == Leave(Fail(R, n), n)
  <1>1. /\ Pre(node, n) /\ node[n] \in NodeState /\ Rest /\ n \notin killing /\ ~node[n].aborted
        /\ n \in Deferred /\ ~node[n].released => node[n].stray = {}
    BY Asked DEF Deferral
  <1>2. Pre(R, n) /\ Others(node, R, n) /\ R[n] = [node[n] EXCEPT !.lane = FALSE, !.gate = FALSE]
    BY <1>1, ReleasedStep
  <1>3. ~R[n].lane /\ ~R[n].gate /\ Kept(node[n], R[n])
    BY <1>1, <1>2 DEF NodeState, Kept, Marks, Owns
  <1>4. Set(M)
    BY DEF Stops
  <1> HIDE DEF R
  <1>5. Lands(R, M, n) /\ M[n].pc = "out"
    BY <1>2, <1>3, FailedLands
  <1> HIDE DEF M
  <1> QED
    BY <1>1, <1>2, <1>3, <1>4, <1>5, FromInv, FallsType DEF Kept, Marks, Owns

LEMMA StartsInv ==
    ASSUME SchedInv, ended = "no", NEW n \in Node, Asking(n), node[n].pc = "deferred", Starts(n),
           UNCHANGED <<killing, parked, halt, ended, falls>>, ops' \in 0 .. MaxOps
    PROVE  SchedInv'
  <1> DEFINE s == [node[n] EXCEPT !.released = TRUE, !.st = "pending"]
             N == [node EXCEPT ![n] = s]
             M == Leave(N, n)
  <1>1. /\ Pre(node, n) /\ node[n] \in NodeState /\ Rest /\ n \notin killing
        /\ ~node[n].lane /\ ~node[n].gate /\ Busy(node[n]) /\ ~node[n].aborted
    BY Asked
  <1>2. s \in NodeState
    BY <1>1, Zenon DEF NodeState
  <1>3. ~s.lane /\ ~s.gate /\ s.released /\ Owns(node[n], s)
    BY <1>1 DEF NodeState, Owns, Busy
  <1>4. Set(M)
    BY <1>1 DEF Starts, Pre
  <1> HIDE DEF s
  <1>5. Pre(N, n) /\ Others(node, N, n) /\ N[n] = s
    BY <1>1, <1>2, <1>3, OwnStep
  <1> HIDE DEF N
  <1>6. Lands(N, M, n)
    BY <1>3, <1>5, LeaveLands
  <1> HIDE DEF M
  <1> QED
    BY <1>1, <1>3, <1>4, <1>5, <1>6, FromInv, FallsType

LEMMA ActType ==
    ASSUME Rest, Act PROVE ended = "no" /\ ops' \in 0 .. MaxOps
  BY BoundsType DEF Rest, Act

LEMMA AnswerInv ==
    ASSUME SchedInv, NEW n \in Node, Answer(n) PROVE SchedInv'
  <1>1. Act /\ Asking(n) /\ UNCHANGED <<killing, parked, halt, ended>>
    BY DEF Answer
  <1>2. ended = "no" /\ ops' \in 0 .. MaxOps /\ falls \in 0 .. MaxFalls
    BY <1>1, ActType, FallsType DEF SchedInv
  <1>3. CASE node[n].pc \in {"retry", "wave"} /\ AnswersRetry(n) /\ UNCHANGED falls
    BY <1>1, <1>2, <1>3, AnswersRetryInv
  <1>4. CASE node[n].pc \in {"asked", "hold", "wave"} /\ GoesOn(n)
    BY <1>1, <1>2, <1>4, GoesOnInv
  <1>5. CASE Stops(n) /\ UNCHANGED falls
    BY <1>1, <1>2, <1>5, StopsInv
  <1>6. CASE node[n].pc = "deferred" /\ Starts(n) /\ UNCHANGED falls
    BY <1>1, <1>2, <1>6, StartsInv
  <1> QED
    BY <1>3, <1>4, <1>5, <1>6 DEF Answer
LEMMA TimerFiresInv ==
    ASSUME SchedInv, ended = "no", NEW n \in Node, TimerFires(n) PROVE SchedInv'
  <1>1. /\ Asking(n) /\ node[n].timer # "none" /\ UNCHANGED env
        /\ \/ ~node[n].held /\ AnswersRetry(n)
           \/ node[n].held /\ Set([node EXCEPT ![n].timer = "rearm"])
    BY DEF TimerFires
  <1>2. /\ Pre(node, n) /\ node[n] \in NodeState /\ Rest /\ node[n].pc \in Parked
        /\ node[n].pc # "deferred"
    BY <1>1, Asked DEF Deferral
  <1>3. ops' \in 0 .. MaxOps /\ falls' \in 0 .. MaxFalls /\ UNCHANGED <<killing, parked, halt, ended>>
    BY <1>1, <1>2, FallsType DEF env
  <1>4. CASE node[n].held
    <2> DEFINE s == [node[n] EXCEPT !.timer = "rearm"]
    <2>1. s \in NodeState
      BY <1>2, Zenon DEF NodeState
    <2>2. /\ s.st = node[n].st /\ s.pc = node[n].pc /\ s.lane = node[n].lane /\ s.gate = node[n].gate
          /\ s.aborted = node[n].aborted /\ s.released = node[n].released /\ s.stray = node[n].stray
          /\ s.timer = "rearm" /\ s.held
      BY <1>2, <1>4 DEF NodeState
    <2>3. Set([node EXCEPT ![n] = s])
      BY <1>1, <1>2, <1>4 DEF Pre
    <2> HIDE DEF s
    <2> QED
      BY <1>2, <1>3, <2>1, <2>2, <2>3, MarkInv DEF Parked
  <1>5. CASE ~node[n].held
    BY <1>1, <1>2, <1>3, <1>5, AnswersRetryInv
  <1> QED
    BY <1>4, <1>5

LEMMA UnstrayedStep ==
    ASSUME SchedInv, NEW n \in Node, Asking(n), node[n].pc # "deferred",
           NEW v \in SUBSET {"armed", "watched"}
    PROVE  LET B == [Answered(n) EXCEPT ![n].stray = v] IN
           /\ Pre(B, n) /\ Others(node, B, n) /\ Busy(B[n]) /\ B[n].lane = node[n].lane
           /\ ~B[n].gate /\ B[n].released = node[n].released
  <1> DEFINE A == Answered(n)
             s == [A[n] EXCEPT !.stray = v]
             B == [A EXCEPT ![n] = s]
  <1>1. /\ Pre(A, n) /\ Others(node, A, n) /\ Busy(A[n]) /\ A[n] \in NodeState
        /\ A[n].lane = node[n].lane /\ ~A[n].gate /\ Kept(node[n], A[n])
    BY AnsweredStep
  <1> HIDE DEF A
  <1>2. s \in NodeState
    BY <1>1, WithStray
  <1>3. /\ s.lane = A[n].lane /\ ~s.gate /\ s.released = A[n].released /\ s.st = A[n].st
        /\ s.aborted = A[n].aborted
    BY <1>1 DEF NodeState
  <1>4. [A EXCEPT ![n].stray = v] = B
    BY <1>1 DEF Pre
  <1> HIDE DEF s
  <1>5. Pre(B, n) /\ Others(A, B, n) /\ B[n] = s
    BY <1>1, <1>2, <1>3, OwnStep DEF Owns
  <1>6. Others(node, B, n)
    BY <1>1, <1>5, OthersThen
  <1> QED
    BY <1>1, <1>3, <1>4, <1>5, <1>6 DEF A, Busy, Kept, Marks, Owns

LEMMA StrayFiresInv ==
    ASSUME SchedInv, ended = "no", NEW n \in Node, StrayFires(n) PROVE SchedInv'
  <1>0. PICK w \in node[n].stray :
            LET left == node[n].stray \ {w}
                N == [node EXCEPT ![n].stray = left]
                B == [Answered(n) EXCEPT ![n].stray = left] IN
            /\ UNCHANGED <<killing, parked, halt, ended, ops, falls>>
            /\ \/ ~Asking(n) /\ Set(N)
               \/ Asking(n) /\ node[n].held /\ w = "armed" /\ Set([N EXCEPT ![n].timer = "rearm"])
               \/ /\ Asking(n) /\ ~node[n].held
                  /\ \/ node[n].pc = "retry" /\ Set(Attempt(B, n))
                     \/ node[n].pc = "wave" /\ Set([B EXCEPT ![n].pc = "merge"])
                     \/ /\ node[n].pc \in {"asked", "hold"}
                        /\ \E next \in Work \ {"chore"} : Set(Boundary(B, n, next))
                     \/ node[n].pc = "deferred" /\ Set(Leave(Fail(N, n), n))
    BY DEF StrayFires
  <1> DEFINE left == node[n].stray \ {w}
             s == [node[n] EXCEPT !.stray = left]
             t == [s EXCEPT !.timer = "rearm"]
             B == [Answered(n) EXCEPT ![n].stray = left]
  <1>1. UNCHANGED <<killing, parked, halt, ended, ops, falls>>
    BY <1>0
  <1>2. /\ Pre(node, n) /\ node[n] \in NodeState /\ Rest /\ Deferral(n, node[n]) /\ Sound(node[n])
        /\ node[n].stray # {}
    BY <1>0, Here
  <1>3. node[n].pc # "deferred" /\ (n \notin Deferred \/ node[n].released)
    BY <1>2 DEF Deferral
  <1>4. ops' \in 0 .. MaxOps /\ falls' \in 0 .. MaxFalls
    BY <1>1, <1>2, FallsType
  <1>5. left \in SUBSET {"armed", "watched"} /\ left \subseteq node[n].stray
    BY <1>2 DEF NodeState
  <1>6. /\ [node EXCEPT ![n].stray = left] = [node EXCEPT ![n] = s]
        /\ [[node EXCEPT ![n].stray = left] EXCEPT ![n].timer = "rearm"] = [node EXCEPT ![n] = t]
    BY <1>2 DEF Pre
  <1>7. \/ ~Asking(n) /\ Set([node EXCEPT ![n] = s])
        \/ Asking(n) /\ node[n].held /\ Set([node EXCEPT ![n] = t])
        \/ /\ Asking(n) /\ ~node[n].held
           /\ \/ node[n].pc = "retry" /\ Set(Attempt(B, n))
              \/ node[n].pc = "wave" /\ Set([B EXCEPT ![n].pc = "merge"])
              \/ /\ node[n].pc \in {"asked", "hold"}
                 /\ \E next \in Work \ {"chore"} : Set(Boundary(B, n, next))
    BY <1>0, <1>3, <1>6
  <1> HIDE DEF left
  <1>8. s \in NodeState
    BY <1>2, <1>5, WithStray
  <1>9. /\ s.st = node[n].st /\ s.pc = node[n].pc /\ s.lane = node[n].lane /\ s.gate = node[n].gate
        /\ s.aborted = node[n].aborted /\ s.released = node[n].released /\ s.stray = left
        /\ s.timer = node[n].timer /\ s.held = node[n].held
    BY <1>2 DEF NodeState
  <1>10. t \in NodeState
    BY <1>8, Zenon DEF NodeState
  <1>11. /\ t.st = node[n].st /\ t.pc = node[n].pc /\ t.lane = node[n].lane /\ t.gate = node[n].gate
         /\ t.aborted = node[n].aborted /\ t.released = node[n].released /\ t.stray = left
         /\ t.timer = "rearm" /\ t.held = node[n].held
    BY <1>2 DEF NodeState
  <1> HIDE DEF s, t
  <1>12. CASE ~Asking(n) /\ Set([node EXCEPT ![n] = s])
    BY <1>1, <1>2, <1>4, <1>5, <1>8, <1>9, <1>12, MarkInv DEF Sound
  <1>13. CASE Asking(n) /\ node[n].held /\ Set([node EXCEPT ![n] = t])
    BY <1>1, <1>3, <1>4, <1>5, <1>10, <1>11, <1>13, MarkInv DEF Asking, Parked
  <1>14. CASE Asking(n) /\ ~node[n].held
              /\ \/ node[n].pc = "retry" /\ Set(Attempt(B, n))
                 \/ node[n].pc = "wave" /\ Set([B EXCEPT ![n].pc = "merge"])
                 \/ /\ node[n].pc \in {"asked", "hold"}
                    /\ \E next \in Work \ {"chore"} : Set(Boundary(B, n, next))
    <2>1. /\ Pre(B, n) /\ Others(node, B, n) /\ Busy(B[n]) /\ B[n].lane = node[n].lane
          /\ ~B[n].gate /\ B[n].released = node[n].released
      BY <1>3, <1>5, <1>14, UnstrayedStep
    <2>2. /\ n \notin killing /\ ~node[n].aborted
          /\ node[n].pc \in {"asked", "hold", "wave"} => node[n].lane
          /\ node[n].pc = "retry" => ~node[n].lane
      BY <1>14, Asked
    <2> HIDE DEF B
    <2>3. ASSUME NEW M, Set(M), Lands(B, M, n) PROVE SchedInv'
      BY <1>1, <1>3, <1>4, <2>1, <2>2, <2>3, FromInv
    <2>4. CASE node[n].pc = "retry" /\ Set(Attempt(B, n))
      BY <2>1, <2>2, <2>3, <2>4, AttemptLands
    <2>5. CASE node[n].pc = "wave" /\ Set([B EXCEPT ![n].pc = "merge"])
      BY <2>1, <2>2, <2>3, <2>5, ToMerge
    <2>6. ASSUME node[n].pc \in {"asked", "hold"}, NEW next \in Work \ {"chore"}, Set(Boundary(B, n, next))
          PROVE  SchedInv'
      BY <2>1, <2>2, <2>3, <2>6, BoundaryLands
    <2> QED
      BY <1>14, <2>4, <2>5, <2>6
  <1> QED
    BY <1>7, <1>12, <1>13, <1>14

----------------------------------------------------------------------------
(* The operator *)

LEMMA PauseInv ==
    ASSUME SchedInv, NEW n \in Node, Pause(n) PROVE SchedInv'
  <1> DEFINE s == [node[n] EXCEPT !.held = TRUE]
             t == [node[n] EXCEPT !.pause = TRUE]
  <1>1. Act /\ UNCHANGED <<killing, parked, halt, ended, falls>>
    BY DEF Pause
  <1>2. Pre(node, n) /\ node[n] \in NodeState /\ Rest /\ Sound(node[n])
    BY Here
  <1>3. ended = "no" /\ ops' \in 0 .. MaxOps /\ falls' \in 0 .. MaxFalls
    BY <1>1, <1>2, ActType, FallsType
  <1>4. s \in NodeState /\ t \in NodeState
    BY <1>2, Zenon DEF NodeState
  <1>5. /\ s.st = node[n].st /\ s.pc = node[n].pc /\ s.lane = node[n].lane /\ s.gate = node[n].gate
        /\ s.aborted = node[n].aborted /\ s.released = node[n].released /\ s.stray = node[n].stray
        /\ s.timer = node[n].timer /\ s.held
    BY <1>2 DEF NodeState
  <1>6. /\ t.st = node[n].st /\ t.pc = node[n].pc /\ t.lane = node[n].lane /\ t.gate = node[n].gate
        /\ t.aborted = node[n].aborted /\ t.released = node[n].released /\ t.stray = node[n].stray
        /\ t.timer = node[n].timer /\ t.held = node[n].held
    BY <1>2 DEF NodeState
  <1>7. Set([node EXCEPT ![n] = s]) \/ Set([node EXCEPT ![n] = t])
    BY <1>2 DEF Pause, Pre
  <1> HIDE DEF s, t
  <1> QED
    BY <1>1, <1>2, <1>3, <1>4, <1>5, <1>6, <1>7, MarkInv DEF Sound

LEMMA ResumeInv ==
    ASSUME SchedInv, NEW n \in Node, Resume(n) PROVE SchedInv'
  <1> DEFINE k == IF node[n].timer = "rearm" THEN "armed" ELSE node[n].timer
             s == [node[n] EXCEPT !.held = FALSE, !.timer = k]
             t == [node[n] EXCEPT !.pause = FALSE]
  <1>1. Act /\ UNCHANGED <<killing, parked, halt, ended>>
    BY DEF Resume
  <1>2. Pre(node, n) /\ node[n] \in NodeState /\ Rest /\ Sound(node[n]) /\ Deferral(n, node[n])
    BY Here
  <1>3. ended = "no" /\ ops' \in 0 .. MaxOps /\ falls \in 0 .. MaxFalls
    BY <1>1, <1>2, ActType, FallsType
  <1>4. /\ k \in {"none", "armed", "rearm", "watched", "never"} /\ (node[n].pc \in {"out", "deferred"} => k = node[n].timer)
        /\ node[n].pc \in {"retry", "wave"} /\ ~node[n].aborted => k \in Unattended(node[n].pc)
    BY <1>2 DEF NodeState, Sound, Deferral, Unattended
  <1>5. \/ Set([node EXCEPT ![n] = t]) /\ UNCHANGED falls
        \/ node[n].pc = "hold" /\ Asking(n) /\ GoesOn(n)
        \/ Set([node EXCEPT ![n] = s]) /\ UNCHANGED falls
    BY <1>2 DEF Resume, Pre
  <1> HIDE DEF k
  <1>6. s \in NodeState /\ t \in NodeState
    BY <1>2, <1>4, Zenon DEF NodeState
  <1>7. /\ s.st = node[n].st /\ s.pc = node[n].pc /\ s.lane = node[n].lane /\ s.gate = node[n].gate
        /\ s.aborted = node[n].aborted /\ s.released = node[n].released /\ s.stray = node[n].stray
        /\ s.timer = k
    BY <1>2 DEF NodeState
  <1>8. /\ t.st = node[n].st /\ t.pc = node[n].pc /\ t.lane = node[n].lane /\ t.gate = node[n].gate
        /\ t.aborted = node[n].aborted /\ t.released = node[n].released /\ t.stray = node[n].stray
        /\ t.timer = node[n].timer /\ t.held = node[n].held
    BY <1>2 DEF NodeState
  <1> HIDE DEF s, t
  <1>9. CASE Set([node EXCEPT ![n] = t]) /\ UNCHANGED falls
    BY <1>1, <1>2, <1>3, <1>6, <1>8, <1>9, MarkInv DEF Sound
  <1>10. CASE Set([node EXCEPT ![n] = s]) /\ UNCHANGED falls
    BY <1>1, <1>3, <1>4, <1>6, <1>7, <1>10, MarkInv
  <1>11. CASE node[n].pc = "hold" /\ Asking(n) /\ GoesOn(n)
    BY <1>1, <1>3, <1>11, GoesOnInv
  <1> QED
    BY <1>5, <1>9, <1>10, <1>11

\* The end of an abort: the body stays where it is, with nothing in its hands.
LEMMA AbortedStep ==
    ASSUME NEW n \in Node, NEW N, Pre(N, n), N[n].aborted, N[n].pc = "out" => N[n].timer = "none"
    PROVE  LET M == Aborted(N, n) IN
           /\ Pre(M, n) /\ Others(N, M, n) /\ Sound(M[n]) /\ ~M[n].lane /\ ~M[n].gate
           /\ M[n].pc = N[n].pc /\ M[n].timer = N[n].timer /\ Kept(N[n], M[n])
  <1> DEFINE F == Fail(N, n)
             M == Released(F, n)
  <1>1. Pre(F, n) /\ Others(N, F, n) /\ F[n] = [N[n] EXCEPT !.st = "failed"]
    BY FailStep
  <1>2. N[n] \in NodeState
    BY DEF Pre
  <1>3. /\ F[n].st = "failed" /\ F[n].aborted /\ F[n].pc = N[n].pc /\ F[n].timer = N[n].timer
        /\ Kept(N[n], F[n])
    BY <1>1, <1>2 DEF NodeState, Kept, Marks, Owns
  <1> HIDE DEF F
  <1>4. Pre(M, n) /\ Others(F, M, n) /\ M[n] = [F[n] EXCEPT !.lane = FALSE, !.gate = FALSE]
    BY <1>1, ReleasedStep
  <1>5. F[n] \in NodeState /\ M[n] \in NodeState
    BY <1>1, <1>4 DEF Pre
  <1>6. /\ ~M[n].lane /\ ~M[n].gate /\ M[n].st = "failed" /\ M[n].aborted /\ M[n].pc = N[n].pc
        /\ M[n].timer = N[n].timer /\ Kept(N[n], M[n])
    BY <1>3, <1>4, <1>5 DEF NodeState, Kept, Marks, Owns
  <1> HIDE DEF M
  <1>7. Sound(M[n])
    BY <1>5, <1>6 DEF Sound, Busy
  <1>8. Others(N, M, n)
    BY <1>1, <1>4, OthersThen
  <1> QED
    BY <1>4, <1>6, <1>7, <1>8 DEF Aborted, F, M

LEMMA AbortInv ==
    ASSUME SchedInv, NEW n \in Node, Abort(n) PROVE SchedInv'
  <1> DEFINE s == [node[n] EXCEPT !.aborted = TRUE, !.pause = FALSE, !.held = FALSE]
             N == [node EXCEPT ![n] = s]
  <1>1. /\ Act /\ UNCHANGED <<parked, halt, ended, falls>>
        /\ node[n].st \notin Settled /\ n \notin killing
    BY DEF Abort
  <1>2. Pre(node, n) /\ node[n] \in NodeState /\ Rest /\ Sound(node[n]) /\ Deferral(n, node[n])
    BY Here
  <1>3. ended = "no" /\ ops' \in 0 .. MaxOps /\ falls' \in 0 .. MaxFalls
    BY <1>1, <1>2, ActType, FallsType
  <1>4. s \in NodeState
    BY <1>2, Zenon DEF NodeState
  <1>5. /\ s.st = node[n].st /\ s.pc = node[n].pc /\ s.lane = node[n].lane /\ s.gate = node[n].gate
        /\ s.aborted /\ s.timer = node[n].timer /\ Kept(node[n], s) /\ Owns(node[n], s)
    BY <1>2 DEF NodeState, Kept, Marks, Owns
  <1>6. IF node[n].pc = "turn" THEN Set(N) /\ killing' = killing \cup {n}
        ELSE Set(Aborted(N, n)) /\ UNCHANGED killing
    BY <1>2 DEF Abort, Pre
  <1> HIDE DEF s
  <1>7. Pre(N, n) /\ Others(node, N, n) /\ N[n] = s
    BY <1>2, <1>4, <1>5, OwnStep
  <1>8. Sound(s)
    BY <1>2, <1>4, <1>5 DEF Sound, Busy
  <1> HIDE DEF N
  <1>9. CASE node[n].pc = "turn"
    <2>1. Killed(s)
      BY <1>1, <1>2, <1>5, <1>9 DEF Killed, Sound, Busy
    <2>2. Deferral(n, s)
      BY <1>2, <1>5, <1>9 DEF Deferral, Kept, Marks, Owns
    <2> QED
      BY <1>1, <1>3, <1>5, <1>6, <1>7, <1>8, <1>9, <2>1, <2>2, MoveInv
  <1>10. CASE node[n].pc # "turn"
    <2> DEFINE M == Aborted(N, n)
    <2>1. N[n].aborted /\ (N[n].pc = "out" => N[n].timer = "none")
      BY <1>2, <1>5, <1>7 DEF Sound
    <2>2. /\ Pre(M, n) /\ Others(N, M, n) /\ Sound(M[n]) /\ ~M[n].lane /\ ~M[n].gate
          /\ M[n].pc = N[n].pc /\ M[n].timer = N[n].timer /\ Kept(N[n], M[n])
      BY <1>7, <2>1, AbortedStep
    <2>3. Set(M) /\ UNCHANGED killing
      BY <1>6, <1>10
    <2> HIDE DEF M
    <2>4. Others(node, M, n)
      BY <1>7, <2>2, OthersThen
    <2>5. Deferral(n, M[n]) /\ M[n].aborted
      BY <1>2, <1>5, <1>7, <2>2 DEF Deferral, Kept, Marks, Owns
    <2> QED
      BY <1>1, <1>3, <2>2, <2>3, <2>4, <2>5, MoveInv
  <1> QED
    BY <1>9, <1>10

LEMMA KillReturnsInv ==
    ASSUME SchedInv, ended = "no", NEW n \in Node, KillReturns(n) PROVE SchedInv'
  <1> DEFINE M == Aborted(node, n)
  <1>1. /\ n \in killing /\ killing' = killing \ {n} /\ Set(M)
        /\ UNCHANGED <<parked, halt, ended, ops, falls>>
    BY DEF KillReturns
  <1>2. Pre(node, n) /\ Sound(node[n]) /\ Deferral(n, node[n]) /\ Rest
    BY Here
  <1>3. node[n].aborted /\ (node[n].pc = "out" => node[n].timer = "none")
    BY <1>1, <1>2 DEF SchedInv, Killed, Sound
  <1>4. /\ Pre(M, n) /\ Others(node, M, n) /\ Sound(M[n]) /\ ~M[n].lane /\ ~M[n].gate
        /\ M[n].pc = node[n].pc /\ M[n].timer = node[n].timer /\ Kept(node[n], M[n])
    BY <1>2, <1>3, AbortedStep
  <1> HIDE DEF M
  <1>5. Deferral(n, M[n]) /\ M[n].aborted
    BY <1>2, <1>3, <1>4 DEF Deferral, Kept, Marks, Owns
  <1> QED
    BY <1>1, <1>2, <1>4, <1>5, MoveInv, FallsType

LEMMA RetryInv ==
    ASSUME SchedInv, NEW n \in Node, Retry(n) PROVE SchedInv'
  <1>1. Act /\ node[n].st = "failed" /\ UNCHANGED <<killing, parked, halt, ended, falls>>
    BY DEF Retry
  <1>2. Pre(node, n) /\ node[n] \in NodeState /\ Rest /\ Sound(node[n]) /\ Deferral(n, node[n])
    BY Here
  <1>3. ended = "no" /\ ops' \in 0 .. MaxOps /\ falls' \in 0 .. MaxFalls
    BY <1>1, <1>2, ActType, FallsType
  <1>4. CASE node[n].pc # "out"
    <2> DEFINE s == [node[n] EXCEPT !.queued = TRUE]
    <2>1. s \in NodeState
      BY <1>2, Zenon DEF NodeState
    <2>2. /\ s.st = node[n].st /\ s.pc = node[n].pc /\ s.lane = node[n].lane /\ s.gate = node[n].gate
          /\ s.aborted = node[n].aborted /\ s.released = node[n].released /\ s.stray = node[n].stray
          /\ s.timer = node[n].timer /\ s.held = node[n].held
      BY <1>2 DEF NodeState
    <2>3. Set([node EXCEPT ![n] = s])
      BY <1>2, <1>4 DEF Retry, Pre
    <2> HIDE DEF s
    <2> QED
      BY <1>1, <1>2, <1>3, <2>1, <2>2, <2>3, MarkInv DEF Sound
  <1>5. CASE node[n].pc = "out"
    <2> DEFINE M == Reopen(node, n)
    <2>1. /\ Pre(M, n) /\ Others(node, M, n) /\ M[n].st = "pending"
          /\ M[n].pc = node[n].pc /\ M[n].lane = node[n].lane /\ M[n].gate = node[n].gate
          /\ M[n].timer = node[n].timer /\ Marks(node[n], M[n])
      BY <1>2, ReopenStep
    <2>2. Set(M)
      BY <1>5 DEF Retry
    <2> HIDE DEF M
    <2>3. Sound(M[n])
      <3>1. M[n] \in NodeState
        BY <2>1 DEF Pre
      <3> QED
        BY <1>2, <1>5, <2>1, <3>1 DEF Sound, InLane, Working
    <2>4. Deferral(n, M[n])
      BY <1>2, <1>5, <2>1 DEF Deferral, Kept, Marks, Owns
    <2>5. n \notin killing
      BY <1>1 DEF SchedInv, Killed, Settled
    <2> QED
      BY <1>1, <1>3, <2>1, <2>2, <2>3, <2>4, <2>5, MoveInv
  <1> QED
    BY <1>4, <1>5

----------------------------------------------------------------------------
(* The run *)

LEMMA LoopInv ==
    ASSUME SchedInv, ended = "no", Loop PROVE SchedInv'
  <1> DEFINE D == Dispatched
             d(n) == [node[n] EXCEPT !.pc = "deferred", !.st = "awaiting_human"]
             r(n) == [node[n] EXCEPT !.pc = "lane", !.st = "running"]
  <1>1. /\ node' = D /\ awake' = FALSE /\ UNCHANGED <<killing, parked, halt, ops, falls>>
        /\ ended' = IF RunOver(D) THEN Outcome(D) ELSE "no"
    BY DEF Loop
  <1>2. ASSUME NEW n \in Node
        PROVE  /\ Sound(D[n]) /\ Deferral(n, D[n])
               /\ D[n].lane = node[n].lane /\ D[n].gate = node[n].gate
               /\ D[n].aborted = node[n].aborted /\ D[n].landed = node[n].landed
               /\ n \in killing => D[n] = node[n]
               /\ \/ D[n] = node[n] /\ (halt = "none" => ~Ready(n))
                  \/ node[n].st = "pending" /\ D[n].st \in {"running", "awaiting_human"}
    <2>1. node[n] \in NodeState /\ Sound(node[n]) /\ Deferral(n, node[n])
      BY Here
    <2>2. CASE D[n] = node[n] /\ (halt = "none" => ~Ready(n))
      BY <2>1, <2>2
    <2>3. CASE D[n] = d(n) /\ Ready(n) /\ n \in Deferred /\ ~node[n].released
      <3>1. d(n) \in NodeState
        BY <2>1, Zenon DEF NodeState, Parked
      <3>2. /\ d(n).pc = "deferred" /\ d(n).st = "awaiting_human" /\ d(n).lane = node[n].lane
            /\ d(n).gate = node[n].gate /\ d(n).timer = node[n].timer /\ Marks(node[n], d(n))
            /\ d(n).aborted = node[n].aborted /\ d(n).landed = node[n].landed
        BY <2>1 DEF NodeState, Marks
      <3> HIDE DEF d
      <3>3. node[n].pc = "out" /\ node[n].st = "pending"
        BY <2>3 DEF Ready
      <3>4. Sound(d(n)) /\ Deferral(n, d(n))
        BY <2>1, <2>3, <3>1, <3>2, <3>3 DEF Sound, Busy, InLane, Working, Deferral, Marks
      <3>5. n \notin killing
        BY <3>3 DEF SchedInv, Killed
      <3> QED
        BY <2>3, <3>2, <3>3, <3>4, <3>5
    <2>4. CASE D[n] = r(n) /\ Ready(n) /\ (n \notin Deferred \/ node[n].released)
      <3>1. r(n) \in NodeState
        BY <2>1, Zenon DEF NodeState
      <3>2. /\ r(n).pc = "lane" /\ r(n).st = "running" /\ r(n).lane = node[n].lane
            /\ r(n).gate = node[n].gate /\ Marks(node[n], r(n))
            /\ r(n).aborted = node[n].aborted /\ r(n).landed = node[n].landed
        BY <2>1 DEF NodeState, Marks
      <3> HIDE DEF r
      <3>3. node[n].pc = "out" /\ node[n].st = "pending"
        BY <2>4 DEF Ready
      <3>4. Sound(r(n)) /\ Deferral(n, r(n))
        BY <2>1, <2>4, <3>1, <3>2, <3>3 DEF Sound, Busy, InLane, Working, Deferral, Marks
      <3>5. n \notin killing
        BY <3>3 DEF SchedInv, Killed
      <3> QED
        BY <2>4, <3>2, <3>3, <3>4, <3>5
    <2> QED
      BY <2>2, <2>3, <2>4 DEF Dispatched
  <1>3. D \in [Node -> NodeState]
    <2>1. D = [n \in Node |-> D[n]]
      BY DEF Dispatched, SchedInv
    <2> HIDE DEF D
    <2> QED
      BY <1>2, <2>1 DEF Sound
  <1> HIDE DEF D
  <1>4. RunOver(D) => \A n \in Node : D[n].aborted \/ D[n].pc = "out"
    <2> SUFFICES ASSUME RunOver(D), NEW n \in Node, D[n].pc # "out" PROVE D[n].aborted
      OBVIOUS
    <2>1. Busy(D[n]) /\ D[n] \in NodeState
      BY <1>2 DEF Sound
    <2>2. CASE AllSettled(D)
      BY <2>1, <2>2 DEF AllSettled, Settled, Busy
    <2>3. CASE Active(D) = {}
      BY <2>3 DEF Active
    <2>4. CASE Deadlocked(D)
      BY <2>1, <2>4 DEF Deadlocked, Busy, NodeState, Settled
    <2> QED
      BY <2>2, <2>3, <2>4 DEF RunOver, Drained
  <1>5. ended' \in {"no", "done", "failed", "paused", "cancelled"}
    BY <1>1 DEF Outcome, SchedInv, Rest
  <1>6. Rest'
    BY <1>1, <1>5 DEF SchedInv, Rest
  <1>7. InLanes' = InLanes /\ AtGates' = AtGates
    BY <1>1, <1>2 DEF InLanes, AtGates
  <1>8. Caused(D)
    <2>1. SUFFICES ASSUME NEW k \in Node, D[k].st = "blocked"
                   PROVE  \E m \in Node : k \in Below[m] /\ (D[m].st = "failed" \/ D[m].aborted)
      BY DEF Caused
    <2>2. node[k].st = "blocked"
      BY <1>2, <2>1
    <2>3. PICK m \in Node : k \in Below[m] /\ (node[m].st = "failed" \/ node[m].aborted)
      BY <2>2 DEF SchedInv, Caused
    <2>4. D[m].st = "failed" \/ D[m].aborted
      BY <1>2, <2>3
    <2> QED
      BY <2>3, <2>4
  <1>9. SleepMissesNothing'
    <2> SUFFICES ASSUME ended' = "no" PROVE Dispatched' = node' /\ ~Drained(node)'
      BY DEF SleepMissesNothing
    <2>1. ~Drained(D)
      BY <1>1 DEF Outcome, RunOver, SchedInv, Rest
    <2>2. ~Drained(node)'
      BY <1>1, <2>1 DEF Drained, AllSettled, AwaitingRetry, HoldsAborted, Active
    <2>3. ASSUME NEW k \in Node, halt = "none" PROVE ~Ready(k)'
      <3>1. Deps[k] \subseteq Node
        BY DepsType
      <3>2. \A e \in Node : D[e].st = "done" \/ D[e].landed => node[e].st = "done" \/ node[e].landed
        BY <1>2
      <3>3. SUFFICES ASSUME D[k].st = "pending", D[k].pc = "out",
                            \A e \in Deps[k] : D[e].st = "done" \/ D[e].landed
                     PROVE  FALSE
        BY <1>1 DEF Ready
      <3>4. D[k] = node[k] /\ ~Ready(k)
        BY <1>2, <2>3, <3>3
      <3> QED
        BY <3>1, <3>2, <3>3, <3>4 DEF Ready
    <2>4. Dispatched' = node'
      <3>1. CASE halt # "none"
        BY <1>1, <3>1 DEF Dispatched
      <3>2. CASE halt = "none"
        <4>1. Dispatched' = [k \in Node |-> D[k]]
          BY <1>1, <2>3, <3>2 DEF Dispatched
        <4> QED
          BY <1>1, <1>3, <4>1
      <3> QED
        BY <3>1, <3>2
    <2> QED
      BY <2>2, <2>4
  <1> QED
    BY <1>1, <1>2, <1>3, <1>4, <1>6, <1>7, <1>8, <1>9 DEF SchedInv

\* Nodes as a process begins with them.
LEMMA FreshInv ==
    ASSUME node' \in [Node -> {Fresh, [Fresh EXCEPT !.st = "done"]}],
           killing' = {}, Rest', ended' = "no", awake'
    PROVE  SchedInv'
  <1>1. 0 \in 0 .. Retries
    BY PolicyType
  <1>2. Fresh \in NodeState /\ [Fresh EXCEPT !.st = "done"] \in NodeState
    BY <1>1, Zenon DEF Fresh, NodeState, Settled
  <1>3. ASSUME NEW n \in Node
        PROVE  /\ Sound(node'[n]) /\ Deferral(n, node'[n]) /\ ~node'[n].lane /\ ~node'[n].gate
               /\ node'[n].st # "blocked"
    <2>1. node'[n] \in {Fresh, [Fresh EXCEPT !.st = "done"]}
      OBVIOUS
    <2>2. /\ node'[n].pc = "out" /\ ~node'[n].lane /\ ~node'[n].gate /\ node'[n].timer = "none"
          /\ node'[n].stray = {} /\ node'[n].st # "blocked"
      BY <2>1 DEF Fresh
    <2>3. node'[n] \in NodeState
      BY <1>2, <2>1
    <2> QED
      BY <2>2, <2>3 DEF Sound, Deferral, InLane, Working
  <1>4. node' \in [Node -> NodeState]
    BY <1>2
  <1>5. InLanes' = {} /\ AtGates' = {}
    BY <1>3 DEF InLanes, AtGates
  <1>6. Cardinality(InLanes') <= Lanes /\ Cardinality(AtGates') <= Gates
    BY <1>5, FS_EmptySet, CapacityType
  <1>7. Caused(node)' /\ SleepMissesNothing'
    BY <1>3 DEF Caused, SleepMissesNothing
  <1> QED
    BY <1>3, <1>4, <1>6, <1>7 DEF SchedInv

LEMMA RestartInv ==
    ASSUME SchedInv, Restart PROVE SchedInv'
  <1>1. node' \in [Node -> {Fresh, [Fresh EXCEPT !.st = "done"]}]
    BY DEF Restart, Seeded
  <1>2. Rest'
    BY BoundsType DEF Restart, SchedInv, Rest
  <1> QED
    BY <1>1, <1>2, FreshInv DEF Restart

LEMMA InitInv == ASSUME Init PROVE SchedInv
  <1>1. 0 \in 0 .. Retries
    BY PolicyType
  <1>2. Fresh \in NodeState
    BY <1>1, Zenon DEF Fresh, NodeState
  <1>3. ASSUME NEW n \in Node
        PROVE  node[n] = Fresh /\ Sound(node[n]) /\ Deferral(n, node[n])
    <2>1. node[n] = Fresh
      BY DEF Init
    <2>2. /\ Fresh.pc = "out" /\ ~Fresh.lane /\ ~Fresh.gate /\ Fresh.timer = "none" /\ Fresh.stray = {}
      BY DEF Fresh
    <2> QED
      BY <1>2, <2>1, <2>2 DEF Sound, Deferral, InLane, Working
  <1>4. node \in [Node -> NodeState]
    BY <1>2 DEF Init
  <1>5. InLanes = {} /\ AtGates = {}
    BY <1>3 DEF InLanes, AtGates, Fresh
  <1>6. Cardinality(InLanes) <= Lanes /\ Cardinality(AtGates) <= Gates
    BY <1>5, FS_EmptySet, CapacityType
  <1>7. Rest
    <2>1. ops \in 0 .. MaxOps /\ falls \in 0 .. MaxFalls
      BY BoundsType DEF Init
    <2>2. halt = "none" /\ ended = "no" /\ parked \in BOOLEAN /\ awake \in BOOLEAN
      BY DEF Init
    <2> QED
      BY <2>1, <2>2 DEF Rest
  <1>8. Caused(node) /\ SleepMissesNothing
    <2>1. \A n \in Node : node[n].st # "blocked"
      BY <1>3 DEF Fresh
    <2>2. awake
      BY DEF Init
    <2> QED
      BY <2>1, <2>2 DEF Caused, SleepMissesNothing
  <1> QED
    BY <1>3, <1>4, <1>6, <1>7, <1>8 DEF SchedInv, Init

\* What the loop reads is as it was.
LEMMA StillInv ==
    ASSUME SchedInv, UNCHANGED <<node, killing>>, Rest',
           ended' # "no" => ended # "no",
           awake' \/ UNCHANGED <<halt, awake, ended>>
    PROVE  SchedInv'
  <1>1. SleepMissesNothing'
    <2>1. CASE awake'
      BY <2>1 DEF SleepMissesNothing
    <2>2. CASE UNCHANGED <<halt, awake, ended>>
      <3>1. \A n \in Node : Ready(n)' <=> Ready(n)
        BY DEF Ready
      <3>2. Dispatched' = Dispatched
        BY <2>2, <3>1 DEF Dispatched
      <3>3. Drained(node)' <=> Drained(node)
        BY <2>2 DEF Drained, AllSettled, AwaitingRetry, HoldsAborted, Active
      <3> QED
        BY <2>2, <3>2, <3>3 DEF SchedInv, SleepMissesNothing
    <2> QED
      BY <2>1, <2>2
  <1> QED
    BY <1>1 DEF SchedInv, InLanes, AtGates, Caused

LEMMA NextInv == ASSUME SchedInv, [Next]_vars PROVE SchedInv'
  <1>1. CASE ended = "no" /\ Loop
    BY <1>1, LoopInv
  <1>2. CASE HarnessBack
    <2>1. Rest'
      BY <1>2 DEF HarnessBack, SchedInv, Rest
    <2> QED
      BY <1>2, <2>1, StillInv DEF HarnessBack
  <1>3. ASSUME ended = "no", NEW n \in Node, Body(n) PROVE SchedInv'
    BY <1>3, LaneGrantedInv, GateGrantedInv, AdmittedInv, PreparedInv, StepEndsInv, CapacityEndsInv,
       RecoversInv, WokenInv DEF Body
  <1>4. ASSUME ended = "no", NEW n \in Node, Adversity(n) PROVE SchedInv'
    BY <1>4, LaneUnhealthyInv, ThrowsInv, RefusedInv, WaveFailsInv DEF Adversity
  <1>5. ASSUME NEW n \in Node, Operator(n) PROVE SchedInv'
    BY <1>5, AnswerInv, PauseInv, ResumeInv, AbortInv, RetryInv DEF Operator
  <1>6. ASSUME ended = "no", NEW n \in Node, TimerFires(n) \/ StrayFires(n) \/ KillReturns(n)
        PROVE  SchedInv'
    BY <1>6, TimerFiresInv, StrayFiresInv, KillReturnsInv
  <1>7. ASSUME NEW mode \in {"paused", "cancelled"}, Halt(mode) PROVE SchedInv'
    <2>1. Rest' /\ UNCHANGED <<node, killing, ended>> /\ awake'
      BY <1>7, ActType DEF Halt, SchedInv, Rest
    <2> QED
      BY <2>1, StillInv
  <1>8. CASE Restart
    BY <1>8, RestartInv
  <1>9. CASE UNCHANGED vars
    <2>1. Rest'
      BY <1>9 DEF vars, SchedInv, Rest
    <2> QED
      BY <1>9, <2>1, StillInv DEF vars
  <1> QED
    BY <1>1, <1>2, <1>3, <1>4, <1>5, <1>6, <1>7, <1>8, <1>9 DEF Next, Over

LEMMA Inductive == Spec => []SchedInv
  <1>1. Init => SchedInv
    BY InitInv
  <1>2. SchedInv /\ [Next]_vars => SchedInv'
    BY NextInv
  <1> QED
    BY <1>1, <1>2, PTL DEF Spec

\* Whatever the graph, the lanes and the gate slots: a lane or a gate slot is
\* held by a node that is in the place it is for, no more of either are held
\* than there are, and a node at work that was not aborted has its lane.
THEOREM LeasesAreInTheirPlace == Spec => []LeasesFollowBodies
  <1>1. SchedInv => LeasesFollowBodies
    BY DEF SchedInv, LeasesFollowBodies, TypeOK, Rest, Sound, InLanes, AtGates
  <1> QED
    BY <1>1, Inductive, PTL

\* Whatever is aborted, retried, halted or resumed: a node that waits to be
\* started has no body still unwinding, and a run that ends leaves nobody at
\* work and nothing held, but for a node that was aborted.
THEOREM RetriesStartAlone == Spec => []NoBodyLeftOver
  <1>1. SchedInv => NoBodyLeftOver
    BY DEF SchedInv, NoBodyLeftOver, Sound, Busy, InLane, Working
  <1> QED
    BY <1>1, Inductive, PTL
----------------------------------------------------------------------------
\* Whatever fails, is aborted, retried or resumed, and whatever the graph: a node
\* is blocked only while one it stands on, near or far, is failed or was aborted.
THEOREM FailuresStandBehind == Spec => []BlockedHasCause
  <1>1. SchedInv => BlockedHasCause
    BY DEF SchedInv, Caused, BlockedHasCause
  <1> QED
    BY <1>1, Inductive, PTL

\* Whoever changes a node, in whatever order: while the loop sleeps there is no
\* node it would start, and the run is neither settled nor drained.
THEOREM NoWakeupIsLost == Spec => []SleepMissesNothing
  <1>1. SchedInv => SleepMissesNothing
    BY DEF SchedInv
  <1> QED
    BY <1>1, Inductive, PTL

\* However often a question was held and let go: while it is not held, and can be
\* answered, its timer runs or its inputs are watched, but for that of a failure
\* that was asked with neither.
THEOREM TimersOutliveHolds == Spec => []QuestionKeepsTimer
  <1>1. SchedInv => QuestionKeepsTimer
    BY DEF SchedInv, Sound, QuestionKeepsTimer, Asking
  <1> QED
    BY <1>1, Inductive, PTL

----------------------------------------------------------------------------
(* The coordinator *)

Kinds == {"running", "act", "error", "failed"}
Turns == [by : {"operator", "loop"}, keys : SUBSET Key]
Loops == [cursor : Nat, told : SUBSET Key, pending : SUBSET Key, wakes : Nat,
          cooling : BOOLEAN, busy : BOOLEAN, exhausted : BOOLEAN]

Types ==
    /\ log \in Seq(Kinds) /\ Len(log) <= MaxLog
    /\ rows \in Nat /\ cost \in 0 .. MaxCost /\ errors \in 0 .. MaxErrors
    /\ running \in BOOLEAN /\ up \in BOOLEAN
    /\ loop \in Loops /\ loop.cursor <= Len(log)
    /\ line \in Seq(Turns)
    /\ heard \in [Key -> {0, 1}]
    /\ begun \in Nat /\ cut \in Nat

\* At most one of the turns is a wake, while `busy` says so.
OneWake ==
    /\ \A i, j \in 1 .. Len(line) : line[i].by = "loop" /\ line[j].by = "loop" => i = j
    /\ up => (loop.busy <=> \E i \in 1 .. Len(line) : line[i].by = "loop")
    /\ ~up => line = <<>>

\* What was told is nowhere it could be told from again: an event is behind the
\* cursor, anything else is remembered, and neither is pending.
Events == {"event"} \X (1 .. MaxLog)
Behind(l) == {"event"} \X (1 .. l.cursor)

ToldIsPast ==
    /\ loop.pending \cap Events \subseteq Behind(loop)
    /\ \A k \in Key : heard[k] > 0 =>
          k \notin loop.pending /\ (IF k \in Events THEN k \in Behind(loop) ELSE k \in loop.told)

\* What the journal and the loop have counted, against the wakes there were.
Counts ==
    /\ begun <= WakeBudget + cut
    /\ up => begun <= loop.wakes + cut
    /\ begun <= rows + cut + (IF up /\ loop.busy THEN 1 ELSE 0)

\* The inductive invariant.
WakeInv == Types /\ OneWake /\ ToldIsPast /\ Counts

----------------------------------------------------------------------------

LEMMA Bounds ==
    WakeBudget \in Nat /\ MaxLog \in Nat /\ MaxCost \in Nat /\ MaxErrors \in Nat
  BY BoundsAssumption

LEMMA StartedIs ==
    ASSUME NEW l, NEW r
    PROVE  Started(l, r) = [cursor |-> Len(l), told |-> {}, pending |-> {}, wakes |-> r,
                            cooling |-> FALSE, busy |-> FALSE, exhausted |-> FALSE]
  BY DEF Started, LastEvent, WakesBefore

LEMMA WakeInitInv ==
    WakeInit => WakeInv
  <1> SUFFICES ASSUME WakeInit PROVE WakeInv
    OBVIOUS
  <1>1. loop = [cursor |-> 0, told |-> {}, pending |-> {}, wakes |-> 0,
                cooling |-> FALSE, busy |-> FALSE, exhausted |-> FALSE]
    BY StartedIs DEF WakeInit
  <1>2. loop \in Loops
    BY <1>1 DEF Loops
  <1>3. <<>> \in Seq(Kinds) /\ Len(<<>>) = 0 /\ <<>> \in Seq(Turns)
    BY EmptySeq
  <1>4. heard \in [Key -> {0, 1}]
    BY DEF WakeInit
  <1>5. Types
    BY <1>1, <1>2, <1>3, <1>4, Bounds DEF WakeInit, Types
  <1> QED
    BY <1>1, <1>3, <1>5, Bounds DEF WakeInit, WakeInv, OneWake, ToldIsPast, Counts

\* A step that the loop and its session have no part in.
LEMMA AsideInv ==
    ASSUME WakeInv, UNCHANGED <<rows, up, loop, line, heard, begun, cut>>,
           log' \in Seq(Kinds), Len(log') <= MaxLog, Len(log) <= Len(log'),
           cost' \in 0 .. MaxCost, errors' \in 0 .. MaxErrors, running' \in BOOLEAN
    PROVE  WakeInv'
  <1>1. Types'
    BY LenProperties DEF WakeInv, Types, Loops
  <1>2. (OneWake /\ Counts)'
    BY DEF WakeInv, OneWake, Counts
  <1>3. ToldIsPast'
    BY DEF WakeInv, ToldIsPast, Behind
  <1> QED
    BY <1>1, <1>2, <1>3 DEF WakeInv

LEMMA HappensInv ==
    ASSUME WakeInv, NEW what \in Kinds, Happens(what) PROVE WakeInv'
  <1>1. log' \in Seq(Kinds) /\ Len(log') = Len(log) + 1
    BY AppendProperties DEF WakeInv, Types, Happens
  <1>2. Len(log) < MaxLog /\ Len(log) \in Nat
    BY LenProperties DEF WakeInv, Types, Happens
  <1> QED
    BY <1>1, <1>2, Bounds, AsideInv DEF WakeInv, Types, Happens

LEMMA CostsInv ==
    ASSUME WakeInv, Costs PROVE WakeInv'
  <1>1. cost' \in 0 .. MaxCost
    BY Bounds DEF WakeInv, Types, Costs
  <1> QED
    BY <1>1, LenProperties, AsideInv DEF WakeInv, Types, Costs

LEMMA LoggedInv ==
    ASSUME WakeInv, Logged PROVE WakeInv'
  <1> DEFINE key == <<"error", errors + 1>>
  <1>1. errors + 1 \in 1 .. MaxErrors /\ errors' = errors + 1
    BY Bounds DEF WakeInv, Types, Logged
  <1>2. key \in Key /\ key \notin Events
    BY <1>1 DEF Key, Events
  <1>3. UNCHANGED <<log, rows, cost, running, up, line, heard, begun, cut>>
    BY DEF Logged
  <1>4. CASE loop' = loop
    BY <1>1, <1>3, <1>4, LenProperties, AsideInv DEF WakeInv, Types
  <1>5. CASE key \notin loop.told /\ loop' = [loop EXCEPT !.pending = loop.pending \cup {key}]
    <2>1. /\ loop' \in Loops /\ loop'.cursor = loop.cursor /\ loop'.told = loop.told
          /\ loop'.pending = loop.pending \cup {key} /\ loop'.wakes = loop.wakes /\ loop'.busy = loop.busy
      BY <1>2, <1>5 DEF WakeInv, Types, Loops
    <2>2. Types'
      BY <1>1, <1>3, <2>1 DEF WakeInv, Types
    <2>3. (OneWake /\ Counts)'
      BY <1>3, <2>1 DEF WakeInv, OneWake, Counts
    <2>4. ToldIsPast'
      BY <1>2, <1>3, <1>5, <2>1 DEF WakeInv, ToldIsPast, Behind
    <2> QED
      BY <2>2, <2>3, <2>4 DEF WakeInv
  <1> QED
    BY <1>1, <1>4, <1>5 DEF Logged

----------------------------------------------------------------------------
(* tick *)

\* What a tick has collected: nothing that was told, and of the events none that
\* is not behind the cursor.
LEMMA CollectedIs ==
    ASSUME WakeInv, NEW l, l = Collected(loop)
    PROVE  /\ l \in Loops /\ l.cursor = Len(log) /\ l.told = loop.told
           /\ l.wakes = loop.wakes /\ l.busy = loop.busy
           /\ l.pending \cap Events \subseteq Behind(l)
           /\ Behind(loop) \subseteq Behind(l)
           /\ \A k \in l.pending : heard[k] = 0
  <1>1. Len(log) \in Nat /\ Len(log) <= MaxLog /\ loop.cursor \in Nat /\ loop.cursor <= Len(log)
    BY LenProperties DEF WakeInv, Types, Loops
  <1> DEFINE new == TriggersFrom(loop.cursor) \ loop.told
  <1>2. new \subseteq Key
    <2>1. {"event"} \X {i \in loop.cursor + 1 .. Len(log) : Trouble(i)} \subseteq {"event"} \X (1 .. MaxLog)
      BY <1>1, Bounds
    <2>2. {cost} \ {0} \subseteq 1 .. MaxCost
      BY Bounds DEF WakeInv, Types
    <2> QED
      BY <2>1, <2>2 DEF TriggersFrom, Key
  <1>3. new \cap Events \subseteq {"event"} \X (loop.cursor + 1 .. Len(log))
    BY <1>1 DEF TriggersFrom, Events
  <1>4. l = [loop EXCEPT !.pending = loop.pending \cup new, !.cursor = Len(log)]
    BY DEF Collected
  <1>5. /\ l.pending = loop.pending \cup new /\ l.cursor = Len(log) /\ l.told = loop.told
        /\ l.wakes = loop.wakes /\ l.busy = loop.busy
    BY <1>4 DEF WakeInv, Types, Loops
  <1>6. l \in Loops
    BY <1>1, <1>2, <1>4 DEF WakeInv, Types, Loops
  <1>7. Behind(loop) \subseteq Behind(l)
    BY <1>1, <1>5 DEF Behind
  <1>8. l.pending \cap Events \subseteq Behind(l)
    BY <1>1, <1>3, <1>5, <1>7 DEF WakeInv, ToldIsPast, Behind
  <1>9. ASSUME NEW k \in l.pending PROVE heard[k] = 0
    <2>1. k \in Key /\ heard[k] \in {0, 1}
      BY <1>2, <1>5 DEF WakeInv, Types, Loops
    <2>2. CASE k \in loop.pending
      BY <2>1, <2>2 DEF WakeInv, ToldIsPast
    <2>3. CASE k \in new
      <3>1. k \notin Behind(loop)
        BY <1>1, <1>3, <2>3 DEF TriggersFrom, Events, Behind
      <3> QED
        BY <2>1, <2>3, <3>1 DEF WakeInv, ToldIsPast
    <2> QED
      BY <1>5, <2>2, <2>3
  <1> QED
    BY <1>5, <1>6, <1>7, <1>8, <1>9

\* What is told to a wake, or to the journal when there are no more wakes, is
\* told no more.
LEMMA TellingIsPast ==
    ASSUME WakeInv, NEW l, l = Collected(loop), NEW k \in Key,
           heard[k] > 0 \/ k \in l.pending
    PROVE  IF k \in Events THEN k \in Behind(l) ELSE k \in l.told \cup l.pending
  BY CollectedIs DEF WakeInv, ToldIsPast

LEMMA TickInv ==
    ASSUME WakeInv, Tick PROVE WakeInv'
  <1> DEFINE l == Collected(loop)
             found == l.pending
             telling == [l EXCEPT !.pending = {}, !.told = l.told \cup found]
  <1>1. /\ l \in Loops /\ l.cursor = Len(log) /\ l.told = loop.told
        /\ l.wakes = loop.wakes /\ l.busy = loop.busy
        /\ found \cap Events \subseteq Behind(l)
        /\ Behind(loop) \subseteq Behind(l)
        /\ \A k \in found : heard[k] = 0
    BY CollectedIs
  <1>2. up /\ UNCHANGED <<log, cost, running, up, errors, acts, cut>>
    BY DEF Tick
  <1>3. found \subseteq Key /\ l.cursor \in Nat
    BY <1>1 DEF Loops
  <1>8. /\ telling \in Loops /\ telling.cursor = l.cursor /\ telling.pending = {}
        /\ telling.told = l.told \cup found /\ telling.wakes = l.wakes /\ telling.busy = l.busy
    <2> HIDE DEF l
    <2> QED
      BY <1>1, <1>3 DEF Loops
  <1> HIDE DEF l, telling
  <1>4. CASE loop' = l /\ UNCHANGED <<rows, line, heard, begun>>
    <2>1. Types'
      BY <1>1, <1>2, <1>4 DEF WakeInv, Types
    <2>2. (OneWake /\ Counts)'
      BY <1>1, <1>2, <1>4 DEF WakeInv, OneWake, Counts
    <2>3. ToldIsPast'
      BY <1>1, <1>2, <1>4 DEF WakeInv, ToldIsPast, Behind, Types
    <2> QED
      BY <2>1, <2>2, <2>3 DEF WakeInv
  <1>5. CASE /\ loop' = [telling EXCEPT !.exhausted = TRUE]
             /\ rows' \in {rows, rows + 1} /\ UNCHANGED <<line, heard, begun>>
    <2>1. /\ loop' \in Loops /\ loop'.cursor = l.cursor /\ loop'.pending = {}
          /\ loop'.told = l.told \cup found /\ loop'.wakes = l.wakes /\ loop'.busy = l.busy
      BY <1>8, <1>5 DEF Loops
    <2>2. Types'
      BY <1>1, <1>2, <1>5, <2>1 DEF WakeInv, Types
    <2>3. (OneWake /\ Counts)'
      BY <1>1, <1>2, <1>5, <2>1 DEF WakeInv, Types, OneWake, Counts
    <2>4. ToldIsPast'
      BY <1>1, <1>2, <1>5, <2>1, TellingIsPast DEF ToldIsPast, Behind, l
    <2> QED
      BY <2>2, <2>3, <2>4 DEF WakeInv
  <1>6. CASE /\ ~l.busy /\ l.wakes < WakeBudget
             /\ loop' = [telling EXCEPT !.wakes = telling.wakes + 1, !.busy = TRUE, !.cooling = TRUE]
             /\ line' = Append(line, wake(found))
             /\ heard' = [k \in Key |-> IF k \in found THEN heard[k] + 1 ELSE heard[k]]
             /\ begun' = begun + 1 /\ UNCHANGED rows
    <2>1. /\ loop' \in Loops /\ loop'.cursor = l.cursor /\ loop'.pending = {}
          /\ loop'.told = l.told \cup found /\ loop'.wakes = l.wakes + 1 /\ loop'.busy = TRUE
      <3>1. /\ loop'.cursor = l.cursor /\ loop'.pending = {} /\ loop'.told = l.told \cup found
            /\ loop'.wakes = l.wakes + 1 /\ loop'.busy = TRUE
        BY <1>6, <1>8 DEF Loops
      <3>2. loop' \in Loops
        <4>1. loop' = [cursor |-> telling.cursor, told |-> telling.told, pending |-> telling.pending,
                       wakes |-> telling.wakes + 1, cooling |-> TRUE, busy |-> TRUE,
                       exhausted |-> telling.exhausted]
          BY <1>6, <1>8 DEF Loops
        <4>2. /\ telling.cursor \in Nat /\ telling.told \in SUBSET Key /\ telling.pending \in SUBSET Key
              /\ telling.wakes \in Nat /\ telling.exhausted \in BOOLEAN
          BY <1>8 DEF Loops
        <4> HIDE <1>6, <1>8
        <4> QED
          BY <4>1, <4>2 DEF Loops
      <3> QED
        BY <3>1, <3>2
    <2>2. wake(found) \in Turns /\ wake(found).by = "loop"
      BY <1>3 DEF wake, Turns
    <2>3. /\ line' \in Seq(Turns) /\ Len(line') = Len(line) + 1 /\ Len(line) \in Nat
          /\ \A j \in 1 .. Len(line) : line'[j] = line[j]
          /\ line'[Len(line) + 1].by = "loop"
      BY <1>6, <2>2, AppendProperties, LenProperties DEF WakeInv, Types
    <2>4. \A k \in Key : heard'[k] = IF k \in found THEN 1 ELSE heard[k]
      BY <1>1, <1>6
    <2>5. Types'
      <3>1. heard' \in [Key -> {0, 1}]
        BY <1>6, <2>4 DEF WakeInv, Types
      <3> QED
        BY <1>1, <1>2, <1>6, <2>1, <2>3, <3>1 DEF WakeInv, Types
    <2>6. OneWake'
      BY <1>1, <1>2, <1>6, <2>1, <2>3 DEF WakeInv, OneWake
    <2>7. Counts'
      <3>1. begun \in Nat /\ cut \in Nat /\ rows \in Nat /\ l.wakes \in Nat
        BY <1>1 DEF WakeInv, Types, Loops
      <3>2. begun <= l.wakes + cut /\ begun <= rows + cut
        BY <1>1, <1>2, <1>6, <3>1 DEF WakeInv, Counts
      <3> QED
        <4>1. begun' = begun + 1 /\ cut' = cut /\ rows' = rows /\ loop'.wakes = l.wakes + 1 /\ l.wakes < WakeBudget
          BY <1>2, <1>6, <2>1
        <4>2. (IF up' /\ loop'.busy THEN 1 ELSE 0) = 1
          BY <1>2, <2>1
        <4> QED
          BY <3>1, <3>2, <4>1, <4>2, Bounds DEF Counts
    <2>8. ToldIsPast'
      BY <1>1, <1>2, <2>1, <2>4, TellingIsPast DEF ToldIsPast, Behind, l
    <2> QED
      BY <2>5, <2>6, <2>7, <2>8 DEF WakeInv
  <1> QED
    <2> USE DEF l, telling
    <2>1. CASE found = {} \/ ~running \/ l.busy \/ l.cooling
      BY <1>4, <2>1 DEF Tick, KeptForLater
    <2>2. CASE ~(found = {} \/ ~running \/ l.busy \/ l.cooling) /\ l.wakes >= WakeBudget
      BY <1>5, <2>2 DEF Tick
    <2>3. CASE ~(found = {} \/ ~running \/ l.busy \/ l.cooling) /\ ~(l.wakes >= WakeBudget)
      <3>1. l.wakes < WakeBudget
        <4> HIDE DEF l
        <4> QED
          BY <1>1, <2>3, Bounds DEF Loops
      <3> QED
        BY <1>6, <2>3, <3>1 DEF Tick
    <2> QED
      BY <2>1, <2>2, <2>3

LEMMA CooldownEndsInv ==
    ASSUME WakeInv, CooldownEnds PROVE WakeInv'
  <1>1. /\ loop' \in Loops /\ loop'.cursor = loop.cursor /\ loop'.pending = loop.pending
        /\ loop'.told = loop.told /\ loop'.wakes = loop.wakes /\ loop'.busy = loop.busy
    BY DEF WakeInv, Types, Loops, CooldownEnds
  <1> QED
    BY <1>1 DEF WakeInv, Types, OneWake, Counts, ToldIsPast, Behind, CooldownEnds

----------------------------------------------------------------------------
(* The session, and the run around it *)

LEMMA AskInv ==
    ASSUME WakeInv, Ask PROVE WakeInv'
  <1>1. ask \in Turns /\ ask.by = "operator"
    BY DEF ask, Turns
  <1>2. /\ line' \in Seq(Turns) /\ Len(line') = Len(line) + 1 /\ Len(line) \in Nat
        /\ \A j \in 1 .. Len(line) : line'[j] = line[j]
        /\ line'[Len(line) + 1].by = "operator"
    BY <1>1, AppendProperties, LenProperties DEF WakeInv, Types, Ask
  <1>3. OneWake'
    BY <1>2 DEF WakeInv, OneWake, Ask
  <1> QED
    BY <1>2, <1>3 DEF WakeInv, Types, Counts, ToldIsPast, Behind, Ask

LEMMA TurnEndsInv ==
    ASSUME WakeInv, TurnEnds PROVE WakeInv'
  <1>1. /\ line' \in Seq(Turns) /\ Len(line') = Len(line) - 1 /\ Len(line) \in Nat \ {0}
        /\ \A j \in 1 .. Len(line') : line'[j] = line[j + 1]
    BY HeadTailProperties, EmptySeq DEF WakeInv, Types, TurnEnds
  <1>2. up /\ Head(line) = line[1] /\ UNCHANGED <<log, cost, running, up, errors, acts, heard, begun, cut>>
    BY DEF WakeInv, Types, TurnEnds
  <1>3. CASE line[1].by = "loop"
    <2>1. /\ rows' = rows + 1
          /\ loop' \in Loops /\ loop'.cursor = loop.cursor /\ loop'.pending = loop.pending
          /\ loop'.told = loop.told /\ loop'.wakes = loop.wakes /\ loop'.busy = FALSE
      BY <1>2, <1>3 DEF WakeInv, Types, Loops, TurnEnds
    <2>2. Types' /\ ToldIsPast'
      BY <1>1, <1>2, <2>1 DEF WakeInv, Types, ToldIsPast, Behind
    <2>3. OneWake'
      BY <1>1, <1>2, <1>3, <2>1 DEF WakeInv, OneWake
    <2>4. Counts'
      BY <1>1, <1>2, <1>3, <2>1 DEF WakeInv, Types, OneWake, Counts
    <2> QED
      BY <2>2, <2>3, <2>4 DEF WakeInv
  <1>4. CASE line[1].by # "loop"
    <2>1. UNCHANGED <<rows, loop>>
      BY <1>2, <1>4 DEF TurnEnds
    <2>2. OneWake'
      <3>1. \A j \in 1 .. Len(line') : j + 1 \in 1 .. Len(line)
        BY <1>1
      <3>2. (\E j \in 1 .. Len(line) : line[j].by = "loop") <=> \E j \in 1 .. Len(line') : line'[j].by = "loop"
        <4>1. ASSUME NEW j \in 1 .. Len(line), line[j].by = "loop"
              PROVE  j - 1 \in 1 .. Len(line') /\ line'[j - 1].by = "loop"
          BY <1>1, <1>4, <4>1
        <4> QED
          BY <1>1, <3>1, <4>1
      <3>3. \A i, j \in 1 .. Len(line') : line'[i].by = "loop" /\ line'[j].by = "loop" => i = j
        <4>1. ASSUME NEW i \in 1 .. Len(line'), NEW j \in 1 .. Len(line'),
                     line'[i].by = "loop", line'[j].by = "loop"
              PROVE  i + 1 = j + 1
          BY <1>1, <3>1, <4>1 DEF WakeInv, OneWake
        <4> QED
          BY <1>1, <4>1
      <3> QED
        BY <1>2, <2>1, <3>2, <3>3 DEF WakeInv, OneWake
    <2> QED
      BY <1>1, <1>2, <2>1, <2>2 DEF WakeInv, Types, Counts, ToldIsPast, Behind
  <1> QED
    BY <1>3, <1>4

LEMMA DiesInv ==
    ASSUME WakeInv, Dies PROVE WakeInv'
  <1>1. line' = <<>> /\ line' \in Seq(Turns) /\ Len(line') = 0
    BY EmptySeq DEF Dies
  <1>2. up /\ up' = FALSE /\ cut' = (IF loop.busy THEN cut + 1 ELSE cut)
        /\ UNCHANGED <<log, rows, cost, running, loop, errors, heard, begun>>
    BY DEF Dies
  <1>3. Types'
    <2>1. cut' \in Nat
      BY <1>2 DEF WakeInv, Types
    <2> QED
      BY <1>1, <1>2, <2>1 DEF WakeInv, Types
  <1>4. Counts'
    BY <1>2, Bounds DEF WakeInv, Types, Loops, Counts
  <1> QED
    BY <1>1, <1>2, <1>3, <1>4 DEF WakeInv, OneWake, ToldIsPast, Behind

LEMMA ResumesInv ==
    ASSUME WakeInv, Resumes PROVE WakeInv'
  <1>1. loop' = [cursor |-> Len(log), told |-> {}, pending |-> {}, wakes |-> rows,
                 cooling |-> FALSE, busy |-> FALSE, exhausted |-> FALSE]
    BY StartedIs DEF Resumes
  <1>2. /\ ~up /\ up' = TRUE /\ running' = TRUE /\ errors' = 0
        /\ UNCHANGED <<log, rows, cost, line, acts, begun, cut>>
    BY DEF Resumes
  <1>3. \A k \in Key : heard'[k] = IF k[1] = "event" THEN heard[k] ELSE 0
    BY DEF Resumes
  <1>4. loop' \in Loops /\ Len(log) \in Nat /\ loop.cursor \in Nat /\ loop.cursor <= Len(log)
    BY <1>1, LenProperties DEF WakeInv, Types, Loops
  <1>5. Types'
    <2>1. heard' \in [Key -> {0, 1}]
      BY <1>3 DEF WakeInv, Types, Resumes
    <2> QED
      BY <1>1, <1>2, <1>4, <2>1, Bounds DEF WakeInv, Types
  <1>6. OneWake'
    BY <1>1, <1>2, EmptySeq DEF WakeInv, OneWake
  <1>7. Counts'
    BY <1>1, <1>2, Bounds DEF WakeInv, Types, Counts
  <1>8. ToldIsPast'
    <2>1. \A k \in Key : k[1] = "event" => k \in Events
      BY DEF Key, Events
    <2>2. Behind(loop) \subseteq Behind(loop')
      BY <1>1, <1>4 DEF Behind
    <2> QED
      BY <1>1, <1>3, <2>1, <2>2 DEF WakeInv, ToldIsPast, Behind
  <1> QED
    BY <1>5, <1>6, <1>7, <1>8 DEF WakeInv

----------------------------------------------------------------------------

LEMMA WakeNextInv ==
    WakeInv /\ [WakeNext]_wakeVars => WakeInv'
  <1> SUFFICES ASSUME WakeInv, [WakeNext]_wakeVars PROVE WakeInv'
    OBVIOUS
  <1>1. CASE \E what \in {"running", "act", "error", "failed"} : Happens(what)
    BY <1>1, HappensInv DEF Kinds
  <1>2. CASE StatusMoves \/ UNCHANGED wakeVars
    <2>1. running' \in BOOLEAN /\ UNCHANGED <<log, rows, cost, up, loop, errors, line, heard, begun, cut>>
      BY <1>2 DEF WakeInv, Types, StatusMoves, wakeVars
    <2> QED
      BY <2>1, LenProperties, AsideInv DEF WakeInv, Types
  <1> QED
    BY <1>1, <1>2, CostsInv, LoggedInv, TickInv, CooldownEndsInv, AskInv, TurnEndsInv, DiesInv,
       ResumesInv DEF WakeNext

\* Whatever ticks, notices, deferrals and restarts come in between, nothing is told
\* to the coordinator twice (`collect`, `notify`, `startCoordinatorLoop`).
THEOREM NothingToldTwice ==
    WakeSpec => []ToldOnce
  <1>1. WakeInv => ToldOnce
    <2> SUFFICES ASSUME WakeInv PROVE ToldOnce
      OBVIOUS
    <2>1. WakeTypeOK
      <3>1. log \in Seq({"running", "act", "error", "failed"}) /\ Len(log) <= MaxLog
        BY DEF WakeInv, Types, Kinds
      <3>2. loop.cursor \in 0 .. Len(log) /\ loop.told \subseteq Key /\ loop.pending \subseteq Key
        <4>1. loop \in Loops /\ loop.cursor <= Len(log)
          BY DEF WakeInv, Types
        <4>2. Len(log) \in Nat
          BY <3>1, LenProperties
        <4> QED
          BY <4>1, <4>2 DEF Loops
      <3>3. up => (loop.busy <=> \E i \in DOMAIN line : line[i].by = "loop")
        <4>1. DOMAIN line = 1 .. Len(line)
          BY LenProperties DEF WakeInv, Types
        <4> QED
          BY <4>1 DEF WakeInv, OneWake
      <3> QED
        BY <3>1, <3>2, <3>3 DEF WakeTypeOK
    <2>2. \A k \in Key : heard[k] <= 1
      BY DEF WakeInv, Types
    <2> QED
      BY <2>1, <2>2 DEF ToldOnce
  <1> QED
    BY <1>1, WakeInitInv, WakeNextInv, PTL DEF WakeSpec

\* A run of any number of processes wakes its coordinator at most as often as its
\* budget says, and once more for each wake a process died in.
THEOREM BudgetIsOfTheRun ==
    WakeSpec => []WithinBudget
  <1>1. WakeInv => WithinBudget
    BY DEF WakeInv, Counts, WithinBudget
  <1> QED
    BY <1>1, WakeInitInv, WakeNextInv, PTL DEF WakeSpec
=============================================================================
