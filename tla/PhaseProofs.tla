---------------------------- MODULE PhaseProofs ----------------------------
(***************************************************************************)
(* What Phase guarantees whatever the chores, the budgets, the attempts and  *)
(* the verbs of a phase: what is merged passed its gates in full and was     *)
(* approved, but for the merge the operator stepped to by hand; every state   *)
(* has one way out; and a turn that was cut is owed until it runs again.      *)
(***************************************************************************)
EXTENDS Phase, TLAPS

\* A phase as a function of its fields, of which the proof needs three to be of
\* their type.
Fields == {"at", "pc", "left", "limit", "rounds", "gate", "verdict", "answer", "red", "moved", "given",
           "timer", "held", "pause", "hold", "cut", "reassign", "step", "again", "news", "verified",
           "approved", "byHand", "owed"}

IsPhase(q) ==
    /\ q = [f \in Fields |-> q[f]]
    /\ q.at \in State /\ q.step \in StepTo \cup {"none"}

\* What a state past the review, or past the gates, has behind it.
Earned(q) ==
    /\ q.at \in {"polish", "verify"} => q.approved
    /\ q.at = "integrate" => q.byHand \/ (q.verified /\ q.approved)

\* What a phase knows when it is about to leave its state.
Leaving(q) ==
    /\ q.at = "review" /\ q.verdict = "pass" => q.approved
    /\ q.at = "verify" /\ q.gate = "green" => q.verified

\* Where the states are whose work a phase is in the middle of.
Placed(q) ==
    /\ q.pc = "merge" => q.at = "integrate"
    /\ q.pc = "gate" => q.at \in {"gate", "verify"}
    /\ q.pc \in {"asking", "question"} => q.at \in Questions
    /\ q.pc \in {"spawn", "turn", "asked"} => q.at \in {"implement", "fix", "review", "polish", "integrate"}
    /\ q.pc = "hold" => Leaving(q)

\* The inductive invariant, of the phase alone.
Good(q) == IsPhase(q) /\ Earned(q) /\ Placed(q)

----------------------------------------------------------------------------
(* The pipeline *)

\* The ways into the states past the review.
LEMMA WaysIn ==
    ASSUME NEW e \in Transitions
    PROVE  /\ e.to \in State
           /\ e.to = "polish" => (e.from = "review" /\ e.on = "pass") \/ e.from = "unapproved"
           /\ e.to = "verify" => e.from = "polish"
           /\ e.to = "integrate" => e.from = "verify" /\ e.on = "green"
  BY DEF Transitions, Edge, State

LEMMA EnteredGood ==
    ASSUME NEW q, IsPhase(q), NEW s \in State,
           s \in {"polish", "verify"} => q.approved,
           s = "integrate" => q.byHand \/ (q.verified /\ q.approved)
    PROVE  Good(Entered(q, s))
  <1> DEFINE owed == IF q.owed = s THEN "none" ELSE q.owed
             r == [q EXCEPT !.at = s, !.owed = owed]
  <1> HIDE DEF owed
  <1>1. IsPhase(r) /\ r.at = s /\ r.approved = q.approved /\ r.verified = q.verified /\ r.byHand = q.byHand
    BY DEF IsPhase, Fields
  <1>2. Entered(q, s) =
          CASE s \in {"gate", "verify"} -> [r EXCEPT !.pc = "gate"]
            [] s \in Questions -> [r EXCEPT !.pc = "asking"]
            [] s = "integrate" -> [r EXCEPT !.pc = "merge"]
            [] s \in Final -> [r EXCEPT !.pc = s]
            [] s = "review" -> [r EXCEPT !.pc = "spawn", !.left = Turns[s], !.verdict = "pass",
                                         !.approved = FALSE]
            [] OTHER -> [r EXCEPT !.pc = "spawn", !.left = Turns[s]]
    BY DEF Entered, owed
  <1> HIDE DEF r
  <1>3. CASE s \in {"gate", "verify"}
    <2>1. Entered(q, s) = [r EXCEPT !.pc = "gate"]
      BY <1>2, <1>3 DEF Questions, Final
    <2> QED
      BY <1>1, <1>3, <2>1 DEF Good, IsPhase, Fields, Earned, Placed
  <1>4. CASE s \in Questions
    <2>1. Entered(q, s) = [r EXCEPT !.pc = "asking"]
      BY <1>2, <1>4 DEF Questions, Final
    <2> QED
      BY <1>1, <1>4, <2>1 DEF Good, IsPhase, Fields, Earned, Placed, Questions
  <1>5. CASE s = "integrate"
    <2>1. Entered(q, s) = [r EXCEPT !.pc = "merge"]
      BY <1>2, <1>5 DEF Questions, Final
    <2> QED
      BY <1>1, <1>5, <2>1 DEF Good, IsPhase, Fields, Earned, Placed
  <1>6. CASE s \in Final
    <2>1. Entered(q, s) = [r EXCEPT !.pc = s]
      BY <1>2, <1>6 DEF Questions, Final
    <2> QED
      BY <1>1, <1>6, <2>1 DEF Good, IsPhase, Fields, Final, Earned, Placed
  <1>7. CASE s = "review"
    <2> DEFINE t == [r EXCEPT !.pc = "spawn", !.left = Turns[s], !.verdict = "pass", !.approved = FALSE]
    <2>1. Entered(q, s) = t
      BY <1>2, <1>7 DEF Questions, Final
    <2>2. IsPhase(t) /\ t.at = "review" /\ t.pc = "spawn"
      BY <1>1, <1>7 DEF IsPhase, Fields
    <2> HIDE DEF t
    <2> QED
      BY <2>1, <2>2 DEF Good, Earned, Placed
  <1>8. CASE s \in {"implement", "fix", "polish"}
    <2>1. Entered(q, s) = [r EXCEPT !.pc = "spawn", !.left = Turns[s]]
      BY <1>2, <1>8 DEF Questions, Final
    <2> QED
      BY <1>1, <1>8, <2>1 DEF Good, IsPhase, Fields, Earned, Placed
  <1> QED
    BY <1>3, <1>4, <1>5, <1>6, <1>7, <1>8 DEF State, Questions, Final

LEMMA SentGood ==
    ASSUME NEW q, IsPhase(q), Earned(q), Leaving(q) PROVE Good(Sent(q))
  <1>1. CASE Ways(q) = {}
    <2>1. Sent(q) = [q EXCEPT !.pc = "failed"]
      BY <1>1 DEF Sent
    <2> QED
      BY <2>1 DEF Good, IsPhase, Fields, Earned, Placed
  <1>2. CASE Ways(q) # {}
    <2> DEFINE e == CHOOSE f \in Ways(q) : TRUE
               rounds == IF q.at = "exhausted" /\ e.to = "fix" THEN 0 ELSE q.rounds
               approved == q.approved \/ (q.at = "unapproved" /\ e.to = "polish")
               r == [q EXCEPT !.rounds = rounds, !.byHand = FALSE, !.approved = approved]
    <2>1. e \in Ways(q)
      BY <1>2
    <2>2. Sent(q) = Entered(r, e.to)
      BY <1>2 DEF Sent
    <2> HIDE DEF e
    <2>3. e \in Transitions /\ e.from = q.at /\ Guard(q)[e.on]
      BY <2>1 DEF Ways
    <2>4. e.on = "pass" => q.verdict = "pass"
      <3>1. ASSUME e.on = "pass" PROVE Guard(q).pass
        BY <2>3, <3>1
      <3> QED
        BY <3>1 DEF Guard
    <2>5. e.on = "green" => q.gate = "green"
      <3>1. ASSUME e.on = "green" PROVE Guard(q).green
        BY <2>3, <3>1
      <3> QED
        BY <3>1 DEF Guard
    <2> HIDE DEF rounds, approved
    <2>6. IsPhase(r) /\ r.verified = q.verified /\ r.approved = approved
      BY DEF IsPhase, Fields
    <2>7. /\ q.approved => approved
          /\ q.at = "unapproved" /\ e.to = "polish" => approved
      BY DEF approved
    <2> HIDE DEF r
    <2> QED
      BY <2>2, <2>3, <2>4, <2>5, <2>6, <2>7, WaysIn, EnteredGood DEF Earned, Leaving
  <1> QED
    BY <1>1, <1>2

LEMMA SteppedGood ==
    ASSUME NEW q, IsPhase(q), q.step # "none" PROVE Good(Stepped(q))
  <1> DEFINE approved == q.approved \/ q.step \in {"polish", "verify"}
             byHand == q.step = "integrate"
             r == [q EXCEPT !.step = "none", !.owed = "none", !.byHand = byHand, !.approved = approved]
  <1>1. q.step \in State
    BY StepsType DEF IsPhase
  <1>2. (q.step \in {"polish", "verify"} => approved) /\ (q.step = "integrate" => byHand)
    OBVIOUS
  <1>3. Stepped(q) = Entered(r, q.step)
    BY DEF Stepped
  <1> HIDE DEF approved, byHand
  <1>4. IsPhase(r) /\ r.approved = approved /\ r.byHand = byHand
    BY DEF IsPhase, Fields
  <1> HIDE DEF r
  <1> QED
    BY <1>1, <1>2, <1>3, <1>4, EnteredGood

LEMMA BoundaryGood ==
    ASSUME NEW q, IsPhase(q), Earned(q), Leaving(q) PROVE Good(Boundary(q))
  <1> DEFINE r == [q EXCEPT !.pause = FALSE, !.hold = FALSE, !.cut = FALSE, !.reassign = FALSE]
             h == [r EXCEPT !.pc = "hold", !.held = q.hold, !.again = q.cut]
  <1>1. /\ IsPhase(r) /\ r.step = q.step /\ r.at = q.at /\ r.approved = q.approved
        /\ r.verified = q.verified /\ r.byHand = q.byHand /\ r.gate = q.gate /\ r.verdict = q.verdict
    BY DEF IsPhase, Fields
  <1>2. Boundary(q) =
            IF q.step # "none" THEN Stepped(r)
            ELSE IF q.reassign THEN IF q.cut THEN Entered(r, q.at) ELSE Sent(r)
            ELSE IF q.pause \/ q.hold THEN h
            ELSE Sent(q)
    BY DEF Boundary
  <1> HIDE DEF r
  <1>3. Earned(r) /\ Leaving(r) /\ q.at \in State
    BY <1>1 DEF IsPhase, Earned, Leaving
  <1>4. Good(h)
    <2>1. /\ IsPhase(h) /\ h.pc = "hold" /\ h.at = r.at /\ h.approved = r.approved
          /\ h.verified = r.verified /\ h.byHand = r.byHand /\ h.gate = r.gate /\ h.verdict = r.verdict
      BY <1>1 DEF IsPhase, Fields
    <2> HIDE DEF h
    <2> QED
      BY <1>3, <2>1 DEF Good, Earned, Placed, Leaving
  <1> HIDE DEF h
  <1>5. CASE q.step # "none"
    BY <1>1, <1>2, <1>5, SteppedGood
  <1>6. CASE Boundary(q) = Entered(r, q.at)
    BY <1>1, <1>3, <1>6, EnteredGood DEF Earned
  <1>7. CASE Boundary(q) \in {Sent(r), Sent(q)}
    BY <1>1, <1>3, <1>7, SentGood
  <1> QED
    BY <1>2, <1>4, <1>5, <1>6, <1>7

\* What does not move a phase, nor take from it what it has earned.
LEMMA UnmovedGood ==
    ASSUME NEW q, NEW r, Good(q), IsPhase(r), r.at = q.at, r.approved = q.approved,
           r.verified = q.verified, r.byHand = q.byHand,
           \/ r.pc = q.pc /\ r.gate = q.gate /\ r.verdict = q.verdict
           \/ r.pc = "failed"
           \/ r.pc \in {"spawn", "turn", "asked"} /\ q.pc \in {"spawn", "turn", "asked", "merge"}
           \/ r.pc = "question" /\ q.pc = "asking"
    PROVE  Good(r)
  BY DEF Good, Earned, Placed, Leaving

LEMMA RestartedGood ==
    ASSUME NEW q, IsPhase(q) PROVE Good(Restarted(q))
  <1> DEFINE given == [k \in Questions |-> 0]
             r == [q EXCEPT !.rounds = 0, !.given = given,
                      !.gate = "none", !.verdict = "none", !.answer = "none", !.red = "none",
                      !.cut = FALSE, !.step = "none", !.moved = FALSE, !.news = FALSE,
                      !.verified = FALSE, !.approved = FALSE, !.byHand = FALSE, !.owed = "none"]
  <1>1. Restarted(q) = Entered(r, "implement")
    BY DEF Restarted
  <1> HIDE DEF given
  <1>2. IsPhase(r)
    <2>1. r = [f \in Fields |-> r[f]]
      BY DEF IsPhase
    <2>2. r.at = q.at /\ r.step = "none"
      BY DEF IsPhase, Fields
    <2> QED
      BY <2>1, <2>2 DEF IsPhase
  <1> HIDE DEF r
  <1> QED
    BY <1>1, <1>2, EnteredGood DEF State

LEMMA AnsweredGood ==
    ASSUME NEW q, Good(q), q.pc \in Parked, NEW a PROVE Good(Answered(q, a))
  <1> DEFINE answer == IF q.pc = "asked" THEN q.answer ELSE a
             r == [q EXCEPT !.held = FALSE, !.timer = "none", !.again = FALSE, !.answer = answer]
             t == [r EXCEPT !.pc = "turn"]
  <1>1. Answered(q, a) =
            IF q.pc = "asked" THEN t
            ELSE IF q.step # "none" THEN Stepped(r)
            ELSE IF q.pc = "question" THEN Boundary(r)
            ELSE IF q.again THEN Entered(r, q.at) ELSE Sent(r)
    BY DEF Answered
  <1> HIDE DEF answer
  <1>2. /\ IsPhase(r) /\ r.step = q.step /\ r.at = q.at /\ r.approved = q.approved /\ r.pc = q.pc
        /\ r.verified = q.verified /\ r.byHand = q.byHand /\ r.gate = q.gate /\ r.verdict = q.verdict
    BY DEF Good, IsPhase, Fields
  <1> HIDE DEF r
  <1>3. /\ IsPhase(t) /\ t.pc = "turn" /\ t.at = q.at /\ t.approved = q.approved
        /\ t.verified = q.verified /\ t.byHand = q.byHand
    BY <1>2 DEF IsPhase, Fields
  <1> HIDE DEF t
  <1>4. Earned(r) /\ q.at \in State
    BY <1>2 DEF Good, IsPhase, Earned
  <1>5. CASE q.pc = "asked"
    BY <1>1, <1>3, <1>5, UnmovedGood
  <1>6. CASE q.pc # "asked"
    <2>1. Leaving(r)
      BY <1>2, <1>6 DEF Good, Placed, Leaving, Parked, Questions
    <2>2. CASE q.step # "none"
      BY <1>1, <1>2, <1>6, <2>2, SteppedGood
    <2>3. CASE q.step = "none" /\ q.pc = "question"
      BY <1>1, <1>2, <1>4, <1>6, <2>1, <2>3, BoundaryGood
    <2>4. CASE q.step = "none" /\ q.pc # "question" /\ q.again
      BY <1>1, <1>2, <1>4, <1>6, <2>4, EnteredGood DEF Earned
    <2>5. CASE q.step = "none" /\ q.pc # "question" /\ ~q.again
      BY <1>1, <1>2, <1>4, <1>6, <2>1, <2>5, SentGood
    <2> QED
      BY <2>2, <2>3, <2>4, <2>5
  <1> QED
    BY <1>5, <1>6

----------------------------------------------------------------------------
(* Steps *)

LEMMA InitGood ==
    Init => Good(phase)
  <1> SUFFICES ASSUME Init PROVE Good(phase)
    OBVIOUS
  <1>1. PICK l \in Limits : phase = [Blank EXCEPT !.limit = l]
    BY DEF Init
  <1>2. Blank = [f \in Fields |-> Blank[f]]
    BY DEF Blank, Fields
  <1>3. phase.at = "implement" /\ phase.pc = "spawn" /\ phase.step = "none"
    BY <1>1 DEF Blank
  <1>4. phase = [f \in Fields |-> phase[f]]
    BY <1>1, <1>2
  <1> QED
    BY <1>3, <1>4 DEF Good, IsPhase, State, Earned, Placed

LEMMA SpawnGood ==
    ASSUME Good(phase), Spawn PROVE Good(phase')
  <1>1. phase.pc = "spawn" /\ phase.at \in {"implement", "fix", "review", "polish", "integrate"}
    BY DEF Spawn, Good, Placed
  <1>2. CASE phase.left = 0
    <2> DEFINE approved == phase.approved \/ (phase.at = "review" /\ phase.verdict = "pass")
               r == [phase EXCEPT !.approved = approved]
    <2>1. phase' = Boundary(r)
      BY <1>2 DEF Spawn, Becomes
    <2>2. (phase.approved => approved) /\ (phase.at = "review" /\ phase.verdict = "pass" => approved)
      OBVIOUS
    <2> HIDE DEF approved
    <2>3. /\ IsPhase(r) /\ r.at = phase.at /\ r.approved = approved
          /\ r.verified = phase.verified /\ r.byHand = phase.byHand /\ r.verdict = phase.verdict
      BY DEF Good, IsPhase, Fields
    <2> HIDE DEF r
    <2>4. Earned(r) /\ Leaving(r)
      BY <1>1, <2>2, <2>3 DEF Good, Earned, Leaving
    <2> QED
      BY <2>1, <2>3, <2>4, BoundaryGood
  <1>3. CASE phase.left # 0
    <2> DEFINE verified == phase.verified /\ phase.at \notin {"implement", "fix", "polish"}
               approved == phase.approved /\ phase.at \notin {"implement", "fix"}
               r == [phase EXCEPT !.pc = "turn", !.verified = verified, !.approved = approved]
    <2>1. phase' = r
      BY <1>3 DEF Spawn, Becomes
    <2>2. /\ phase.verified /\ phase.at = "integrate" => verified
          /\ phase.approved /\ phase.at \in {"polish", "verify", "integrate"} => approved
      OBVIOUS
    <2> HIDE DEF verified, approved
    <2>3. /\ IsPhase(r) /\ r.at = phase.at /\ r.approved = approved /\ r.verified = verified /\ r.pc = "turn"
          /\ r.byHand = phase.byHand
      BY DEF Good, IsPhase, Fields
    <2> HIDE DEF r
    <2> QED
      BY <1>1, <2>1, <2>2, <2>3 DEF Good, Earned, Placed
  <1> QED
    BY <1>2, <1>3

\* The ends of a turn: its phase is where it was, and spawns the next.
LEMMA TurnOverGood ==
    ASSUME NEW q, Good(q), q.pc \in {"spawn", "turn"}, NEW v \in {"pass", "fail"}, NEW m \in BOOLEAN
    PROVE  Good(Reviewed(q, v)) /\ Good(Worked(q, m)) /\ Good(Chored(q, m))
  <1>1. Good(Reviewed(q, v))
    <2> DEFINE left == IF v = "pass" THEN q.left - 1 ELSE 0
               verdict == IF v = "pass" THEN q.verdict ELSE "fail"
               r == [q EXCEPT !.pc = "spawn", !.left = left, !.verdict = verdict]
    <2>1. Reviewed(q, v) = r
      BY DEF Reviewed
    <2> HIDE DEF left, verdict
    <2>2. /\ IsPhase(r) /\ r.at = q.at /\ r.approved = q.approved /\ r.pc = "spawn"
          /\ r.verified = q.verified /\ r.byHand = q.byHand
      BY DEF Good, IsPhase, Fields
    <2> HIDE DEF r
    <2> QED
      BY <2>1, <2>2, UnmovedGood
  <1>2. Good(Worked(q, m))
    <2> DEFINE rounds == IF q.at = "fix" /\ q.limit # Unlimited THEN q.rounds + 1 ELSE q.rounds
               red == IF q.at = "fix" /\ q.red = "red" THEN "fixed" ELSE q.red
               moved == q.moved \/ m
               r == [q EXCEPT !.pc = "spawn", !.left = 0, !.moved = moved, !.rounds = rounds, !.red = red]
    <2>1. Worked(q, m) = r
      BY DEF Worked
    <2> HIDE DEF rounds, red, moved
    <2>2. /\ IsPhase(r) /\ r.at = q.at /\ r.approved = q.approved /\ r.pc = "spawn"
          /\ r.verified = q.verified /\ r.byHand = q.byHand
      BY DEF Good, IsPhase, Fields
    <2> HIDE DEF r
    <2> QED
      BY <2>1, <2>2, UnmovedGood
  <1>3. Good(Chored(q, m))
    <2> DEFINE left == q.left - 1
               moved == q.moved \/ (m /\ q.at = "polish")
               r == [q EXCEPT !.pc = "spawn", !.left = left, !.moved = moved]
    <2>1. Chored(q, m) = r
      BY DEF Chored
    <2> HIDE DEF left, moved
    <2>2. /\ IsPhase(r) /\ r.at = q.at /\ r.approved = q.approved /\ r.pc = "spawn"
          /\ r.verified = q.verified /\ r.byHand = q.byHand
      BY DEF Good, IsPhase, Fields
    <2> HIDE DEF r
    <2> QED
      BY <2>1, <2>2, UnmovedGood
  <1> QED
    BY <1>1, <1>2, <1>3

LEMMA TurnEndsGood ==
    ASSUME Good(phase), TurnEnds PROVE Good(phase')
  <1>1. \/ \E v \in {"pass", "fail"} : phase' = Reviewed(phase, v)
        \/ \E m \in BOOLEAN : phase' = Worked(phase, m)
        \/ \E m \in BOOLEAN : phase' = Chored(phase, m)
    BY DEF TurnEnds, Becomes
  <1>2. phase.pc = "turn"
    BY DEF TurnEnds
  <1> QED
    BY <1>1, <1>2, TurnOverGood

LEMMA GateEndsGood ==
    ASSUME Good(phase), GateEnds PROVE Good(phase')
  <1>1. phase.pc = "gate" /\ phase.at \in {"gate", "verify"}
    BY DEF GateEnds, Good, Placed
  <1>2. PICK r \in {"green", "same", "other"} :
          phase' = Boundary(
            [phase EXCEPT
                !.gate = CASE r = "green" -> "green"
                           [] r = "same" /\ phase.red = "fixed" -> "stalled"
                           [] OTHER -> "red",
                !.red = IF r = "green" THEN "none" ELSE "red",
                !.moved = FALSE,
                !.news = r = "other" /\ phase.red # "none",
                !.verified = r = "green" /\ phase.at = "verify"])
    BY DEF GateEnds, Becomes
  <1> DEFINE gate == CASE r = "green" -> "green"
                       [] r = "same" /\ phase.red = "fixed" -> "stalled"
                       [] OTHER -> "red"
             red == IF r = "green" THEN "none" ELSE "red"
             news == r = "other" /\ phase.red # "none"
             verified == r = "green" /\ phase.at = "verify"
             q == [phase EXCEPT !.gate = gate, !.red = red, !.moved = FALSE, !.news = news,
                                !.verified = verified]
  <1>3. phase' = Boundary(q)
    BY <1>2
  <1>4. gate = "green" /\ phase.at = "verify" => verified
    OBVIOUS
  <1> HIDE DEF gate, red, news, verified
  <1>5. /\ IsPhase(q) /\ q.at = phase.at /\ q.approved = phase.approved /\ q.verified = verified
        /\ q.gate = gate /\ q.byHand = phase.byHand
    BY DEF Good, IsPhase, Fields
  <1> HIDE DEF q
  <1>6. Earned(q) /\ Leaving(q)
    BY <1>1, <1>4, <1>5 DEF Good, Earned, Leaving
  <1> QED
    BY <1>3, <1>5, <1>6, BoundaryGood

\* What throws is the end of a turn, or of the attempt.
LEMMA ThrowsGood ==
    ASSUME Good(phase), Throws PROVE Good(phase')
  <1>1. CASE phase' = Reviewed(phase, "fail") /\ Spawning
    BY <1>1, TurnOverGood DEF Spawning
  <1>2. CASE phase' = Chored(phase, FALSE) /\ Spawning
    BY <1>2, TurnOverGood DEF Spawning
  <1>3. CASE phase' = [phase EXCEPT !.pc = "failed"]
    <2>1. /\ IsPhase(phase') /\ phase'.at = phase.at /\ phase'.approved = phase.approved
          /\ phase'.verified = phase.verified /\ phase'.byHand = phase.byHand /\ phase'.pc = "failed"
      BY <1>3 DEF Good, IsPhase, Fields
    <2> QED
      BY <2>1, UnmovedGood
  <1> QED
    BY <1>1, <1>2, <1>3 DEF Throws, Becomes

LEMMA RefusedGood ==
    ASSUME Good(phase), Refused PROVE Good(phase')
  <1>1. CASE phase' = Chored(phase, FALSE) /\ Spawning
    BY <1>1, TurnOverGood DEF Spawning
  <1>2. CASE phase' = Restarted(phase)
    BY <1>2, RestartedGood DEF Good
  <1>3. CASE phase.pc = "turn" /\ phase' = [phase EXCEPT !.pc = "spawn"]
    <2>1. /\ IsPhase(phase') /\ phase'.at = phase.at /\ phase'.approved = phase.approved
          /\ phase'.verified = phase.verified /\ phase'.byHand = phase.byHand /\ phase'.pc = "spawn"
      BY <1>3 DEF Good, IsPhase, Fields
    <2> QED
      BY <1>3, <2>1, UnmovedGood
  <1> QED
    BY <1>1, <1>2, <1>3 DEF Refused, Becomes

\* The steps between a turn and its question, a question and its park, and a
\* merge and its chores.
LEMMA WaitsGood ==
    ASSUME Good(phase), AgentAsks \/ Raised \/ MergeEnds PROVE Good(phase')
  <1>1. CASE AgentAsks
    <2>1. phase' = [phase EXCEPT !.pc = "asked", !.timer = "armed"] /\ phase.pc = "turn"
      BY <1>1 DEF AgentAsks, Becomes
    <2>2. /\ IsPhase(phase') /\ phase'.at = phase.at /\ phase'.approved = phase.approved
          /\ phase'.verified = phase.verified /\ phase'.byHand = phase.byHand /\ phase'.pc = "asked"
      BY <2>1 DEF Good, IsPhase, Fields
    <2> QED
      BY <2>1, <2>2, UnmovedGood
  <1>2. CASE Raised
    <2>1. phase' = [phase EXCEPT !.pc = "question", !.timer = "armed"] /\ phase.pc = "asking"
      BY <1>2 DEF Raised, Becomes
    <2>2. /\ IsPhase(phase') /\ phase'.at = phase.at /\ phase'.approved = phase.approved
          /\ phase'.verified = phase.verified /\ phase'.byHand = phase.byHand /\ phase'.pc = "question"
      BY <2>1 DEF Good, IsPhase, Fields
    <2> QED
      BY <2>1, <2>2, UnmovedGood
  <1>3. CASE MergeEnds
    <2>1. PICK n \in {0, AfterPr} : phase' = [phase EXCEPT !.pc = "spawn", !.left = n]
      BY <1>3 DEF MergeEnds, Becomes
    <2>2. phase.pc = "merge"
      BY <1>3 DEF MergeEnds
    <2>3. /\ IsPhase(phase') /\ phase'.at = phase.at /\ phase'.approved = phase.approved
          /\ phase'.verified = phase.verified /\ phase'.byHand = phase.byHand /\ phase'.pc = "spawn"
      BY <2>1 DEF Good, IsPhase, Fields
    <2> QED
      BY <2>2, <2>3, UnmovedGood
  <1> QED
    BY <1>1, <1>2, <1>3

LEMMA TimerGood ==
    ASSUME Good(phase), TimerFires PROVE Good(phase')
  <1>1. phase.pc \in {"question", "asked"}
    BY DEF TimerFires
  <1>2. CASE phase' = [phase EXCEPT !.timer = "rearm"]
    <2>1. /\ IsPhase(phase') /\ phase'.at = phase.at /\ phase'.approved = phase.approved
          /\ phase'.verified = phase.verified /\ phase'.byHand = phase.byHand
          /\ phase'.pc = phase.pc /\ phase'.gate = phase.gate
          /\ phase'.verdict = phase.verdict
      BY <1>2 DEF Good, IsPhase, Fields
    <2> QED
      BY <2>1, UnmovedGood
  <1>3. CASE \E a \in {"continue", "stop"} : phase' = Answered(Counted(phase), a)
    <2>1. Good(Counted(phase)) /\ Counted(phase).pc = phase.pc
      <3> DEFINE given == [phase.given EXCEPT ![phase.at] = IF phase.given[phase.at] = 2 THEN 2
                                                            ELSE phase.given[phase.at] + 1]
                 r == [phase EXCEPT !.given = given]
      <3>1. Counted(phase) = phase \/ Counted(phase) = r
        BY DEF Counted
      <3> HIDE DEF given
      <3>2. /\ IsPhase(r) /\ r.at = phase.at /\ r.approved = phase.approved /\ r.verdict = phase.verdict
            /\ r.verified = phase.verified /\ r.byHand = phase.byHand /\ r.pc = phase.pc /\ r.gate = phase.gate
        BY DEF Good, IsPhase, Fields
      <3> HIDE DEF r
      <3> QED
        BY <3>1, <3>2, UnmovedGood
    <2> QED
      BY <1>1, <1>3, <2>1, AnsweredGood DEF Parked
  <1> QED
    BY <1>2, <1>3 DEF TimerFires, Becomes

LEMMA AnswerGood ==
    ASSUME Good(phase), Answer PROVE Good(phase')
  <1>1. phase.pc \in Parked /\ \E a \in {"resume", "continue", "accept", "stop"} : phase' = Answered(phase, a)
    BY DEF Answer, Becomes
  <1> QED
    BY <1>1, AnsweredGood

\* A verb that only leaves a mark leaves the phase where it is.
LEMMA MarkedGood ==
    ASSUME NEW q, Good(q)
    PROVE  /\ \A o : Good([q EXCEPT !.pause = FALSE, !.hold = FALSE, !.owed = o])
           /\ \A o : Good([q EXCEPT !.cut = TRUE, !.owed = o])
           /\ \A c : Good([q EXCEPT !.cut = c])
           /\ \A x, t : Good([q EXCEPT !.held = x, !.timer = t])
           /\ Good([q EXCEPT !.held = TRUE])
           /\ Good([q EXCEPT !.reassign = TRUE])
           /\ Good([q EXCEPT !.hold = TRUE])
           /\ Good([q EXCEPT !.pause = TRUE])
  <1> DEFINE Same(s) == /\ IsPhase(s) /\ s.at = q.at /\ s.approved = q.approved /\ s.verdict = q.verdict
                        /\ s.verified = q.verified /\ s.byHand = q.byHand /\ s.pc = q.pc /\ s.gate = q.gate
  <1>1. ASSUME NEW s, Same(s) PROVE Good(s)
    BY <1>1, UnmovedGood
  <1>2. ASSUME NEW o, NEW c, NEW x, NEW t
        PROVE  /\ Same([q EXCEPT !.pause = FALSE, !.hold = FALSE, !.owed = o])
               /\ Same([q EXCEPT !.cut = TRUE, !.owed = o])
               /\ Same([q EXCEPT !.cut = c])
               /\ Same([q EXCEPT !.held = x, !.timer = t])
    BY DEF Good, IsPhase, Fields
  <1>3. /\ Same([q EXCEPT !.held = TRUE])
        /\ Same([q EXCEPT !.reassign = TRUE])
        /\ Same([q EXCEPT !.hold = TRUE])
        /\ Same([q EXCEPT !.pause = TRUE])
    BY DEF Good, IsPhase, Fields
  <1> HIDE DEF Same
  <1> QED
    BY <1>1, <1>2, <1>3

LEMMA CuttingGood ==
    ASSUME NEW q, Good(q) PROVE Good(Cutting(q))
  <1>1. Cutting(q) = q \/ Cutting(q) = [q EXCEPT !.cut = TRUE, !.owed = q.at]
    BY DEF Cutting
  <1>2. Good([q EXCEPT !.cut = TRUE, !.owed = q.at])
    BY MarkedGood
  <1> QED
    BY <1>1, <1>2

LEMMA VerbsGood ==
    ASSUME Good(phase), Pause \/ Interrupt \/ Resume \/ Reassign PROVE Good(phase')
  <1>1. CASE Pause
    <2>1. phase' = [phase EXCEPT !.held = TRUE] \/ phase' = [phase EXCEPT !.pause = TRUE]
      BY <1>1 DEF Pause, Becomes
    <2>2. Good([phase EXCEPT !.held = TRUE])
      BY MarkedGood
    <2>3. Good([phase EXCEPT !.pause = TRUE])
      BY MarkedGood
    <2> QED
      BY <2>1, <2>2, <2>3
  <1>2. CASE Interrupt
    <2>1. phase' = Cutting([phase EXCEPT !.hold = TRUE])
      BY <1>2 DEF Interrupt, Becomes
    <2>2. Good([phase EXCEPT !.hold = TRUE])
      BY MarkedGood
    <2> QED
      BY <2>1, <2>2, CuttingGood
  <1>3. CASE Resume
    <2> DEFINE timer == IF phase.timer = "rearm" THEN "armed" ELSE phase.timer
    <2>1. \/ phase' = [phase EXCEPT !.pause = FALSE, !.hold = FALSE, !.owed = "none"]
          \/ phase.pc = "hold" /\ phase' = Answered(phase, "resume")
          \/ phase' = [phase EXCEPT !.held = FALSE, !.timer = timer]
      BY <1>3 DEF Resume, Becomes
    <2> HIDE DEF timer
    <2>2. Good([phase EXCEPT !.pause = FALSE, !.hold = FALSE, !.owed = "none"])
      BY MarkedGood
    <2>3. Good([phase EXCEPT !.held = FALSE, !.timer = timer])
      BY MarkedGood
    <2> QED
      BY <2>1, <2>2, <2>3, AnsweredGood DEF Parked
  <1>4. CASE Reassign
    <2>1. CASE phase.pc = "hold" /\ phase' = Answered(phase, "resume")
      BY <2>1, AnsweredGood DEF Parked
    <2>2. CASE \E q \in {phase, Cutting(phase)} : phase' = [q EXCEPT !.reassign = TRUE]
      <3>1. PICK q \in {phase, Cutting(phase)} : phase' = [q EXCEPT !.reassign = TRUE]
        BY <2>2
      <3>2. Good(q)
        BY CuttingGood
      <3> QED
        BY <3>1, <3>2, MarkedGood
    <2> QED
      BY <1>4, <2>1, <2>2 DEF Reassign, Becomes
  <1> QED
    BY <1>1, <1>2, <1>3, <1>4

LEMMA StepGood ==
    ASSUME Good(phase), Step PROVE Good(phase')
  <1>1. PICK s \in StepTo :
            LET q == [phase EXCEPT !.step = s] IN
            \/ phase.pc \in {"question", "hold"} /\ phase' = Answered(q, "step")
            \/ phase' = [q EXCEPT !.cut = q.cut \/ phase.pc = "turn"]
    BY DEF Step, Becomes
  <1> DEFINE q == [phase EXCEPT !.step = s]
             cut == q.cut \/ phase.pc = "turn"
  <1>2. Good(q) /\ q.pc = phase.pc
    <2>1. /\ IsPhase(q) /\ q.at = phase.at /\ q.approved = phase.approved /\ q.verdict = phase.verdict
          /\ q.verified = phase.verified /\ q.byHand = phase.byHand /\ q.pc = phase.pc /\ q.gate = phase.gate
      BY DEF Good, IsPhase, Fields
    <2> HIDE DEF q
    <2> QED
      BY <2>1, UnmovedGood
  <1>3. \/ phase.pc \in {"question", "hold"} /\ phase' = Answered(q, "step")
        \/ phase' = [q EXCEPT !.cut = cut]
    BY <1>1
  <1> HIDE DEF q, cut
  <1>4. Good([q EXCEPT !.cut = cut])
    BY <1>2, MarkedGood
  <1> QED
    BY <1>2, <1>3, <1>4, AnsweredGood DEF Parked

----------------------------------------------------------------------------

\* Good is an invariant, and says what MergedAsApproved says: what is merged
\* passed its gates in full after the last turn that could edit it, and was
\* approved after the last turn that wrote it, whatever the chores, budgets,
\* attempts, failures and verbs (standard.ts:49); or the operator stepped to this
\* very merge by hand: interpreter.ts enters the state a step names without
\* asking what the phase has behind it.
THEOREM OnlyApprovedMerges ==
    Spec => []MergedAsApproved
  <1>1. Init => Good(phase)
    BY InitGood
  <1>2. Good(phase) /\ [Next]_vars => Good(phase)'
    <2> SUFFICES ASSUME Good(phase), [Next]_vars PROVE Good(phase')
      BY DEF Good, IsPhase, Earned, Placed, Leaving
    <2>1. CASE Spawn
      BY <2>1, SpawnGood
    <2>2. CASE TurnEnds
      BY <2>2, TurnEndsGood
    <2>3. CASE GateEnds
      BY <2>3, GateEndsGood
    <2>4. CASE MergeEnds \/ Raised \/ AgentAsks
      BY <2>4, WaitsGood
    <2>5. CASE TimerFires
      BY <2>5, TimerGood
    <2>6. CASE NextAttempt
      BY <2>6, RestartedGood DEF NextAttempt, Becomes, Good
    <2>7. CASE Throws
      BY <2>7, ThrowsGood
    <2>8. CASE Refused
      BY <2>8, RefusedGood
    <2>9. CASE Answer
      BY <2>9, AnswerGood
    <2>10. CASE Pause \/ Interrupt \/ Resume \/ Reassign
      BY <2>10, VerbsGood
    <2>11. CASE Step
      BY <2>11, StepGood
    <2>12. CASE UNCHANGED vars
      BY <2>12 DEF vars
    <2> QED
      BY <2>1, <2>2, <2>3, <2>4, <2>5, <2>6, <2>7, <2>8, <2>9, <2>10, <2>11, <2>12
         DEF Next, Works, Rest
  <1>3. Good(phase) => MergedAsApproved
    BY DEF Good, Earned, Placed, MergedAsApproved
  <1> QED
    BY <1>1, <1>2, <1>3, PTL DEF Spec

----------------------------------------------------------------------------
(* Every phase has a way on, and what was cut runs again; whatever StepTo is *)

\* Where a phase is, and how much it has left, whatever it is in the middle of.
Places(q) ==
    /\ q.pc = "merge" => q.at = "integrate"
    /\ q.pc = "gate" => q.at \in {"gate", "verify"}
    /\ q.pc \in {"asking", "question"} => q.at \in Questions
    /\ q.pc \in {"spawn", "turn", "asked"} => q.at \in {"implement", "fix", "review", "polish", "integrate"}
    /\ q.pc \in {"turn", "asked"} => q.left > 0
    /\ q.pc = "hold" => q.at \notin Final /\ (q.at \in {"gate", "verify"} => q.gate # "none")

\* Something at the boundary of the step brings the phase back to the state it
\* owes a turn, or moves it elsewhere on the operator's word.
Returns(q) ==
    q.owed # "none" => /\ q.at = q.owed
                       /\ q.step # "none" \/ (q.cut /\ (q.reassign \/ q.hold \/ q.pause))

Owing(q) ==
    /\ q.owed # "none" => q.at = q.owed
    /\ q.pc \in Running \cup {"asked", "question"} => Returns(q)
    /\ q.pc = "hold" /\ q.owed # "none" => q.again

\* The inductive invariant, of the phase alone.
Whole(q) == q \in PhaseState /\ Places(q) /\ Owing(q)

LEMMA ChoresAreNumbers ==
    /\ Reviews \in Nat /\ Polish \in Nat /\ AfterPr \in Nat
    /\ \A s \in {"implement", "fix", "review", "polish", "integrate"} :
         Turns[s] \in 0 .. Reviews + Polish + AfterPr + 1
  BY ChoresType DEF Turns

LEMMA EnteredWhole ==
    ASSUME NEW q \in PhaseState, NEW s \in State, q.owed \in {"none", s}
    PROVE  Whole(Entered(q, s))
  <1> DEFINE owed == IF q.owed = s THEN "none" ELSE q.owed
             r == [q EXCEPT !.at = s, !.owed = owed]
  <1>1. owed = "none"
    OBVIOUS
  <1> HIDE DEF owed
  <1>2. r \in PhaseState
    <2>1. owed \in State \cup {"none"}
      BY <1>1
    <2> QED
      BY <2>1, Zenon DEF PhaseState
  <1>3. r.at = s /\ r.owed = "none"
    BY <1>1 DEF PhaseState
  <1>4. Entered(q, s) =
          CASE s \in {"gate", "verify"} -> [r EXCEPT !.pc = "gate"]
            [] s \in Questions -> [r EXCEPT !.pc = "asking"]
            [] s = "integrate" -> [r EXCEPT !.pc = "merge"]
            [] s \in Final -> [r EXCEPT !.pc = s]
            [] s = "review" -> [r EXCEPT !.pc = "spawn", !.left = Turns[s], !.verdict = "pass",
                                         !.approved = FALSE]
            [] OTHER -> [r EXCEPT !.pc = "spawn", !.left = Turns[s]]
    BY DEF Entered, owed
  <1> HIDE DEF r
  <1>5. CASE s \in {"gate", "verify", "exhausted", "unapproved", "integrate", "done", "failed"}
    <2>1. PICK pc \in {"gate", "asking", "merge", "done", "failed"} :
              /\ Entered(q, s) = [r EXCEPT !.pc = pc]
              /\ pc = "gate" => s \in {"gate", "verify"}
              /\ pc = "asking" => s \in Questions
              /\ pc = "merge" => s = "integrate"
      BY <1>4, <1>5 DEF Questions, Final
    <2>2. [r EXCEPT !.pc = pc] \in PhaseState
      <3>1. pc \in Running \cup Parked \cup {"done", "failed"}
        BY DEF Running, Parked
      <3> QED
        BY <1>2, <3>1, Zenon DEF PhaseState
    <2>3. [r EXCEPT !.pc = pc].pc = pc /\ [r EXCEPT !.pc = pc].at = s /\ [r EXCEPT !.pc = pc].owed = "none"
      BY <1>2, <1>3 DEF PhaseState
    <2> QED
      BY <2>1, <2>2, <2>3 DEF Whole, Places, Owing, Returns
  <1>6. CASE s = "review"
    <2> DEFINE t == [r EXCEPT !.pc = "spawn", !.left = Turns[s], !.verdict = "pass", !.approved = FALSE]
    <2>1. Entered(q, s) = t
      BY <1>4, <1>6 DEF Questions, Final
    <2>2. t \in PhaseState
      <3>1. Turns[s] \in 0 .. Reviews + Polish + AfterPr + 1
        BY <1>6, ChoresAreNumbers
      <3>2. "spawn" \in Running \cup Parked \cup {"done", "failed"} /\ "pass" \in {"none", "pass", "fail"}
        BY DEF Running
      <3>3. FALSE \in BOOLEAN
        OBVIOUS
      <3> QED
        BY <1>2, <3>1, <3>2, <3>3, ZenonT(180) DEF PhaseState
    <2>3. t.pc = "spawn" /\ t.at = s /\ t.owed = "none"
      BY <1>2, <1>3 DEF PhaseState
    <2> HIDE DEF t
    <2> QED
      BY <1>6, <2>1, <2>2, <2>3 DEF Whole, Places, Owing, Returns
  <1>7. CASE s \in {"implement", "fix", "polish"}
    <2> DEFINE t == [r EXCEPT !.pc = "spawn", !.left = Turns[s]]
    <2>1. Entered(q, s) = t
      BY <1>4, <1>7 DEF Questions, Final
    <2>2. t \in PhaseState
      <3>1. Turns[s] \in 0 .. Reviews + Polish + AfterPr + 1
        BY <1>7, ChoresAreNumbers
      <3> QED
        BY <1>2, <3>1, Zenon DEF PhaseState, Running
    <2>3. t.pc = "spawn" /\ t.at = s /\ t.owed = "none"
      BY <1>2, <1>3 DEF PhaseState
    <2> HIDE DEF t
    <2> QED
      BY <1>7, <2>1, <2>2, <2>3 DEF Whole, Places, Owing, Returns
  <1> QED
    BY <1>5, <1>6, <1>7 DEF State, Questions, Final

LEMMA SentWhole ==
    ASSUME NEW q \in PhaseState, q.owed = "none" PROVE Whole(Sent(q))
  <1>1. CASE Ways(q) = {}
    <2>1. Sent(q) = [q EXCEPT !.pc = "failed"]
      BY <1>1 DEF Sent
    <2>2. [q EXCEPT !.pc = "failed"] \in PhaseState
      BY Zenon DEF PhaseState
    <2>3. [q EXCEPT !.pc = "failed"].pc = "failed" /\ [q EXCEPT !.pc = "failed"].owed = "none"
      BY DEF PhaseState
    <2> QED
      BY <2>1, <2>2, <2>3 DEF Whole, Places, Owing, Returns, Running
  <1>2. CASE Ways(q) # {}
    <2> DEFINE e == CHOOSE f \in Ways(q) : TRUE
               rounds == IF q.at = "exhausted" /\ e.to = "fix" THEN 0 ELSE q.rounds
               approved == q.approved \/ (q.at = "unapproved" /\ e.to = "polish")
               r == [q EXCEPT !.rounds = rounds, !.byHand = FALSE, !.approved = approved]
    <2>1. e \in Ways(q)
      BY <1>2
    <2>2. Sent(q) = Entered(r, e.to)
      BY <1>2 DEF Sent
    <2>3. rounds \in Nat /\ approved \in BOOLEAN
      BY DEF PhaseState
    <2> HIDE DEF e
    <2>4. e \in Transitions
      BY <2>1 DEF Ways
    <2>5. e.to \in State
      BY <2>4, WaysIn
    <2> HIDE DEF rounds, approved
    <2>6. r \in PhaseState
      BY <2>3, Zenon DEF PhaseState
    <2>7. r.owed = "none"
      BY DEF PhaseState
    <2> HIDE DEF r
    <2> QED
      BY <2>2, <2>5, <2>6, <2>7, EnteredWhole
  <1> QED
    BY <1>1, <1>2

LEMMA SteppedWhole ==
    ASSUME NEW q \in PhaseState, q.step # "none" PROVE Whole(Stepped(q))
  <1> DEFINE approved == q.approved \/ q.step \in {"polish", "verify"}
             byHand == q.step = "integrate"
             r == [q EXCEPT !.step = "none", !.owed = "none", !.byHand = byHand, !.approved = approved]
  <1>1. q.step \in State /\ approved \in BOOLEAN /\ byHand \in BOOLEAN
    BY StepsType DEF PhaseState
  <1>2. Stepped(q) = Entered(r, q.step)
    BY DEF Stepped
  <1> HIDE DEF approved, byHand
  <1>3. r \in PhaseState
    BY <1>1, Zenon DEF PhaseState
  <1>4. r.owed = "none"
    BY DEF PhaseState
  <1> HIDE DEF r
  <1> QED
    BY <1>1, <1>2, <1>3, <1>4, EnteredWhole

LEMMA BoundaryWhole ==
    ASSUME NEW q \in PhaseState, Returns(q), q.at \notin Final, q.at \in {"gate", "verify"} => q.gate # "none"
    PROVE  Whole(Boundary(q))
  <1> DEFINE r == [q EXCEPT !.pause = FALSE, !.hold = FALSE, !.cut = FALSE, !.reassign = FALSE]
             held == q.hold
             again == q.cut
             h == [r EXCEPT !.pc = "hold", !.held = held, !.again = again]
  <1>1. r \in PhaseState
    BY Zenon DEF PhaseState
  <1>2. r.owed = q.owed /\ r.step = q.step /\ r.at = q.at /\ r.gate = q.gate /\ q.at \in State
    BY DEF PhaseState
  <1>3. Boundary(q) =
            IF q.step # "none" THEN Stepped(r)
            ELSE IF q.reassign THEN IF q.cut THEN Entered(r, q.at) ELSE Sent(r)
            ELSE IF q.pause \/ q.hold THEN h
            ELSE Sent(q)
    BY DEF Boundary
  <1>4. held \in BOOLEAN /\ again \in BOOLEAN
    BY DEF PhaseState
  <1>5. again = q.cut
    OBVIOUS
  <1> HIDE DEF r, held, again
  <1>6. h \in PhaseState
    <2>1. "hold" \in Running \cup Parked \cup {"done", "failed"}
      BY DEF Parked
    <2> QED
      BY <1>1, <1>4, <2>1, ZenonT(180) DEF PhaseState
  <1>7. h.pc = "hold" /\ h.owed = r.owed /\ h.at = r.at /\ h.gate = r.gate /\ h.again = again
    BY <1>1 DEF PhaseState
  <1> HIDE DEF h
  <1>8. CASE q.step # "none"
    BY <1>1, <1>2, <1>3, <1>8, SteppedWhole
  <1>9. CASE q.step = "none" /\ q.reassign /\ q.cut
    <2>1. r.owed \in {"none", q.at}
      BY <1>2 DEF Returns
    <2> QED
      BY <1>1, <1>2, <1>3, <1>9, <2>1, EnteredWhole
  <1>10. CASE q.step = "none" /\ q.reassign /\ ~q.cut
    <2>1. r.owed = "none"
      BY <1>2, <1>10 DEF Returns
    <2> QED
      BY <1>1, <1>3, <1>10, <2>1, SentWhole
  <1>11. CASE q.step = "none" /\ ~q.reassign /\ (q.pause \/ q.hold)
    <2>1. Boundary(q) = h
      BY <1>3, <1>11
    <2>2. Places(h)
      BY <1>2, <1>7 DEF Places
    <2>3. Owing(h)
      BY <1>2, <1>5, <1>7, <1>11 DEF Owing, Returns, Running
    <2> QED
      BY <1>6, <2>1, <2>2, <2>3 DEF Whole
  <1>12. CASE q.step = "none" /\ ~q.reassign /\ ~q.pause /\ ~q.hold
    <2>1. q.owed = "none"
      BY <1>12 DEF Returns
    <2> QED
      BY <1>3, <1>12, <2>1, SentWhole
  <1> QED
    BY <1>8, <1>9, <1>10, <1>11, <1>12

\* What leaves the marks of the operator and the turn that is owed alone.
Marks(q) == <<q.at, q.owed, q.step, q.cut, q.reassign, q.hold, q.pause, q.gate>>

LEMMA UnmarkedWhole ==
    ASSUME NEW q, NEW r \in PhaseState, Whole(q), Marks(r) = Marks(q),
           q.pc \in Running \cup {"asked", "question"}, r.pc # "hold", Places(r)
    PROVE  Whole(r)
  BY DEF Whole, Owing, Returns, Marks

LEMMA RestartedWhole ==
    ASSUME NEW q \in PhaseState PROVE Whole(Restarted(q))
  <1> DEFINE given == [k \in Questions |-> 0]
             r == [q EXCEPT !.rounds = 0, !.given = given,
                      !.gate = "none", !.verdict = "none", !.answer = "none", !.red = "none",
                      !.cut = FALSE, !.step = "none", !.moved = FALSE, !.news = FALSE,
                      !.verified = FALSE, !.approved = FALSE, !.byHand = FALSE, !.owed = "none"]
  <1>1. Restarted(q) = Entered(r, "implement")
    BY DEF Restarted
  <1>2. given \in [Questions -> 0 .. 2]
    OBVIOUS
  <1> HIDE DEF given
  <1>3. r \in PhaseState
    BY <1>2, ZenonT(180) DEF PhaseState
  <1>4. r.owed = "none"
    BY DEF PhaseState
  <1> HIDE DEF r
  <1> QED
    BY <1>1, <1>3, <1>4, EnteredWhole DEF State

LEMMA AnsweredWhole ==
    ASSUME NEW q, Whole(q), q.pc \in Parked, NEW a \in {"continue", "accept", "stop", "resume", "step"}
    PROVE  Whole(Answered(q, a))
  <1> DEFINE answer == IF q.pc = "asked" THEN q.answer ELSE a
             r == [q EXCEPT !.held = FALSE, !.timer = "none", !.again = FALSE, !.answer = answer]
             t == [r EXCEPT !.pc = "turn"]
  <1>1. Answered(q, a) =
            IF q.pc = "asked" THEN t
            ELSE IF q.step # "none" THEN Stepped(r)
            ELSE IF q.pc = "question" THEN Boundary(r)
            ELSE IF q.again THEN Entered(r, q.at) ELSE Sent(r)
    BY DEF Answered
  <1>2. q \in PhaseState /\ answer \in {"none", "continue", "accept", "stop", "resume", "step"}
    BY DEF Whole, PhaseState
  <1> HIDE DEF answer
  <1>3. r \in PhaseState
    BY <1>2, ZenonT(60) DEF PhaseState
  <1>4. r.pc = q.pc /\ r.left = q.left /\ Marks(r) = Marks(q)
    BY <1>2 DEF PhaseState, Marks
  <1>5. r.at = q.at /\ r.owed = q.owed /\ r.step = q.step /\ r.gate = q.gate /\ q.at \in State
    BY <1>2 DEF PhaseState
  <1> HIDE DEF r
  <1>6. t \in PhaseState
    BY <1>3, Zenon DEF PhaseState, Running
  <1>7. t.pc = "turn" /\ t.left = r.left /\ t.at = r.at /\ Marks(t) = Marks(r)
    BY <1>3 DEF PhaseState, Marks
  <1> HIDE DEF t
  <1>8. CASE q.pc = "asked"
    <2>1. Places(t)
      BY <1>4, <1>5, <1>7, <1>8 DEF Whole, Places
    <2> QED
      BY <1>1, <1>4, <1>6, <1>7, <1>8, <2>1, UnmarkedWhole DEF Running
  <1>9. CASE q.pc # "asked" /\ q.step # "none"
    BY <1>1, <1>3, <1>5, <1>9, SteppedWhole
  <1>10. CASE q.pc = "question" /\ q.step = "none"
    <2>1. Returns(r)
      BY <1>4, <1>10 DEF Whole, Owing, Returns, Marks
    <2>2. r.at \notin {"gate", "verify"} /\ r.at \notin Final
      BY <1>5, <1>10 DEF Whole, Places, Questions, Final
    <2> QED
      BY <1>1, <1>3, <1>10, <2>1, <2>2, BoundaryWhole
  <1>11. CASE q.pc = "hold" /\ q.step = "none" /\ q.again
    <2>1. r.owed \in {"none", q.at}
      BY <1>5 DEF Whole, Owing
    <2> QED
      BY <1>1, <1>3, <1>5, <1>11, <2>1, EnteredWhole
  <1>12. CASE q.pc = "hold" /\ q.step = "none" /\ ~q.again
    <2>1. r.owed = "none"
      BY <1>5, <1>12 DEF Whole, Owing
    <2> QED
      BY <1>1, <1>3, <1>12, <2>1, SentWhole
  <1> QED
    BY <1>8, <1>9, <1>10, <1>11, <1>12 DEF Parked

LEMMA InitWhole ==
    Init => Whole(phase)
  <1> SUFFICES ASSUME Init PROVE Whole(phase)
    OBVIOUS
  <1>1. PICK l \in Limits : phase = [Blank EXCEPT !.limit = l]
    BY DEF Init
  <1> DEFINE given == [k \in Questions |-> 0]
             q == [at |-> "implement", pc |-> "spawn", left |-> 1, limit |-> l, rounds |-> 0,
                   gate |-> "none", verdict |-> "none", answer |-> "none", red |-> "none", moved |-> FALSE,
                   given |-> given, timer |-> "none", held |-> FALSE,
                   pause |-> FALSE, hold |-> FALSE, cut |-> FALSE, reassign |-> FALSE, step |-> "none",
                   again |-> FALSE, news |-> FALSE, verified |-> FALSE, approved |-> FALSE,
                   byHand |-> FALSE, owed |-> "none"]
  <1>2. phase = q
    BY <1>1 DEF Blank
  <1>3. given \in [Questions -> 0 .. 2]
    OBVIOUS
  <1> HIDE DEF given
  <1>4. q \in PhaseState
    <2>1. 1 \in 0 .. Reviews + Polish + AfterPr + 1
      BY ChoresAreNumbers
    <2> QED
      BY <1>3, <2>1 DEF PhaseState, State, Running
  <1>5. q.at = "implement" /\ q.pc = "spawn" /\ q.owed = "none"
    OBVIOUS
  <1> HIDE DEF q
  <1> QED
    BY <1>2, <1>4, <1>5 DEF Whole, Places, Owing, Returns

LEMMA SpawnWhole ==
    ASSUME Whole(phase), Spawn PROVE Whole(phase')
  <1>1. /\ phase \in PhaseState /\ phase.pc = "spawn"
        /\ phase.at \in {"implement", "fix", "review", "polish", "integrate"}
    BY DEF Spawn, Whole, Places
  <1>2. CASE phase.left = 0
    <2> DEFINE approved == phase.approved \/ (phase.at = "review" /\ phase.verdict = "pass")
               r == [phase EXCEPT !.approved = approved]
    <2>1. phase' = Boundary(r)
      BY <1>2 DEF Spawn, Becomes
    <2>2. approved \in BOOLEAN
      BY <1>1 DEF PhaseState
    <2> HIDE DEF approved
    <2>3. r \in PhaseState
      BY <1>1, <2>2, Zenon DEF PhaseState
    <2>4. Marks(r) = Marks(phase)
      BY <1>1 DEF PhaseState, Marks
    <2> HIDE DEF r
    <2>5. Returns(r)
      BY <1>1, <2>4 DEF Whole, Owing, Returns, Marks, Running
    <2>6. r.at \notin {"gate", "verify"} /\ r.at \notin Final
      BY <1>1, <2>4 DEF Marks, Final
    <2> QED
      BY <2>1, <2>3, <2>5, <2>6, BoundaryWhole
  <1>3. CASE phase.left # 0
    <2> DEFINE verified == phase.verified /\ phase.at \notin {"implement", "fix", "polish"}
               approved == phase.approved /\ phase.at \notin {"implement", "fix"}
               r == [phase EXCEPT !.pc = "turn", !.verified = verified, !.approved = approved]
    <2>1. phase' = r
      BY <1>3 DEF Spawn, Becomes
    <2>2. verified \in BOOLEAN /\ approved \in BOOLEAN
      BY <1>1 DEF PhaseState
    <2> HIDE DEF verified, approved
    <2>3. r \in PhaseState
      BY <1>1, <2>2, ZenonT(60) DEF PhaseState, Running
    <2>4. r.pc = "turn" /\ r.left = phase.left /\ r.at = phase.at /\ Marks(r) = Marks(phase)
      BY <1>1 DEF PhaseState, Marks
    <2> HIDE DEF r
    <2>5. phase.left > 0
      BY <1>1, <1>3, ChoresAreNumbers DEF PhaseState
    <2>6. Places(r)
      BY <1>1, <2>4, <2>5 DEF Places
    <2> QED
      BY <1>1, <2>1, <2>3, <2>4, <2>6, UnmarkedWhole DEF Running
  <1> QED
    BY <1>2, <1>3

LEMMA AfterTurn ==
    ASSUME NEW q \in PhaseState, NEW l \in 0 .. Reviews + Polish + AfterPr + 1
    PROVE  /\ \A v \in {"none", "pass", "fail"} : [q EXCEPT !.pc = "spawn", !.left = l, !.verdict = v] \in PhaseState
           /\ \A m \in BOOLEAN : [q EXCEPT !.pc = "spawn", !.left = l, !.moved = m] \in PhaseState
  <1>1. "spawn" \in Running \cup Parked \cup {"done", "failed"}
    BY DEF Running
  <1>2. ASSUME NEW v \in {"none", "pass", "fail"}
        PROVE  [q EXCEPT !.pc = "spawn", !.left = l, !.verdict = v] \in PhaseState
    BY <1>1, ZenonT(60) DEF PhaseState
  <1>3. ASSUME NEW m \in BOOLEAN
        PROVE  [q EXCEPT !.pc = "spawn", !.left = l, !.moved = m] \in PhaseState
    BY <1>1, ZenonT(60) DEF PhaseState
  <1> QED
    BY <1>2, <1>3

LEMMA CountedTyped ==
    ASSUME NEW q \in PhaseState, NEW n \in Nat
    PROVE  [q EXCEPT !.rounds = n] \in PhaseState
  BY Zenon DEF PhaseState

LEMMA RedTyped ==
    ASSUME NEW q \in PhaseState, NEW c \in {"none", "red", "fixed"}
    PROVE  [q EXCEPT !.red = c] \in PhaseState
  BY Zenon DEF PhaseState

LEMMA AfterWork ==
    ASSUME NEW q \in PhaseState, NEW m \in BOOLEAN, NEW n \in Nat, NEW c \in {"none", "red", "fixed"}
    PROVE  [q EXCEPT !.pc = "spawn", !.left = 0, !.moved = m, !.rounds = n, !.red = c] \in PhaseState
  <1> DEFINE r == [q EXCEPT !.pc = "spawn", !.left = 0, !.moved = m]
  <1>1. r \in PhaseState
    <2>1. 0 \in 0 .. Reviews + Polish + AfterPr + 1
      BY ChoresAreNumbers
    <2> QED
      BY <2>1, AfterTurn
  <1>2. ASSUME NEW p \in PhaseState PROVE [p EXCEPT !.rounds = n, !.red = c] \in PhaseState
    <2> DEFINE t == [p EXCEPT !.rounds = n]
    <2>1. t \in PhaseState
      BY CountedTyped
    <2>2. [p EXCEPT !.rounds = n, !.red = c] = [t EXCEPT !.red = c]
      BY DEF PhaseState
    <2> HIDE DEF t
    <2> QED
      BY <2>1, <2>2, RedTyped
  <1>3. [r EXCEPT !.rounds = n, !.red = c]
          = [q EXCEPT !.pc = "spawn", !.left = 0, !.moved = m, !.rounds = n, !.red = c]
    BY DEF PhaseState
  <1>4. [r EXCEPT !.rounds = n, !.red = c] \in PhaseState
    <2> HIDE DEF r
    <2> QED
      BY <1>1, <1>2
  <1> QED
    BY <1>3, <1>4

\* The ends of a turn that had one to run.
LEMMA TurnOverWhole ==
    ASSUME NEW q, Whole(q), q.pc \in {"spawn", "turn"}, q.left > 0,
           NEW v \in {"pass", "fail"}, NEW m \in BOOLEAN
    PROVE  Whole(Reviewed(q, v)) /\ Whole(Worked(q, m)) /\ Whole(Chored(q, m))
  <1>1. /\ q \in PhaseState /\ q.at \in {"implement", "fix", "review", "polish", "integrate"}
        /\ q.left - 1 \in 0 .. Reviews + Polish + AfterPr + 1
        /\ 0 \in 0 .. Reviews + Polish + AfterPr + 1
    <2>1. q \in PhaseState /\ q.at \in {"implement", "fix", "review", "polish", "integrate"}
      BY DEF Whole, Places
    <2>2. q.left \in 0 .. Reviews + Polish + AfterPr + 1
      BY <2>1 DEF PhaseState
    <2> QED
      BY <2>1, <2>2, ChoresAreNumbers
  <1>2. Whole(Reviewed(q, v))
    <2> DEFINE left == IF v = "pass" THEN q.left - 1 ELSE 0
               verdict == IF v = "pass" THEN q.verdict ELSE "fail"
               r == [q EXCEPT !.pc = "spawn", !.left = left, !.verdict = verdict]
    <2>1. Reviewed(q, v) = r
      BY DEF Reviewed
    <2>2. left \in 0 .. Reviews + Polish + AfterPr + 1 /\ verdict \in {"none", "pass", "fail"}
      BY <1>1 DEF PhaseState
    <2> HIDE DEF left, verdict
    <2>3. r \in PhaseState
      BY <1>1, <2>2, AfterTurn
    <2>4. r.pc = "spawn" /\ r.at = q.at /\ Marks(r) = Marks(q)
      BY <1>1 DEF PhaseState, Marks
    <2> HIDE DEF r
    <2>5. Places(r)
      BY <1>1, <2>4 DEF Places
    <2> QED
      BY <2>1, <2>3, <2>4, <2>5, UnmarkedWhole DEF Running
  <1>3. Whole(Worked(q, m))
    <2> DEFINE rounds == IF q.at = "fix" /\ q.limit # Unlimited THEN q.rounds + 1 ELSE q.rounds
               red == IF q.at = "fix" /\ q.red = "red" THEN "fixed" ELSE q.red
               moved == q.moved \/ m
               r == [q EXCEPT !.pc = "spawn", !.left = 0, !.moved = moved, !.rounds = rounds, !.red = red]
    <2>1. Worked(q, m) = r
      BY DEF Worked
    <2>2. rounds \in Nat /\ red \in {"none", "red", "fixed"} /\ moved \in BOOLEAN
      BY <1>1 DEF PhaseState
    <2> HIDE DEF rounds, red, moved
    <2>3. r \in PhaseState
      BY <1>1, <2>2, AfterWork
    <2>4. r.pc = "spawn" /\ r.at = q.at /\ Marks(r) = Marks(q)
      BY <1>1 DEF PhaseState, Marks
    <2> HIDE DEF r
    <2>5. Places(r)
      BY <1>1, <2>4 DEF Places
    <2> QED
      BY <2>1, <2>3, <2>4, <2>5, UnmarkedWhole DEF Running
  <1>4. Whole(Chored(q, m))
    <2> DEFINE moved == q.moved \/ (m /\ q.at = "polish")
               left == q.left - 1
               r == [q EXCEPT !.pc = "spawn", !.left = left, !.moved = moved]
    <2>1. Chored(q, m) = r
      BY DEF Chored
    <2>2. moved \in BOOLEAN /\ left \in 0 .. Reviews + Polish + AfterPr + 1
      BY <1>1 DEF PhaseState
    <2> HIDE DEF moved, left
    <2>3. r \in PhaseState
      BY <1>1, <2>2, AfterTurn
    <2>4. r.pc = "spawn" /\ r.at = q.at /\ Marks(r) = Marks(q)
      BY <1>1 DEF PhaseState, Marks
    <2> HIDE DEF r
    <2>5. Places(r)
      BY <1>1, <2>4 DEF Places
    <2> QED
      BY <2>1, <2>3, <2>4, <2>5, UnmarkedWhole DEF Running
  <1> QED
    BY <1>2, <1>3, <1>4

LEMMA TurnEndsWhole ==
    ASSUME Whole(phase), TurnEnds PROVE Whole(phase')
  <1>1. \/ \E v \in {"pass", "fail"} : phase' = Reviewed(phase, v)
        \/ \E m \in BOOLEAN : phase' = Worked(phase, m)
        \/ \E m \in BOOLEAN : phase' = Chored(phase, m)
    BY DEF TurnEnds, Becomes
  <1>2. phase.pc = "turn" /\ phase.left > 0
    BY DEF TurnEnds, Whole, Places
  <1> QED
    BY <1>1, <1>2, TurnOverWhole

LEMMA FailedWhole ==
    ASSUME Whole(phase), phase' = [phase EXCEPT !.pc = "failed"] PROVE Whole(phase')
  <1>1. phase \in PhaseState
    BY DEF Whole
  <1>2. phase' \in PhaseState
    <2>1. [phase EXCEPT !.pc = "failed"] \in PhaseState
      BY <1>1, Zenon DEF PhaseState
    <2> QED
      BY <2>1
  <1>3. phase'.pc = "failed" /\ phase'.owed = phase.owed /\ phase'.at = phase.at
    BY <1>1 DEF PhaseState
  <1> QED
    BY <1>2, <1>3 DEF Whole, Places, Owing, Running

LEMMA ThrowsWhole ==
    ASSUME Whole(phase), Throws \/ Refused PROVE Whole(phase')
  <1>1. phase \in PhaseState /\ (Spawning => phase.pc \in {"spawn", "turn"} /\ phase.left > 0)
    BY DEF Whole, Places, Spawning
  <1>2. CASE Spawning /\ (phase' = Reviewed(phase, "fail") \/ phase' = Chored(phase, FALSE))
    BY <1>1, <1>2, TurnOverWhole
  <1>3. CASE phase' = [phase EXCEPT !.pc = "failed"]
    BY <1>3, FailedWhole
  <1>4. CASE phase' = Restarted(phase)
    BY <1>1, <1>4, RestartedWhole
  <1>5. CASE phase.pc = "turn" /\ phase' = [phase EXCEPT !.pc = "spawn"]
    <2>1. [phase EXCEPT !.pc = "spawn"] \in PhaseState
      BY <1>1, Zenon DEF PhaseState, Running
    <2>2. phase'.pc = "spawn" /\ phase'.at = phase.at /\ Marks(phase') = Marks(phase)
      BY <1>1, <1>5 DEF PhaseState, Marks
    <2>3. Places(phase')
      BY <1>5, <2>2 DEF Whole, Places
    <2> QED
      BY <1>5, <2>1, <2>2, <2>3, UnmarkedWhole DEF Running
  <1> QED
    BY <1>2, <1>3, <1>4, <1>5 DEF Throws, Refused, Becomes

LEMMA ParkTyped ==
    ASSUME NEW q \in PhaseState, NEW p \in {"asked", "question"}
    PROVE  [q EXCEPT !.pc = p, !.timer = "armed"] \in PhaseState
  <1>1. p \in Running \cup Parked \cup {"done", "failed"} /\ "armed" \in {"none", "armed", "rearm"}
    BY DEF Parked
  <1> QED
    BY <1>1, ZenonT(60) DEF PhaseState

LEMMA WaitsWhole ==
    ASSUME Whole(phase), AgentAsks \/ Raised \/ MergeEnds PROVE Whole(phase')
  <1>1. phase \in PhaseState
    BY DEF Whole
  <1>2. CASE AgentAsks
    <2>1. phase' = [phase EXCEPT !.pc = "asked", !.timer = "armed"] /\ phase.pc = "turn"
      BY <1>2 DEF AgentAsks, Becomes
    <2>2. phase' \in PhaseState
      BY <1>1, <2>1, ParkTyped
    <2>3. phase'.pc = "asked" /\ phase'.at = phase.at /\ phase'.left = phase.left /\ Marks(phase') = Marks(phase)
      BY <1>1, <2>1 DEF PhaseState, Marks
    <2>4. Places(phase')
      BY <2>1, <2>3 DEF Whole, Places
    <2> QED
      BY <2>1, <2>2, <2>3, <2>4, UnmarkedWhole DEF Running
  <1>3. CASE Raised
    <2>1. phase' = [phase EXCEPT !.pc = "question", !.timer = "armed"] /\ phase.pc = "asking"
      BY <1>3 DEF Raised, Becomes
    <2>2. phase' \in PhaseState
      BY <1>1, <2>1, ParkTyped
    <2>3. phase'.pc = "question" /\ phase'.at = phase.at /\ Marks(phase') = Marks(phase)
      BY <1>1, <2>1 DEF PhaseState, Marks
    <2>4. Places(phase')
      BY <2>1, <2>3 DEF Whole, Places
    <2> QED
      BY <2>1, <2>2, <2>3, <2>4, UnmarkedWhole DEF Running
  <1>4. CASE MergeEnds
    <2>1. PICK n \in {0, AfterPr} : phase' = [phase EXCEPT !.pc = "spawn", !.left = n]
      BY <1>4 DEF MergeEnds, Becomes
    <2>2. phase.pc = "merge" /\ phase.at = "integrate"
      BY <1>4 DEF MergeEnds, Whole, Places
    <2>3. n \in 0 .. Reviews + Polish + AfterPr + 1
      BY ChoresAreNumbers
    <2>4. [phase EXCEPT !.pc = "spawn", !.left = n] \in PhaseState
      <3>1. "spawn" \in Running \cup Parked \cup {"done", "failed"}
        BY DEF Running
      <3> QED
        BY <1>1, <2>3, <3>1, ZenonT(60) DEF PhaseState
    <2>5. phase'.pc = "spawn" /\ phase'.at = phase.at /\ Marks(phase') = Marks(phase)
      BY <1>1, <2>1 DEF PhaseState, Marks
    <2>6. Places(phase')
      BY <2>2, <2>5 DEF Places
    <2> QED
      BY <2>1, <2>2, <2>4, <2>5, <2>6, UnmarkedWhole DEF Running
  <1> QED
    BY <1>2, <1>3, <1>4

LEMMA UnmovedTyped ==
    ASSUME NEW q \in PhaseState PROVE [q EXCEPT !.moved = FALSE] \in PhaseState
  BY Zenon DEF PhaseState

LEMMA GateTyped ==
    ASSUME NEW q \in PhaseState, NEW g \in {"none", "green", "red", "stalled"}, NEW c \in {"none", "red", "fixed"},
           NEW n \in BOOLEAN, NEW v \in BOOLEAN
    PROVE  [q EXCEPT !.gate = g, !.red = c, !.moved = FALSE, !.news = n, !.verified = v] \in PhaseState
  <1> DEFINE r == [q EXCEPT !.gate = g]
             s == [r EXCEPT !.red = c]
             t == [s EXCEPT !.moved = FALSE]
             u == [t EXCEPT !.news = n]
             w == [u EXCEPT !.verified = v]
  <1>1. [q EXCEPT !.gate = g, !.red = c, !.moved = FALSE, !.news = n, !.verified = v] = w
    BY DEF PhaseState
  <1>2. r \in PhaseState
    <2> HIDE DEF s, t, u, w
    <2> QED
      BY Zenon DEF PhaseState
  <1> HIDE DEF r
  <1>3. s \in PhaseState
    BY <1>2, RedTyped
  <1> HIDE DEF s
  <1>4. t \in PhaseState
    BY <1>3, UnmovedTyped
  <1> HIDE DEF t
  <1>5. u \in PhaseState
    BY <1>4, Zenon DEF PhaseState
  <1> HIDE DEF u
  <1>6. w \in PhaseState
    BY <1>5, Zenon DEF PhaseState
  <1> QED
    BY <1>1, <1>6

LEMMA GateEndsWhole ==
    ASSUME Whole(phase), GateEnds PROVE Whole(phase')
  <1>1. phase \in PhaseState /\ phase.pc = "gate" /\ phase.at \in {"gate", "verify"}
    BY DEF GateEnds, Whole, Places
  <1>2. PICK r \in {"green", "same", "other"} :
          phase' = Boundary(
            [phase EXCEPT
                !.gate = CASE r = "green" -> "green"
                           [] r = "same" /\ phase.red = "fixed" -> "stalled"
                           [] OTHER -> "red",
                !.red = IF r = "green" THEN "none" ELSE "red",
                !.moved = FALSE,
                !.news = r = "other" /\ phase.red # "none",
                !.verified = r = "green" /\ phase.at = "verify"])
    BY DEF GateEnds, Becomes
  <1> DEFINE gate == CASE r = "green" -> "green"
                       [] r = "same" /\ phase.red = "fixed" -> "stalled"
                       [] OTHER -> "red"
             red == IF r = "green" THEN "none" ELSE "red"
             news == r = "other" /\ phase.red # "none"
             verified == r = "green" /\ phase.at = "verify"
             q == [phase EXCEPT !.gate = gate, !.red = red, !.moved = FALSE, !.news = news,
                                !.verified = verified]
  <1>3. phase' = Boundary(q)
    BY <1>2
  <1>4. gate \in {"green", "red", "stalled"} /\ red \in {"none", "red"} /\ news \in BOOLEAN /\ verified \in BOOLEAN
    OBVIOUS
  <1> HIDE DEF gate, red, news, verified
  <1>5. q \in PhaseState
    BY <1>1, <1>4, GateTyped
  <1>6. /\ q.at = phase.at /\ q.gate = gate /\ q.owed = phase.owed /\ q.step = phase.step /\ q.cut = phase.cut
        /\ q.reassign = phase.reassign /\ q.hold = phase.hold /\ q.pause = phase.pause
    BY <1>1 DEF PhaseState
  <1> HIDE DEF q
  <1>7. Returns(q)
    BY <1>1, <1>6 DEF Whole, Owing, Returns, Running
  <1> QED
    BY <1>1, <1>3, <1>4, <1>5, <1>6, <1>7, BoundaryWhole DEF Final

\* A verb leaves a mark, and takes none away that a cut turn needs.
LEMMA MoreMarksWhole ==
    ASSUME NEW q, NEW r \in PhaseState, Whole(q), r.pc = q.pc, r.at = q.at, r.left = q.left, r.gate = q.gate,
           r.owed = q.owed, r.again = q.again, q.step # "none" => r.step # "none", q.cut => r.cut,
           q.reassign => r.reassign, q.hold => r.hold, q.pause => r.pause
    PROVE  Whole(r)
  BY DEF Whole, Places, Owing, Returns

\* What a phase owes nothing for may be forgotten.
LEMMA FreedWhole ==
    ASSUME NEW q, NEW r \in PhaseState, Whole(q), r.pc = q.pc, r.at = q.at, r.left = q.left, r.gate = q.gate,
           r.owed = "none"
    PROVE  Whole(r)
  BY DEF Whole, Places, Owing, Returns

LEMMA MarkTyped ==
    ASSUME NEW q \in PhaseState
    PROVE  /\ [q EXCEPT !.held = TRUE] \in PhaseState
           /\ [q EXCEPT !.pause = TRUE] \in PhaseState
           /\ [q EXCEPT !.hold = TRUE] \in PhaseState
           /\ [q EXCEPT !.reassign = TRUE] \in PhaseState
           /\ [q EXCEPT !.cut = TRUE, !.owed = q.at] \in PhaseState
           /\ [q EXCEPT !.pause = FALSE, !.hold = FALSE, !.owed = "none"] \in PhaseState
  <1>1. [q EXCEPT !.held = TRUE] \in PhaseState
    BY Zenon DEF PhaseState
  <1>2. [q EXCEPT !.pause = TRUE] \in PhaseState
    BY Zenon DEF PhaseState
  <1>3. [q EXCEPT !.hold = TRUE] \in PhaseState
    BY Zenon DEF PhaseState
  <1>4. [q EXCEPT !.reassign = TRUE] \in PhaseState
    BY Zenon DEF PhaseState
  <1>5. [q EXCEPT !.cut = TRUE, !.owed = q.at] \in PhaseState
    <2> DEFINE at == q.at
    <2>1. at \in State \cup {"none"}
      BY DEF PhaseState
    <2> HIDE DEF at
    <2>2. [q EXCEPT !.cut = TRUE, !.owed = at] \in PhaseState
      BY <2>1, Zenon DEF PhaseState
    <2> QED
      BY <2>2 DEF at
  <1>6. [q EXCEPT !.pause = FALSE, !.hold = FALSE, !.owed = "none"] \in PhaseState
    BY ZenonT(60) DEF PhaseState
  <1> QED
    BY <1>1, <1>2, <1>3, <1>4, <1>5, <1>6

LEMMA TimerTyped ==
    ASSUME NEW q \in PhaseState, NEW t \in {"none", "armed", "rearm"}
    PROVE  /\ [q EXCEPT !.timer = t] \in PhaseState
           /\ [q EXCEPT !.held = FALSE, !.timer = t] \in PhaseState
  <1>1. [q EXCEPT !.timer = t] \in PhaseState
    BY Zenon DEF PhaseState
  <1>2. [q EXCEPT !.held = FALSE, !.timer = t] \in PhaseState
    BY Zenon DEF PhaseState
  <1> QED
    BY <1>1, <1>2

LEMMA StepTyped ==
    ASSUME NEW q \in PhaseState, NEW s \in StepTo, NEW c \in BOOLEAN
    PROVE  /\ [q EXCEPT !.step = s] \in PhaseState
           /\ [q EXCEPT !.cut = c] \in PhaseState
           /\ s # "none"
  <1>1. [q EXCEPT !.step = s] \in PhaseState
    BY Zenon DEF PhaseState
  <1>2. [q EXCEPT !.cut = c] \in PhaseState
    BY Zenon DEF PhaseState
  <1>3. s # "none"
    BY StepsType DEF State
  <1> QED
    BY <1>1, <1>2, <1>3

LEMMA GivenTyped ==
    ASSUME NEW q \in PhaseState, NEW g \in [Questions -> 0 .. 2]
    PROVE  [q EXCEPT !.given = g] \in PhaseState
  BY Zenon DEF PhaseState

LEMMA TimerWhole ==
    ASSUME Whole(phase), TimerFires PROVE Whole(phase')
  <1>1. phase \in PhaseState /\ phase.pc \in {"question", "asked"}
    BY DEF TimerFires, Whole
  <1>2. CASE phase' = [phase EXCEPT !.timer = "rearm"]
    <2>1. phase' \in PhaseState
      BY <1>1, <1>2, TimerTyped
    <2>2. phase'.pc = phase.pc /\ phase'.at = phase.at /\ phase'.left = phase.left /\ Marks(phase') = Marks(phase)
      BY <1>1, <1>2 DEF PhaseState, Marks
    <2>3. Places(phase')
      BY <1>1, <2>2 DEF Whole, Places
    <2> QED
      BY <1>1, <2>1, <2>2, <2>3, UnmarkedWhole
  <1>3. CASE \E a \in {"continue", "stop"} : phase' = Answered(Counted(phase), a)
    <2>1. Whole(Counted(phase)) /\ Counted(phase).pc = phase.pc
      <3> DEFINE given == [phase.given EXCEPT ![phase.at] = IF phase.given[phase.at] = 2 THEN 2
                                                            ELSE phase.given[phase.at] + 1]
                 r == [phase EXCEPT !.given = given]
      <3>1. CASE phase.pc # "question"
        BY <1>1, <3>1 DEF Counted
      <3>2. CASE phase.pc = "question"
        <4>1. Counted(phase) = r
          BY <3>2 DEF Counted
        <4>2. phase.given \in [Questions -> 0 .. 2] /\ phase.at \in Questions
          BY <1>1, <3>2 DEF PhaseState, Whole, Places
        <4>3. given \in [Questions -> 0 .. 2]
          BY <4>2
        <4> HIDE DEF given
        <4>4. r \in PhaseState
          BY <1>1, <4>3, GivenTyped
        <4>5. r.pc = phase.pc /\ r.at = phase.at /\ r.left = phase.left /\ Marks(r) = Marks(phase)
          BY <1>1 DEF PhaseState, Marks
        <4> HIDE DEF r
        <4>6. Places(r)
          BY <1>1, <4>5 DEF Whole, Places
        <4> QED
          BY <1>1, <4>1, <4>4, <4>5, <4>6, UnmarkedWhole
      <3> QED
        BY <3>1, <3>2
    <2> QED
      BY <1>1, <1>3, <2>1, AnsweredWhole DEF Parked
  <1> QED
    BY <1>2, <1>3 DEF TimerFires, Becomes

LEMMA AnswerWhole ==
    ASSUME Whole(phase), Answer PROVE Whole(phase')
  <1>1. phase.pc \in Parked /\ \E a \in {"resume", "continue", "accept", "stop"} : phase' = Answered(phase, a)
    BY DEF Answer, Becomes
  <1> QED
    BY <1>1, AnsweredWhole

\* A verb that waits for the boundary, and maybe cuts the turn for it.
LEMMA CutWhole ==
    ASSUME NEW q, Whole(q), q.pc \in Running
    PROVE  /\ Whole([q EXCEPT !.pause = TRUE])
           /\ Whole(Cutting([q EXCEPT !.hold = TRUE]))
           /\ Whole([q EXCEPT !.reassign = TRUE])
           /\ Whole([Cutting(q) EXCEPT !.reassign = TRUE])
  <1>1. q \in PhaseState
    BY DEF Whole
  <1>2. Whole([q EXCEPT !.pause = TRUE])
    <2> DEFINE r == [q EXCEPT !.pause = TRUE]
    <2>1. r \in PhaseState
      BY <1>1, MarkTyped
    <2>2. /\ r.pc = q.pc /\ r.at = q.at /\ r.left = q.left /\ r.gate = q.gate
          /\ r.owed = q.owed /\ r.again = q.again /\ r.step = q.step /\ r.cut = q.cut
          /\ r.reassign = q.reassign /\ r.hold = q.hold /\ r.pause
      BY <1>1 DEF PhaseState
    <2> HIDE DEF r
    <2>3. Whole(r)
      BY <2>1, <2>2, MoreMarksWhole
    <2> QED
      BY <2>3 DEF r
  <1>3. Whole([q EXCEPT !.reassign = TRUE])
    <2> DEFINE r == [q EXCEPT !.reassign = TRUE]
    <2>1. r \in PhaseState
      BY <1>1, MarkTyped
    <2>2. /\ r.pc = q.pc /\ r.at = q.at /\ r.left = q.left /\ r.gate = q.gate
          /\ r.owed = q.owed /\ r.again = q.again /\ r.step = q.step /\ r.cut = q.cut
          /\ r.reassign /\ r.hold = q.hold /\ r.pause = q.pause
      BY <1>1 DEF PhaseState
    <2> HIDE DEF r
    <2>3. Whole(r)
      BY <2>1, <2>2, MoreMarksWhole
    <2> QED
      BY <2>3 DEF r
  <1>4. Whole(Cutting([q EXCEPT !.hold = TRUE]))
    <2> DEFINE r == [q EXCEPT !.hold = TRUE]
               t == [r EXCEPT !.cut = TRUE, !.owed = r.at]
    <2>1. r \in PhaseState
      BY <1>1, MarkTyped
    <2>2. /\ r.pc = q.pc /\ r.at = q.at /\ r.left = q.left /\ r.gate = q.gate
          /\ r.owed = q.owed /\ r.again = q.again /\ r.step = q.step /\ r.cut = q.cut
          /\ r.reassign = q.reassign /\ r.hold /\ r.pause = q.pause
      BY <1>1 DEF PhaseState
    <2>3. Cutting(r) = IF r.pc = "turn" THEN t ELSE r
      BY DEF Cutting
    <2> HIDE DEF r
    <2>4. Whole(r)
      BY <2>1, <2>2, MoreMarksWhole
    <2>5. ASSUME r.pc = "turn" PROVE Whole(t)
      <3>1. t \in PhaseState
        BY <2>1, MarkTyped
      <3>2. t.pc = r.pc /\ t.at = r.at /\ t.left = r.left /\ t.gate = r.gate /\ t.owed = r.at /\ t.cut /\ t.hold
        BY <2>1, <2>2 DEF PhaseState
      <3> HIDE DEF t
      <3> QED
        BY <2>4, <2>5, <3>1, <3>2 DEF Whole, Places, Owing, Returns
    <2> HIDE DEF t
    <2>6. Whole(Cutting(r))
      BY <2>3, <2>4, <2>5
    <2> QED
      BY <2>6 DEF r
  <1>5. Whole([Cutting(q) EXCEPT !.reassign = TRUE])
    <2>1. CASE q.pc = "turn"
      <3> DEFINE r == [q EXCEPT !.cut = TRUE, !.owed = q.at]
                 t == [r EXCEPT !.reassign = TRUE]
      <3>1. [Cutting(q) EXCEPT !.reassign = TRUE] = t
        BY <2>1 DEF Cutting
      <3>2. r \in PhaseState
        BY <1>1, MarkTyped
      <3>3. r.pc = q.pc /\ r.at = q.at /\ r.left = q.left /\ r.gate = q.gate /\ r.owed = q.at /\ r.cut
        BY <1>1 DEF PhaseState
      <3> HIDE DEF r
      <3>4. t \in PhaseState
        BY <3>2, MarkTyped
      <3>5. t.pc = r.pc /\ t.at = r.at /\ t.left = r.left /\ t.gate = r.gate /\ t.owed = r.owed /\ t.cut = r.cut /\ t.reassign
        BY <3>2 DEF PhaseState
      <3> HIDE DEF t
      <3> QED
        BY <2>1, <3>1, <3>3, <3>4, <3>5 DEF Whole, Places, Owing, Returns
    <2>2. CASE q.pc # "turn"
      BY <1>3, <2>2 DEF Cutting
    <2> QED
      BY <2>1, <2>2
  <1> QED
    BY <1>2, <1>3, <1>4, <1>5

LEMMA PauseWhole ==
    ASSUME Whole(phase), Pause PROVE Whole(phase')
  <1>1. phase \in PhaseState
    BY DEF Whole
  <1>2. CASE phase' = [phase EXCEPT !.held = TRUE]
    <2>1. phase' \in PhaseState
      BY <1>1, <1>2, MarkTyped
    <2>2. /\ phase'.pc = phase.pc /\ phase'.left = phase.left /\ phase'.again = phase.again
          /\ Marks(phase') = Marks(phase)
      BY <1>1, <1>2 DEF PhaseState, Marks
    <2> QED
      BY <2>1, <2>2, MoreMarksWhole DEF Marks
  <1>3. CASE AtWork /\ phase' = [phase EXCEPT !.pause = TRUE]
    BY <1>3, CutWhole DEF AtWork
  <1> QED
    BY <1>2, <1>3 DEF Pause, Becomes

LEMMA ResumeWhole ==
    ASSUME Whole(phase), Resume PROVE Whole(phase')
  <1> DEFINE timer == IF phase.timer = "rearm" THEN "armed" ELSE phase.timer
  <1>1. \/ phase' = [phase EXCEPT !.pause = FALSE, !.hold = FALSE, !.owed = "none"]
        \/ phase.pc = "hold" /\ phase' = Answered(phase, "resume")
        \/ phase' = [phase EXCEPT !.held = FALSE, !.timer = timer]
    BY DEF Resume, Becomes
  <1>2. phase \in PhaseState /\ timer \in {"none", "armed", "rearm"}
    BY DEF Whole, PhaseState
  <1> HIDE DEF timer
  <1>3. CASE phase' = [phase EXCEPT !.pause = FALSE, !.hold = FALSE, !.owed = "none"]
    <2>1. phase' \in PhaseState
      BY <1>2, <1>3, MarkTyped
    <2>2. /\ phase'.pc = phase.pc /\ phase'.at = phase.at /\ phase'.left = phase.left
          /\ phase'.gate = phase.gate /\ phase'.owed = "none"
      BY <1>2, <1>3 DEF PhaseState
    <2> QED
      BY <2>1, <2>2, FreedWhole
  <1>4. CASE phase' = [phase EXCEPT !.held = FALSE, !.timer = timer]
    <2>1. phase' \in PhaseState
      BY <1>2, <1>4, TimerTyped
    <2>2. /\ phase'.pc = phase.pc /\ phase'.left = phase.left /\ phase'.again = phase.again
          /\ Marks(phase') = Marks(phase)
      BY <1>2, <1>4 DEF PhaseState, Marks
    <2> QED
      BY <2>1, <2>2, MoreMarksWhole DEF Marks
  <1> QED
    BY <1>1, <1>3, <1>4, AnsweredWhole DEF Parked

LEMMA ReassignWhole ==
    ASSUME Whole(phase), Interrupt \/ Reassign PROVE Whole(phase')
  <1>1. CASE phase.pc = "hold" /\ phase' = Answered(phase, "resume")
    BY <1>1, AnsweredWhole DEF Parked
  <1>2. CASE AtWork /\ \E q \in {phase, Cutting(phase)} : phase' = [q EXCEPT !.reassign = TRUE]
    BY <1>2, CutWhole DEF AtWork
  <1>3. CASE AtWork /\ phase' = Cutting([phase EXCEPT !.hold = TRUE])
    BY <1>3, CutWhole DEF AtWork
  <1> QED
    BY <1>1, <1>2, <1>3 DEF Interrupt, Reassign, Becomes

LEMMA StepWhole ==
    ASSUME Whole(phase), Step PROVE Whole(phase')
  <1>1. PICK s \in StepTo :
            LET q == [phase EXCEPT !.step = s] IN
            \/ phase.pc \in {"question", "hold"} /\ phase' = Answered(q, "step")
            \/ phase' = [q EXCEPT !.cut = q.cut \/ phase.pc = "turn"]
    BY DEF Step, Becomes
  <1> DEFINE q == [phase EXCEPT !.step = s]
             cut == q.cut \/ phase.pc = "turn"
             r == [q EXCEPT !.cut = cut]
  <1>2. phase \in PhaseState
    BY DEF Whole
  <1>3. q \in PhaseState /\ s # "none"
    BY <1>2, StepTyped
  <1>4. /\ q.pc = phase.pc /\ q.at = phase.at /\ q.left = phase.left /\ q.gate = phase.gate
        /\ q.owed = phase.owed /\ q.again = phase.again /\ q.step = s /\ q.cut = phase.cut
        /\ q.reassign = phase.reassign /\ q.hold = phase.hold /\ q.pause = phase.pause
    BY <1>2 DEF PhaseState
  <1>5. \/ phase.pc \in {"question", "hold"} /\ phase' = Answered(q, "step")
        \/ phase' = r
    BY <1>1
  <1> HIDE DEF q
  <1>6. Whole(q)
    BY <1>3, <1>4, MoreMarksWhole
  <1>7. cut \in BOOLEAN /\ (q.cut => cut)
    BY <1>3 DEF PhaseState
  <1> HIDE DEF cut
  <1>8. r \in PhaseState
    BY <1>3, <1>7, StepTyped
  <1>9. /\ r.pc = q.pc /\ r.at = q.at /\ r.left = q.left /\ r.gate = q.gate
        /\ r.owed = q.owed /\ r.again = q.again /\ r.step = q.step /\ r.cut = cut
        /\ r.reassign = q.reassign /\ r.hold = q.hold /\ r.pause = q.pause
    BY <1>3 DEF PhaseState
  <1> HIDE DEF r
  <1>10. Whole(r)
    BY <1>6, <1>7, <1>8, <1>9, MoreMarksWhole
  <1> QED
    BY <1>4, <1>5, <1>6, <1>10, AnsweredWhole DEF Parked

LEMMA EachStepWhole ==
    ASSUME Whole(phase), [Next]_vars PROVE Whole(phase')
  <1>1. CASE NextAttempt
    BY <1>1, RestartedWhole DEF NextAttempt, Becomes, Whole
  <1>2. CASE UNCHANGED vars
    BY <1>2 DEF vars
  <1> QED
    BY <1>1, <1>2, SpawnWhole, TurnEndsWhole, GateEndsWhole, WaitsWhole, TimerWhole, ThrowsWhole,
       AnswerWhole, PauseWhole, ReassignWhole, ResumeWhole, StepWhole DEF Next, Works, Rest

LEMMA Guards ==
    ASSUME NEW q
    PROVE  /\ Guard(q)["always"]
           /\ Guard(q)["green"] <=> q.gate = "green"
           /\ Guard(q)["fixable"] <=> Fixable(q)
           /\ Guard(q)["spent"] <=> Spent(q)
           /\ Guard(q)["pass"] <=> q.verdict = "pass"
           /\ Guard(q)["notPass"] <=> q.verdict # "pass"
           /\ Guard(q)["continue"] <=> q.answer = "continue"
           /\ Guard(q)["notContinue"] <=> q.answer # "continue"
           /\ Guard(q)["accept"] <=> q.answer = "accept"
           /\ Guard(q)["neither"] <=> q.answer \notin {"continue", "accept"}
  BY DEF Guard

\* Where a state's transitions lead.
Doors(s) ==
    CASE s \in {"implement", "fix"} -> {Edge(s, "always", "gate")}
      [] s = "polish" -> {Edge(s, "always", "verify")}
      [] s = "integrate" -> {Edge(s, "always", "done")}
      [] s = "gate" -> {Edge(s, "green", "review"), Edge(s, "fixable", "fix"), Edge(s, "spent", "exhausted")}
      [] s = "verify" -> {Edge(s, "green", "integrate"), Edge(s, "fixable", "fix"), Edge(s, "spent", "exhausted")}
      [] s = "exhausted" -> {Edge(s, "continue", "fix"), Edge(s, "notContinue", "failed")}
      [] s = "review" -> {Edge(s, "pass", "polish"), Edge(s, "notPass", "unapproved")}
      [] OTHER -> {Edge(s, "continue", "review"), Edge(s, "accept", "polish"), Edge(s, "neither", "failed")}

LEMMA DoorsAre ==
    ASSUME NEW s \in State \ Final
    PROVE  \A e : e \in Doors(s) <=> e \in Transitions /\ e.from = s
  <1>1. ASSUME NEW e, e \in Doors(s) PROVE e \in Transitions /\ e.from = s
    BY <1>1 DEF Doors, Transitions, Edge, State, Final
  <1>2. ASSUME NEW e, e \in Transitions, e.from = s PROVE e \in Doors(s)
    BY <1>2 DEF Doors, Transitions, Edge, State, Final
  <1> QED
    BY <1>1, <1>2

LEMMA EdgeIs ==
    ASSUME NEW from, NEW on, NEW to
    PROVE  Edge(from, on, to).from = from /\ Edge(from, on, to).on = on
  BY DEF Edge

\* A red gate can be fixed or has spent its budget, and never both.
LEMMA FixableOrSpent ==
    ASSUME NEW q \in PhaseState, q.gate \in {"red", "stalled"}
    PROVE  Fixable(q) <=> ~Spent(q)
  <1>1. q.rounds \in Nat /\ (q.limit = Unlimited \/ q.limit \in Nat)
    BY LimitsType DEF PhaseState
  <1> QED
    BY <1>1 DEF Fixable, Spent

LEMMA OneWay ==
    ASSUME NEW q \in PhaseState, q.at \notin Final, q.at \in {"gate", "verify"} => q.gate # "none"
    PROVE  \E e \in Ways(q) : Ways(q) = {e}
  <1>1. q.at \in State /\ q.gate \in {"none", "green", "red", "stalled"}
    BY DEF PhaseState
  <1>2. Ways(q) = {e \in Doors(q.at) : Guard(q)[e.on]}
    BY <1>1, DoorsAre DEF Ways
  <1>3. ASSUME NEW a, NEW b, NEW c, a # b, a # c, b # c, Ways(q) \subseteq {a, b, c},
               \/ a \in Ways(q) /\ b \notin Ways(q) /\ c \notin Ways(q)
               \/ a \notin Ways(q) /\ b \in Ways(q) /\ c \notin Ways(q)
               \/ a \notin Ways(q) /\ b \notin Ways(q) /\ c \in Ways(q)
        PROVE  \E e \in Ways(q) : Ways(q) = {e}
    BY <1>3
  <1>4. CASE q.at \in {"implement", "fix", "polish", "integrate"}
    <2>1. PICK to \in State : Doors(q.at) = {Edge(q.at, "always", to)}
      BY <1>4 DEF Doors, State
    <2> QED
      BY <1>2, <2>1, Guards, EdgeIs
  <1>5. CASE q.at \in {"review", "exhausted"}
    <2>1. PICK on, off, to, fro :
              /\ Doors(q.at) = {Edge(q.at, on, to), Edge(q.at, off, fro)} /\ on # off
              /\ Guard(q)[on] <=> ~Guard(q)[off]
      <3>1. CASE q.at = "review"
        <4>1. Doors(q.at) = {Edge(q.at, "pass", "polish"), Edge(q.at, "notPass", "unapproved")}
          BY <3>1 DEF Doors
        <4> QED
          BY <4>1, Guards
      <3>2. CASE q.at = "exhausted"
        <4>1. Doors(q.at) = {Edge(q.at, "continue", "fix"), Edge(q.at, "notContinue", "failed")}
          BY <3>2 DEF Doors
        <4> QED
          BY <4>1, Guards
      <3> QED
        BY <1>5, <3>1, <3>2
    <2> DEFINE a == Edge(q.at, on, to)
               b == Edge(q.at, off, fro)
    <2>2. a.on = on /\ b.on = off
      BY EdgeIs
    <2> HIDE DEF a, b
    <2>3. Doors(q.at) = {a, b}
      BY <2>1 DEF a, b
    <2> QED
      BY <1>2, <2>1, <2>2, <2>3
  <1>6. CASE q.at \in {"gate", "verify", "unapproved"}
    <2>1. PICK on, off, other, x, y, z :
              /\ Doors(q.at) = {Edge(q.at, on, x), Edge(q.at, off, y), Edge(q.at, other, z)}
              /\ on # off /\ on # other /\ off # other
              /\ \/ Guard(q)[on] /\ ~Guard(q)[off] /\ ~Guard(q)[other]
                 \/ ~Guard(q)[on] /\ Guard(q)[off] /\ ~Guard(q)[other]
                 \/ ~Guard(q)[on] /\ ~Guard(q)[off] /\ Guard(q)[other]
      <3>1. CASE q.at = "unapproved"
        <4>1. Doors(q.at) = {Edge(q.at, "continue", "review"), Edge(q.at, "accept", "polish"),
                             Edge(q.at, "neither", "failed")}
          BY <3>1 DEF Doors
        <4> QED
          BY <4>1, Guards
      <3>2. CASE q.at \in {"gate", "verify"}
        <4>1. PICK x : Doors(q.at) = {Edge(q.at, "green", x), Edge(q.at, "fixable", "fix"),
                                      Edge(q.at, "spent", "exhausted")}
          BY <3>2 DEF Doors
        <4>2. CASE q.gate = "green"
          <5>1. ~Fixable(q) /\ ~Spent(q)
            BY <4>2 DEF Fixable, Spent
          <5> QED
            BY <4>1, <4>2, <5>1, Guards
        <4>3. CASE q.gate \in {"red", "stalled"}
          <5>1. Fixable(q) <=> ~Spent(q)
            BY <4>3, FixableOrSpent
          <5> QED
            BY <4>1, <4>3, <5>1, Guards
        <4> QED
          BY <1>1, <3>2, <4>2, <4>3
      <3> QED
        BY <1>6, <3>1, <3>2
    <2> DEFINE a == Edge(q.at, on, x)
               b == Edge(q.at, off, y)
               c == Edge(q.at, other, z)
    <2>2. a.on = on /\ b.on = off /\ c.on = other
      BY EdgeIs
    <2> HIDE DEF a, b, c
    <2>3. Doors(q.at) = {a, b, c}
      BY <2>1 DEF a, b, c
    <2>4. Ways(q) \subseteq {a, b, c} /\ a # b /\ a # c /\ b # c
      BY <1>2, <2>1, <2>2, <2>3
    <2>5. \/ a \in Ways(q) /\ b \notin Ways(q) /\ c \notin Ways(q)
          \/ a \notin Ways(q) /\ b \in Ways(q) /\ c \notin Ways(q)
          \/ a \notin Ways(q) /\ b \notin Ways(q) /\ c \in Ways(q)
      BY <1>2, <2>1, <2>2, <2>3
    <2> QED
      BY <1>3, <2>4, <2>5
  <1> QED
    BY <1>1, <1>4, <1>5, <1>6 DEF State, Final

Counters ==
    /\ attempt \in 1 .. MaxAttempts
    /\ ops \in 0 .. MaxOps /\ falls \in 0 .. MaxFalls /\ asks \in 0 .. MaxAsks

LEMMA CountersTyped ==
    ASSUME Counters, [Next]_vars PROVE Counters'
  <1>1. \/ UNCHANGED <<attempt, ops, falls, asks>>
        \/ attempt < MaxAttempts /\ attempt' = attempt + 1 /\ UNCHANGED <<ops, falls, asks>>
        \/ ops < MaxOps /\ ops' = ops + 1 /\ UNCHANGED <<attempt, falls, asks>>
        \/ falls < MaxFalls /\ falls' = falls + 1 /\ UNCHANGED <<attempt, ops, asks>>
        \/ asks < MaxAsks /\ asks' = asks + 1 /\ UNCHANGED <<attempt, ops, falls>>
    BY DEF Next, Works, Spawn, TurnEnds, GateEnds, MergeEnds, Raised, TimerFires, NextAttempt, AgentAsks,
           Throws, Refused, Answer, Pause, Interrupt, Resume, Reassign, Step, Act, Rest, vars
  <1> QED
    BY <1>1, BoundsType DEF Counters

\* Everything is of its type, and wherever the pipeline stops, exactly one of its
\* transitions matches: the three doors of a gate (standard.ts:117-120) leave no
\* red tree without a way on, whatever the budget a plan gives and however the
\* rounds of fixing, the answers and the operator's steps interleave.
THEOREM NoPhaseIsStuck ==
    Spec => []OneWayOut
  <1>1. Init => Whole(phase) /\ Counters
    BY InitWhole, BoundsType DEF Init, Counters
  <1>2. (Whole(phase) /\ Counters) /\ [Next]_vars => (Whole(phase) /\ Counters)'
    BY EachStepWhole, CountersTyped DEF Whole, Places, Owing, Returns, PhaseState
  <1>3. Whole(phase) /\ Counters => OneWayOut
    <2> SUFFICES ASSUME Whole(phase), Counters PROVE OneWayOut
      OBVIOUS
    <2>1. TypeOK
      BY DEF Whole, Counters, TypeOK
    <2>2. ASSUME phase.pc = "spawn" \/ phase.pc = "hold"
          PROVE  phase.at \notin Final /\ (phase.at \in {"gate", "verify"} => phase.gate # "none")
      BY <2>2 DEF Whole, Places, Final
    <2> QED
      BY <2>1, <2>2, OneWay DEF OneWayOut, Whole
  <1> QED
    BY <1>1, <1>2, <1>3, PTL DEF Spec

\* A turn an interrupt or a reassignment cut short is still owed when the phase
\* is held, handed to another, asked or refused, and its state is where the
\* phase is until it runs again (#drive, scheduler.ts:2162).
THEOREM CutTurnsAreOwed ==
    Spec => []CutTurnsRunAgain
  <1>1. Whole(phase) /\ [Next]_vars => Whole(phase)'
    BY EachStepWhole DEF Whole, Places, Owing, Returns, PhaseState
  <1>2. Whole(phase) => CutTurnsRunAgain
    BY DEF Whole, Owing, CutTurnsRunAgain
  <1> QED
    BY <1>1, <1>2, InitWhole, PTL DEF Spec
=============================================================================
