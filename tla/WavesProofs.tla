---------------------------- MODULE WavesProofs ----------------------------
(***************************************************************************)
(* What Waves guarantees for every plan, every set of waves and any number   *)
(* of kills, amendments, holds, pauses and failures: what a wave's branch    *)
(* contains has come to its merge, what it stands on has passed its gates or  *)
(* was cut there, and once all is done all is built, but what the code gave   *)
(* up.                                                                      *)
(***************************************************************************)
EXTENDS Waves, TLAPS, SequenceTheorems

Entry == [node : Nodes \cup {None}, priority : BOOLEAN, plan : SUBSET Nodes]

\* A phase waits for the worktree with a plan in which its wave was complete.
Counted == {e \in Entry : e.node # None => Members(e.plan, Wave[e.node]) \subseteq reached}

State == {"todo", "work", "queued", "turn", "asked", "through", "done", "failed"}

Types ==
    /\ plan \in SUBSET Nodes
    /\ st \in [Nodes -> State]
    /\ arrived \in SUBSET Nodes
    /\ queue \in Seq(Counted)
    /\ turn \in [pc : {"idle", "earlier", "merge", "gates", "later", "held"},
                 node : Nodes \cup {None}, w : Nat, i : Nat, plan : SUBSET Nodes]
    /\ branch \in [Waves -> [made : BOOLEAN, on : BOOLEAN, has : SUBSET Nodes]]

\* A phase at its merge or past it has reached it, in this process or in one
\* before.
Reaches ==
    /\ arrived \subseteq reached
    /\ \A n \in Nodes : st[n] \in {"queued", "turn", "asked", "through", "done"} => n \in reached

\* What a turn is about to merge was complete when it was counted.
TurnCounted ==
    /\ Members(turn.plan, turn.w) \subseteq reached
    /\ turn.pc = "merge" => Members(turn.plan, turn.i) \subseteq reached

\* The inductive invariant.
WaveInv == Types /\ Reaches /\ TurnCounted /\ OnlyArrived

----------------------------------------------------------------------------

LEMMA Without ==
    ASSUME NEW S, NEW q \in Seq(S), NEW i \in DOMAIN q
    PROVE  SubSeq(q, 1, i - 1) \o SubSeq(q, i + 1, Len(q)) \in Seq(S)
  <1>1. i \in 1 .. Len(q) /\ Len(q) \in Nat /\ \A j \in 1 .. Len(q) : q[j] \in S
    BY LenProperties, ElementOfSeq
  <1>2. SubSeq(q, 1, i - 1) \in Seq(S)
    BY <1>1, SubSeqProperties
  <1>3. SubSeq(q, i + 1, Len(q)) \in Seq(S)
    BY <1>1, SubSeqProperties
  <1> QED
    BY <1>2, <1>3, ConcatProperties

LEMMA With ==
    ASSUME NEW S, NEW q \in Seq(S), NEW e \in S, NEW i \in 1 .. Len(q) + 1
    PROVE  SubSeq(q, 1, i - 1) \o <<e>> \o SubSeq(q, i, Len(q)) \in Seq(S)
  <1>1. Len(q) \in Nat /\ \A j \in 1 .. Len(q) : q[j] \in S
    BY LenProperties, ElementOfSeq
  <1>2. SubSeq(q, 1, i - 1) \in Seq(S)
    BY <1>1, SubSeqProperties
  <1>3. SubSeq(q, i, Len(q)) \in Seq(S)
    BY <1>1, SubSeqProperties
  <1>4. <<e>> \in Seq(S)
    OBVIOUS
  <1>5. SubSeq(q, 1, i - 1) \o <<e>> \in Seq(S)
    BY <1>2, <1>4, ConcatProperties
  <1> QED
    BY <1>3, <1>5, ConcatProperties

\* A wave that is complete has no member that did not reach its merge.
LEMMA CompleteReached ==
    ASSUME Types, Reaches, NEW p \in SUBSET Nodes, NEW w, Complete(p, w, arrived)
    PROVE  Members(p, w) \subseteq reached
  BY DEF Types, Reaches, Complete, Members

LEMMA InitInv ==
    Init => WaveInv
  <1> SUFFICES ASSUME Init PROVE WaveInv
    OBVIOUS
  <1>1. Types
    BY LateAssumption DEF Init, Types, State, Idle
  <1> QED
    BY <1>1 DEF Init, WaveInv, Reaches, TurnCounted, Idle, OnlyArrived, Members

\* A step of a phase, or of what is around it, that leaves branches and turn
\* alone, and no phase past its merge that has not reached it.
LEMMA AsideInv ==
    ASSUME WaveInv, plan' \in SUBSET Nodes, st' \in [Nodes -> State],
           arrived' \in SUBSET Nodes, arrived' \subseteq reached',
           \A n \in Nodes : st'[n] \in {"queued", "turn", "asked", "through", "done"} => n \in reached',
           reached \subseteq reached', queue' \in Seq(Counted'),
           turn' = turn, branch' \in [Waves -> [made : BOOLEAN, on : BOOLEAN, has : SUBSET Nodes]],
           \A w \in Waves : branch'[w].has \subseteq branch[w].has
    PROVE  WaveInv'
  <1>1. Types'
    BY DEF WaveInv, Types
  <1>2. Reaches'
    BY DEF Reaches
  <1>3. TurnCounted'
    BY DEF WaveInv, TurnCounted, Members
  <1>4. OnlyArrived'
    BY DEF WaveInv, OnlyArrived
  <1> QED
    BY <1>1, <1>2, <1>3, <1>4 DEF WaveInv

LEMMA SameCounted ==
    ASSUME UNCHANGED reached PROVE Counted' = Counted
  BY DEF Counted, Entry, Members

LEMMA MoreCounted ==
    ASSUME reached \subseteq reached' PROVE Counted \subseteq Counted'
  BY DEF Counted, Entry, Members

----------------------------------------------------------------------------
(* The phases *)

LEMMA ArrivesInv ==
    ASSUME WaveInv, NEW n \in Nodes, Arrives(n) PROVE WaveInv'
  <1>1. /\ arrived' = arrived \cup {n} /\ reached' = reached \cup {n}
        /\ plan' = plan /\ turn' = turn /\ branch' = branch
        /\ st' \in [Nodes -> State]
        /\ \A m \in Nodes : m # n => st'[m] = st[m]
    BY DEF WaveInv, Types, State, Arrives, git
  <1>2. queue' \in Seq(Counted')
    <2>1. queue \in Seq(Counted')
      BY <1>1, MoreCounted, SeqMonotonic DEF WaveInv, Types
    <2>2. CASE n \in plan /\ Complete(plan, Wave[n], arrived')
      <3> DEFINE entry == [node |-> n, priority |-> FALSE, plan |-> plan]
      <3>1. Members(plan, Wave[n]) \subseteq reached'
        BY <1>1, <2>2 DEF WaveInv, Types, Reaches, Complete, Members
      <3>2. entry \in Counted'
        BY <3>1 DEF WaveInv, Types, Counted, Entry
      <3>3. queue' = Append(queue, entry)
        BY <2>2 DEF Arrives
      <3> HIDE DEF entry
      <3> QED
        BY <2>1, <3>2, <3>3, AppendProperties
    <2>3. CASE ~(n \in plan /\ Complete(plan, Wave[n], arrived'))
      BY <2>1, <2>3 DEF Arrives
    <2> QED
      BY <2>2, <2>3
  <1> QED
    BY <1>1, <1>2, AsideInv DEF WaveInv, Types, Reaches

\* The steps of a phase before its merge and after it.
LEMMA PhaseInv ==
    ASSUME WaveInv, NEW n \in Nodes,
           Work(n) \/ Arrive(n) \/ Answer(n) \/ Finish(n) \/ Fail(n) \/ Retry(n) \/ Pause(n) \/ Unpause(n)
    PROVE  WaveInv'
  <1>1. CASE Arrives(n)
    BY <1>1, ArrivesInv
  <1>2. CASE ~Arrives(n)
    <2>1. UNCHANGED <<plan, arrived, queue, turn, branch, reached>>
      BY <1>2 DEF Work, Arrive, Answer, Finish, Fail, Retry, Pause, Unpause, worktree, git, ghosts
    <2>2. \/ st' = st
          \/ \E s \in {"work", "failed", "todo"} : st' = [st EXCEPT ![n] = s]
          \/ st' = [st EXCEPT ![n] = "through"] /\ st[n] = "asked"
          \/ st' = [st EXCEPT ![n] = "done"] /\ st[n] = "through"
      BY <1>2 DEF Work, Arrive, Answer, Finish, Fail, Retry, Pause, Unpause
    <2>3. st' \in [Nodes -> State]
      BY <2>2 DEF WaveInv, Types, State
    <2>4. \A m \in Nodes : st'[m] \in {"queued", "turn", "asked", "through", "done"} => m \in reached
      BY <2>2 DEF WaveInv, Types, Reaches
    <2>5. queue' \in Seq(Counted')
      BY <2>1, SameCounted DEF WaveInv, Types
    <2> QED
      BY <2>1, <2>3, <2>4, <2>5, AsideInv DEF WaveInv, Types, Reaches
  <1> QED
    BY <1>1, <1>2

LEMMA CommitInv ==
    ASSUME WaveInv, NEW n \in Nodes, Commit(n) PROVE WaveInv'
  <1>1. UNCHANGED <<plan, st, arrived, queue, turn, reached>>
    BY DEF Commit, worktree, ghosts
  <1>2. /\ branch' \in [Waves -> [made : BOOLEAN, on : BOOLEAN, has : SUBSET Nodes]]
        /\ \A w \in Waves : branch'[w].has = branch[w].has \ {n}
    BY DEF WaveInv, Types, Commit
  <1>3. queue' \in Seq(Counted')
    BY <1>1, SameCounted DEF WaveInv, Types
  <1> QED
    BY <1>1, <1>2, <1>3, AsideInv DEF WaveInv, Types, Reaches

----------------------------------------------------------------------------
(* The worktree *)

\* A step of the queue or of the turn.
LEMMA TurnInv ==
    ASSUME WaveInv, UNCHANGED <<plan, arrived, reached>>,
           branch' \in [Waves -> [made : BOOLEAN, on : BOOLEAN, has : SUBSET Nodes]],
           \A w \in Waves : branch'[w].has \subseteq reached,
           st' \in [Nodes -> State],
           \A n \in Nodes : st'[n] \in {"queued", "turn", "asked", "through", "done"} => n \in reached,
           queue' \in Seq(Counted),
           turn' \in [pc : {"idle", "earlier", "merge", "gates", "later", "held"},
                      node : Nodes \cup {None}, w : Nat, i : Nat, plan : SUBSET Nodes],
           Members(turn'.plan, turn'.w) \subseteq reached,
           turn'.pc = "merge" => Members(turn'.plan, turn'.i) \subseteq reached
    PROVE  WaveInv'
  <1>1. Types'
    BY SameCounted DEF WaveInv, Types
  <1>2. (Reaches /\ OnlyArrived)'
    BY DEF WaveInv, Reaches, OnlyArrived
  <1>3. TurnCounted'
    BY DEF TurnCounted, Members
  <1> QED
    BY <1>1, <1>2, <1>3 DEF WaveInv

LEMMA HoldInv ==
    ASSUME WaveInv, NEW priority \in BOOLEAN, Hold(priority) PROVE WaveInv'
  <1> DEFINE entry == [node |-> None, priority |-> priority, plan |-> {}]
  <1>1. PICK at \in 1 .. Len(queue) + 1 :
            queue' = SubSeq(queue, 1, at - 1) \o <<entry>> \o SubSeq(queue, at, Len(queue))
    BY DEF Hold
  <1>2. entry \in Counted
    BY DEF Counted, Entry
  <1>3. queue' \in Seq(Counted)
    <2> HIDE DEF entry
    <2> QED
      BY <1>1, <1>2, With DEF WaveInv, Types
  <1>4. UNCHANGED <<plan, st, arrived, turn, branch, reached>>
    BY DEF Hold, git, ghosts
  <1> QED
    BY <1>3, <1>4, TurnInv DEF WaveInv, Types, Reaches, TurnCounted, OnlyArrived

LEMMA LetInInv ==
    ASSUME WaveInv, LetIn PROVE WaveInv'
  <1>1. PICK i \in DOMAIN queue :
            /\ queue' = SubSeq(queue, 1, i - 1) \o SubSeq(queue, i + 1, Len(queue))
            /\ IF queue[i].node = None
               THEN turn' = [Idle EXCEPT !.pc = "held"] /\ UNCHANGED <<st, queued>>
               ELSE /\ turn' = [Idle EXCEPT !.pc = "earlier", !.node = queue[i].node,
                                            !.w = Wave[queue[i].node], !.i = 1, !.plan = TurnPlan(queue[i])]
                    /\ st' = [st EXCEPT ![queue[i].node] = IF @ = "queued" THEN "turn" ELSE @]
    BY DEF LetIn
  <1>2. queue \in Seq(Counted) /\ queue[i] \in Counted
    BY LenProperties, ElementOfSeq DEF WaveInv, Types
  <1>3. queue' \in Seq(Counted)
    BY <1>1, <1>2, Without
  <1>4. UNCHANGED <<plan, arrived, reached, branch>>
    BY DEF LetIn, git, ghosts
  <1>5. CASE queue[i].node = None
    <2>1. turn' = [pc |-> "held", node |-> None, w |-> 0, i |-> 0, plan |-> {}] /\ st' = st
      BY <1>1, <1>5 DEF Idle
    <2> QED
      BY <1>3, <1>4, <2>1, TurnInv DEF WaveInv, Types, Reaches, OnlyArrived, Members
  <1>6. CASE queue[i].node # None
    <2> DEFINE n == queue[i].node
    <2>1. n \in Nodes /\ queue[i].plan \in SUBSET Nodes /\ Members(queue[i].plan, Wave[n]) \subseteq reached
      BY <1>2, <1>6 DEF Counted, Entry
    <2>2. turn' = [pc |-> "earlier", node |-> n, w |-> Wave[n], i |-> 1, plan |-> queue[i].plan]
      BY <1>1, <1>6 DEF Idle, TurnPlan
    <2>3. Wave[n] \in Nat
      BY <2>1, WaveAssumption
    <2>4. st' \in [Nodes -> State]
      BY <1>1, <1>6, <2>1 DEF WaveInv, Types, State
    <2>5. \A m \in Nodes : st'[m] \in {"queued", "turn", "asked", "through", "done"} => m \in reached
      BY <1>1, <1>6, <2>1 DEF WaveInv, Types, Reaches
    <2> QED
      BY <1>3, <1>4, <2>1, <2>2, <2>3, <2>4, <2>5, TurnInv DEF WaveInv, Types, OnlyArrived
  <1> QED
    BY <1>5, <1>6

\* Ending a turn leaves its phase where it has reached its merge, or has to come
\* to it again.
LEMMA TurnEndsTypes ==
    ASSUME WaveInv, NEW now \in {"through", "asked", "work"}, TurnEnds(now)
    PROVE  /\ turn' = [pc |-> "idle", node |-> None, w |-> 0, i |-> 0, plan |-> {}]
           /\ st' \in [Nodes -> State]
           /\ \A n \in Nodes : st'[n] \in {"queued", "turn", "asked", "through", "done"} => n \in reached
  BY DEF WaveInv, Types, State, Reaches, TurnEnds, Idle

LEMMA EndInv ==
    ASSUME WaveInv, NEW now \in {"through", "asked", "work"}, TurnEnds(now),
           UNCHANGED <<plan, arrived, reached, branch, queue>>
    PROVE  WaveInv'
  BY TurnEndsTypes, TurnInv DEF WaveInv, Types, OnlyArrived, Members

LEMMA ToInv ==
    ASSUME WaveInv, NEW pc \in {"earlier", "merge", "gates", "later"}, NEW i \in Nat, To(pc, i),
           UNCHANGED <<plan, st, arrived, reached, branch, queue>>,
           pc = "merge" => Members(turn.plan, i) \subseteq reached
    PROVE  WaveInv'
  <1>1. turn' = [pc |-> pc, node |-> turn.node, w |-> turn.w, i |-> i, plan |-> turn.plan]
    BY DEF WaveInv, Types, To
  <1> QED
    BY <1>1, TurnInv DEF WaveInv, Types, Reaches, TurnCounted, OnlyArrived

LEMMA EarlierInv ==
    ASSUME WaveInv, Earlier PROVE WaveInv'
  <1> DEFINE w == turn.i
  <1>1. /\ w \in Nat /\ turn.plan \in SUBSET Nodes /\ turn.pc = "earlier"
        /\ Members(turn.plan, turn.w) \subseteq reached
        /\ UNCHANGED <<plan, arrived, reached, branch, queue>>
    BY DEF WaveInv, Types, TurnCounted, Earlier, git, ghosts
  <1>2. CASE To("earlier", w + 1) /\ UNCHANGED st
    BY <1>1, <1>2, ToInv
  <1>3. CASE TurnEnds("through")
    BY <1>1, <1>3, EndInv
  <1>4. CASE Complete(turn.plan, w, arrived) /\ To("merge", w) /\ UNCHANGED st
    <2>1. Members(turn.plan, w) \subseteq reached
      BY <1>1, <1>4, CompleteReached DEF WaveInv
    <2> QED
      BY <1>1, <1>4, <2>1, ToInv
  <1>5. CASE w = turn.w /\ To("merge", w) /\ UNCHANGED st
    BY <1>1, <1>5, ToInv
  <1> QED
    BY <1>2, <1>3, <1>4, <1>5 DEF Earlier

LEMMA LaterInv ==
    ASSUME WaveInv, Later PROVE WaveInv'
  <1> DEFINE w == turn.i
  <1>1. /\ w \in Nat /\ turn.plan \in SUBSET Nodes
        /\ UNCHANGED <<plan, arrived, reached, branch, queue>>
    BY DEF WaveInv, Types, Later, git, ghosts
  <1>2. CASE TurnEnds("through")
    BY <1>1, <1>2, EndInv
  <1>3. CASE To("later", w + 1) /\ UNCHANGED st
    BY <1>1, <1>3, ToInv
  <1>4. CASE Complete(turn.plan, w, arrived) /\ To("merge", w) /\ UNCHANGED st
    <2>1. Members(turn.plan, w) \subseteq reached
      BY <1>1, <1>4, CompleteReached DEF WaveInv
    <2> QED
      BY <1>1, <1>4, <2>1, ToInv
  <1> QED
    BY <1>2, <1>3, <1>4 DEF Later, Above

\* A merge puts into its wave members of it that were counted, and nothing into
\* the others.
LEMMA MovedHas ==
    ASSUME WaveInv, turn.pc = "merge", NEW has, Moved(turn.i, HasNow(turn.i) \cup has),
           has \subseteq Members(turn.plan, turn.i)
    PROVE  /\ branch' \in [Waves -> [made : BOOLEAN, on : BOOLEAN, has : SUBSET Nodes]]
           /\ \A w \in Waves : branch'[w].has \subseteq reached
  <1> DEFINE w == turn.i
             all == HasNow(w) \cup has
  <1>1. w \in Nat /\ has \subseteq Nodes /\ has \subseteq reached
    BY DEF WaveInv, Types, TurnCounted, Members
  <1>2. w \in Waves => all \in SUBSET Nodes /\ all \subseteq reached
    BY <1>1 DEF WaveInv, Types, OnlyArrived, HasNow
  <1>3. PICK moved \in BOOLEAN :
            branch' = [v \in Waves |-> IF v = w THEN [made |-> TRUE, on |-> w > 1, has |-> all]
                                       ELSE IF v = w + 1 /\ moved THEN [branch[v] EXCEPT !.on = FALSE]
                                       ELSE branch[v]]
    BY DEF Moved
  <1> HIDE DEF all
  <1>4. ASSUME NEW v \in Waves
        PROVE  /\ branch'[v] \in [made : BOOLEAN, on : BOOLEAN, has : SUBSET Nodes]
               /\ branch'[v].has \subseteq reached
    <2>1. branch[v] \in [made : BOOLEAN, on : BOOLEAN, has : SUBSET Nodes] /\ branch[v].has \subseteq reached
      BY DEF WaveInv, Types, OnlyArrived
    <2>2. CASE v = w
      <3>1. branch'[v] = [made |-> TRUE, on |-> w > 1, has |-> all]
        BY <1>3, <2>2
      <3> QED
        BY <1>2, <2>2, <3>1
    <2>3. CASE v # w
      <3>1. branch'[v] \in {branch[v], [branch[v] EXCEPT !.on = FALSE]}
        BY <1>3, <2>3
      <3> QED
        BY <2>1, <3>1
    <2> QED
      BY <2>2, <2>3
  <1> QED
    BY <1>3, <1>4

LEMMA MergeInv ==
    ASSUME WaveInv, Merge PROVE WaveInv'
  <1>1. /\ turn.pc = "merge" /\ Moved(turn.i, HasNow(turn.i) \cup Members(turn.plan, turn.i))
        /\ To("gates", turn.i) /\ UNCHANGED <<plan, st, arrived, queue, reached>>
    BY DEF Merge, ghosts
  <1>2. turn' = [pc |-> "gates", node |-> turn.node, w |-> turn.w, i |-> turn.i, plan |-> turn.plan]
    BY <1>1 DEF WaveInv, Types, To
  <1> QED
    BY <1>1, <1>2, MovedHas, TurnInv DEF WaveInv, Types, Reaches, TurnCounted

LEMMA MergeFailsInv ==
    ASSUME WaveInv, MergeFails PROVE WaveInv'
  <1>1. PICK some \in SUBSET Missing(turn.i) : Moved(turn.i, HasNow(turn.i) \cup some)
    BY DEF MergeFails
  <1>2. turn.pc = "merge" /\ TurnEnds("asked") /\ UNCHANGED <<plan, arrived, queue, reached>>
    BY DEF MergeFails, ghosts
  <1>3. some \subseteq Members(turn.plan, turn.i)
    BY <1>1 DEF Missing
  <1>4. /\ branch' \in [Waves -> [made : BOOLEAN, on : BOOLEAN, has : SUBSET Nodes]]
        /\ \A w \in Waves : branch'[w].has \subseteq reached
    BY <1>1, <1>2, <1>3, MovedHas
  <1>5. /\ turn' = [pc |-> "idle", node |-> None, w |-> 0, i |-> 0, plan |-> {}]
        /\ st' \in [Nodes -> State]
        /\ \A n \in Nodes : st'[n] \in {"queued", "turn", "asked", "through", "done"} => n \in reached
    BY <1>2, TurnEndsTypes
  <1>6. Members(turn'.plan, turn'.w) \subseteq reached
    BY <1>5 DEF Members
  <1> QED
    BY <1>2, <1>4, <1>5, <1>6, TurnInv DEF WaveInv, Types

LEMMA MergeRefusedInv ==
    ASSUME WaveInv, MergeRefused PROVE WaveInv'
  <1>1. /\ turn.pc = "merge" /\ Moved(turn.i, HasNow(turn.i))
        /\ TurnEnds("work") /\ UNCHANGED <<plan, arrived, queue, reached>>
    BY DEF MergeRefused, ghosts
  <1>2. /\ branch' \in [Waves -> [made : BOOLEAN, on : BOOLEAN, has : SUBSET Nodes]]
        /\ \A w \in Waves : branch'[w].has \subseteq reached
    <2>1. PICK none : none = {}
      OBVIOUS
    <2>2. HasNow(turn.i) \cup none = HasNow(turn.i) /\ none \subseteq Members(turn.plan, turn.i)
      BY <2>1
    <2>3. Moved(turn.i, HasNow(turn.i) \cup none)
      BY <1>1, <2>2
    <2> QED
      BY <1>1, <2>2, <2>3, MovedHas
  <1>3. /\ turn' = [pc |-> "idle", node |-> None, w |-> 0, i |-> 0, plan |-> {}]
        /\ st' \in [Nodes -> State]
        /\ \A n \in Nodes : st'[n] \in {"queued", "turn", "asked", "through", "done"} => n \in reached
    BY <1>1, TurnEndsTypes
  <1>4. Members(turn'.plan, turn'.w) \subseteq reached
    BY <1>3 DEF Members
  <1> QED
    BY <1>1, <1>2, <1>3, <1>4, TurnInv DEF WaveInv, Types

LEMMA GatesInv ==
    ASSUME WaveInv, Green \/ NotGreen PROVE WaveInv'
  <1>1. CASE Green
    <2>1. /\ turn.pc = "gates" /\ UNCHANGED <<plan, st, arrived, reached, branch, queue>>
          /\ To(Next_(turn.i)[1], Next_(turn.i)[2])
      BY <1>1 DEF Green, ghosts
    <2>2. turn.i \in Nat
      BY DEF WaveInv, Types
    <2>3. PICK pc \in {"earlier", "later"} : To(pc, turn.i + 1)
      BY <2>1 DEF Next_
    <2> QED
      BY <2>1, <2>2, <2>3, ToInv
  <1>2. CASE NotGreen
    BY <1>2, EndInv DEF NotGreen, ghosts
  <1> QED
    BY <1>1, <1>2

LEMMA HoldEndsInv ==
    ASSUME WaveInv, HoldEnds PROVE WaveInv'
  BY TurnInv DEF WaveInv, Types, Reaches, OnlyArrived, HoldEnds, Idle, git, ghosts, Members

----------------------------------------------------------------------------
(* Around it *)

LEMMA KillInv ==
    ASSUME WaveInv, Kill PROVE WaveInv'
  <1>1. /\ plan' = plan /\ arrived' = {} /\ queue' = <<>> /\ branch' = branch /\ reached' = reached
        /\ turn' = [pc |-> "idle", node |-> None, w |-> 0, i |-> 0, plan |-> {}]
        /\ \A n \in Nodes : st'[n] = IF st[n] = "done" THEN "done" ELSE "todo"
        /\ st' \in [Nodes -> State]
    BY DEF Kill, Idle, State, ghosts
  <1>2. Types'
    BY <1>1 DEF WaveInv, Types
  <1> QED
    BY <1>1, <1>2 DEF WaveInv, Reaches, TurnCounted, OnlyArrived, Members

LEMMA AdoptInv ==
    ASSUME WaveInv, Adopt PROVE WaveInv'
  <1>1. plan' \in SUBSET Nodes
    <2>1. Late \subseteq Nodes
      BY LateAssumption
    <2>2. (\E n \in Late : plan' = plan \cup {n}) \/ (\E n \in plan : plan' = plan \ {n})
      BY DEF Adopt
    <2> QED
      BY <2>1, <2>2 DEF WaveInv, Types
  <1>2. UNCHANGED <<st, arrived, queue, turn, branch, reached>>
    BY DEF Adopt, worktree, git
  <1>3. queue' \in Seq(Counted')
    BY <1>2, SameCounted DEF WaveInv, Types
  <1> QED
    BY <1>1, <1>2, <1>3, AsideInv DEF WaveInv, Types, Reaches

LEMMA StutterInv ==
    ASSUME WaveInv, UNCHANGED vars PROVE WaveInv'
  <1>1. queue' \in Seq(Counted')
    BY SameCounted DEF vars, WaveInv, Types
  <1> QED
    BY <1>1, AsideInv DEF vars, WaveInv, Types, Reaches

----------------------------------------------------------------------------

LEMMA StepInv ==
    ASSUME WaveInv, [Next]_vars PROVE WaveInv'
  <1>1. ASSUME Turn PROVE WaveInv'
    BY <1>1, EarlierInv, LaterInv, MergeInv, MergeFailsInv, MergeRefusedInv, GatesInv, HoldEndsInv
    DEF Turn
  <1> QED
    BY <1>1, PhaseInv, CommitInv, HoldInv, LetInInv, KillInv, AdoptInv, StutterInv DEF Next

\* A wave never contains a phase that did not come to its merge, however the plan
\* is amended while a turn waits, whichever wave a turn assembles on behalf of
\* another, and wherever the process dies (#merge, #buildWaves, #integration).
THEOREM WavesAreWhatArrived ==
    Spec => []OnlyArrived
  <1>1. WaveInv /\ [Next]_vars => WaveInv'
    BY StepInv
  <1>2. WaveInv => OnlyArrived
    BY DEF WaveInv
  <1> QED
    BY <1>1, <1>2, InitInv, PTL DEF Spec

----------------------------------------------------------------------------
(* What a wave is built on *)

\* A branch that is there passed its gates as it is, is at them, failed them, or
\* was left by a turn that was cut short.
GatedOrCut ==
    \A w \in Waves : branch[w].made /\ w \notin red /\ ~cutShort
                        => w \in gated \/ (turn.pc = "gates" /\ turn.i = w)

\* A turn has the waves under it behind it: each was built when it was passed, and
\* nobody else touches the worktree.
Climbs ==
    /\ turn.pc \in {"earlier", "merge", "gates", "later"} =>
         /\ turn.i >= 1 /\ turn.w \in Waves
         /\ turn.i > 1 => turn.i - 1 \in Waves /\ branch[turn.i - 1].made /\ turn.i - 1 \notin red
    /\ turn.pc = "earlier" => turn.i <= turn.w
    /\ turn.pc \in {"merge", "gates"} => turn.i \in Waves
    /\ turn.pc = "gates" => branch[turn.i].made /\ (turn.i > 1 => branch[turn.i].on)

\* With WaveInv, the inductive invariant.
Rising == GatedOrCut /\ Climbs

LEMMA InitRises ==
    Init => Rising
  BY DEF Init, Rising, GatedOrCut, Climbs, Idle

\* Every wave up to one of the plan is one of the plan.
LEMMA WavesBelow ==
    ASSUME NEW w \in Waves, NEW v \in 1 .. w PROVE v \in Waves
  <1>1. PICK n \in Nodes : w = Wave[n]
    BY DEF Waves
  <1> QED
    BY <1>1, WaveAssumption DEF NoGap, Waves

LEMMA WavesAreNumbers ==
    ASSUME NEW w \in Waves PROVE w \in Nat /\ w >= 1
  <1>1. PICK n \in Nodes : w = Wave[n]
    BY DEF Waves
  <1> QED
    BY <1>1, WaveAssumption

\* A step that leaves the turn, the gates and what there is of a branch alone.
LEMMA QuietRises ==
    ASSUME Rising, UNCHANGED <<turn, red, gated, cutShort>>,
           \A w \in Waves : branch'[w].made = branch[w].made /\ branch'[w].on = branch[w].on
    PROVE  Rising'
  BY DEF Rising, GatedOrCut, Climbs

LEMMA StillRises ==
    ASSUME Rising, UNCHANGED <<turn, branch, red, gated, cutShort>>
    PROVE  Rising'
  BY QuietRises

LEMMA CommitRises ==
    ASSUME WaveInv, Rising, NEW n \in Nodes, Commit(n) PROVE Rising'
  <1>1. UNCHANGED <<turn, red, gated, cutShort>>
    BY DEF Commit, worktree
  <1>2. \A w \in Waves : branch'[w].made = branch[w].made /\ branch'[w].on = branch[w].on
    BY DEF WaveInv, Types, Commit
  <1> QED
    BY <1>1, <1>2, QuietRises

\* The worktree is free, or held by hand, and what the last turn merged and did not
\* gate is red or recorded as cut short.
LEMMA EndRises ==
    ASSUME turn'.pc \in {"idle", "held"}, GatedOrCut'
    PROVE  Rising'
  BY DEF Rising, Climbs

LEMMA LetInRises ==
    ASSUME WaveInv, Rising, LetIn PROVE Rising'
  <1>1. /\ turn.pc = "idle" /\ UNCHANGED <<branch, red, gated, cutShort>>
        /\ \E i \in DOMAIN queue :
             IF queue[i].node = None
             THEN turn' = [Idle EXCEPT !.pc = "held"]
             ELSE turn' = [Idle EXCEPT !.pc = "earlier", !.node = queue[i].node,
                                       !.w = Wave[queue[i].node], !.i = 1, !.plan = TurnPlan(queue[i])]
    BY DEF LetIn, git
  <1>2. PICK i \in DOMAIN queue :
             IF queue[i].node = None
             THEN turn' = [Idle EXCEPT !.pc = "held"]
             ELSE turn' = [Idle EXCEPT !.pc = "earlier", !.node = queue[i].node,
                                       !.w = Wave[queue[i].node], !.i = 1, !.plan = TurnPlan(queue[i])]
    BY <1>1
  <1>3. GatedOrCut'
    BY <1>1 DEF Rising, GatedOrCut
  <1>4. CASE queue[i].node = None
    BY <1>2, <1>3, <1>4, EndRises DEF Idle
  <1>5. CASE queue[i].node # None
    <2>1. queue[i] \in Counted
      BY LenProperties, ElementOfSeq DEF WaveInv, Types
    <2>2. queue[i].node \in Nodes
      BY <1>5, <2>1 DEF Counted, Entry
    <2>3. Wave[queue[i].node] \in Waves
      BY <2>2 DEF Waves
    <2>4. turn'.pc = "earlier" /\ turn'.i = 1 /\ turn'.w = Wave[queue[i].node]
      BY <1>2, <1>5 DEF Idle
    <2>5. Wave[queue[i].node] >= 1
      BY <2>3, WavesAreNumbers
    <2> QED
      BY <1>3, <2>3, <2>4, <2>5 DEF Rising, Climbs
  <1> QED
    BY <1>4, <1>5

\* A turn goes on, to a wave whose predecessor is built.
LEMMA ToRises ==
    ASSUME WaveInv, Rising, NEW pc \in {"earlier", "merge", "later"}, NEW i \in Nat, To(pc, i),
           turn.pc \in {"earlier", "later"}, UNCHANGED <<branch, red, gated, cutShort>>,
           i >= 1, i > 1 => i - 1 \in Waves /\ branch[i - 1].made /\ i - 1 \notin red,
           pc = "earlier" => i <= turn.w, pc = "merge" => i \in Waves
    PROVE  Rising'
  <1>1. turn' = [pc |-> pc, node |-> turn.node, w |-> turn.w, i |-> i, plan |-> turn.plan]
    BY DEF WaveInv, Types, To
  <1>2. GatedOrCut'
    BY <1>1 DEF Rising, GatedOrCut
  <1>3. Climbs'
    BY <1>1 DEF Rising, Climbs
  <1> QED
    BY <1>2, <1>3 DEF Rising

LEMMA EarlierRises ==
    ASSUME WaveInv, Rising, Earlier PROVE Rising'
  <1> DEFINE i == turn.i
  <1>1. /\ turn.pc = "earlier" /\ UNCHANGED <<branch, red, gated, cutShort>>
        /\ \/ i < turn.w /\ Built(turn.plan, i) /\ To("earlier", i + 1)
           \/ TurnEnds("through")
           \/ To("merge", i)
    BY DEF Earlier, git
  <1>2. /\ i \in Nat /\ i >= 1 /\ turn.w \in Waves /\ i <= turn.w /\ i \in Waves
        /\ i > 1 => i - 1 \in Waves /\ branch[i - 1].made /\ i - 1 \notin red
    <2>1. i \in Nat /\ i >= 1 /\ turn.w \in Waves /\ i <= turn.w
      BY <1>1 DEF WaveInv, Types, Rising, Climbs
    <2>2. i \in 1 .. turn.w
      BY <2>1, WavesAreNumbers
    <2> QED
      BY <1>1, <2>1, <2>2, WavesBelow DEF Rising, Climbs
  <1>3. CASE i < turn.w /\ Built(turn.plan, i) /\ To("earlier", i + 1)
    <2>1. turn.w \in Nat /\ i + 1 <= turn.w /\ branch[i].made /\ i \notin red
      BY <1>2, <1>3, WavesAreNumbers DEF Built
    <2> QED
      BY <1>1, <1>2, <1>3, <2>1, ToRises
  <1>4. CASE TurnEnds("through")
    <2>1. turn'.pc = "idle"
      BY <1>4 DEF TurnEnds, Idle
    <2>2. GatedOrCut'
      BY <1>1 DEF Rising, GatedOrCut
    <2> QED
      BY <2>1, <2>2, EndRises
  <1>5. CASE To("merge", i)
    BY <1>1, <1>2, <1>5, ToRises
  <1> QED
    BY <1>1, <1>3, <1>4, <1>5

LEMMA LaterRises ==
    ASSUME WaveInv, Rising, Later PROVE Rising'
  <1> DEFINE i == turn.i
  <1>1. /\ turn.pc = "later" /\ UNCHANGED <<branch, red, gated, cutShort>>
        /\ \/ TurnEnds("through")
           \/ i \in Waves /\ Built(turn.plan, i) /\ To("later", i + 1)
           \/ i \in Waves /\ To("merge", i)
    BY DEF Later, git, Above
  <1>2. /\ i \in Nat /\ i >= 1
        /\ i > 1 => i - 1 \in Waves /\ branch[i - 1].made /\ i - 1 \notin red
    BY <1>1 DEF WaveInv, Types, Rising, Climbs
  <1>3. CASE TurnEnds("through")
    <2>1. turn'.pc = "idle"
      BY <1>3 DEF TurnEnds, Idle
    <2>2. GatedOrCut'
      BY <1>1 DEF Rising, GatedOrCut
    <2> QED
      BY <2>1, <2>2, EndRises
  <1>4. CASE i \in Waves /\ Built(turn.plan, i) /\ To("later", i + 1)
    <2>1. branch[i].made /\ i \notin red
      BY <1>4 DEF Built
    <2> QED
      BY <1>1, <1>2, <1>4, <2>1, ToRises
  <1>5. CASE i \in Waves /\ To("merge", i)
    BY <1>1, <1>2, <1>5, ToRises
  <1> QED
    BY <1>1, <1>3, <1>4, <1>5

\* Moving a wave's branch makes it, on the wave below as that is now, and unseats
\* at most the wave above; what was gated stays, but for that wave if it moved.
LEMMA MovedOn ==
    ASSUME WaveInv, NEW w \in Waves, NEW has, Moved(w, has)
    PROVE  /\ branch'[w].made /\ branch'[w].on = (w > 1)
           /\ \A v \in Waves \ {w} : branch'[v].made = branch[v].made
           /\ gated \ {w} \subseteq gated'
           /\ branch' = branch => branch[w].made /\ gated' = gated
  <1> DEFINE moved == ~Kept(w) \/ has # branch[w].has
  <1>1. w \in Nat /\ w >= 1
    BY WavesAreNumbers
  <1>2. /\ branch' = [v \in Waves |-> IF v = w THEN [made |-> TRUE, on |-> w > 1, has |-> has]
                                      ELSE IF v = w + 1 /\ moved THEN [branch[v] EXCEPT !.on = FALSE]
                                      ELSE branch[v]]
        /\ gated' = IF moved THEN gated \ {w} ELSE gated
    BY DEF Moved
  <1>3. branch'[w] = [made |-> TRUE, on |-> w > 1, has |-> has]
    BY <1>2
  <1>4. ASSUME NEW v \in Waves \ {w} PROVE branch'[v].made = branch[v].made
    <2>1. branch[v] \in [made : BOOLEAN, on : BOOLEAN, has : SUBSET Nodes]
      BY DEF WaveInv, Types
    <2>2. branch'[v] \in {branch[v], [branch[v] EXCEPT !.on = FALSE]}
      BY <1>2, <1>4
    <2> QED
      BY <2>1, <2>2
  <1>5. gated \ {w} \subseteq gated'
    BY <1>2
  <1>6. ASSUME branch' = branch PROVE branch[w].made /\ gated' = gated
    <2>1. branch[w].made /\ branch[w].on = (w > 1) /\ branch[w].has = has
      BY <1>3, <1>6
    <2>2. Kept(w)
      BY <2>1 DEF Kept
    <2> QED
      BY <1>2, <2>1, <2>2
  <1> QED
    BY <1>3, <1>4, <1>5, <1>6

LEMMA MergeRises ==
    ASSUME WaveInv, Rising, Merge PROVE Rising'
  <1> DEFINE i == turn.i
  <1>1. /\ turn.pc = "merge" /\ \E has : Moved(i, has)
        /\ To("gates", i) /\ UNCHANGED <<red, cutShort>>
    BY DEF Merge
  <1>2. turn' = [pc |-> "gates", node |-> turn.node, w |-> turn.w, i |-> i, plan |-> turn.plan]
    BY <1>1 DEF WaveInv, Types, To
  <1>3. /\ i \in Waves /\ i \in Nat /\ i >= 1 /\ turn.w \in Waves
        /\ i > 1 => i - 1 \in Waves /\ branch[i - 1].made /\ i - 1 \notin red
    BY <1>1, WavesAreNumbers DEF Rising, Climbs
  <1>4. PICK has : Moved(i, has)
    BY <1>1
  <1>5. /\ branch'[i].made /\ branch'[i].on = (i > 1)
        /\ \A v \in Waves \ {i} : branch'[v].made = branch[v].made
        /\ gated \ {i} \subseteq gated'
    BY <1>3, <1>4, MovedOn
  <1>6. GatedOrCut'
    BY <1>1, <1>2, <1>5 DEF Rising, GatedOrCut
  <1>7. Climbs'
    BY <1>1, <1>2, <1>3, <1>5 DEF Climbs
  <1> QED
    BY <1>6, <1>7 DEF Rising

\* A merge that fails, or is refused an agent, is recorded as cut short when it
\* moved the branch, and leaves it as it was when it did not.
LEMMA MergeEndsRises ==
    ASSUME WaveInv, Rising, MergeFails \/ MergeRefused PROVE Rising'
  <1> DEFINE i == turn.i
  <1>1. /\ turn.pc = "merge" /\ \E has : Moved(i, has)
        /\ turn'.pc = "idle" /\ UNCHANGED red
        /\ cutShort' = (cutShort \/ branch' # branch)
    <2>1. turn.pc = "merge" /\ turn' = Idle /\ UNCHANGED red /\ cutShort' = (cutShort \/ branch' # branch)
      BY DEF MergeFails, MergeRefused, TurnEnds
    <2>2. \E has : Moved(i, has)
      BY DEF MergeFails, MergeRefused
    <2> QED
      BY <2>1, <2>2 DEF Idle
  <1>2. i \in Waves
    BY <1>1 DEF Rising, Climbs
  <1>3. branch' = branch => gated' = gated
    BY <1>1, <1>2, MovedOn
  <1>4. GatedOrCut'
    BY <1>1, <1>3 DEF Rising, GatedOrCut
  <1> QED
    BY <1>1, <1>4, EndRises

LEMMA GatesRises ==
    ASSUME WaveInv, Rising, Green \/ NotGreen PROVE Rising'
  <1> DEFINE i == turn.i
  <1>1. /\ turn.pc = "gates" /\ UNCHANGED branch
        /\ i \in Waves /\ i \in Nat /\ i >= 1 /\ turn.w \in Waves /\ turn.w \in Nat /\ branch[i].made
    BY WavesAreNumbers DEF WaveInv, Types, Rising, Climbs, Green, NotGreen
  <1>2. CASE Green
    <2>1. /\ gated' = gated \cup {i} /\ red' = red \ {i} /\ UNCHANGED cutShort
          /\ To(Next_(i)[1], Next_(i)[2])
      BY <1>2 DEF Green
    <2>2. PICK pc \in {"earlier", "later"} : To(pc, i + 1) /\ (pc = "earlier" => i < turn.w)
      BY <2>1 DEF Next_
    <2>3. turn' = [pc |-> pc, node |-> turn.node, w |-> turn.w, i |-> i + 1, plan |-> turn.plan]
      BY <2>2 DEF WaveInv, Types, To
    <2>4. GatedOrCut'
      BY <1>1, <2>1, <2>3 DEF Rising, GatedOrCut
    <2>5. Climbs'
      BY <1>1, <2>1, <2>2, <2>3 DEF Climbs
    <2> QED
      BY <2>4, <2>5 DEF Rising
  <1>3. CASE NotGreen
    <2>1. /\ turn'.pc = "idle" /\ UNCHANGED gated
          /\ \/ red' = red \cup {i} /\ UNCHANGED cutShort
             \/ cutShort' = TRUE /\ UNCHANGED red
      BY <1>3 DEF NotGreen, TurnEnds, Idle
    <2>2. GatedOrCut'
      BY <1>1, <2>1 DEF Rising, GatedOrCut
    <2> QED
      BY <2>1, <2>2, EndRises
  <1> QED
    BY <1>2, <1>3

LEMMA KillRises ==
    ASSUME Rising, Kill PROVE Rising'
  <1>1. /\ turn'.pc = "idle" /\ UNCHANGED <<branch, red, gated>>
        /\ cutShort' = (cutShort \/ turn.pc = "gates")
    BY DEF Kill, Idle
  <1>2. GatedOrCut'
    BY <1>1 DEF Rising, GatedOrCut
  <1> QED
    BY <1>1, <1>2, EndRises

LEMMA HoldEndsRises ==
    ASSUME Rising, HoldEnds PROVE Rising'
  <1>1. turn.pc = "held" /\ turn'.pc = "idle" /\ UNCHANGED <<branch, red, gated, cutShort>>
    BY DEF HoldEnds, Idle, git
  <1>2. GatedOrCut'
    BY <1>1 DEF Rising, GatedOrCut
  <1> QED
    BY <1>1, <1>2, EndRises

LEMMA StepRises ==
    ASSUME WaveInv, Rising, [Next]_vars PROVE Rising'
  <1>1. ASSUME NEW n \in Nodes,
               \/ Work(n) \/ Arrive(n) \/ Answer(n) \/ Finish(n) \/ Fail(n) \/ Retry(n) \/ Pause(n) \/ Unpause(n)
        PROVE  UNCHANGED <<turn, branch, red, gated, cutShort>>
    BY <1>1 DEF Work, Arrive, Arrives, Answer, Finish, Fail, Retry, Pause, Unpause, worktree, git
  <1>2. ASSUME Adopt \/ (\E priority \in BOOLEAN : Hold(priority)) \/ UNCHANGED vars
        PROVE  UNCHANGED <<turn, branch, red, gated, cutShort>>
    BY <1>2 DEF Adopt, Hold, worktree, git, vars
  <1>3. ASSUME Turn PROVE Rising'
    BY <1>3, EarlierRises, LaterRises, MergeRises, MergeEndsRises, GatesRises, HoldEndsRises DEF Turn
  <1> QED
    BY <1>1, <1>2, <1>3, StillRises, CommitRises, LetInRises, KillRises DEF Next

----------------------------------------------------------------------------

LEMMA AtTheGates ==
    ASSUME Rising, NEW w \in Waves \ {1}, turn.pc = "gates", turn.i = w
    PROVE  w - 1 \notin red /\ branch[w].on /\ (w - 1 \in gated \/ cutShort)
  <1>1. w \in Nat /\ w > 1
    BY WavesAreNumbers
  <1>2. w - 1 \in Waves /\ branch[w - 1].made /\ w - 1 \notin red /\ branch[w].on
    BY <1>1 DEF Rising, Climbs
  <1>3. w - 1 # turn.i
    BY <1>1
  <1> QED
    BY <1>2, <1>3 DEF Rising, GatedOrCut

\* What a wave that passes its gates stands on is not red, is the wave below as it
\* is now, and passed its own gates as it is unless a turn was cut short between
\* what it merged and its gates (#buildWaves, #waveBuilt, Integrator.mergeWave).
THEOREM WavesStandOnPassed ==
    Spec => BuiltOnPassing
  <1>1. (WaveInv /\ Rising) /\ [Next]_vars => (WaveInv /\ Rising)'
    BY StepInv, StepRises
  <1>2. (WaveInv /\ Rising) /\ [Next]_vars
           => [\A w \in Waves \ {1} : turn.pc = "gates" /\ turn.i = w /\ w \in gated' /\ turn'.pc # "gates"
                  => w - 1 \notin red /\ branch[w].on /\ (w - 1 \in gated \/ cutShort)]_vars
    BY AtTheGates
  <1>3. Init => WaveInv /\ Rising
    BY InitInv, InitRises
  <1> QED
    BY <1>1, <1>2, <1>3, PTL DEF Spec, BuiltOnPassing


----------------------------------------------------------------------------
(* The queue: one entry goes, or one comes *)

\* A phase is in the queue once.
Alone(q) == \A i, j \in DOMAIN q : q[i].node # None /\ q[i].node = q[j].node => i = j

Absent(q, n) == \A k \in DOMAIN q : q[k].node # n

Out(q, i) == SubSeq(q, 1, i - 1) \o SubSeq(q, i + 1, Len(q))
In(q, i, e) == SubSeq(q, 1, i - 1) \o <<e>> \o SubSeq(q, i, Len(q))

LEMMA Joined ==
    ASSUME NEW S, NEW s \in Seq(S), NEW t \in Seq(S)
    PROVE  /\ s \o t \in Seq(S) /\ Len(s \o t) = Len(s) + Len(t)
           /\ \A j \in 1 .. Len(s) : (s \o t)[j] = s[j]
           /\ \A j \in 1 .. Len(t) : (s \o t)[Len(s) + j] = t[j]
  <1>0. PICK m \in Nat, n \in Nat : m = Len(s) /\ n = Len(t)
    BY LenProperties
  <1>1. PICK r : r = s \o t
    OBVIOUS
  <1>2. r \in Seq(S) /\ Len(r) = m + n
    BY <1>0, <1>1, ConcatProperties
  <1>3. \A j \in 1 .. m + n : r[j] = IF j <= m THEN s[j] ELSE t[j - m]
    BY <1>0, <1>1, ConcatProperties
  <1>4. ASSUME NEW j \in 1 .. m PROVE r[j] = s[j]
    BY <1>3
  <1>5. ASSUME NEW j \in 1 .. n PROVE r[m + j] = t[j]
    <2>1. m + j \in 1 .. m + n /\ ~(m + j <= m) /\ (m + j) - m = j
      OBVIOUS
    <2> QED
      BY <1>3, <2>1
  <1> QED
    BY <1>0, <1>1, <1>2, <1>4, <1>5

LEMMA Cut ==
    ASSUME NEW S, NEW q \in Seq(S), NEW n \in Nat, Len(q) = n, NEW a \in 1 .. n + 1
    PROVE  /\ SubSeq(q, 1, a - 1) \in Seq(S) /\ Len(SubSeq(q, 1, a - 1)) = a - 1
           /\ \A j \in 1 .. a - 1 : SubSeq(q, 1, a - 1)[j] = q[j]
           /\ SubSeq(q, a, n) \in Seq(S) /\ Len(SubSeq(q, a, n)) = n + 1 - a
           /\ \A j \in 1 .. n + 1 - a : SubSeq(q, a, n)[j] = q[a + j - 1]
  <1>1. \A j \in 1 .. n : q[j] \in S
    BY ElementOfSeq
  <1>2. PICK b \in Nat : b = a - 1
    OBVIOUS
  <1>3. /\ SubSeq(q, 1, b) \in Seq(S)
        /\ Len(SubSeq(q, 1, b)) = IF 1 <= b THEN b - 1 + 1 ELSE 0
        /\ \A j \in 1 .. b - 1 + 1 : SubSeq(q, 1, b)[j] = q[1 + j - 1]
    <2>1. \A j \in 1 .. b : q[j] \in S
      BY <1>1, <1>2
    <2> QED
      BY <2>1, SubSeqProperties
  <1>4. /\ SubSeq(q, a, n) \in Seq(S)
        /\ Len(SubSeq(q, a, n)) = IF a <= n THEN n - a + 1 ELSE 0
        /\ \A j \in 1 .. n - a + 1 : SubSeq(q, a, n)[j] = q[a + j - 1]
    <2>1. \A j \in a .. n : q[j] \in S
      BY <1>1
    <2> QED
      BY <2>1, SubSeqProperties
  <1>5. Len(SubSeq(q, 1, b)) = b
    BY <1>3
  <1>6. ASSUME NEW j \in 1 .. b PROVE SubSeq(q, 1, b)[j] = q[j]
    <2>1. j \in 1 .. b - 1 + 1 /\ 1 + j - 1 = j
      BY <1>2
    <2> QED
      BY <1>3, <2>1
  <1>7. Len(SubSeq(q, a, n)) = n + 1 - a
    BY <1>4
  <1>8. ASSUME NEW j \in 1 .. n + 1 - a PROVE SubSeq(q, a, n)[j] = q[a + j - 1]
    <2>1. j \in 1 .. n - a + 1
      OBVIOUS
    <2> QED
      BY <1>4, <2>1
  <1> QED
    BY <1>2, <1>3, <1>4, <1>5, <1>6, <1>7, <1>8

LEMMA TakenAt ==
    ASSUME NEW S, NEW q \in Seq(S), NEW at \in DOMAIN q
    PROVE  \E n \in Nat : \E i \in 1 .. n :
             /\ i = at /\ DOMAIN q = 1 .. n /\ DOMAIN Out(q, at) = 1 .. n - 1
             /\ \A j \in 1 .. n - 1 : Out(q, at)[j] = IF j < i THEN q[j] ELSE q[j + 1]
  <1>a. PICK n \in Nat : Len(q) = n
    BY LenProperties
  <1>b. PICK i \in 1 .. n : i = at
    BY <1>a, LenProperties
  <1>c. PICK r : r = SubSeq(q, 1, i - 1) \o SubSeq(q, i + 1, n)
    OBVIOUS
  <1>d. r = Out(q, at)
    BY <1>a, <1>b, <1>c DEF Out
  <1>1. DOMAIN q = 1 .. n
    BY <1>a, LenProperties
  <1>2. i \in 1 .. n + 1 /\ i + 1 \in 1 .. n + 1
    BY <1>1
  <1>3. PICK s \in Seq(S) : s = SubSeq(q, 1, i - 1)
    BY <1>a, <1>2, Cut
  <1>4. PICK t \in Seq(S) : t = SubSeq(q, i + 1, n)
    BY <1>a, <1>2, Cut
  <1>5. s \in Seq(S) /\ Len(s) = i - 1 /\ \A j \in 1 .. i - 1 : s[j] = q[j]
    BY <1>a, <1>1, <1>2, <1>3, Cut
  <1>6. t \in Seq(S) /\ Len(t) = n + 1 - (i + 1) /\ \A j \in 1 .. n + 1 - (i + 1) : t[j] = q[(i + 1) + j - 1]
    BY <1>a, <1>1, <1>2, <1>4, Cut
  <1>7. PICK a \in Nat : a = i - 1
    BY <1>1
  <1>8. PICK b \in Nat : b = n + 1 - (i + 1)
    BY <1>1
  <1>9. r = s \o t
    BY <1>c, <1>3, <1>4
  <1>10. /\ r \in Seq(S) /\ Len(r) = a + b
         /\ \A j \in 1 .. a : r[j] = s[j]
         /\ \A j \in 1 .. b : r[a + j] = t[j]
    <2>1. Len(s) = a /\ Len(t) = b
      BY <1>5, <1>6, <1>7, <1>8
    <2>3. /\ s \o t \in Seq(S) /\ Len(s \o t) = Len(s) + Len(t)
          /\ \A j \in 1 .. Len(s) : (s \o t)[j] = s[j]
          /\ \A j \in 1 .. Len(t) : (s \o t)[Len(s) + j] = t[j]
      BY Joined
    <2>2. /\ s \o t \in Seq(S) /\ Len(s \o t) = a + b
          /\ \A j \in 1 .. a : (s \o t)[j] = s[j]
          /\ \A j \in 1 .. b : (s \o t)[a + j] = t[j]
      BY <2>1, <2>3
    <2> QED
      BY <1>9, <2>2
  <1>11. a + b = n - 1
    BY <1>1, <1>7, <1>8
  <1>12. DOMAIN r = 1 .. n - 1
    BY <1>10, <1>11, LenProperties
  <1>13. ASSUME NEW j \in 1 .. n - 1 PROVE r[j] = IF j < i THEN q[j] ELSE q[j + 1]
    <2>1. CASE j < i
      <3>1. j \in 1 .. a
        BY <1>1, <1>7, <2>1
      <3> QED
        BY <1>5, <1>7, <1>10, <2>1, <3>1
    <2>2. CASE ~(j < i)
      <3>1. PICK k \in 1 .. b : k = j - a
        BY <1>1, <1>7, <1>8, <2>2
      <3>2. a + k = j /\ (i + 1) + k - 1 = j + 1
        BY <1>1, <1>7, <3>1
      <3>3. t[k] = q[j + 1]
        <4>1. t[k] = q[(i + 1) + k - 1]
          BY <1>6, <1>8
        <4> QED
          BY <3>2, <4>1
      <3>4. r[j] = t[k]
        BY <1>10, <3>2
      <3> QED
        BY <2>2, <3>3, <3>4
    <2> QED
      BY <2>1, <2>2
  <1> QED
    BY <1>b, <1>d, <1>1, <1>12, <1>13

LEMMA PutAt ==
    ASSUME NEW S, NEW q \in Seq(S), NEW e \in S, NEW n \in Nat, Len(q) = n, NEW i \in 1 .. n + 1,
           NEW r, r = SubSeq(q, 1, i - 1) \o <<e>> \o SubSeq(q, i, n)
    PROVE  /\ DOMAIN q = 1 .. n /\ DOMAIN r = 1 .. n + 1
           /\ \A j \in 1 .. n + 1 : r[j] = IF j < i THEN q[j] ELSE IF j = i THEN e ELSE q[j - 1]
  <1>1. DOMAIN q = 1 .. n
    BY LenProperties
  <1>2. PICK s \in Seq(S) : s = SubSeq(q, 1, i - 1)
    BY Cut
  <1>3. PICK t \in Seq(S) : t = SubSeq(q, i, n)
    BY Cut
  <1>4. PICK one \in Seq(S) : one = <<e>>
    <2>1. <<e>> \in Seq(S)
      OBVIOUS
    <2> QED
      BY <2>1
  <1>5. s \in Seq(S) /\ Len(s) = i - 1 /\ \A j \in 1 .. i - 1 : s[j] = q[j]
    BY <1>1, <1>2, Cut
  <1>6. t \in Seq(S) /\ Len(t) = n + 1 - i /\ \A j \in 1 .. n + 1 - i : t[j] = q[i + j - 1]
    BY <1>1, <1>3, Cut
  <1>7. one \in Seq(S) /\ Len(one) = 1 /\ one[1] = e
    BY <1>4
  <1>8. PICK a \in Nat : a = i - 1
    BY <1>1
  <1>9. PICK b \in Nat : b = n + 1 - i
    BY <1>1
  <1>10. PICK most \in Seq(S) : most = s \o one
    BY Joined
  <1>11. /\ most \in Seq(S) /\ Len(most) = a + 1
         /\ \A j \in 1 .. a : most[j] = s[j]
         /\ \A j \in 1 .. 1 : most[a + j] = one[j]
    <2>1. Len(s) = a
      BY <1>5, <1>8
    <2>2. PICK m \in Nat : m = 1
      OBVIOUS
    <2>3. Len(one) = m
      BY <1>7, <2>2
    <2>5. /\ s \o one \in Seq(S) /\ Len(s \o one) = Len(s) + Len(one)
          /\ \A j \in 1 .. Len(s) : (s \o one)[j] = s[j]
          /\ \A j \in 1 .. Len(one) : (s \o one)[Len(s) + j] = one[j]
      BY Joined
    <2>4. /\ s \o one \in Seq(S) /\ Len(s \o one) = a + m
          /\ \A j \in 1 .. a : (s \o one)[j] = s[j]
          /\ \A j \in 1 .. m : (s \o one)[a + j] = one[j]
      BY <2>1, <2>3, <2>5
    <2> QED
      BY <1>10, <2>2, <2>4
  <1>12. r = most \o t
    BY <1>2, <1>3, <1>4, <1>10
  <1>13. PICK c \in Nat : c = a + 1
    OBVIOUS
  <1>14. /\ r \in Seq(S) /\ Len(r) = c + b
         /\ \A j \in 1 .. c : r[j] = most[j]
         /\ \A j \in 1 .. b : r[c + j] = t[j]
    <2>1. Len(most) = c /\ Len(t) = b
      BY <1>6, <1>9, <1>11, <1>13
    <2>3. /\ most \o t \in Seq(S) /\ Len(most \o t) = Len(most) + Len(t)
          /\ \A j \in 1 .. Len(most) : (most \o t)[j] = most[j]
          /\ \A j \in 1 .. Len(t) : (most \o t)[Len(most) + j] = t[j]
      BY Joined
    <2>2. /\ most \o t \in Seq(S) /\ Len(most \o t) = c + b
          /\ \A j \in 1 .. c : (most \o t)[j] = most[j]
          /\ \A j \in 1 .. b : (most \o t)[c + j] = t[j]
      BY <2>1, <2>3
    <2> QED
      BY <1>12, <2>2
  <1>15. c + b = n + 1
    BY <1>1, <1>8, <1>9, <1>13
  <1>16. DOMAIN r = 1 .. n + 1
    BY <1>14, <1>15, LenProperties
  <1>17. ASSUME NEW j \in 1 .. n + 1 PROVE r[j] = IF j < i THEN q[j] ELSE IF j = i THEN e ELSE q[j - 1]
    <2>1. CASE j < i
      <3>1. j \in 1 .. a /\ j \in 1 .. c
        BY <1>1, <1>8, <1>13, <2>1
      <3> QED
        BY <1>5, <1>8, <1>11, <1>14, <2>1, <3>1
    <2>2. CASE j = i
      <3>1. j \in 1 .. c /\ j = a + 1 /\ ~(j < i) /\ 1 \in 1 .. 1
        BY <1>1, <1>8, <1>13, <2>2
      <3> QED
        BY <1>7, <1>11, <1>14, <2>2, <3>1
    <2>3. CASE j > i
      <3>1. PICK k \in 1 .. b : k = j - c
        BY <1>1, <1>8, <1>9, <1>13, <2>3
      <3>2. c + k = j /\ i + k - 1 = j - 1 /\ ~(j < i) /\ j # i
        BY <1>1, <1>8, <1>13, <2>3, <3>1
      <3>3. t[k] = q[j - 1]
        <4>1. t[k] = q[i + k - 1]
          BY <1>6, <1>9
        <4> QED
          BY <3>2, <4>1
      <3>4. r[j] = t[k]
        BY <1>14, <3>2
      <3> QED
        BY <3>2, <3>3, <3>4
    <2> QED
      BY <1>1, <2>1, <2>2, <2>3
  <1> QED
    BY <1>1, <1>16, <1>17

\* What is left when an entry is let in.
LEMMA Taken ==
    ASSUME NEW S, NEW q \in Seq(S), NEW at \in DOMAIN q, Alone(q)
    PROVE  /\ Alone(Out(q, at))
           /\ \A j \in DOMAIN Out(q, at) : \E k \in DOMAIN q : k # at /\ Out(q, at)[j] = q[k]
           /\ \A k \in DOMAIN q : k # at => \E j \in DOMAIN Out(q, at) : Out(q, at)[j] = q[k]
  <1>0. PICK n \in Nat : \E i \in 1 .. n :
            /\ i = at /\ DOMAIN q = 1 .. n /\ DOMAIN Out(q, at) = 1 .. n - 1
            /\ \A j \in 1 .. n - 1 : Out(q, at)[j] = IF j < i THEN q[j] ELSE q[j + 1]
    BY TakenAt
  <1>a. PICK i \in 1 .. n :
            /\ i = at /\ DOMAIN q = 1 .. n /\ DOMAIN Out(q, at) = 1 .. n - 1
            /\ \A j \in 1 .. n - 1 : Out(q, at)[j] = IF j < i THEN q[j] ELSE q[j + 1]
    BY <1>0
  <1>b. PICK r : r = Out(q, at)
    OBVIOUS
  <1> DEFINE from(j) == IF j < i THEN j ELSE j + 1
  <1>1. /\ DOMAIN q = 1 .. n /\ DOMAIN r = 1 .. n - 1
        /\ \A j \in 1 .. n - 1 : r[j] = IF j < i THEN q[j] ELSE q[j + 1]
    BY <1>a, <1>b
  <1>2. ASSUME NEW j \in 1 .. n - 1
        PROVE  from(j) \in 1 .. n /\ from(j) # i /\ r[j] = q[from(j)]
    <2>0. r[j] = IF j < i THEN q[j] ELSE q[j + 1]
      BY <1>1
    <2>1. CASE j < i
      <3>1. from(j) = j
        BY <2>1
      <3> QED
        BY <2>0, <2>1, <3>1
    <2>2. CASE ~(j < i)
      <3>1. from(j) = j + 1
        BY <2>2
      <3> QED
        BY <2>0, <2>2, <3>1
    <2> QED
      BY <2>1, <2>2
  <1>3. ASSUME NEW j \in 1 .. n - 1, NEW k \in 1 .. n - 1, from(j) = from(k)
        PROVE  j = k
    BY <1>1, <1>3
  <1>4. ASSUME NEW k \in 1 .. n, k # i
        PROVE  \E j \in 1 .. n - 1 : from(j) = k
    <2>1. CASE k < i
      <3>1. k \in 1 .. n - 1 /\ from(k) = k
        BY <1>1, <2>1
      <3> QED
        BY <3>1
    <2>2. CASE k > i
      <3>1. k - 1 \in 1 .. n - 1 /\ from(k - 1) = k
        BY <1>1, <2>2
      <3> QED
        BY <3>1
    <2> QED
      BY <1>1, <1>4, <2>1, <2>2
  <1> HIDE DEF from
  <1>5. Alone(r)
    <2> SUFFICES ASSUME NEW j \in 1 .. n - 1, NEW k \in 1 .. n - 1, r[j].node # None, r[j].node = r[k].node
                 PROVE  j = k
      BY <1>1 DEF Alone
    <2>1. r[j] = q[from(j)] /\ r[k] = q[from(k)] /\ from(j) \in DOMAIN q /\ from(k) \in DOMAIN q
      BY <1>1, <1>2
    <2>2. from(j) = from(k)
      BY <2>1 DEF Alone
    <2> QED
      BY <1>3, <2>2
  <1>6. ASSUME NEW j \in DOMAIN r PROVE \E k \in DOMAIN q : k # i /\ r[j] = q[k]
    BY <1>1, <1>2
  <1>7. ASSUME NEW k \in DOMAIN q, k # i PROVE \E j \in DOMAIN r : r[j] = q[k]
    <2>1. PICK j \in 1 .. n - 1 : from(j) = k
      BY <1>1, <1>4, <1>7
    <2> QED
      BY <1>1, <1>2, <2>1
  <1> QED
    BY <1>a, <1>b, <1>5, <1>6, <1>7

\* A hold waits among the phases.
LEMMA Put ==
    ASSUME NEW S, NEW q \in Seq(S), NEW e \in S, NEW at \in 1 .. Len(q) + 1, Alone(q), e.node = None
    PROVE  /\ Alone(In(q, at, e))
           /\ \A j \in DOMAIN In(q, at, e) : In(q, at, e)[j] = e \/ \E k \in DOMAIN q : In(q, at, e)[j] = q[k]
           /\ \A k \in DOMAIN q : \E j \in DOMAIN In(q, at, e) : In(q, at, e)[j] = q[k]
  <1>a. PICK n \in Nat : n = Len(q)
    BY LenProperties
  <1>b. PICK i \in 1 .. n + 1 : i = at
    BY <1>a
  <1>c. PICK r : r = In(q, i, e)
    OBVIOUS
  <1> DEFINE from(j) == IF j < i THEN j ELSE j - 1
  <1>1. /\ DOMAIN q = 1 .. n /\ DOMAIN r = 1 .. n + 1
        /\ \A j \in 1 .. n + 1 : r[j] = IF j < i THEN q[j] ELSE IF j = i THEN e ELSE q[j - 1]
    <2>1. r = SubSeq(q, 1, i - 1) \o <<e>> \o SubSeq(q, i, n)
      BY <1>a, <1>c DEF In
    <2>2. Len(q) = n
      BY <1>a
    <2> QED
      BY <2>1, <2>2, PutAt
  <1>2. i \in 1 .. n + 1
    OBVIOUS
  <1>3. ASSUME NEW j \in 1 .. n + 1, j # i
        PROVE  from(j) \in 1 .. n /\ r[j] = q[from(j)]
    <2>2. CASE j < i
      BY <1>1, <2>2
    <2>3. CASE j > i
      BY <1>1, <2>3
    <2> QED
      BY <1>3, <2>2, <2>3
  <1>4. ASSUME NEW j \in 1 .. n + 1, NEW k \in 1 .. n + 1, j # i, k # i, from(j) = from(k)
        PROVE  j = k
    BY <1>1, <1>2, <1>4
  <1>5. ASSUME NEW k \in 1 .. n
        PROVE  \E j \in 1 .. n + 1 : r[j] = q[k]
    <2>1. CASE k < i
      <3>1. k \in 1 .. n + 1 /\ r[k] = q[k]
        BY <1>1, <2>1
      <3> QED
        BY <3>1
    <2>2. CASE k >= i
      <3>1. PICK j \in 1 .. n + 1 : j = k + 1
        OBVIOUS
      <3>2. ~(j < i) /\ j # i /\ j - 1 = k
        BY <2>2, <3>1
      <3> QED
        BY <1>1, <3>2
    <2> QED
      BY <2>1, <2>2
  <1> HIDE DEF from
  <1>6. Alone(r)
    <2> SUFFICES ASSUME NEW j \in 1 .. n + 1, NEW k \in 1 .. n + 1, r[j].node # None, r[j].node = r[k].node
                 PROVE  j = k
      BY <1>1 DEF Alone
    <2>0. j # i /\ k # i
      BY <1>1
    <2>1. /\ r[j] = q[from(j)] /\ from(j) \in DOMAIN q
          /\ r[k] = q[from(k)] /\ from(k) \in DOMAIN q
      BY <1>1, <1>3, <2>0
    <2>2. from(j) = from(k)
      BY <2>1 DEF Alone
    <2> QED
      BY <1>4, <2>0, <2>2
  <1>7. ASSUME NEW j \in DOMAIN r PROVE r[j] = e \/ \E k \in DOMAIN q : r[j] = q[k]
    <2>1. CASE j = i
      BY <1>1, <2>1
    <2>2. CASE j # i
      BY <1>1, <1>3, <2>2
    <2> QED
      BY <2>1, <2>2
  <1> QED
    BY <1>b, <1>c, <1>1, <1>5, <1>6, <1>7

LEMMA Queues ==
    ASSUME NEW S, NEW q \in Seq(S), NEW e \in S, Alone(q),
           Absent(q, e.node)
    PROVE  /\ Alone(Append(q, e))
           /\ \A j \in DOMAIN Append(q, e) : Append(q, e)[j] = e \/ \E k \in DOMAIN q : Append(q, e)[j] = q[k]
           /\ \A k \in DOMAIN q : \E j \in DOMAIN Append(q, e) : Append(q, e)[j] = q[k]
           /\ \E j \in DOMAIN Append(q, e) : Append(q, e)[j] = e
  <1>a. PICK r : r = Append(q, e)
    OBVIOUS
  <1>0. PICK n \in Nat : n = Len(q)
    BY LenProperties
  <1>1. /\ n \in Nat /\ DOMAIN q = 1 .. n /\ DOMAIN r = 1 .. n + 1
        /\ \A j \in 1 .. n : r[j] = q[j]
        /\ r[n + 1] = e
    <2>1. r \in Seq(S) /\ Len(r) = n + 1 /\ (\A j \in 1 .. n : r[j] = q[j]) /\ r[n + 1] = e
      BY <1>0, <1>a, AppendProperties
    <2> QED
      BY <1>0, <2>1, LenProperties
  <1>2. \A j \in 1 .. n + 1 : j \in 1 .. n \/ j = n + 1
    BY <1>1
  <1>3. Alone(r)
    BY <1>1, <1>2 DEF Alone, Absent
  <1>4. \A j \in 1 .. n : j \in 1 .. n + 1
    BY <1>1
  <1>5. n + 1 \in 1 .. n + 1
    BY <1>1
  <1> QED
    BY <1>a, <1>1, <1>2, <1>3, <1>4, <1>5

----------------------------------------------------------------------------
(* Where everybody is *)

Active == turn.pc \in {"earlier", "merge", "gates", "later"}

\* What waits in the queue has arrived, and is neither twice in it nor in the turn.
Lined ==
    /\ Alone(queue)
    /\ \A i \in DOMAIN queue : queue[i].node # None =>
         /\ queue[i].node \in queue[i].plan /\ queue[i].node \in arrived
         /\ st[queue[i].node] \in {"queued", "failed"} /\ queue[i].node # turn.node

\* A turn is of a phase that had been counted, and still waits for it or failed.
Manned ==
    /\ Active => /\ turn.node \in turn.plan /\ turn.w = Wave[turn.node]
                 /\ st[turn.node] \in {"turn", "failed"}
                 /\ turn.pc \in {"merge", "gates"} => Members(turn.plan, turn.i) # {}
    /\ ~Active => turn.node = None

Known ==
    \A n \in Nodes :
      /\ st[n] \in {"queued", "turn", "asked", "through"} => n \in arrived
      /\ st[n] = "queued" => InQueue(n)
      /\ st[n] = "turn" => turn.node = n

Flagged == \A w \in queued : \E i \in DOMAIN queue : queue[i].node # None /\ Wave[queue[i].node] = w

Rooted == \A w \in Waves : branch[w].on => w > 1

Placed == Lined /\ Manned /\ Known /\ Flagged /\ Rooted

LEMMA InitPlaced ==
    Init => Placed
  BY DEF Init, Idle, Placed, Lined, Alone, Manned, Active, Known, Flagged, Rooted

LEMMA PlacedTypes ==
    ASSUME WaveInv, Placed PROVE TypeOK
  <1>1. ASSUME Active PROVE Members(turn.plan, turn.w) # {}
    BY <1>1 DEF Placed, Manned, Members
  <1> QED
    BY <1>1 DEF Placed, Known, Flagged, Rooted, TypeOK, Active

\* A phase that neither waits nor failed is not in the queue, and the same of the
\* turn.
LEMMA Elsewhere ==
    ASSUME Placed, NEW n \in Nodes
    PROVE  /\ st[n] \notin {"queued", "failed"} => ~InQueue(n)
           /\ st[n] \notin {"turn", "failed"} => turn.node # n
  <1>1. n # None
    BY NoneAssumption
  <1>2. InQueue(n) => st[n] \in {"queued", "failed"}
    BY <1>1 DEF Placed, Lined, InQueue
  <1>3. turn.node = n => st[n] \in {"turn", "failed"}
    BY <1>1 DEF Placed, Manned
  <1> QED
    BY <1>2, <1>3

LEMMA SamePlaced ==
    ASSUME Placed, UNCHANGED <<st, arrived, queued, queue, turn>>, Rooted' PROVE Placed'
  BY DEF Placed, Lined, Manned, Active, Known, Flagged, InQueue, Members

LEMMA OnStays ==
    ASSUME WaveInv, Placed, \A w \in Waves : branch'[w].on = branch[w].on PROVE Rooted'
  BY DEF Placed, Rooted

\* A phase goes where neither the queue nor the turn has it, or fails where it is.
LEMMA StepPlaced ==
    ASSUME WaveInv, Placed, NEW n \in Nodes, NEW s \in State, st' = [st EXCEPT ![n] = s],
           UNCHANGED <<arrived, queued, queue, turn, branch>>,
           s \notin {"queued", "turn"}, s \in {"asked", "through"} => n \in arrived,
           s = "failed" \/ (~InQueue(n) /\ turn.node # n)
    PROVE  Placed'
  <1>1. st'[n] = s /\ \A m \in Nodes \ {n} : st'[m] = st[m]
    BY DEF WaveInv, Types
  <1>2. ASSUME NEW i \in DOMAIN queue, queue[i].node # None
        PROVE  queue[i].node \in Nodes /\ (queue[i].node = n => s = "failed")
    <2>1. queue[i] \in Counted
      BY LenProperties, ElementOfSeq DEF WaveInv, Types
    <2> QED
      BY <1>2, <2>1 DEF Counted, Entry, InQueue
  <1>3. Lined'
    BY <1>1, <1>2 DEF Placed, Lined
  <1>4. Manned'
    <2>1. Active => turn.node \in Nodes
      BY DEF Placed, Manned, WaveInv, Types
    <2> QED
      BY <1>1, <2>1 DEF Placed, Manned, Active, Members
  <1>5. Known'
    BY <1>1 DEF Placed, Known, InQueue
  <1>6. Flagged' /\ Rooted'
    BY DEF Placed, Flagged, Rooted
  <1> QED
    BY <1>3, <1>4, <1>5, <1>6 DEF Placed

LEMMA PhasePlaced ==
    ASSUME WaveInv, Placed, NEW n \in Nodes,
           \/ Work(n) \/ Finish(n) \/ Fail(n) \/ Retry(n) \/ Commit(n) \/ Pause(n) \/ Unpause(n)
           \/ Answer(n) /\ ~Arrives(n)
    PROVE  Placed'
  <1>1. CASE Commit(n) \/ Pause(n) \/ Unpause(n)
    <2>1. UNCHANGED <<st, arrived, queued, queue, turn>>
      BY <1>1 DEF Commit, Pause, Unpause, worktree
    <2>2. \A w \in Waves : branch'[w].on = branch[w].on
      BY <1>1 DEF Commit, Pause, Unpause, git, WaveInv, Types
    <2> QED
      BY <2>1, <2>2, OnStays, SamePlaced
  <1>2. CASE ~(Commit(n) \/ Pause(n) \/ Unpause(n))
    <2>1. UNCHANGED <<arrived, queued, queue, turn, branch>>
      BY <1>2 DEF Work, Answer, Finish, Fail, Retry, worktree, git
    <2>2. CASE Fail(n)
      <3>1. st' = [st EXCEPT ![n] = "failed"]
        BY <2>2 DEF Fail
      <3> QED
        BY <2>1, <3>1, StepPlaced DEF State
    <2>3. CASE Retry(n)
      <3>1. st' = [st EXCEPT ![n] = "todo"] /\ ~InQueue(n) /\ turn.node # n
        BY <2>3 DEF Retry
      <3> QED
        BY <2>1, <3>1, StepPlaced DEF State
    <2>4. CASE Work(n) \/ Finish(n) \/ (Answer(n) /\ ~Arrives(n))
      <3>1. PICK s \in {"work", "done", "through"} :
                st' = [st EXCEPT ![n] = s] /\ st[n] \in {"todo", "through", "asked"}
                  /\ (s = "through" => st[n] = "asked")
        BY <2>4 DEF Work, Finish, Answer
      <3>2. s = "through" => n \in arrived
        BY <3>1 DEF Placed, Known
      <3>3. ~InQueue(n) /\ turn.node # n
        BY <3>1, Elsewhere
      <3> QED
        BY <2>1, <3>1, <3>2, <3>3, StepPlaced DEF State
    <2> QED
      BY <1>2, <2>2, <2>3, <2>4
  <1> QED
    BY <1>1, <1>2

LEMMA ArrivesPlaced ==
    ASSUME WaveInv, Placed, NEW n \in Nodes, st[n] \in {"work", "asked"}, Arrives(n)
    PROVE  Placed'
  <1>1. ~InQueue(n) /\ turn.node # n /\ n # None
    BY Elsewhere, NoneAssumption
  <1>2. UNCHANGED <<turn, branch>> /\ arrived' = arrived \cup {n}
    BY DEF Arrives, git
  <1>3. CASE n \in plan /\ Complete(plan, Wave[n], arrived')
    <2> DEFINE entry == [node |-> n, priority |-> FALSE, plan |-> plan]
    <2>1. /\ st' = [st EXCEPT ![n] = "queued"] /\ queued' = queued \cup {Wave[n]}
          /\ queue' = Append(queue, entry)
      BY <1>3 DEF Arrives
    <2>2. entry.node = n /\ entry.plan = plan /\ entry \in Entry
      BY DEF Entry, WaveInv, Types
    <2> HIDE DEF entry
    <2>3. queue \in Seq(Entry) /\ Alone(queue) /\ \A k \in DOMAIN queue : queue[k].node # n
      <3>1. Counted \subseteq Entry
        BY DEF Counted
      <3> QED
        BY <1>1, <3>1, SeqMonotonic DEF WaveInv, Types, Placed, Lined, InQueue
    <2>4. /\ Alone(queue')
          /\ \A j \in DOMAIN queue' : queue'[j] = entry \/ \E k \in DOMAIN queue : queue'[j] = queue[k]
          /\ \A k \in DOMAIN queue : \E j \in DOMAIN queue' : queue'[j] = queue[k]
          /\ \E j \in DOMAIN queue' : queue'[j] = entry
      <3>1. /\ Alone(Append(queue, entry))
            /\ \A j \in DOMAIN Append(queue, entry) :
                 Append(queue, entry)[j] = entry \/ \E k \in DOMAIN queue : Append(queue, entry)[j] = queue[k]
            /\ \A k \in DOMAIN queue : \E j \in DOMAIN Append(queue, entry) : Append(queue, entry)[j] = queue[k]
            /\ \E j \in DOMAIN Append(queue, entry) : Append(queue, entry)[j] = entry
        <4>1. Absent(queue, entry.node)
          BY <2>2, <2>3 DEF Absent
        <4> QED
          BY <2>2, <2>3, <4>1, Queues
      <3> QED
        BY <2>1, <3>1
    <2>5. st'[n] = "queued" /\ \A m \in Nodes \ {n} : st'[m] = st[m]
      BY <2>1 DEF WaveInv, Types
    <2>6. ASSUME NEW k \in DOMAIN queue, queue[k].node # None PROVE queue[k].node \in Nodes \ {n}
      <3>1. queue[k] \in Entry
        BY <2>3, LenProperties, ElementOfSeq
      <3> QED
        BY <2>3, <2>6, <3>1 DEF Entry
    <2>7. Lined'
      <3> SUFFICES ASSUME NEW j \in DOMAIN queue', queue'[j].node # None
                   PROVE  /\ queue'[j].node \in queue'[j].plan /\ queue'[j].node \in arrived'
                          /\ st'[queue'[j].node] \in {"queued", "failed"} /\ queue'[j].node # turn'.node
        BY <2>4 DEF Lined
      <3>1. CASE queue'[j] = entry
        BY <1>1, <1>2, <1>3, <2>2, <2>5, <3>1
      <3>2. ASSUME NEW k \in DOMAIN queue, queue'[j] = queue[k]
            PROVE  /\ queue'[j].node \in queue'[j].plan /\ queue'[j].node \in arrived'
                   /\ st'[queue'[j].node] \in {"queued", "failed"} /\ queue'[j].node # turn'.node
        BY <1>2, <2>5, <2>6, <3>2 DEF Placed, Lined
      <3> QED
        BY <2>4, <3>1, <3>2
    <2>8. Manned'
      <3>1. Active => turn.node \in Nodes \ {n}
        BY <1>1 DEF Placed, Manned, WaveInv, Types
      <3> QED
        BY <1>2, <2>5, <3>1 DEF Placed, Manned, Active, Members
    <2>9. Known'
      <3>1. \A m \in Nodes : InQueue(m) => InQueue(m)'
        BY <2>4 DEF InQueue
      <3>2. InQueue(n)'
        BY <2>2, <2>4 DEF InQueue
      <3> QED
        BY <1>2, <2>5, <3>1, <3>2 DEF Placed, Known
    <2>10. Flagged'
      <3> SUFFICES ASSUME NEW w \in queued \cup {Wave[n]}
                   PROVE  \E j \in DOMAIN queue' : queue'[j].node # None /\ Wave[queue'[j].node] = w
        BY <2>1 DEF Flagged
      <3>1. CASE w = Wave[n]
        BY <1>1, <2>2, <2>4, <3>1
      <3>2. CASE w \in queued
        BY <2>4, <3>2 DEF Placed, Flagged
      <3> QED
        BY <3>1, <3>2
    <2> QED
      BY <1>2, <2>7, <2>8, <2>9, <2>10 DEF Placed, Rooted
  <1>4. CASE ~(n \in plan /\ Complete(plan, Wave[n], arrived'))
    <2>1. UNCHANGED <<queued, queue>> /\ st' = [st EXCEPT ![n] = "through"]
      BY <1>4 DEF Arrives
    <2>2. st'[n] = "through" /\ \A m \in Nodes \ {n} : st'[m] = st[m]
      BY <2>1 DEF WaveInv, Types
    <2>3. ASSUME NEW k \in DOMAIN queue, queue[k].node # None PROVE queue[k].node \in Nodes \ {n}
      <3>1. queue[k] \in Counted
        BY LenProperties, ElementOfSeq DEF WaveInv, Types
      <3> QED
        BY <1>1, <2>3, <3>1 DEF Counted, Entry, InQueue
    <2>4. Lined'
      BY <1>2, <2>1, <2>2, <2>3 DEF Placed, Lined
    <2>5. Manned'
      <3>1. Active => turn.node \in Nodes \ {n}
        BY <1>1 DEF Placed, Manned, WaveInv, Types
      <3> QED
        BY <1>2, <2>2, <3>1 DEF Placed, Manned, Active, Members
    <2>6. Known'
      BY <1>2, <2>1, <2>2 DEF Placed, Known, InQueue
    <2> QED
      BY <1>2, <2>1, <2>4, <2>5, <2>6 DEF Placed, Flagged, Rooted
  <1> QED
    BY <1>3, <1>4

LEMMA HoldPlaced ==
    ASSUME WaveInv, Placed, NEW priority \in BOOLEAN, Hold(priority) PROVE Placed'
  <1> DEFINE entry == [node |-> None, priority |-> priority, plan |-> {}]
  <1>1. UNCHANGED <<st, arrived, queued, turn, branch>>
    BY DEF Hold, git
  <1>2. entry \in Counted /\ entry.node = None
    BY DEF Counted, Entry
  <1>3. PICK at \in 1 .. Len(queue) + 1 :
            queue' = SubSeq(queue, 1, at - 1) \o <<entry>> \o SubSeq(queue, at, Len(queue))
    BY DEF Hold
  <1> HIDE DEF entry
  <1>4. /\ Alone(queue')
        /\ \A j \in DOMAIN queue' : queue'[j].node # None => \E k \in DOMAIN queue : queue'[j] = queue[k]
        /\ \A k \in DOMAIN queue : \E j \in DOMAIN queue' : queue'[j] = queue[k]
    <2>1. queue' = In(queue, at, entry)
      BY <1>3 DEF In
    <2> QED
      BY <1>2, <2>1, Put DEF WaveInv, Types, Placed, Lined
  <1>5. Lined'
    BY <1>1, <1>4 DEF Placed, Lined
  <1>6. Known'
    BY <1>1, <1>4 DEF Placed, Known, InQueue
  <1>7. Flagged'
    BY <1>1, <1>4 DEF Placed, Flagged
  <1> QED
    BY <1>1, <1>5, <1>6, <1>7 DEF Placed, Manned, Active, Rooted, Members

LEMMA LetInTakes ==
    ASSUME WaveInv, Placed, LetIn
    PROVE  \E i \in DOMAIN queue :
             /\ Alone(queue')
             /\ \A j \in DOMAIN queue' : \E k \in DOMAIN queue : k # i /\ queue'[j] = queue[k]
             /\ \A k \in DOMAIN queue : k # i => \E j \in DOMAIN queue' : queue'[j] = queue[k]
             /\ IF queue[i].node = None
                THEN turn' = [Idle EXCEPT !.pc = "held"] /\ UNCHANGED <<st, queued>>
                ELSE /\ turn' = [pc |-> "earlier", node |-> queue[i].node, w |-> Wave[queue[i].node], i |-> 1,
                                 plan |-> queue[i].plan]
                     /\ queued' = queued \ {Wave[queue[i].node]}
                     /\ st' = [st EXCEPT ![queue[i].node] = IF @ = "queued" THEN "turn" ELSE @]
  <1>1. PICK i \in DOMAIN queue :
            /\ queue' = SubSeq(queue, 1, i - 1) \o SubSeq(queue, i + 1, Len(queue))
            /\ IF queue[i].node = None
               THEN turn' = [Idle EXCEPT !.pc = "held"] /\ UNCHANGED <<st, queued>>
               ELSE /\ turn' = [pc |-> "earlier", node |-> queue[i].node, w |-> Wave[queue[i].node], i |-> 1,
                                plan |-> queue[i].plan]
                    /\ queued' = queued \ {Wave[queue[i].node]}
                    /\ st' = [st EXCEPT ![queue[i].node] = IF @ = "queued" THEN "turn" ELSE @]
    BY DEF LetIn, Idle, TurnPlan
  <1>2. /\ Alone(queue')
        /\ \A j \in DOMAIN queue' : \E k \in DOMAIN queue : k # i /\ queue'[j] = queue[k]
        /\ \A k \in DOMAIN queue : k # i => \E j \in DOMAIN queue' : queue'[j] = queue[k]
    <2>1. queue' = Out(queue, i)
      BY <1>1 DEF Out
    <2> QED
      BY <2>1, Taken DEF WaveInv, Types, Placed, Lined
  <1> QED
    BY <1>1, <1>2

LEMMA LetInPlaced ==
    ASSUME WaveInv, Placed, LetIn PROVE Placed'
  <1>1. PICK i \in DOMAIN queue :
             /\ Alone(queue')
             /\ \A j \in DOMAIN queue' : \E k \in DOMAIN queue : k # i /\ queue'[j] = queue[k]
             /\ \A k \in DOMAIN queue : k # i => \E j \in DOMAIN queue' : queue'[j] = queue[k]
             /\ IF queue[i].node = None
                THEN turn' = [Idle EXCEPT !.pc = "held"] /\ UNCHANGED <<st, queued>>
                ELSE /\ turn' = [pc |-> "earlier", node |-> queue[i].node, w |-> Wave[queue[i].node], i |-> 1,
                                 plan |-> queue[i].plan]
                     /\ queued' = queued \ {Wave[queue[i].node]}
                     /\ st' = [st EXCEPT ![queue[i].node] = IF @ = "queued" THEN "turn" ELSE @]
    BY LetInTakes
  <1>2. UNCHANGED <<arrived, branch>> /\ turn.pc = "idle"
    BY DEF LetIn, git
  <1>3. turn.node = None /\ \A m \in Nodes : st[m] # "turn" /\ m # None
    BY <1>2, NoneAssumption DEF Placed, Manned, Active, Known
  <1>4. ASSUME NEW k \in DOMAIN queue, queue[k].node # None PROVE queue[k].node \in Nodes
    <2>1. queue[k] \in Counted
      BY LenProperties, ElementOfSeq DEF WaveInv, Types
    <2> QED
      BY <1>4, <2>1 DEF Counted, Entry
  <1>5. CASE queue[i].node = None
    <2>1. turn'.pc = "held" /\ turn'.node = None /\ UNCHANGED <<st, queued>>
      BY <1>1, <1>5 DEF Idle
    <2>2. Lined'
      BY <1>1, <1>2, <2>1 DEF Placed, Lined
    <2>3. Manned'
      BY <2>1 DEF Manned, Active
    <2>4. Known'
      BY <1>1, <1>2, <1>3, <1>5, <2>1 DEF Placed, Known, InQueue
    <2>5. Flagged'
      BY <1>1, <1>5, <2>1 DEF Placed, Flagged
    <2> QED
      BY <1>2, <2>2, <2>3, <2>4, <2>5 DEF Placed, Rooted
  <1>6. CASE queue[i].node # None
    <2>1. PICK n \in Nodes : n = queue[i].node
      BY <1>4, <1>6
    <2>2. /\ turn'.pc = "earlier" /\ turn'.node = n /\ turn'.w = Wave[n] /\ turn'.plan = queue[i].plan
          /\ queued' = queued \ {Wave[n]}
          /\ st' = [st EXCEPT ![n] = IF @ = "queued" THEN "turn" ELSE @]
      BY <1>1, <1>6, <2>1
    <2>3. n \in queue[i].plan /\ n \in arrived /\ st[n] \in {"queued", "failed"} /\ n # None
      BY <1>6, <2>1 DEF Placed, Lined
    <2>4. st'[n] \in {"turn", "failed"} /\ \A m \in Nodes \ {n} : st'[m] = st[m]
      BY <2>2, <2>3 DEF WaveInv, Types
    <2>5. ASSUME NEW k \in DOMAIN queue, k # i, queue[k].node # None PROVE queue[k].node \in Nodes \ {n}
      BY <1>4, <2>1, <2>5 DEF Placed, Lined, Alone
    <2>6. Lined'
      <3> SUFFICES ASSUME NEW j \in DOMAIN queue', queue'[j].node # None
                   PROVE  /\ queue'[j].node \in queue'[j].plan /\ queue'[j].node \in arrived'
                          /\ st'[queue'[j].node] \in {"queued", "failed"} /\ queue'[j].node # turn'.node
        BY <1>1 DEF Lined
      <3>1. PICK k \in DOMAIN queue : k # i /\ queue'[j] = queue[k]
        BY <1>1
      <3> QED
        BY <1>2, <2>2, <2>4, <2>5, <3>1 DEF Placed, Lined
    <2>7. Manned'
      BY <2>2, <2>3, <2>4 DEF Manned, Active
    <2>8. Known'
      <3>1. ASSUME NEW m \in Nodes \ {n}, InQueue(m) PROVE InQueue(m)'
        BY <1>1, <2>1, <3>1 DEF InQueue
      <3> QED
        BY <1>2, <1>3, <2>2, <2>3, <2>4, <3>1 DEF Placed, Known
    <2>9. Flagged'
      <3> SUFFICES ASSUME NEW w \in queued, w # Wave[n]
                   PROVE  \E j \in DOMAIN queue' : queue'[j].node # None /\ Wave[queue'[j].node] = w
        BY <2>2 DEF Flagged
      <3>1. PICK k \in DOMAIN queue : queue[k].node # None /\ Wave[queue[k].node] = w
        BY DEF Placed, Flagged
      <3>2. k # i
        BY <2>1, <3>1
      <3> QED
        BY <1>1, <3>1, <3>2
    <2> QED
      BY <1>2, <2>6, <2>7, <2>8, <2>9 DEF Placed, Rooted
  <1> QED
    BY <1>5, <1>6


\* A turn that ends leaves its phase to its own pipeline.
LEMMA EndPlaced ==
    ASSUME WaveInv, Placed, Active, NEW now \in {"through", "asked", "work"}, TurnEnds(now),
           UNCHANGED <<arrived, queued, queue>>, Rooted'
    PROVE  Placed'
  <1>1. PICK n \in Nodes : n = turn.node
    BY DEF WaveInv, Types, Placed, Manned
  <1>2. /\ st[n] \in {"turn", "failed"}
        /\ turn'.pc = "idle" /\ turn'.node = None /\ ~Active'
        /\ st' = [st EXCEPT ![n] = IF @ = "turn" THEN now ELSE @]
    BY <1>1 DEF Placed, Manned, TurnEnds, Idle, Active
  <1>3. st'[n] \in {now, "failed"} /\ \A m \in Nodes \ {n} : st'[m] = st[m]
    BY <1>2 DEF WaveInv, Types
  <1>4. ASSUME NEW k \in DOMAIN queue, queue[k].node # None PROVE queue[k].node \in Nodes \ {n}
    <2>1. queue[k] \in Counted
      BY LenProperties, ElementOfSeq DEF WaveInv, Types
    <2> QED
      BY <1>1, <1>4, <2>1 DEF Counted, Entry, Placed, Lined
  <1>5. Lined'
    BY <1>2, <1>3, <1>4 DEF Placed, Lined
  <1>6. Known'
    <2>1. n \in arrived \/ st'[n] = "failed"
      BY <1>2, <1>3 DEF Placed, Known, WaveInv, Types
    <2>2. \A m \in Nodes \ {n} : st[m] # "turn"
      BY <1>1 DEF Placed, Known
    <2> QED
      BY <1>3, <2>1, <2>2 DEF Placed, Known, InQueue
  <1>7. Manned' /\ Flagged'
    BY <1>2 DEF Placed, Manned, Flagged
  <1> QED
    BY <1>5, <1>6, <1>7 DEF Placed

LEMMA ToPlaced ==
    ASSUME WaveInv, Placed, Active, NEW pc \in {"earlier", "merge", "gates", "later"}, NEW i \in Nat, To(pc, i),
           UNCHANGED <<st, arrived, queued, queue>>, Rooted',
           pc \in {"merge", "gates"} => Members(turn.plan, i) # {}
    PROVE  Placed'
  <1>1. turn' = [pc |-> pc, node |-> turn.node, w |-> turn.w, i |-> i, plan |-> turn.plan]
    BY DEF WaveInv, Types, To
  <1>2. Manned'
    BY <1>1 DEF Placed, Manned, Active, Members
  <1>3. (Lined /\ Known /\ Flagged)'
    BY <1>1 DEF Placed, Lined, Known, Flagged, InQueue
  <1> QED
    BY <1>2, <1>3 DEF Placed

LEMMA KillPlaced ==
    ASSUME WaveInv, Placed, Kill PROVE Placed'
  <1>1. /\ arrived' = {} /\ queued' = {} /\ queue' = <<>> /\ turn'.pc = "idle" /\ turn'.node = None
        /\ branch' = branch /\ \A n \in Nodes : st'[n] \in {"done", "todo"}
    BY DEF Kill, Idle
  <1> QED
    BY <1>1 DEF Placed, Lined, Alone, Manned, Active, Known, Flagged, Rooted

LEMMA HoldEndsPlaced ==
    ASSUME WaveInv, Placed, HoldEnds PROVE Placed'
  <1>1. /\ turn.node = None /\ turn'.node = None /\ turn'.pc = "idle" /\ ~Active'
        /\ UNCHANGED <<st, arrived, queued, queue, branch>>
    BY DEF HoldEnds, Idle, Placed, Manned, Active, git
  <1>2. (Lined /\ Known)'
    BY <1>1 DEF Placed, Lined, Known, InQueue
  <1>3. Manned'
    BY <1>1 DEF Manned
  <1> QED
    BY <1>1, <1>2, <1>3 DEF Placed, Flagged, Rooted

\* A wave's branch sits on the one below, when there is one.
LEMMA MovedRooted ==
    ASSUME WaveInv, Placed, NEW w, NEW has, Moved(w, has) PROVE Rooted'
  <1> SUFFICES ASSUME NEW v \in Waves, branch'[v].on PROVE v > 1
    BY DEF Rooted
  <1>1. branch[v].on => v > 1
    BY DEF Placed, Rooted
  <1>2. branch[v] \in [made : BOOLEAN, on : BOOLEAN, has : SUBSET Nodes]
    BY DEF WaveInv, Types
  <1>3. branch'[v] \in {[made |-> TRUE, on |-> v > 1, has |-> has], [branch[v] EXCEPT !.on = FALSE], branch[v]}
    BY DEF Moved
  <1> QED
    BY <1>1, <1>2, <1>3

\* Whatever a turn does, the waves it merges have members.
LEMMA TurnPlaced ==
    ASSUME WaveInv, Rising, Placed, Turn PROVE Placed'
  <1>1. CASE HoldEnds
    BY <1>1, HoldEndsPlaced
  <1>2. CASE Earlier
    <2>1. Active /\ UNCHANGED <<arrived, queued, queue, branch>> /\ turn.i \in Nat /\ turn.i + 1 \in Nat
      BY <1>2 DEF Earlier, Active, git, WaveInv, Types
    <2>2. Rooted'
      BY <2>1 DEF Placed, Rooted
    <2>3. Members(turn.plan, turn.w) # {}
      BY <2>1 DEF Placed, Manned, Members, WaveInv, Types
    <2>4. \/ To("earlier", turn.i + 1) /\ UNCHANGED st
          \/ TurnEnds("through")
          \/ To("merge", turn.i) /\ UNCHANGED st /\ Members(turn.plan, turn.i) # {}
      BY <1>2, <2>3 DEF Earlier, Complete
    <2> QED
      BY <2>1, <2>2, <2>4, EndPlaced, ToPlaced
  <1>3. CASE Later
    <2>1. Active /\ UNCHANGED <<arrived, queued, queue, branch>> /\ turn.i \in Nat /\ turn.i + 1 \in Nat
      BY <1>3 DEF Later, Active, git, WaveInv, Types
    <2>2. Rooted'
      BY <2>1 DEF Placed, Rooted
    <2>3. \/ TurnEnds("through")
          \/ To("later", turn.i + 1) /\ UNCHANGED st
          \/ To("merge", turn.i) /\ UNCHANGED st /\ Members(turn.plan, turn.i) # {}
      BY <1>3 DEF Later, Above, Complete
    <2> QED
      BY <2>1, <2>2, <2>3, EndPlaced, ToPlaced
  <1>4. CASE Merge
    <2>1. /\ Active /\ UNCHANGED <<st, arrived, queued, queue>> /\ turn.i \in Nat /\ To("gates", turn.i)
          /\ turn.pc = "merge"
      BY <1>4 DEF Merge, Active, WaveInv, Types
    <2>2. Rooted'
      BY <1>4, MovedRooted DEF Merge
    <2>3. Members(turn.plan, turn.i) # {}
      BY <2>1 DEF Placed, Manned
    <2> QED
      BY <2>1, <2>2, <2>3, ToPlaced
  <1>5. CASE MergeFails \/ MergeRefused
    <2>1. Active /\ UNCHANGED <<arrived, queued, queue>> /\ \E now \in {"asked", "work"} : TurnEnds(now)
      BY <1>5 DEF MergeFails, MergeRefused, Active
    <2>2. Rooted'
      BY <1>5, MovedRooted DEF MergeFails, MergeRefused
    <2> QED
      BY <2>1, <2>2, EndPlaced
  <1>6. CASE Green
    <2>1. Active /\ UNCHANGED <<st, arrived, queued, queue, branch>> /\ turn.i \in Nat /\ turn.i + 1 \in Nat
      BY <1>6 DEF Green, Active, WaveInv, Types
    <2>2. Rooted'
      BY <2>1 DEF Placed, Rooted
    <2>3. PICK pc \in {"earlier", "later"} : To(pc, turn.i + 1)
      BY <1>6 DEF Green, Next_
    <2> QED
      BY <2>1, <2>2, <2>3, ToPlaced
  <1>7. CASE NotGreen
    <2>1. Active /\ UNCHANGED <<arrived, queued, queue, branch>> /\ TurnEnds("asked")
      BY <1>7 DEF NotGreen, Active
    <2>2. Rooted'
      BY <2>1 DEF Placed, Rooted
    <2> QED
      BY <2>1, <2>2, EndPlaced
  <1> QED
    BY <1>1, <1>2, <1>3, <1>4, <1>5, <1>6, <1>7 DEF Turn

LEMMA StepPlaces ==
    ASSUME WaveInv, Rising, Placed, [Next]_vars PROVE Placed'
  <1>1. ASSUME NEW n \in Nodes, Arrive(n) \/ Answer(n) PROVE Placed'
    <2>1. CASE Arrives(n)
      <3>1. st[n] \in {"work", "asked"}
        BY <1>1 DEF Arrive, Answer
      <3> QED
        BY <2>1, <3>1, ArrivesPlaced
    <2>2. CASE ~Arrives(n)
      BY <1>1, <2>2, PhasePlaced DEF Arrive
    <2> QED
      BY <2>1, <2>2
  <1>2. ASSUME NEW n \in Nodes,
               Work(n) \/ Finish(n) \/ Fail(n) \/ Retry(n) \/ Commit(n) \/ Pause(n) \/ Unpause(n)
        PROVE  Placed'
    BY <1>2, PhasePlaced
  <1>3. ASSUME Adopt \/ UNCHANGED vars PROVE Placed'
    <2>1. UNCHANGED <<st, arrived, queued, queue, turn, branch>>
      BY <1>3 DEF Adopt, vars, worktree, git
    <2> QED
      BY <2>1, OnStays, SamePlaced
  <1> QED
    BY <1>1, <1>2, <1>3, TurnPlaced, LetInPlaced, HoldPlaced, KillPlaced DEF Next


----------------------------------------------------------------------------
(* Whose the next wave is *)

Pending == {"todo", "work", "queued", "asked", "failed"}

\* While nobody gave a wave up the plan only grows.
Grown ==
    /\ NoGap(plan)
    /\ \A n \in Nodes \ plan : st[n] = "todo"
    /\ turn.plan \subseteq plan
    /\ \A i \in DOMAIN queue : queue[i].plan \subseteq plan

\* A phase has yet to come to its merge, or waits in the queue with the plan as it
\* is.
Comes(n) ==
    /\ n \in plan /\ st[n] \in Pending
    /\ \A i \in DOMAIN queue : queue[i].node = n => queue[i].plan = plan

AllBuilt == \A w \in Waves : Members(plan, w) # {} => Built(plan, w)

\* The turn counted the plan as it is, and has the waves under it built.
Climbing ==
    /\ Active /\ turn.plan = plan
    /\ \A v \in Waves : v < turn.i /\ Members(plan, v) # {} => Built(plan, v)
    /\ turn.pc = "gates" => Members(plan, turn.i) \subseteq branch[turn.i].has

Owed == (\E n \in Nodes : Comes(n)) \/ AllBuilt \/ Climbing

\* With WaveInv, Rising and Placed, the inductive invariant.
Held == ~gaveUp => Grown /\ Owed

LEMMA InitHolds ==
    Init => Held
  <1> SUFFICES ASSUME Init PROVE Grown /\ Owed
    BY DEF Held
  <1>1. Grown
    BY LateAssumption DEF Init, Grown, Idle
  <1>2. CASE \E n \in Nodes : n \in plan
    <2>1. PICK n \in Nodes : n \in plan
      BY <1>2
    <2>2. Comes(n)
      BY <2>1 DEF Init, Comes, Pending
    <2> QED
      BY <1>1, <2>2 DEF Owed
  <1>3. CASE ~ \E n \in Nodes : n \in plan
    <2>1. \A w \in Waves : Members(plan, w) = {}
      BY <1>3 DEF Init, Members
    <2> QED
      BY <1>1, <2>1 DEF Owed, AllBuilt
  <1> QED
    BY <1>2, <1>3

LEMMA WaitsInPlan ==
    ASSUME WaveInv, Placed, Grown, NEW i \in DOMAIN queue, queue[i].node # None
    PROVE  queue[i].node \in plan /\ queue[i].node \in Nodes /\ queue[i].plan \subseteq plan
  BY DEF WaveInv, Types, Placed, Lined, Grown

LEMMA TurnInPlan ==
    ASSUME WaveInv, Placed, Grown, Active
    PROVE  turn.node \in plan /\ turn.node \in Nodes /\ turn.node # None
  BY NoneAssumption DEF WaveInv, Types, Placed, Manned, Grown

\* The plan is the same, a phase of it may move, and what is counted was.
LEMMA StaysGrown ==
    ASSUME Grown, UNCHANGED plan, \A n \in Nodes \ plan : st'[n] = st[n],
           turn'.plan \subseteq plan,
           \A j \in DOMAIN queue' : queue'[j].plan \subseteq plan
    PROVE  Grown'
  BY DEF Grown, NoGap

LEMMA StaysComing ==
    ASSUME NEW n \in Nodes, Comes(n), UNCHANGED plan, st'[n] \in Pending,
           \A j \in DOMAIN queue' : queue'[j].node = n => queue'[j].plan = plan \/ \E k \in DOMAIN queue : queue'[j] = queue[k]
    PROVE  Comes(n)'
  BY DEF Comes

\* The waves and the turn are as they were, and who has yet to come still has.
LEMMA QuietOwed ==
    ASSUME Owed, UNCHANGED <<plan, turn, branch, red>>,
           \A n \in Nodes : Comes(n) => Comes(n)'
    PROVE  Owed'
  <1>1. ASSUME AllBuilt PROVE AllBuilt'
    BY <1>1 DEF AllBuilt, Built, Members
  <1>2. ASSUME Climbing PROVE Climbing'
    BY <1>2 DEF Climbing, Active, Built, Members
  <1> QED
    BY <1>1, <1>2 DEF Owed

LEMMA QuietHolds ==
    ASSUME WaveInv, Placed, Held, UNCHANGED <<plan, turn, branch, red, queue, gaveUp>>,
           NEW n \in Nodes, NEW s \in Pending \cup {"done"}, st' = [st EXCEPT ![n] = s],
           st[n] \in Pending => s \in Pending, n \in plan \/ st[n] # "todo"
    PROVE  Held'
  <1> SUFFICES ASSUME ~gaveUp PROVE Grown' /\ Owed'
    BY DEF Held
  <1>1. Grown /\ Owed
    BY DEF Held
  <1>2. n \in plan
    BY <1>1 DEF Grown
  <1>3. st'[n] = s /\ \A m \in Nodes \ {n} : st'[m] = st[m]
    BY DEF WaveInv, Types
  <1>4. Grown'
    BY <1>1, <1>2, <1>3, StaysGrown DEF Grown
  <1>5. ASSUME NEW m \in Nodes, Comes(m) PROVE Comes(m)'
    BY <1>3, <1>5 DEF Comes
  <1> QED
    BY <1>1, <1>4, <1>5, QuietOwed

LEMMA PhaseHolds ==
    ASSUME WaveInv, Placed, Held, NEW n \in Nodes,
           \/ Work(n) \/ Finish(n) \/ Fail(n) \/ Retry(n) \/ Pause(n) \/ Unpause(n)
           \/ Answer(n) /\ ~Arrives(n)
    PROVE  Held'
  <1>1. CASE Answer(n) /\ ~Arrives(n)
    BY <1>1 DEF Answer, Held
  <1>2. CASE Pause(n) \/ Unpause(n)
    <2>1. UNCHANGED <<plan, turn, branch, red, queue, gaveUp, st>>
      BY <1>2 DEF Pause, Unpause, worktree, git, ghosts
    <2>2. Grown => Grown'
      BY <2>1 DEF Grown, NoGap
    <2>3. \A m \in Nodes : Comes(m) => Comes(m)'
      BY <2>1 DEF Comes
    <2>4. Owed => Owed'
      BY <2>1, <2>3, QuietOwed
    <2> QED
      BY <2>1, <2>2, <2>4 DEF Held
  <1>3. CASE Work(n) \/ Finish(n) \/ Fail(n) \/ Retry(n)
    <2>1. UNCHANGED <<plan, turn, branch, red, queue, gaveUp>>
      BY <1>3 DEF Work, Finish, Fail, Retry, worktree, git, ghosts
    <2>2. \E s \in Pending \cup {"done"} :
            st' = [st EXCEPT ![n] = s] /\ (st[n] \in Pending => s \in Pending) /\ (n \in plan \/ st[n] # "todo")
      BY <1>3 DEF Work, Finish, Fail, Retry, Pending
    <2> QED
      BY <2>1, <2>2, QuietHolds
  <1> QED
    BY <1>1, <1>2, <1>3

\* A phase that commits has its merge before it.
LEMMA CommitHolds ==
    ASSUME WaveInv, Placed, Held, NEW n \in Nodes, Commit(n) PROVE Held'
  <1> SUFFICES ASSUME ~gaveUp PROVE Grown' /\ Owed'
    BY DEF Held, Commit, ghosts
  <1>1. UNCHANGED <<plan, st, queue, turn>> /\ st[n] = "work"
    BY DEF Commit, worktree
  <1>2. Grown
    BY DEF Held
  <1>3. n \in plan /\ ~InQueue(n)
    BY <1>1, <1>2, Elsewhere DEF Grown
  <1>4. Comes(n)'
    BY <1>1, <1>3 DEF Comes, Pending, InQueue
  <1>5. Grown'
    BY <1>1, <1>2 DEF Grown, NoGap
  <1> QED
    BY <1>4, <1>5 DEF Owed

\* A phase that is not in when a wave is counted has its merge before it.
LEMMA NotIn ==
    ASSUME WaveInv, Placed, NEW m \in Nodes, m \in plan, m \notin arrived, st[m] # "done"
    PROVE  Comes(m) /\ st[m] \in {"todo", "work", "failed"} /\ ~InQueue(m)
  <1>1. st[m] \in {"todo", "work", "failed"}
    BY DEF WaveInv, Types, State, Placed, Known
  <1>2. ~InQueue(m)
    <2>1. m # None
      BY NoneAssumption
    <2> QED
      BY <2>1 DEF Placed, Lined, InQueue
  <1> QED
    BY <1>1, <1>2 DEF Comes, Pending, InQueue

\* A phase at its merge joins the queue with the plan as it is, or leaves its wave
\* to one that has yet to come.
LEMMA ArrivesHolds ==
    ASSUME WaveInv, Placed, Held, NEW n \in Nodes, st[n] \in {"work", "asked"}, Arrives(n)
    PROVE  Held'
  <1> SUFFICES ASSUME ~gaveUp PROVE Grown' /\ Owed'
    BY DEF Held, Arrives
  <1>1. Grown
    BY DEF Held
  <1>2. n \in plan /\ ~InQueue(n)
    BY <1>1, Elsewhere DEF Grown
  <1>3. UNCHANGED <<plan, turn, branch, red>> /\ arrived' = arrived \cup {n}
    BY DEF Arrives, git
  <1>4. CASE Complete(plan, Wave[n], arrived')
    <2> DEFINE entry == [node |-> n, priority |-> FALSE, plan |-> plan]
    <2>1. st' = [st EXCEPT ![n] = "queued"] /\ queue' = Append(queue, entry)
      BY <1>2, <1>4 DEF Arrives
    <2>2. entry \in Entry /\ entry.node = n /\ entry.plan = plan
      BY DEF Entry, WaveInv, Types
    <2> HIDE DEF entry
    <2>3. queue \in Seq(Entry) /\ Alone(queue) /\ Absent(queue, entry.node)
      <3>1. Counted \subseteq Entry
        BY DEF Counted
      <3> QED
        BY <1>2, <2>2, <3>1, SeqMonotonic DEF WaveInv, Types, Placed, Lined, InQueue, Absent
    <2>4. \A j \in DOMAIN queue' : queue'[j] = entry \/ \E k \in DOMAIN queue : queue'[j] = queue[k]
      <3>1. \A j \in DOMAIN Append(queue, entry) :
               Append(queue, entry)[j] = entry \/ \E k \in DOMAIN queue : Append(queue, entry)[j] = queue[k]
        BY <2>2, <2>3, Queues
      <3> QED
        BY <2>1, <3>1
    <2>5. st'[n] = "queued" /\ \A m \in Nodes \ {n} : st'[m] = st[m]
      BY <2>1 DEF WaveInv, Types
    <2>6. Comes(n)'
      <3>1. \A j \in DOMAIN queue' : queue'[j].node = n => queue'[j].plan = plan
        BY <1>2, <2>2, <2>4 DEF InQueue
      <3> QED
        BY <1>2, <1>3, <2>5, <3>1 DEF Comes, Pending
    <2>7. Grown'
      <3>1. \A j \in DOMAIN queue' : queue'[j].plan \subseteq plan
        BY <1>1, <2>2, <2>4 DEF Grown
      <3> QED
        BY <1>1, <1>2, <1>3, <2>5, <3>1, StaysGrown DEF Grown
    <2> QED
      BY <2>6, <2>7 DEF Owed
  <1>5. CASE ~Complete(plan, Wave[n], arrived')
    <2>1. st' = [st EXCEPT ![n] = "through"] /\ UNCHANGED queue
      BY <1>5 DEF Arrives
    <2>2. \A m \in Nodes \ {n} : st'[m] = st[m]
      BY <2>1 DEF WaveInv, Types
    <2>3. PICK m \in Members(plan, Wave[n]) : m \notin arrived' /\ st[m] # "done"
      BY <1>2, <1>5 DEF Complete, Members
    <2>4. m \in Nodes \ {n} /\ m \in plan
      BY <1>3, <2>3 DEF Members, WaveInv, Types
    <2>5. Comes(m)
      BY <1>3, <2>3, <2>4, NotIn
    <2>6. Comes(m)'
      BY <1>3, <2>1, <2>2, <2>4, <2>5 DEF Comes
    <2>7. Grown'
      BY <1>1, <1>2, <1>3, <2>1, <2>2, StaysGrown DEF Grown
    <2> QED
      BY <2>4, <2>6, <2>7 DEF Owed
  <1> QED
    BY <1>4, <1>5


LEMMA HoldHolds ==
    ASSUME WaveInv, Placed, Held, NEW priority \in BOOLEAN, Hold(priority) PROVE Held'
  <1> SUFFICES ASSUME ~gaveUp PROVE Grown' /\ Owed'
    BY DEF Held, Hold, ghosts
  <1> DEFINE entry == [node |-> None, priority |-> priority, plan |-> {}]
  <1>1. UNCHANGED <<plan, st, turn, branch, red>>
    BY DEF Hold, git
  <1>2. entry \in Counted /\ entry.node = None /\ entry.plan = {}
    BY DEF Counted, Entry
  <1>3. PICK at \in 1 .. Len(queue) + 1 :
            queue' = SubSeq(queue, 1, at - 1) \o <<entry>> \o SubSeq(queue, at, Len(queue))
    BY DEF Hold
  <1> HIDE DEF entry
  <1>4. \A j \in DOMAIN queue' : queue'[j] = entry \/ \E k \in DOMAIN queue : queue'[j] = queue[k]
    <2>1. queue' = In(queue, at, entry)
      BY <1>3 DEF In
    <2> QED
      BY <1>2, <2>1, Put DEF WaveInv, Types, Placed, Lined
  <1>5. Grown'
    <2>1. \A j \in DOMAIN queue' : queue'[j].plan \subseteq plan
      BY <1>2, <1>4 DEF Held, Grown
    <2> QED
      BY <1>1, <2>1, StaysGrown DEF Held, Grown
  <1>6. ASSUME NEW n \in Nodes, Comes(n) PROVE Comes(n)'
    <2>1. n # None
      BY NoneAssumption
    <2> QED
      BY <1>1, <1>2, <1>4, <1>6, <2>1 DEF Comes
  <1> QED
    BY <1>1, <1>5, <1>6, QuietOwed DEF Held

\* The worktree goes to a hold, or is given back by one.
LEMMA HoldTurnOwed ==
    ASSUME Owed, ~Active, UNCHANGED <<plan, branch, red>>, \A n \in Nodes : Comes(n) => Comes(n)'
    PROVE  Owed'
  <1>1. ~Climbing
    BY DEF Climbing
  <1>2. ASSUME AllBuilt PROVE AllBuilt'
    BY <1>2 DEF AllBuilt, Built, Members
  <1> QED
    BY <1>1, <1>2 DEF Owed

LEMMA HoldEndsHolds ==
    ASSUME WaveInv, Placed, Held, HoldEnds PROVE Held'
  <1> SUFFICES ASSUME ~gaveUp PROVE Grown' /\ Owed'
    BY DEF Held, HoldEnds, ghosts
  <1>1. UNCHANGED <<plan, st, queue, branch, red>> /\ ~Active /\ turn'.plan = {}
    BY DEF HoldEnds, git, Active, Idle
  <1>2. Grown'
    BY <1>1, StaysGrown DEF Held, Grown
  <1>3. \A n \in Nodes : Comes(n) => Comes(n)'
    BY <1>1 DEF Comes
  <1> QED
    BY <1>1, <1>2, <1>3, HoldTurnOwed DEF Held

\* A turn that counted the plan as it is takes over from the phase that waited; one
\* that did not leaves who comes after it.
LEMMA LetInHolds ==
    ASSUME WaveInv, Placed, Held, LetIn PROVE Held'
  <1> SUFFICES ASSUME ~gaveUp PROVE Grown' /\ Owed'
    BY DEF Held, LetIn, ghosts
  <1>1. PICK i \in DOMAIN queue :
             /\ Alone(queue')
             /\ \A j \in DOMAIN queue' : \E k \in DOMAIN queue : k # i /\ queue'[j] = queue[k]
             /\ \A k \in DOMAIN queue : k # i => \E j \in DOMAIN queue' : queue'[j] = queue[k]
             /\ IF queue[i].node = None
                THEN turn' = [Idle EXCEPT !.pc = "held"] /\ UNCHANGED <<st, queued>>
                ELSE /\ turn' = [pc |-> "earlier", node |-> queue[i].node, w |-> Wave[queue[i].node], i |-> 1,
                                 plan |-> queue[i].plan]
                     /\ queued' = queued \ {Wave[queue[i].node]}
                     /\ st' = [st EXCEPT ![queue[i].node] = IF @ = "queued" THEN "turn" ELSE @]
    BY LetInTakes
  <1>2. UNCHANGED <<plan, branch, red>> /\ ~Active
    BY DEF LetIn, git, Active
  <1>3. Grown /\ \A j \in DOMAIN queue' : queue'[j].plan \subseteq plan
    <2>1. Grown
      BY DEF Held
    <2> QED
      BY <1>1, <2>1 DEF Grown
  <1>4. CASE queue[i].node = None
    <2>1. turn'.plan = {} /\ st' = st
      BY <1>1, <1>4 DEF Idle
    <2>2. Grown'
      BY <1>2, <1>3, <2>1, StaysGrown DEF Grown
    <2>3. \A n \in Nodes : Comes(n) => Comes(n)'
      BY <1>1, <1>2, <2>1 DEF Comes
    <2> QED
      BY <1>2, <2>2, <2>3, HoldTurnOwed DEF Held
  <1>5. CASE queue[i].node # None
    <2>1. PICK n \in Nodes : n = queue[i].node /\ n \in plan /\ queue[i].plan \subseteq plan
      BY <1>3, <1>5, WaitsInPlan
    <2>2. /\ turn'.pc = "earlier" /\ turn'.node = n /\ turn'.i = 1 /\ turn'.plan = queue[i].plan
          /\ st' = [st EXCEPT ![n] = IF @ = "queued" THEN "turn" ELSE @]
      BY <1>1, <1>5, <2>1
    <2>3. \A m \in Nodes \ {n} : st'[m] = st[m]
      BY <2>2 DEF WaveInv, Types
    <2>4. Grown'
      BY <1>2, <1>3, <2>1, <2>2, <2>3, StaysGrown DEF Grown
    <2>5. ASSUME NEW m \in Nodes \ {n}, Comes(m) PROVE Comes(m)'
      BY <1>1, <1>2, <2>3, <2>5 DEF Comes
    <2>6. CASE queue[i].plan = plan
      <3>1. \A v \in Waves : ~(v < 1)
        BY WavesAreNumbers
      <3>2. Climbing'
        BY <1>2, <2>2, <2>6, <3>1 DEF Climbing, Active
      <3> QED
        BY <2>4, <3>2 DEF Owed
    <2>7. CASE queue[i].plan # plan
      <3>1. ~Comes(n)
        BY <2>1, <2>7 DEF Comes
      <3>2. \A m \in Nodes : Comes(m) => Comes(m)'
        BY <2>5, <3>1
      <3> QED
        BY <1>2, <2>4, <3>2, HoldTurnOwed DEF Held
    <2> QED
      BY <2>6, <2>7
  <1> QED
    BY <1>4, <1>5

----------------------------------------------------------------------------
(* What a turn owes *)

\* A turn that goes on leaves who has yet to come.
LEMMA ToKeeps ==
    ASSUME WaveInv, Placed, Held, ~gaveUp, NEW pc, NEW i, To(pc, i), UNCHANGED <<plan, st, queue>>
    PROVE  /\ Grown'
           /\ turn'.pc = pc /\ turn'.i = i /\ turn'.plan = turn.plan
           /\ \A n \in Nodes : Comes(n) => Comes(n)'
  <1>1. turn'.pc = pc /\ turn'.i = i /\ turn'.plan = turn.plan
    BY DEF To, WaveInv, Types
  <1>2. Grown'
    BY <1>1, StaysGrown DEF Held, Grown
  <1> QED
    BY <1>1, <1>2 DEF Comes

\* A turn that ends takes its own phase only with it.
LEMMA EndKeeps ==
    ASSUME WaveInv, Placed, Held, ~gaveUp, Active, NEW now \in {"through", "asked", "work"}, TurnEnds(now),
           UNCHANGED <<plan, queue>>
    PROVE  /\ Grown' /\ ~Active'
           /\ \A n \in Nodes : Comes(n) => Comes(n)'
           /\ now # "through" => Owed'
  <1>1. PICK n \in Nodes : n = turn.node /\ n \in plan /\ n # None
    BY TurnInPlan DEF Held
  <1>2. /\ turn'.pc = "idle" /\ turn'.plan = {} /\ ~Active'
        /\ st' = [st EXCEPT ![n] = IF @ = "turn" THEN now ELSE @]
        /\ st[n] \in {"turn", "failed"}
    BY <1>1 DEF Placed, Manned, TurnEnds, Idle, Active
  <1>3. st'[n] \in {now, "failed"} /\ \A m \in Nodes \ {n} : st'[m] = st[m]
    BY <1>2 DEF WaveInv, Types
  <1>4. Grown'
    BY <1>1, <1>2, <1>3, StaysGrown DEF Held, Grown
  <1>5. ASSUME NEW m \in Nodes, Comes(m) PROVE Comes(m)'
    <2>1. st'[m] \in Pending
      BY <1>2, <1>3, <1>5 DEF Comes, Pending, WaveInv, Types
    <2> QED
      BY <1>5, <2>1 DEF Comes
  <1>6. ASSUME now # "through" PROVE Comes(n)'
    <2>1. \A j \in DOMAIN queue : queue[j].node # n
      BY <1>1 DEF Placed, Lined
    <2> QED
      BY <1>1, <1>3, <1>6, <2>1 DEF Comes, Pending
  <1> QED
    BY <1>2, <1>4, <1>5, <1>6 DEF Owed

\* A wave of the plan that is not in, or whose turn waits with the plan as it is, is
\* somebody's who comes.
LEMMA LeftComes ==
    ASSUME WaveInv, Placed, Grown, turn.plan = plan, NEW w, Members(plan, w) # {},
           ~Complete(plan, w, arrived) \/ (w \in queued /\ ~LeftToOlder(w))
    PROVE  \E n \in Nodes : Comes(n)
  <1>1. CASE ~Complete(plan, w, arrived)
    <2>1. PICK m \in Members(plan, w) : m \notin arrived /\ st[m] # "done"
      BY <1>1 DEF Complete
    <2>2. m \in Nodes /\ m \in plan
      BY <2>1 DEF Members, WaveInv, Types
    <2> QED
      BY <2>1, <2>2, NotIn
  <1>2. CASE w \in queued /\ ~LeftToOlder(w)
    <2>1. PICK i \in DOMAIN queue : queue[i].node # None /\ Wave[queue[i].node] = w
      BY <1>2 DEF Placed, Flagged
    <2>2. queue[i].node \in plan /\ queue[i].node \in Nodes /\ queue[i].plan \subseteq plan
      BY <2>1, WaitsInPlan
    <2>3. queue[i].plan = plan
      BY <1>2, <2>1, <2>2 DEF LeftToOlder
    <2>4. \A j \in DOMAIN queue : queue[j].node = queue[i].node => queue[j].plan = plan
      BY <2>1, <2>3 DEF Placed, Lined, Alone
    <2>5. st[queue[i].node] \in Pending
      BY <2>1 DEF Placed, Lined, Pending
    <2>6. Comes(queue[i].node)
      BY <2>2, <2>4, <2>5 DEF Comes
    <2> QED
      BY <2>2, <2>6
  <1> QED
    BY <1>1, <1>2

\* Every wave up to one of the plan has members in it.
LEMMA NoGapBelow ==
    ASSUME Grown, NEW w \in Waves, Members(plan, w) # {}, NEW v \in Nat, v >= 1, v <= w
    PROVE  Members(plan, v) # {}
  <1>1. PICK n \in plan : Wave[n] = w
    BY DEF Members
  <1>2. v \in 1 .. Wave[n]
    BY <1>1, WavesAreNumbers
  <1> QED
    BY <1>2 DEF Grown, NoGap, Members

LEMMA BuiltLess ==
    ASSUME NEW p, NEW q, p \subseteq q, NEW w, Built(q, w) PROVE Built(p, w)
  BY DEF Built, Members

\* A turn goes from a wave that is built to the one above it.
LEMMA PassesHolds ==
    ASSUME WaveInv, Rising, Placed, Held, ~gaveUp, Active, turn.pc # "gates", NEW pc \in {"earlier", "later"},
           Built(turn.plan, turn.i), To(pc, turn.i + 1), UNCHANGED <<plan, st, queue, branch, red>>
    PROVE  Grown' /\ Owed'
  <1>1. /\ Grown' /\ turn'.pc = pc /\ turn'.i = turn.i + 1 /\ turn'.plan = turn.plan
        /\ \A n \in Nodes : Comes(n) => Comes(n)'
    BY ToKeeps
  <1>2. ASSUME AllBuilt PROVE AllBuilt'
    BY <1>2 DEF AllBuilt, Built, Members
  <1>3. ASSUME Climbing PROVE Climbing'
    <2>1. ASSUME NEW v \in Waves, v < turn.i + 1, Members(plan, v) # {} PROVE Built(plan, v)
      <3>1. turn.i \in Nat /\ v \in Nat
        BY WavesAreNumbers DEF WaveInv, Types
      <3>2. v < turn.i \/ v = turn.i
        BY <2>1, <3>1
      <3> QED
        BY <1>3, <2>1, <3>2 DEF Climbing
    <2> QED
      BY <1>1, <1>3, <2>1 DEF Climbing, Active, Built, Members
  <1> QED
    BY <1>1, <1>2, <1>3 DEF Held, Owed

\* It stops at one that is not.
LEMMA StopsHolds ==
    ASSUME WaveInv, Placed, Held, ~gaveUp, Active, turn.pc # "gates", To("merge", turn.i),
           UNCHANGED <<plan, st, queue, branch, red>>
    PROVE  Grown' /\ Owed'
  <1>1. /\ Grown' /\ turn'.pc = "merge" /\ turn'.i = turn.i /\ turn'.plan = turn.plan
        /\ \A n \in Nodes : Comes(n) => Comes(n)'
    BY ToKeeps
  <1>2. ASSUME AllBuilt PROVE AllBuilt'
    BY <1>2 DEF AllBuilt, Built, Members
  <1>3. ASSUME Climbing PROVE Climbing'
    BY <1>1, <1>3 DEF Climbing, Active, Built, Members
  <1> QED
    BY <1>1, <1>2, <1>3 DEF Held, Owed

\* A turn that leaves the rest to others, with every wave built or one to come.
LEMMA LeavesHolds ==
    ASSUME WaveInv, Placed, Held, ~gaveUp, Active, TurnEnds("through"),
           UNCHANGED <<plan, queue, branch, red>>,
           Climbing => AllBuilt \/ \E n \in Nodes : Comes(n)
    PROVE  Grown' /\ Owed'
  <1>1. Grown' /\ \A n \in Nodes : Comes(n) => Comes(n)'
    BY EndKeeps
  <1>2. ASSUME AllBuilt PROVE AllBuilt'
    BY <1>2 DEF AllBuilt, Built, Members
  <1> QED
    BY <1>1, <1>2 DEF Held, Owed

LEMMA EarlierHolds ==
    ASSUME WaveInv, Rising, Placed, Held, Earlier PROVE Held'
  <1> SUFFICES ASSUME ~gaveUp' PROVE Grown' /\ Owed'
    BY DEF Held
  <1>1. /\ ~gaveUp /\ Active /\ turn.pc = "earlier" /\ UNCHANGED <<plan, queue, branch, red>>
        /\ turn'.pc = "idle" => ~LeftToOlder(turn.i)
    BY DEF Earlier, Leaves, Active, git
  <1>2. CASE Built(turn.plan, turn.i) /\ To("earlier", turn.i + 1) /\ UNCHANGED st
    BY <1>1, <1>2, PassesHolds
  <1>3. CASE To("merge", turn.i) /\ UNCHANGED st
    BY <1>1, <1>3, StopsHolds
  <1>4. CASE /\ TurnEnds("through") /\ turn.i < turn.w
             /\ ~Complete(turn.plan, turn.i, arrived) \/ turn.i \in queued
    <2>1. ~LeftToOlder(turn.i)
      BY <1>1, <1>4 DEF TurnEnds, Idle
    <2>2. ASSUME Climbing PROVE \E n \in Nodes : Comes(n)
      <3>1. turn.plan = plan /\ Grown
        BY <1>1, <2>2 DEF Climbing, Held
      <3>2. turn.w \in Waves /\ turn.i \in Nat /\ turn.i >= 1 /\ turn.i <= turn.w
        BY <1>1 DEF Rising, Climbs, WaveInv, Types
      <3>3. Members(plan, turn.w) # {}
        BY <1>1, <3>1 DEF Placed, Manned, Members
      <3>4. Members(plan, turn.i) # {}
        BY <3>1, <3>2, <3>3, NoGapBelow
      <3> QED
        BY <1>4, <2>1, <3>1, <3>4, LeftComes
    <2> QED
      BY <1>1, <1>4, <2>2, LeavesHolds
  <1> QED
    BY <1>2, <1>3, <1>4 DEF Earlier

LEMMA LaterHolds ==
    ASSUME WaveInv, Rising, Placed, Held, Later PROVE Held'
  <1> SUFFICES ASSUME ~gaveUp' PROVE Grown' /\ Owed'
    BY DEF Held
  <1>1. /\ ~gaveUp /\ Active /\ turn.pc = "later" /\ UNCHANGED <<plan, queue, branch, red>>
        /\ turn'.pc = "idle" => ~LeftToOlder(turn.i)
    BY DEF Later, Leaves, Active, git
  <1>2. CASE Built(turn.plan, turn.i) /\ To("later", turn.i + 1) /\ UNCHANGED st
    BY <1>1, <1>2, PassesHolds
  <1>3. CASE To("merge", turn.i) /\ UNCHANGED st
    BY <1>1, <1>3, StopsHolds
  <1>4. CASE TurnEnds("through") /\ ~Above(turn.i)
    <2>1. ~LeftToOlder(turn.i)
      BY <1>1, <1>4 DEF TurnEnds, Idle
    <2>2. ASSUME Climbing PROVE AllBuilt \/ \E n \in Nodes : Comes(n)
      <3>1. turn.plan = plan /\ Grown
        BY <1>1, <2>2 DEF Climbing, Held
      <3>2. turn.i \in Nat /\ turn.i >= 1
        BY <1>1 DEF Rising, Climbs, WaveInv, Types
      <3>3. CASE Members(plan, turn.i) # {}
        <4>1. turn.i \in Waves
          BY <3>3 DEF Members, Waves, WaveInv, Types
        <4> QED
          BY <1>4, <2>1, <3>1, <3>3, <4>1, LeftComes DEF Above
      <3>4. CASE Members(plan, turn.i) = {}
        <4> SUFFICES ASSUME NEW w \in Waves, Members(plan, w) # {} PROVE Built(plan, w)
          BY DEF AllBuilt
        <4>1. w \in Nat /\ ~(turn.i <= w)
          BY <3>1, <3>2, <3>4, NoGapBelow, WavesAreNumbers
        <4>2. w < turn.i
          BY <3>2, <4>1
        <4> QED
          BY <2>2, <4>2 DEF Climbing
      <3> QED
        BY <3>3, <3>4
    <2> QED
      BY <1>1, <1>4, <2>2, LeavesHolds
  <1> QED
    BY <1>2, <1>3, <1>4 DEF Later

\* A merge puts the members of the plan in, and moves no wave below; when every
\* wave is built it moves none.
LEMMA MergeHolds ==
    ASSUME WaveInv, Rising, Placed, Held, Merge PROVE Held'
  <1> SUFFICES ASSUME ~gaveUp PROVE Grown' /\ Owed'
    BY DEF Held, Merge, ghosts
  <1> DEFINE i == turn.i
             has == HasNow(i) \cup Members(turn.plan, i)
  <1>1. /\ Active /\ turn.pc = "merge" /\ UNCHANGED <<plan, st, queue, red>> /\ To("gates", i) /\ Moved(i, has)
    BY DEF Merge, Active
  <1>2. /\ Grown' /\ turn'.pc = "gates" /\ turn'.i = i /\ turn'.plan = turn.plan
        /\ \A n \in Nodes : Comes(n) => Comes(n)'
    BY <1>1, ToKeeps
  <1>3. i \in Waves /\ i \in Nat /\ i >= 1 /\ Members(turn.plan, i) # {} /\ turn.plan \subseteq plan
    BY <1>1, WavesAreNumbers DEF Rising, Climbs, Placed, Manned, Held, Grown
  <1>4. branch'[i] = [made |-> TRUE, on |-> i > 1, has |-> has]
    BY <1>1, <1>3 DEF Moved
  <1>5. ASSUME AllBuilt PROVE AllBuilt'
    <2>1. Members(turn.plan, i) \subseteq Members(plan, i)
      BY <1>3 DEF Members
    <2>2. Built(plan, i)
      BY <1>3, <1>5, <2>1 DEF AllBuilt
    <2>3. Kept(i) /\ has = branch[i].has
      BY <2>1, <2>2 DEF Built, Kept, HasNow
    <2>4. \A v \in Waves \ {i} : branch'[v] = branch[v]
      BY <1>1, <2>3 DEF Moved
    <2> SUFFICES ASSUME NEW v \in Waves, Members(plan, v) # {} PROVE Built(plan, v)'
      BY <1>1 DEF AllBuilt, Members
    <2>5. Built(plan, v)
      BY <1>5 DEF AllBuilt
    <2>6. CASE v = i
      <3>1. branch'[v].made /\ branch'[v].on = (v > 1) /\ branch'[v].has = branch[v].has
        <4>1. branch'[i].made /\ branch'[i].on = (i > 1) /\ branch'[i].has = has
          BY <1>4
        <4> HIDE DEF has
        <4> QED
          BY <2>3, <2>6, <4>1
      <3> QED
        BY <1>1, <2>5, <3>1 DEF Built, Members
    <2>7. CASE v # i
      BY <1>1, <2>4, <2>5, <2>7 DEF Built, Members
    <2> QED
      BY <2>6, <2>7
  <1>6. ASSUME Climbing PROVE Climbing'
    <2>1. ASSUME NEW v \in Waves, v < i, Members(plan, v) # {} PROVE Built(plan, v)'
      <3>1. v # i /\ v # i + 1
        BY <1>3, <2>1, WavesAreNumbers
      <3>2. branch'[v] = branch[v]
        BY <1>1, <3>1 DEF Moved
      <3> QED
        BY <1>1, <1>6, <2>1, <3>2 DEF Climbing, Built, Members
    <2>2. Members(plan, i) \subseteq branch'[i].has
      BY <1>4, <1>6 DEF Climbing
    <2> QED
      BY <1>1, <1>2, <1>6, <2>1, <2>2 DEF Climbing, Active, Members
  <1> QED
    BY <1>2, <1>5, <1>6 DEF Held, Owed

\* A turn that fails leaves its own phase to come again.
LEMMA FailsHolds ==
    ASSUME WaveInv, Placed, Held, MergeFails \/ MergeRefused \/ NotGreen PROVE Held'
  <1>1. /\ Active /\ UNCHANGED <<plan, queue, gaveUp>>
        /\ \E now \in {"asked", "work"} : TurnEnds(now)
    BY DEF MergeFails, MergeRefused, NotGreen, Active, ghosts
  <1>2. PICK now \in {"asked", "work"} : TurnEnds(now)
    BY <1>1
  <1>3. ASSUME ~gaveUp PROVE Grown' /\ Owed'
    BY <1>1, <1>2, <1>3, EndKeeps
  <1> QED
    BY <1>1, <1>3 DEF Held

LEMMA GreenHolds ==
    ASSUME WaveInv, Rising, Placed, Held, Green PROVE Held'
  <1> SUFFICES ASSUME ~gaveUp PROVE Grown' /\ Owed'
    BY DEF Held, Green, ghosts
  <1> DEFINE i == turn.i
  <1>1. /\ turn.pc = "gates" /\ UNCHANGED <<plan, st, queue, branch>> /\ red' = red \ {i}
        /\ \E pc \in {"earlier", "later"} : To(pc, i + 1)
    BY DEF Green, Next_
  <1>2. PICK pc \in {"earlier", "later"} : To(pc, i + 1)
    BY <1>1
  <1>3. /\ Grown' /\ turn'.pc = pc /\ turn'.i = i + 1 /\ turn'.plan = turn.plan
        /\ \A n \in Nodes : Comes(n) => Comes(n)'
    BY <1>1, <1>2, ToKeeps
  <1>4. ASSUME AllBuilt PROVE AllBuilt'
    BY <1>1, <1>4 DEF AllBuilt, Built, Members
  <1>5. ASSUME Climbing PROVE Climbing'
    <2>1. ASSUME NEW v \in Waves, v < i + 1, Members(plan, v) # {} PROVE Built(plan, v)'
      <3>1. i \in Nat /\ v \in Nat
        BY WavesAreNumbers DEF WaveInv, Types
      <3>2. CASE v < i
        BY <1>1, <1>5, <2>1, <3>2 DEF Climbing, Built, Members
      <3>3. CASE v = i
        BY <1>1, <1>5, <3>1, <3>3 DEF Climbing, Built, Members, Rising, Climbs
      <3> QED
        BY <2>1, <3>1, <3>2, <3>3
    <2> QED
      BY <1>1, <1>3, <1>5, <2>1 DEF Climbing, Active, Members
  <1> QED
    BY <1>3, <1>4, <1>5 DEF Held, Owed

----------------------------------------------------------------------------

\* Nobody comes and nobody is in the worktree when every phase is done.
LEMMA AllDone ==
    ASSUME WaveInv, Placed, Held, ~gaveUp, \A n \in plan : st[n] = "done"
    PROVE  AllBuilt
  <1>1. \A n \in Nodes : ~Comes(n)
    BY DEF Comes, Pending
  <1>2. ~Climbing
    <2> SUFFICES ASSUME Active PROVE FALSE
      BY DEF Climbing
    <2>1. turn.node \in plan
      BY TurnInPlan DEF Held
    <2> QED
      BY <2>1 DEF Placed, Manned
  <1> QED
    BY <1>1, <1>2 DEF Held, Owed

LEMMA KillHolds ==
    ASSUME WaveInv, Placed, Held, Kill PROVE Held'
  <1> SUFFICES ASSUME ~gaveUp PROVE Grown' /\ Owed'
    BY DEF Held, Kill, ghosts
  <1>1. /\ UNCHANGED <<plan, branch, red>> /\ queue' = <<>> /\ turn'.plan = {}
        /\ \A n \in Nodes : st'[n] = IF st[n] = "done" THEN "done" ELSE "todo"
    BY DEF Kill, Idle
  <1>2. Grown'
    BY <1>1 DEF Held, Grown, NoGap
  <1>3. CASE \E n \in plan : st[n] # "done"
    <2>1. PICK n \in plan : st[n] # "done"
      BY <1>3
    <2>2. n \in Nodes /\ Comes(n)'
      BY <1>1, <2>1 DEF Comes, Pending, WaveInv, Types
    <2> QED
      BY <1>2, <2>2 DEF Owed
  <1>4. CASE \A n \in plan : st[n] = "done"
    <2>1. AllBuilt
      BY <1>4, AllDone
    <2>2. AllBuilt'
      BY <1>1, <2>1 DEF AllBuilt, Built, Members
    <2> QED
      BY <1>2, <2>2 DEF Owed
  <1> QED
    BY <1>3, <1>4

\* A phase that is added has its merge before it.
LEMMA AdoptHolds ==
    ASSUME WaveInv, Placed, Held, Adopt PROVE Held'
  <1> SUFFICES ASSUME ~gaveUp' PROVE Grown' /\ Owed'
    BY DEF Held
  <1>1. PICK n \in Late \ plan : NoGap(plan \cup {n}) /\ plan' = plan \cup {n} /\ UNCHANGED gaveUp
    BY DEF Adopt
  <1>2. UNCHANGED <<st, queue, turn>>
    BY DEF Adopt, worktree
  <1>3. Grown /\ n \in Nodes /\ st[n] = "todo"
    <2>1. n \in Nodes
      BY LateAssumption
    <2> QED
      BY <1>1, <2>1 DEF Held, Grown
  <1>4. Grown'
    <2>1. NoGap(plan')
      BY <1>1
    <2> QED
      BY <1>1, <1>2, <1>3, <2>1 DEF Grown, NoGap
  <1>5. Comes(n)'
    <2>1. ~InQueue(n)
      BY <1>3, Elsewhere
    <2> QED
      BY <1>1, <1>2, <1>3, <2>1 DEF Comes, Pending, InQueue
  <1> QED
    BY <1>3, <1>4, <1>5 DEF Owed

LEMMA StepHolds ==
    ASSUME WaveInv, Rising, Placed, Held, [Next]_vars PROVE Held'
  <1>1. ASSUME NEW n \in Nodes, Arrive(n) \/ Answer(n) PROVE Held'
    <2>1. CASE Arrives(n)
      <3>1. st[n] \in {"work", "asked"}
        BY <1>1 DEF Arrive, Answer
      <3> QED
        BY <2>1, <3>1, ArrivesHolds
    <2>2. CASE ~Arrives(n)
      BY <1>1, <2>2, PhaseHolds DEF Arrive
    <2> QED
      BY <2>1, <2>2
  <1>2. ASSUME NEW n \in Nodes, Work(n) \/ Finish(n) \/ Fail(n) \/ Retry(n) \/ Pause(n) \/ Unpause(n)
        PROVE  Held'
    BY <1>2, PhaseHolds
  <1>3. ASSUME UNCHANGED vars PROVE Held'
    <2>1. UNCHANGED <<plan, st, queue, turn, branch, red, gaveUp>>
      BY <1>3 DEF vars
    <2>2. Grown => Grown'
      BY <2>1 DEF Grown, NoGap
    <2>3. \A m \in Nodes : Comes(m) => Comes(m)'
      BY <2>1 DEF Comes
    <2>4. Owed => Owed'
      BY <2>1, <2>3, QuietOwed
    <2> QED
      BY <2>1, <2>2, <2>4 DEF Held
  <1>4. ASSUME Turn PROVE Held'
    BY <1>4, EarlierHolds, LaterHolds, MergeHolds, FailsHolds, GreenHolds, HoldEndsHolds DEF Turn
  <1> QED
    BY <1>1, <1>2, <1>3, <1>4, CommitHolds, LetInHolds, HoldHolds, KillHolds, AdoptHolds DEF Next

\* When every phase of the plan is done every wave of it is built, on the wave
\* below, of every phase in it and not red, through restarts, deferrals, waves that
\* complete out of order and phases an amendment adds, unless a wave was skipped, a
\* phase removed or a wave left to a turn that counted an older plan (#buildWaves,
\* #waveBuilt, #queuedBuilds).
THEOREM EveryWaveIsBuilt ==
    Spec => []DoneIsBuilt
  <1>1. (WaveInv /\ Rising /\ Placed /\ Held) /\ [Next]_vars => (WaveInv /\ Rising /\ Placed /\ Held)'
    BY StepInv, StepRises, StepPlaces, StepHolds
  <1>2. Init => WaveInv /\ Rising /\ Placed /\ Held
    BY InitInv, InitRises, InitPlaced, InitHolds
  <1>3. WaveInv /\ Rising /\ Placed /\ Held => DoneIsBuilt
    BY PlacedTypes, AllDone DEF DoneIsBuilt, AtRest, AllBuilt
  <1> QED
    BY <1>1, <1>2, <1>3, PTL DEF Spec
=============================================================================
