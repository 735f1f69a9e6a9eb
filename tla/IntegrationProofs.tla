------------------------- MODULE IntegrationProofs -------------------------
(***************************************************************************)
(* What Integration guarantees for every set of phases and branches, every   *)
(* bound on the rounds, and any number of turns, kills, moves and operators.  *)
(***************************************************************************)
EXTENDS Integration, TLAPS, SequenceTheorems, WellFoundedInduction

Commits == [src : Sources \cup {None}, tip : Tips, by : {"integrator", "kept", "other"}, ok : BOOLEAN,
            edited : BOOLEAN]
Pending == [src : Sources, tip : Tips]
Heads == (Sources \X Tips) \cup (Branches \X Nat \X Nat)
Trees == {"clean", "markers", "red", "green"}
Resolutions == [head : Heads, tip : Tips, src : Sources, tree : Trees]
Refused == [head : Heads, tip : Tips, src : Sources, tree : Trees, edited : BOOLEAN]
Builds == [made : BOOLEAN, build : Nat, under : Tips, cut : Tips, ins : Seq(Commits)]
Places == [on : Branches \cup {None}, merging : Pending \cup {None}, tree : Trees, foreign : BOOLEAN]
Turns == [pc : {"idle", "down", "next", "settle", "round", "fixing", "judge", "commit", "ask"},
          b : Branches \cup {Idle.b}, sync : BOOLEAN, todo : Seq(Sources), seen : [Sources -> Tips],
          from : {"none", "git", "previous", "fixer"}, round : Nat, limit : Nat,
          stale : BOOLEAN, fix : {"none", "replayed", "broke"}, edited : SUBSET {"hook", "operator"}]

Types ==
    /\ tip \in [Sources -> Tips]
    /\ branch \in [Branches -> Builds]
    /\ wt \in Places
    /\ kept \in [Phases -> Refused \cup {None}]
    /\ abandoned \in [Branches -> Resolutions \cup {None}]
    /\ turn \in Turns

\* A turn is in the worktree.
AtWork == turn.pc \notin {"idle", "down"}

\* The worktree is where the turn is, and has a merge in it only while one of
\* the turn's is not concluded.
Placed ==
    /\ wt.merging # None => wt.tree # "clean" /\ wt.on \in Branches /\ ~wt.foreign
    /\ AtWork => turn.b \in Branches /\ wt.on = turn.b /\ ~wt.foreign
    /\ turn.pc = "next" => wt.merging = None
    /\ AtWork /\ turn.pc # "next" => turn.todo # <<>>
    /\ turn.pc \in {"commit", "ask"} => wt.tree # "markers" /\ (~Edited => wt.tree = "green")

\* What a turn merges is the plan branch, or phases.
Todo ==
    AtWork => IF turn.sync THEN Under[turn.b] = Base /\ \A i \in DOMAIN turn.todo : turn.todo[i] = Base
              ELSE \A i \in DOMAIN turn.todo : turn.todo[i] \in Phases

Rounds == turn.round <= turn.limit /\ turn.limit = MaxFixRounds + (IF turn.stale THEN 1 ELSE 0)

\* What is being merged is still in its branch, and is what the turn is at.
StillThere ==
    /\ wt.merging # None => Covers(wt.merging.tip, tip[wt.merging.src])
    /\ AtWork /\ wt.merging # None =>
          wt.merging.src = Incoming /\ Covers(turn.seen[wt.merging.src], wt.merging.tip)
    /\ AtWork => \A s \in Sources : Covers(turn.seen[s], tip[s])

\* What was kept from a refused commit had passed the gates, unless it was edited
\* since, and what was taken down had something in it.
Saved ==
    /\ \A p \in Phases : kept[p] # None /\ ~kept[p].edited => kept[p].tree = "green"
    /\ \A b \in Branches : abandoned[b] # None => abandoned[b].tree # "clean"

\* A merge that nothing was said about is of the plan branch, which has moved.
Standing ==
    turn.pc = "idle" /\ wt.merging # None /\ out \notin {"unresolved", "failed"} =>
        wt.merging.src = Base /\ wt.merging.tip.at < tip[Base].at

Members(t) == IF t.sync THEN {Base} ELSE {Under[t.b]} \cup {Rest[t.b][i] : i \in DOMAIN Rest[t.b]}

Queued(todo, s) == \E i \in DOMAIN todo : todo[i] = s
Squashed(b) == \E e \in Entries(b) : e.by = "integrator" /\ e.src = None

\* A member is still to be merged, or is there, or was squashed.
Whole ==
    AtWork => Squashed(turn.b) \/ \A s \in Members(turn) : Queued(turn.todo, s) \/ Has(turn.b, s, turn.seen[s])

\* Nothing is there of a history its phase no longer has.
Fresh(e) == e.src \in Phases => e.tip.gen = tip[e.src].gen
Current == AtWork /\ ~turn.sync => \A e \in Merges(turn.b) : Fresh(e)

\* The inductive invariant.
IntegrationInv ==
    /\ Types /\ Placed /\ Todo /\ Rounds /\ StillThere /\ Saved /\ Standing /\ Whole /\ Current
    /\ CommittedIsJudged

----------------------------------------------------------------------------
(* Tips, commits and turns *)

LEMMA CoversOrder ==
    /\ \A t \in Tips : Covers(t, t)
    /\ \A t, u, v \in Tips : Covers(t, u) /\ Covers(u, v) => Covers(t, v)
  BY DEF Covers, Tips

LEMMA NoTipType == NoTip \in Tips
  BY DEF NoTip, Tips

LEMMA IdleIs ==
    /\ Idle \in Turns /\ Idle.pc = "idle" /\ Idle.round = 0 /\ Idle.limit = MaxFixRounds /\ ~Idle.stale
    /\ DOMAIN Idle = {"pc", "b", "sync", "todo", "seen", "from", "round", "limit", "stale", "fix", "edited"}
  <1>1. PICK c : c = CHOOSE b \in Branches : TRUE
    OBVIOUS
  <1>2. Idle = [pc |-> "idle", b |-> c, sync |-> FALSE, todo |-> <<>>,
                seen |-> [s \in Sources |-> NoTip], from |-> "none", round |-> 0, limit |-> MaxFixRounds,
                stale |-> FALSE, fix |-> "none", edited |-> {}]
    BY <1>1 DEF Idle
  <1>3. [s \in Sources |-> NoTip] \in [Sources -> Tips] /\ <<>> \in Seq(Sources) /\ MaxFixRounds \in Nat
    BY NoTipType, EmptySeq, RoundsAssumption
  <1>4. Idle.b = c
    BY <1>2
  <1> QED
    BY <1>2, <1>3, <1>4 DEF Turns

LEMMA HeadOfType ==
    ASSUME branch \in [Branches -> Builds], NEW b \in Branches PROVE HeadOf(b) \in Heads
  <1>1. branch[b] \in Builds /\ Under[b] \in Sources
    BY UnderAssumption
  <1>2. Len(branch[b].ins) \in Nat
    BY <1>1, LenProperties DEF Builds
  <1> QED
    BY <1>1, <1>2 DEF HeadOf, Heads, Builds

\* A commit is added to its branch, and to no other.
LEMMA CommittedIs ==
    ASSUME branch \in [Branches -> Builds], NEW b \in Branches, NEW e \in Commits, branch' = Committed(b, e)
    PROVE  /\ branch' \in [Branches -> Builds]
           /\ branch'[b].under = branch[b].under
           /\ Entries(b)' = Entries(b) \cup {e}
           /\ \A c \in Branches \ {b} : branch'[c] = branch[c] /\ Entries(c)' = Entries(c)
  <1> DEFINE old == branch[b].ins
             new == Append(old, e)
  <1>1. old \in Seq(Commits)
    BY DEF Builds
  <1>2. /\ new \in Seq(Commits) /\ Len(new) = Len(old) + 1 /\ new[Len(new)] = e
        /\ \A i \in 1 .. Len(old) : new[i] = old[i]
        /\ DOMAIN new = 1 .. Len(new) /\ DOMAIN old = 1 .. Len(old) /\ Len(old) \in Nat
    <2> HIDE DEF old
    <2> QED
      BY <1>1, AppendProperties, LenProperties
  <1>3. branch' = [branch EXCEPT ![b] = [branch[b] EXCEPT !.ins = new]]
    BY DEF Committed
  <1> HIDE DEF new, old
  <1>4. [branch[b] EXCEPT !.ins = new] \in Builds /\ [branch[b] EXCEPT !.ins = new].ins = new
        /\ [branch[b] EXCEPT !.ins = new].under = branch[b].under
    BY <1>2 DEF Builds
  <1>5. branch' \in [Branches -> Builds] /\ branch'[b].under = branch[b].under /\ branch'[b].ins = new
        /\ \A c \in Branches \ {b} : branch'[c] = branch[c]
    BY <1>3, <1>4
  <1>6. Entries(b)' = {new[i] : i \in DOMAIN new}
    BY <1>5 DEF Entries
  <1>7. Entries(b) = {old[i] : i \in DOMAIN old}
    BY DEF Entries, old
  <1>8. {new[i] : i \in DOMAIN new} = {old[i] : i \in DOMAIN old} \cup {e}
    BY <1>2
  <1>9. \A c \in Branches \ {b} : Entries(c)' = Entries(c)
    BY <1>5 DEF Entries
  <1> QED
    BY <1>5, <1>6, <1>7, <1>8, <1>9


\* What a turn adds to its branch: nothing the gates have not passed on when
\* the integrator made it of what they were run on, nothing of a history its phase no longer has.
Sound(e) == (e.by \in {"integrator", "kept"} /\ ~e.edited => e.ok) /\ Fresh(e)
Grows(b) == branch' = branch \/ \E e \in Commits : Sound(e) /\ branch' = Committed(b, e)

LEMMA GrowsIs ==
    ASSUME Types, CommittedIsJudged, NEW b \in Branches, Grows(b)
    PROVE  /\ branch' \in [Branches -> Builds] /\ CommittedIsJudged'
           /\ branch'[b].under = branch[b].under
           /\ Entries(b) \subseteq Entries(b)' /\ \A e \in Entries(b)' \ Entries(b) : Sound(e)
  <1>1. CASE branch' = branch
    BY <1>1 DEF Types, CommittedIsJudged, Entries
  <1>2. ASSUME NEW e \in Commits, Sound(e), branch' = Committed(b, e)
        PROVE  /\ branch' \in [Branches -> Builds] /\ CommittedIsJudged'
               /\ branch'[b].under = branch[b].under
               /\ Entries(b) \subseteq Entries(b)' /\ \A d \in Entries(b)' \ Entries(b) : Sound(d)
    <2>1. /\ branch' \in [Branches -> Builds] /\ branch'[b].under = branch[b].under
          /\ Entries(b)' = Entries(b) \cup {e}
          /\ \A c \in Branches \ {b} : Entries(c)' = Entries(c)
      BY <1>2, CommittedIs DEF Types
    <2>2. CommittedIsJudged'
      BY <1>2, <2>1 DEF CommittedIsJudged, Sound
    <2> QED
      BY <1>2, <2>1, <2>2
  <1> QED
    BY <1>1, <1>2 DEF Grows

\* What is in a branch stays there while the branch grows.
LEMMA HasStays ==
    ASSUME NEW b, branch'[b].under = branch[b].under, Entries(b) \subseteq Entries(b)'
    PROVE  /\ \A s, t : Has(b, s, t) => Has(b, s, t)'
           /\ Squashed(b) => Squashed(b)'
  <1>1. Merges(b) \subseteq Merges(b)'
    BY DEF Merges
  <1>2. ASSUME NEW s, NEW t, Has(b, s, t) PROVE Has(b, s, t)'
    BY <1>1, <1>2 DEF Has
  <1>3. Squashed(b) => Squashed(b)'
    BY DEF Squashed
  <1> QED
    BY <1>2, <1>3

\* An earlier tip is there when a later one is.
LEMMA HasEarlier ==
    ASSUME branch \in [Branches -> Builds], NEW b \in Branches, NEW s, NEW t \in Tips, NEW u \in Tips,
           Covers(t, u), Has(b, s, u)
    PROVE  Has(b, s, t)
  <1>1. branch[b].under \in Tips
    BY DEF Builds
  <1>2. \A e \in Merges(b) : e.tip \in Tips
    <2>1. branch[b].ins \in Seq(Commits)
      BY DEF Builds
    <2>2. \A i \in DOMAIN branch[b].ins : branch[b].ins[i] \in Commits
      BY <2>1, ElementOfSeq, LenProperties
    <2> QED
      BY <2>2 DEF Merges, Entries, Commits
  <1> QED
    BY <1>1, <1>2, CoversOrder DEF Has

\* The next thing to merge is of the run, and of the phases unless the turn is
\* about the plan branch.
LEMMA IncomingIs ==
    ASSUME IntegrationInv, AtWork, turn.todo # <<>>
    PROVE  /\ Incoming \in Sources /\ Tail(turn.todo) \in Seq(Sources)
           /\ turn.sync => Incoming = Base
           /\ ~turn.sync => Incoming \in Phases
           /\ tip[Incoming] \in Tips /\ turn.seen[Incoming] \in Tips
           /\ \A s : Queued(turn.todo, s) => s = Incoming \/ Queued(Tail(turn.todo), s)
           /\ \A i \in DOMAIN Tail(turn.todo) : i + 1 \in DOMAIN turn.todo
                                                /\ Tail(turn.todo)[i] = turn.todo[i + 1]
  <1> DEFINE todo == turn.todo
  <1>1. todo \in Seq(Sources) /\ todo # <<>>
    BY DEF IntegrationInv, Types, Turns
  <1>2. /\ Head(todo) = todo[1] /\ Tail(todo) \in Seq(Sources) /\ Len(todo) \in Nat /\ Len(todo) >= 1
        /\ Len(Tail(todo)) = Len(todo) - 1 /\ \A i \in 1 .. Len(todo) - 1 : Tail(todo)[i] = todo[i + 1]
        /\ DOMAIN todo = 1 .. Len(todo) /\ DOMAIN Tail(todo) = 1 .. Len(Tail(todo))
        /\ \A i \in 1 .. Len(todo) : todo[i] \in Sources
    <2> HIDE DEF todo
    <2>1. Tail(todo) \in Seq(Sources) /\ Head(todo) = todo[1] /\ Len(Tail(todo)) = Len(todo) - 1
          /\ \A i \in 1 .. Len(Tail(todo)) : Tail(todo)[i] = todo[i + 1]
      BY <1>1, HeadTailProperties
    <2>2. Len(todo) \in Nat /\ Len(todo) # 0
      BY <1>1, LenProperties, EmptySeq
    <2> QED
      BY <1>1, <2>1, <2>2, LenProperties, ElementOfSeq
  <1>3. Incoming = todo[1]
    BY <1>2 DEF Incoming
  <1>4. 1 \in DOMAIN todo
    BY <1>2
  <1>5. (turn.sync => Incoming = Base) /\ (~turn.sync => Incoming \in Phases)
    BY <1>3, <1>4 DEF IntegrationInv, Todo
  <1>6. Incoming \in Sources
    BY <1>2, <1>3, <1>4
  <1>7. ASSUME NEW s, Queued(todo, s) PROVE s = Incoming \/ Queued(Tail(todo), s)
    <2>1. PICK i \in 1 .. Len(todo) : todo[i] = s
      BY <1>2, <1>7 DEF Queued
    <2>2. CASE i = 1
      BY <1>3, <2>1, <2>2
    <2>3. CASE i # 1
      <3>1. i - 1 \in 1 .. Len(todo) - 1 /\ Tail(todo)[i - 1] = todo[i]
        BY <1>2, <2>1, <2>3
      <3> QED
        BY <1>2, <2>1, <3>1 DEF Queued
    <2> QED
      BY <2>2, <2>3
  <1>8. tip[Incoming] \in Tips /\ turn.seen[Incoming] \in Tips
    BY <1>6 DEF IntegrationInv, Types, Turns
  <1> QED
    BY <1>2, <1>5, <1>6, <1>7, <1>8


----------------------------------------------------------------------------
(* The three ways a step leaves a turn: over, at the same merge, at the next *)

LEMMA AsideInv ==
    ASSUME IntegrationInv, turn' \in Turns, Rounds', ~AtWork', tip' = tip,
           branch' \in [Branches -> Builds], CommittedIsJudged', wt' \in Places,
           wt'.merging # None => /\ Covers(wt'.merging.tip, tip[wt'.merging.src])
                                 /\ wt'.tree # "clean" /\ wt'.on \in Branches /\ ~wt'.foreign,
           kept' \in [Phases -> Refused \cup {None}],
           abandoned' \in [Branches -> Resolutions \cup {None}], Saved', Standing'
    PROVE  IntegrationInv'
  <1>1. Types'
    BY DEF IntegrationInv, Types
  <1>2. turn'.pc \in {"idle", "down"}
    BY DEF AtWork
  <1>3. Placed' /\ Todo' /\ Whole' /\ Current'
    BY <1>2 DEF Placed, Todo, Whole, Current
  <1>4. StillThere'
    BY DEF StillThere
  <1> QED
    BY <1>1, <1>3, <1>4 DEF IntegrationInv

LEMMA IdleRests ==
    ASSUME turn' \in {Idle, [Idle EXCEPT !.pc = "down"]}
    PROVE  turn' \in Turns /\ Rounds' /\ ~AtWork'
  <1>1. /\ turn' \in Turns /\ turn'.pc \in {"idle", "down"}
        /\ turn'.round = 0 /\ turn'.limit = MaxFixRounds /\ ~turn'.stale
    BY IdleIs DEF Turns
  <1> QED
    BY <1>1, RoundsAssumption DEF Rounds, AtWork

LEMMA GoesOnInv ==
    ASSUME IntegrationInv, AtWork, AtWork', turn.todo # <<>>, tip' = tip, Grows(turn.b),
           turn' \in Turns, turn'.b = turn.b, turn'.sync = turn.sync, turn'.todo = turn.todo,
           turn'.seen = turn.seen, Rounds', wt' \in Places, Placed',
           wt'.merging \in {wt.merging, None, [src |-> Incoming, tip |-> tip[Incoming]]},
           kept' \in [Phases -> Refused \cup {None}],
           abandoned' \in [Branches -> Resolutions \cup {None}], Saved'
    PROVE  IntegrationInv'
  <1>0. PICK b, m : b = turn.b /\ m = Incoming
    OBVIOUS
  <1>1. b \in Branches /\ m \in Sources /\ tip[m] \in Tips /\ turn.seen[m] \in Tips
    BY <1>0, IncomingIs DEF IntegrationInv, Placed
  <1>2. /\ branch' \in [Branches -> Builds] /\ CommittedIsJudged'
        /\ branch'[b].under = branch[b].under
        /\ Entries(b) \subseteq Entries(b)' /\ \A e \in Entries(b)' \ Entries(b) : Sound(e)
    BY <1>0, <1>1, GrowsIs DEF IntegrationInv
  <1>3. Types'
    BY <1>2 DEF IntegrationInv, Types
  <1>4. Todo'
    BY DEF IntegrationInv, Todo
  <1>5. StillThere'
    <2>1. Incoming' = m
      BY <1>0 DEF Incoming
    <2>2. Covers(tip[m], tip[m]) /\ Covers(turn.seen[m], tip[m])
      BY <1>0, <1>1, CoversOrder DEF IntegrationInv, StillThere
    <2> QED
      BY <1>0, <1>1, <2>1, <2>2 DEF IntegrationInv, StillThere
  <1>6. Standing'
    BY DEF AtWork, Standing
  <1>7. Whole'
    <2>1. Members(turn)' = Members(turn)
      BY DEF Members
    <2>2. (\A s, t : Has(b, s, t) => Has(b, s, t)') /\ (Squashed(b) => Squashed(b)')
      BY <1>2, HasStays
    <2>3. ASSUME ~Squashed(b)', NEW s \in Members(turn), NEW t, t = turn.seen[s]
          PROVE  Queued(turn.todo, s) \/ Has(b, s, t)'
      BY <1>0, <2>2, <2>3 DEF IntegrationInv, Whole
    <2> QED
      BY <1>0, <2>1, <2>3 DEF Whole
  <1>8. Current'
    <2>1. ASSUME ~turn.sync, NEW e \in Merges(b)' PROVE Fresh(e)'
      BY <1>0, <1>2, <2>1 DEF IntegrationInv, Current, Merges, Sound, Fresh
    <2> QED
      BY <1>0, <2>1 DEF Current
  <1> QED
    BY <1>2, <1>3, <1>4, <1>5, <1>6, <1>7, <1>8 DEF IntegrationInv

LEMMA MergedIs ==
    ASSUME IntegrationInv, AtWork, turn.todo # <<>>, Merged
    PROVE  /\ turn' \in Turns /\ turn'.pc = "next" /\ turn'.todo = Tail(turn.todo)
           /\ turn'.b = turn.b /\ turn'.sync = turn.sync /\ turn'.seen = turn.seen
           /\ turn'.round = 0 /\ turn'.limit = MaxFixRounds /\ ~turn'.stale
  <1>1. Tail(turn.todo) \in Seq(Sources)
    BY IncomingIs
  <1> QED
    BY <1>1, RoundsAssumption DEF IntegrationInv, Types, Turns, Merged

\* The merge is over, with what it was about in the branch.
LEMMA MergedInv ==
    ASSUME IntegrationInv, AtWork, turn.todo # <<>>, Merged, tip' = tip, Grows(turn.b),
           wt' \in Places, wt'.merging = None, wt'.on = wt.on, ~wt'.foreign,
           kept' \in [Phases -> Refused \cup {None}],
           abandoned' \in [Branches -> Resolutions \cup {None}], Saved',
           NEW b, b = turn.b, NEW m, m = Incoming, NEW t, t = turn.seen[m],
           Squashed(b)' \/ Has(b, m, t)'
    PROVE  IntegrationInv'
  <1>1. b \in Branches
    BY DEF IntegrationInv, Placed
  <1>2. /\ branch' \in [Branches -> Builds] /\ CommittedIsJudged'
        /\ branch'[b].under = branch[b].under
        /\ Entries(b) \subseteq Entries(b)' /\ \A e \in Entries(b)' \ Entries(b) : Sound(e)
    BY <1>1, GrowsIs DEF IntegrationInv
  <1>3. /\ turn' \in Turns /\ turn'.pc = "next" /\ turn'.todo = Tail(turn.todo)
        /\ turn'.b = turn.b /\ turn'.sync = turn.sync /\ turn'.seen = turn.seen
        /\ turn'.round = 0 /\ turn'.limit = MaxFixRounds /\ ~turn'.stale
    BY MergedIs
  <1>4. Types' /\ AtWork'
    BY <1>2, <1>3 DEF IntegrationInv, Types, AtWork
  <1>5. Placed'
    BY <1>1, <1>3 DEF IntegrationInv, Placed
  <1>6. Todo'
    <2>1. \A i \in DOMAIN turn'.todo : i + 1 \in DOMAIN turn.todo /\ turn'.todo[i] = turn.todo[i + 1]
      BY <1>3, IncomingIs
    <2> QED
      BY <1>3, <2>1 DEF IntegrationInv, Todo
  <1>7. Rounds'
    BY <1>3, RoundsAssumption DEF Rounds
  <1>8. StillThere'
    BY <1>3 DEF IntegrationInv, StillThere
  <1>9. Standing'
    BY <1>3 DEF Standing
  <1>10. Whole'
    <2>1. Members(turn)' = Members(turn)
      BY <1>3 DEF Members
    <2>2. (\A s, u : Has(b, s, u) => Has(b, s, u)') /\ (Squashed(b) => Squashed(b)')
      BY <1>2, HasStays
    <2>3. \A s : Queued(turn.todo, s) => s = m \/ Queued(turn'.todo, s)
      BY <1>3, IncomingIs
    <2>4. ASSUME ~Squashed(b)', NEW s \in Members(turn), NEW u, u = turn.seen[s]
          PROVE  Queued(turn'.todo, s) \/ Has(b, s, u)'
      BY <2>2, <2>3, <2>4 DEF IntegrationInv, Whole
    <2> QED
      BY <1>3, <2>1, <2>4 DEF Whole
  <1>11. Current'
    <2>1. ASSUME ~turn.sync, NEW e \in Merges(b)' PROVE Fresh(e)'
      BY <1>2, <2>1 DEF IntegrationInv, Current, Merges, Sound, Fresh
    <2> QED
      BY <1>3, <2>1 DEF Current
  <1> QED
    BY <1>2, <1>4, <1>5, <1>6, <1>7, <1>8, <1>9, <1>10, <1>11 DEF IntegrationInv


----------------------------------------------------------------------------
(* What the steps are made of *)

LEMMA ResetIs ==
    ASSUME NEW w \in Places
    PROVE  /\ Reset(w) \in Places /\ Reset(w).merging = None /\ Reset(w).tree = "clean"
           /\ Reset(w).on = w.on /\ Reset(w).foreign = w.foreign
  BY DEF Reset, Places, Trees

LEMMA KeepAbandonedIs ==
    ASSUME Types, Saved, NEW w \in Places, w.merging # None => w.tree # "clean" /\ w.on \in Branches,
           NEW a, a = KeepAbandoned(w)
    PROVE  /\ a \in [Branches -> Resolutions \cup {None}]
           /\ \A b \in Branches : a[b] # None => a[b].tree # "clean"
           /\ w.merging # None => a[w.on] = Kept(w)
  <1>1. CASE w.merging = None
    BY <1>1 DEF Types, Saved, KeepAbandoned
  <1>2. CASE w.merging # None
    <2>1. HeadOf(w.on) \in Heads
      BY <1>2, HeadOfType DEF Types
    <2>2. Kept(w) \in Resolutions /\ Kept(w).tree = w.tree
      BY <1>2, <2>1 DEF Kept, Resolutions, Places, Pending
    <2>3. a = [abandoned EXCEPT ![w.on] = Kept(w)]
      BY <1>2 DEF KeepAbandoned
    <2> QED
      BY <1>2, <2>2, <2>3 DEF Types, Saved
  <1> QED
    BY <1>1, <1>2

LEMMA ToIs ==
    ASSUME turn \in Turns, To("settle") \/ To("judge") \/ To("round") \/ To("commit") \/ To("ask")
    PROVE  /\ turn' \in Turns /\ turn'.pc \in {"settle", "judge", "round", "commit", "ask"}
           /\ turn'.b = turn.b /\ turn'.sync = turn.sync /\ turn'.todo = turn.todo
           /\ turn'.seen = turn.seen /\ turn'.round = turn.round /\ turn'.limit = turn.limit
           /\ turn'.stale = turn.stale
           /\ turn'.pc = "commit" => To("commit")
           /\ turn'.pc = "ask" => To("ask")
  BY DEF To, Turns

\* A merge of what a source has is in the branch once it is committed.
LEMMA CommitHas ==
    ASSUME Types, NEW b \in Branches, NEW e \in Commits, e.src \in Sources, branch' = Committed(b, e),
           NEW t, Covers(t, e.tip)
    PROVE  Has(b, e.src, t)'
  <1>1. e \in Entries(b)'
    BY CommittedIs DEF Types
  <1>2. e \in Merges(b)'
    BY <1>1, NoneAssumption DEF Merges
  <1> QED
    BY <1>2 DEF Has

LEMMA OwnerIs ==
    ASSUME IntegrationInv, AtWork, turn.todo # <<>> PROVE Owner \in Phases
  <1>1. CASE ~turn.sync
    BY <1>1, IncomingIs DEF Owner
  <1>2. CASE turn.sync
    <2>1. turn.b \in Branches /\ Under[turn.b] = Base
      BY <1>2 DEF IntegrationInv, Placed, Todo
    <2> DEFINE r == Rest[turn.b]
    <2>2. r \in Seq(Phases) /\ r # <<>>
      BY <2>1, RestAssumption, WaveAssumption
    <2>3. Len(r) \in 1 .. Len(r)
      <3> HIDE DEF r
      <3> QED
        BY <2>2, LenProperties, EmptySeq
    <2>4. r[Len(r)] \in Phases
      <3> HIDE DEF r
      <3> QED
        BY <2>2, <2>3, ElementOfSeq
    <2> QED
      BY <1>2, <2>4 DEF Owner
  <1> QED
    BY <1>1, <1>2

\* A turn that throws leaves its merge standing, and says so, or takes it down.
LEMMA ThrowInv ==
    ASSUME IntegrationInv, AtWork, NEW how \in {"unresolved", "failed"}, Throw(how),
           UNCHANGED <<tip, branch, kept>>
    PROVE  IntegrationInv'
  <1>1. turn' \in Turns /\ Rounds' /\ ~AtWork' /\ out' = how
    BY IdleRests DEF Throw, End
  <1>2. Standing'
    BY <1>1 DEF Standing
  <1>3. branch' \in [Branches -> Builds] /\ kept' \in [Phases -> Refused \cup {None}]
        /\ CommittedIsJudged'
    BY DEF IntegrationInv, Types, CommittedIsJudged, Entries
  <1>4. wt \in Places /\ (wt.merging # None => wt.tree # "clean" /\ wt.on \in Branches)
    BY DEF IntegrationInv, Types, Placed
  <1>5. CASE UNCHANGED <<wt, abandoned>>
    <2>1. Saved' /\ abandoned' \in [Branches -> Resolutions \cup {None}]
      BY <1>5 DEF IntegrationInv, Types, Saved
    <2> QED
      BY <1>1, <1>2, <1>3, <1>4, <1>5, <2>1, AsideInv DEF IntegrationInv, Placed, StillThere
  <1>6. CASE wt' = AbandonMerge(wt) /\ abandoned' = KeepAbandoned(wt)
    <2>1. wt' \in Places /\ wt'.merging = None
      BY <1>4, <1>6, ResetIs DEF AbandonMerge
    <2>2. Saved' /\ abandoned' \in [Branches -> Resolutions \cup {None}]
      BY <1>4, <1>6, KeepAbandonedIs DEF IntegrationInv, Saved
    <2> QED
      BY <1>1, <1>2, <1>3, <2>1, <2>2, AsideInv
  <1> QED
    BY <1>5, <1>6 DEF Throw


----------------------------------------------------------------------------
(* The conflict loop *)

LEMMA FinishInv ==
    ASSUME IntegrationInv, Finish PROVE IntegrationInv'
  <1>1. turn' \in Turns /\ Rounds' /\ ~AtWork'
    BY IdleRests DEF Finish, End
  <1>2. wt'.merging = None
    BY DEF IntegrationInv, Placed, Finish
  <1>3. Standing'
    BY <1>2 DEF Standing
  <1>4. CommittedIsJudged' /\ Saved'
    BY DEF IntegrationInv, Finish, CommittedIsJudged, Entries, Saved
  <1> QED
    BY <1>1, <1>2, <1>3, <1>4, AsideInv DEF IntegrationInv, Types, Finish

LEMMA MergeNextInv ==
    ASSUME IntegrationInv, MergeNext PROVE IntegrationInv'
  <1>0. PICK b, m : b = turn.b /\ m = Incoming
    OBVIOUS
  <1>1. /\ AtWork /\ turn.pc = "next" /\ turn.todo # <<>> /\ b \in Branches
        /\ wt \in Places /\ wt.merging = None /\ wt.on = b /\ ~wt.foreign
    BY <1>0 DEF IntegrationInv, Types, Placed, MergeNext, AtWork
  <1>2. m \in Sources /\ tip[m] \in Tips /\ turn.seen[m] \in Tips
    BY <1>0, <1>1, IncomingIs
  <1>3. tip' = tip /\ kept' = kept /\ abandoned' = abandoned
    BY DEF MergeNext
  <1>4. /\ kept' \in [Phases -> Refused \cup {None}]
        /\ abandoned' \in [Branches -> Resolutions \cup {None}] /\ Saved'
    BY <1>3 DEF IntegrationInv, Types, Saved
  <1>5. CASE End("failed") /\ UNCHANGED <<branch, wt>>
    <2>1. turn' \in Turns /\ Rounds' /\ ~AtWork' /\ out' = "failed"
      BY <1>5, IdleRests DEF End
    <2>2. Standing' /\ CommittedIsJudged' /\ branch' \in [Branches -> Builds]
      BY <1>5, <2>1 DEF IntegrationInv, Types, Standing, CommittedIsJudged, Entries
    <2> QED
      BY <1>1, <1>3, <1>4, <1>5, <2>1, <2>2, AsideInv
  <1>6. CASE branch' = Committed(b, Merge(m, tip[m], "other", TRUE)) /\ Merged /\ UNCHANGED wt
    <2>1. PICK e : e = Merge(m, tip[m], "other", TRUE)
      OBVIOUS
    <2>2. e \in Commits /\ e.src = m /\ e.tip = tip[m] /\ Sound(e)
      BY <1>2, <2>1 DEF Resolution, Merge, Commits, Sound, Fresh
    <2>3. Grows(b)
      BY <1>6, <2>1, <2>2 DEF Grows
    <2>4. PICK t : t = turn.seen[m]
      OBVIOUS
    <2>5. Has(b, m, t)'
      BY <1>0, <1>1, <1>2, <1>6, <2>1, <2>2, <2>4, CommitHas DEF IntegrationInv, StillThere
    <2> QED
      BY <1>0, <1>1, <1>3, <1>4, <1>6, <2>3, <2>4, <2>5, MergedInv
  <1>7. ASSUME NEW t \in {"markers", "red", "green"}, branch' = branch,
               wt' = [wt EXCEPT !.merging = [src |-> m, tip |-> tip[m]], !.tree = t],
               turn' \in Turns, turn'.pc \in {"settle", "judge"}, turn'.b = turn.b,
               turn'.sync = turn.sync, turn'.todo = turn.todo, turn'.seen = turn.seen, Rounds'
        PROVE  IntegrationInv'
    <2>1. /\ wt' \in Places /\ wt'.merging = [src |-> m, tip |-> tip[m]] /\ wt'.tree = t
          /\ wt'.on = wt.on /\ wt'.foreign = wt.foreign
      BY <1>1, <1>2, <1>7 DEF Places, Pending, Trees
    <2>2. Placed' /\ AtWork'
      BY <1>0, <1>1, <1>7, <2>1 DEF Placed, AtWork
    <2>3. Grows(turn.b)
      BY <1>7 DEF Grows
    <2> QED
      BY <1>0, <1>1, <1>3, <1>4, <1>7, <2>1, <2>2, <2>3, GoesOnInv
  <1>8. CASE /\ wt' = [wt EXCEPT !.merging = [src |-> m, tip |-> tip[m]], !.tree = "markers"]
             /\ To("settle") /\ UNCHANGED branch
    <2>1. /\ turn' \in Turns /\ turn'.pc = "settle" /\ turn'.b = turn.b
          /\ turn'.sync = turn.sync /\ turn'.todo = turn.todo /\ turn'.seen = turn.seen /\ Rounds'
      BY <1>8 DEF IntegrationInv, Types, Turns, To, Rounds
    <2> QED
      BY <1>7, <1>8, <2>1
  <1>9. CASE /\ \E t \in Resolved : wt' = [wt EXCEPT !.merging = [src |-> m, tip |-> tip[m]], !.tree = t]
             /\ turn' = [turn EXCEPT !.pc = "judge", !.from = "git"] /\ UNCHANGED branch
    <2>1. /\ turn' \in Turns /\ turn'.pc = "judge" /\ turn'.b = turn.b
          /\ turn'.sync = turn.sync /\ turn'.todo = turn.todo /\ turn'.seen = turn.seen /\ Rounds'
      BY <1>9 DEF IntegrationInv, Types, Turns, Rounds
    <2> QED
      BY <1>7, <1>9, <2>1 DEF Resolved
  <1> QED
    BY <1>0, <1>5, <1>6, <1>8, <1>9 DEF MergeNext

\* Whatever of the worktree a settled merge goes on from.
LEMMA PreviousInv ==
    ASSUME IntegrationInv, turn.pc = "settle", NEW w \in Places, w.merging = wt.merging, w.on = wt.on,
           w.foreign = wt.foreign, w.merging # None => w.tree # "clean", Previous(w),
           UNCHANGED <<tip, branch, abandoned>>,
           kept' \in [Phases -> Refused \cup {None}], \A p \in Phases : kept'[p] # None /\ ~kept'[p].edited => kept'[p].tree = "green"
    PROVE  IntegrationInv'
  <1>1. AtWork /\ turn.todo # <<>> /\ turn.b \in Branches
    BY DEF IntegrationInv, Placed, AtWork
  <1>2. Saved' /\ abandoned' \in [Branches -> Resolutions \cup {None}]
    BY DEF IntegrationInv, Types, Saved
  <1>3. Grows(turn.b)
    BY DEF Grows
  <1>4. /\ turn' \in Turns /\ turn'.pc \in {"round", "judge"} /\ turn'.b = turn.b
        /\ turn'.sync = turn.sync /\ turn'.todo = turn.todo /\ turn'.seen = turn.seen /\ Rounds'
        /\ wt' \in Places /\ wt'.merging = wt.merging /\ wt'.on = wt.on /\ wt'.foreign = wt.foreign
        /\ wt'.merging # None => wt'.tree # "clean"
    <2>1. CASE ThisMerge(abandoned[turn.b])
      <3>1. abandoned[turn.b].tree \in Trees \ {"clean"}
        BY <1>1, <2>1 DEF ThisMerge, IntegrationInv, Types, Saved, Resolutions
      <3>2. PICK t : t = abandoned[turn.b].tree
        OBVIOUS
      <3>3. wt' = [w EXCEPT !.tree = t] /\ turn' = [turn EXCEPT !.pc = AfterPrevious(t), !.from = "previous"]
        BY <2>1, <3>2 DEF Previous
      <3>4. AfterPrevious(t) \in {"round", "judge"}
        BY DEF AfterPrevious
      <3>5. wt' \in Places /\ wt'.merging = w.merging /\ wt'.on = w.on /\ wt'.foreign = w.foreign /\ wt'.tree = t
        BY <3>1, <3>2, <3>3 DEF Places
      <3>6. /\ turn' \in Turns /\ turn'.pc \in {"round", "judge"} /\ turn'.b = turn.b
            /\ turn'.sync = turn.sync /\ turn'.todo = turn.todo /\ turn'.seen = turn.seen /\ Rounds'
        BY <3>3, <3>4 DEF IntegrationInv, Types, Turns, Rounds
      <3> QED
        BY <3>1, <3>2, <3>5, <3>6
    <2>2. CASE wt' = w /\ To("round")
      BY <2>2 DEF IntegrationInv, Types, Turns, To, Rounds
    <2> QED
      BY <2>1, <2>2 DEF Previous
  <1>5. Placed' /\ AtWork'
    BY <1>1, <1>4 DEF IntegrationInv, Placed, AtWork
  <1> QED
    BY <1>1, <1>2, <1>3, <1>4, <1>5, GoesOnInv

LEMMA SettleInv ==
    ASSUME IntegrationInv, Settle PROVE IntegrationInv'
  <1>0. PICK b, m, k : b = turn.b /\ m = Incoming /\ k = kept[Owner]
    OBVIOUS
  <1>1. /\ AtWork /\ turn.pc = "settle" /\ turn.todo # <<>> /\ b \in Branches
        /\ wt \in Places /\ wt.on = b /\ ~wt.foreign /\ (wt.merging # None => wt.tree # "clean")
    BY <1>0 DEF IntegrationInv, Types, Placed, Settle, AtWork
  <1>2. m \in Sources /\ tip[m] \in Tips /\ turn.seen[m] \in Tips /\ Owner \in Phases
    BY <1>0, <1>1, IncomingIs, OwnerIs
  <1>3. tip' = tip /\ abandoned' = abandoned
    BY DEF Settle
  <1>4. CASE /\ ThisMerge(k) /\ branch' = Committed(b, Resolution(m, k.tip, "kept", k.tree = "green", k.edited))
             /\ Concluded /\ Merged /\ UNCHANGED kept
    <2>1. k \in Refused /\ (~k.edited => k.tree = "green") /\ k.tip = tip[m]
      BY <1>0, <1>2, <1>4 DEF ThisMerge, IntegrationInv, Types, Saved
    <2>2. PICK e : e = Resolution(m, k.tip, "kept", k.tree = "green", k.edited)
      OBVIOUS
    <2>3. e \in Commits /\ e.src = m /\ e.tip = tip[m] /\ Sound(e)
      BY <1>2, <2>1, <2>2 DEF Resolution, Refused, Commits, Sound, Fresh
    <2>4. Grows(b)
      BY <1>4, <2>2, <2>3 DEF Grows
    <2>5. PICK t : t = turn.seen[m]
      OBVIOUS
    <2>6. Has(b, m, t)'
      BY <1>0, <1>1, <1>2, <1>4, <2>2, <2>3, <2>5, CommitHas DEF IntegrationInv, StillThere
    <2>7. wt' \in Places /\ wt'.merging = None /\ wt'.on = wt.on /\ ~wt'.foreign
      BY <1>1, <1>4, ResetIs DEF Concluded
    <2>8. /\ kept' \in [Phases -> Refused \cup {None}]
          /\ abandoned' \in [Branches -> Resolutions \cup {None}] /\ Saved'
      BY <1>3, <1>4 DEF IntegrationInv, Types, Saved
    <2> QED
      BY <1>0, <1>1, <1>3, <1>4, <2>4, <2>5, <2>6, <2>7, <2>8, MergedInv
  <1>5. CASE kept' = [kept EXCEPT ![Owner] = None] /\ Previous([wt EXCEPT !.tree = "markers"]) /\ UNCHANGED branch
    <2>1. PICK w : w = [wt EXCEPT !.tree = "markers"]
      OBVIOUS
    <2>2. /\ w \in Places /\ w.merging = wt.merging /\ w.on = wt.on /\ w.foreign = wt.foreign
          /\ w.tree # "clean"
      BY <1>1, <2>1 DEF Places, Trees
    <2>3. /\ kept' \in [Phases -> Refused \cup {None}]
          /\ \A p \in Phases : kept'[p] # None /\ ~kept'[p].edited => kept'[p].tree = "green"
      BY <1>2, <1>5 DEF IntegrationInv, Types, Saved
    <2> QED
      BY <1>1, <1>3, <1>5, <2>1, <2>2, <2>3, PreviousInv
  <1>6. CASE Previous(wt) /\ UNCHANGED <<branch, kept>>
    BY <1>1, <1>3, <1>6, PreviousInv DEF IntegrationInv, Types, Saved
  <1> QED
    BY <1>0, <1>4, <1>5, <1>6 DEF Settle

LEMMA RoundInv ==
    ASSUME IntegrationInv, Round PROVE IntegrationInv'
  <1>1. AtWork /\ turn.todo # <<>>
    BY DEF IntegrationInv, Placed, Round, AtWork
  <1>2. CASE /\ turn.round < turn.limit /\ turn' = [turn EXCEPT !.pc = "fixing", !.round = Counted]
             /\ UNCHANGED <<wt, abandoned>>
    <2>1. /\ turn' \in Turns /\ turn'.pc = "fixing" /\ turn'.b = turn.b /\ turn'.sync = turn.sync
          /\ turn'.todo = turn.todo /\ turn'.seen = turn.seen
          /\ turn'.round = turn.round + 1 /\ turn'.limit = turn.limit /\ turn'.stale = turn.stale
      <3>1. PICK r : r = turn.round + 1
        OBVIOUS
      <3>2. r \in Nat
        BY <3>1 DEF IntegrationInv, Types, Turns
      <3>3. turn' = [turn EXCEPT !.pc = "fixing", !.round = r]
        BY <1>2, <3>1 DEF Counted
      <3> QED
        BY <3>1, <3>2, <3>3 DEF IntegrationInv, Types, Turns
    <2>2. Rounds'
      BY <1>2, <2>1 DEF IntegrationInv, Types, Turns, Rounds
    <2>3. Placed' /\ AtWork'
      BY <1>1, <1>2, <2>1 DEF IntegrationInv, Placed, AtWork
    <2>4. Grows(turn.b) /\ Saved'
      BY <1>2 DEF IntegrationInv, Round, Grows, Saved
    <2> QED
      BY <1>1, <1>2, <2>1, <2>2, <2>3, <2>4, GoesOnInv DEF IntegrationInv, Types, Round
  <1>3. CASE Throw("unresolved")
    BY <1>1, <1>3, ThrowInv DEF Round
  <1> QED
    BY <1>2, <1>3 DEF Round


----------------------------------------------------------------------------
(* A round *)

\* An agent leaves the worktree with this merge or none in it, and its branch
\* with what it took from the incoming side.
LEMMA WorkedIs ==
    ASSUME IntegrationInv, turn.pc = "fixing", NEW w \in Worktrees, Worked(w)
    PROVE  /\ w \in Places /\ w.on = turn.b /\ ~w.foreign /\ Grows(turn.b)
           /\ w.merging \in {wt.merging, None, [src |-> Incoming, tip |-> tip[Incoming]]}
           /\ w.merging # None => w.tree # "clean" /\ Covers(w.merging.tip, tip[w.merging.src])
           /\ w.merging # None => branch' = branch
  <1>0. PICK b, m : b = turn.b /\ m = Incoming
    OBVIOUS
  <1>1. /\ AtWork /\ turn.todo # <<>> /\ b \in Branches
        /\ wt \in Places /\ wt.on = b /\ ~wt.foreign
        /\ wt.merging # None => wt.tree # "clean" /\ Covers(wt.merging.tip, tip[wt.merging.src])
    BY <1>0 DEF IntegrationInv, Types, Placed, AtWork, StillThere
  <1>2. m \in Sources /\ tip[m] \in Tips
    BY <1>0, <1>1, IncomingIs
  <1> DEFINE mine == [src |-> m, tip |-> tip[m]]
  <1>3. mine \in Pending /\ Covers(mine.tip, tip[mine.src])
    BY <1>2, CoversOrder DEF Pending
  <1>4. CASE w = wt /\ branch' = branch
    BY <1>0, <1>1, <1>4 DEF Grows
  <1>5. ASSUME branch' = branch, NEW t \in Work,
               w = [wt EXCEPT !.merging = IF @ = None THEN [src |-> m, tip |-> tip[m]] ELSE @, !.tree = t]
        PROVE  /\ w \in Places /\ w.on = b /\ ~w.foreign /\ Grows(b)
               /\ w.merging \in {wt.merging, None, mine}
               /\ w.merging # None => w.tree # "clean" /\ Covers(w.merging.tip, tip[w.merging.src])
    <2>1. PICK n : n = IF wt.merging = None THEN mine ELSE wt.merging
      OBVIOUS
    <2>2. w = [wt EXCEPT !.merging = n, !.tree = t]
      BY <1>5, <2>1
    <2>3. n \in Pending \cup {None} /\ t \in Trees \ {"clean"}
      BY <1>1, <1>3, <2>1 DEF Places, Work, Resolved, Trees
    <2>4. w \in Places /\ w.on = b /\ ~w.foreign /\ w.merging = n /\ w.tree = t
      BY <1>1, <2>2, <2>3 DEF Places
    <2> HIDE DEF mine
    <2> QED
      BY <1>1, <1>3, <1>5, <2>1, <2>3, <2>4 DEF Grows
  <1>6. ASSUME NEW ok \in BOOLEAN, w = Reset(wt), branch' = Committed(b, Merge(m, tip[m], "other", ok))
        PROVE  w \in Places /\ w.on = b /\ ~w.foreign /\ Grows(b) /\ w.merging = None
    <2>1. PICK e : e = Merge(m, tip[m], "other", ok)
      OBVIOUS
    <2>2. e \in Commits /\ Sound(e)
      BY <1>2, <2>1 DEF Resolution, Merge, Commits, Sound, Fresh
    <2> QED
      BY <1>1, <1>6, <2>1, <2>2, ResetIs DEF Grows
  <1>7. CASE w = Reset(wt) /\ branch' = branch
    BY <1>0, <1>1, <1>7, ResetIs DEF Grows
  <1>8. ASSUME NEW t \in Resolved, w = [Reset(wt) EXCEPT !.tree = t], branch' = branch
        PROVE  w \in Places /\ w.on = b /\ ~w.foreign /\ Grows(b) /\ w.merging = None
    BY <1>1, <1>8, ResetIs DEF Grows, Places, Resolved, Trees
  <1> HIDE DEF mine
  <1>9. mine = [src |-> Incoming, tip |-> tip[Incoming]]
    BY <1>0 DEF mine
  <1> QED
    BY <1>0, <1>4, <1>5, <1>6, <1>7, <1>8, <1>9 DEF Worked

LEMMA RoundEndsInv ==
    ASSUME IntegrationInv, RoundEnds PROVE IntegrationInv'
  <1>1. PICK w \in Worktrees, stale \in BOOLEAN :
            /\ Worked(w) /\ wt' = w
            /\ turn' = [turn EXCEPT !.pc = IF w.tree = "markers" THEN "round" ELSE "judge", !.from = "fixer",
                                    !.stale = @ \/ stale, !.limit = IF GivesBack(stale) THEN @ + 1 ELSE @]
    BY DEF RoundEnds
  <1>2. turn.pc = "fixing" /\ AtWork /\ turn.todo # <<>>
    BY DEF IntegrationInv, Placed, RoundEnds, AtWork
  <1>3. /\ w \in Places /\ w.on = turn.b /\ ~w.foreign /\ Grows(turn.b)
        /\ w.merging \in {wt.merging, None, [src |-> Incoming, tip |-> tip[Incoming]]}
        /\ w.merging # None => w.tree # "clean"
    BY <1>1, <1>2, WorkedIs
  <1>4. PICK pc, l, s : /\ pc = IF w.tree = "markers" THEN "round" ELSE "judge"
                        /\ l = IF GivesBack(stale) THEN turn.limit + 1 ELSE turn.limit
                        /\ s = (turn.stale \/ stale)
    OBVIOUS
  <1>5. turn' = [turn EXCEPT !.pc = pc, !.from = "fixer", !.stale = s, !.limit = l]
    BY <1>1, <1>4
  <1>6. pc \in {"round", "judge"} /\ s \in BOOLEAN
    BY <1>4 DEF IntegrationInv, Types, Turns
  <1>7. l \in Nat /\ turn.round <= l /\ l = MaxFixRounds + (IF s THEN 1 ELSE 0)
    BY <1>4, RoundsAssumption DEF IntegrationInv, Types, Turns, Rounds, GivesBack
  <1>8. /\ turn' \in Turns /\ turn'.pc = pc /\ turn'.b = turn.b /\ turn'.sync = turn.sync
        /\ turn'.todo = turn.todo /\ turn'.seen = turn.seen
        /\ turn'.round = turn.round /\ turn'.limit = l /\ turn'.stale = s
    BY <1>5, <1>6, <1>7 DEF IntegrationInv, Types, Turns
  <1>9. Rounds'
    BY <1>7, <1>8 DEF Rounds
  <1>10. Placed' /\ AtWork'
    BY <1>1, <1>2, <1>3, <1>6, <1>8 DEF IntegrationInv, Placed, AtWork
  <1>11. Saved' /\ UNCHANGED <<tip, kept, abandoned>>
    BY DEF IntegrationInv, Saved, RoundEnds
  <1> QED
    BY <1>1, <1>2, <1>3, <1>8, <1>9, <1>10, <1>11, GoesOnInv DEF IntegrationInv, Types

LEMMA RoundRefusedInv ==
    ASSUME IntegrationInv, RoundRefused PROVE IntegrationInv'
  <1>1. turn' \in Turns /\ Rounds' /\ ~AtWork'
    BY IdleRests DEF RoundRefused, End
  <1>2. wt' \in Places /\ wt'.merging = None
    BY ResetIs DEF IntegrationInv, Types, RoundRefused, AbandonMerge
  <1>3. Standing' /\ Saved' /\ CommittedIsJudged'
    BY <1>2 DEF IntegrationInv, RoundRefused, Standing, Saved, CommittedIsJudged, Entries
  <1> QED
    BY <1>1, <1>2, <1>3, AsideInv DEF IntegrationInv, Types, RoundRefused

LEMMA RoundStoppedInv ==
    ASSUME IntegrationInv, RoundStopped PROVE IntegrationInv'
  <1>1. PICK w \in Worktrees : Worked(w) /\ abandoned' = KeepAbandoned(w) /\ wt' = AbandonMerge(w)
    BY DEF RoundStopped
  <1>0. PICK b : b = turn.b
    OBVIOUS
  <1>2. turn.pc = "fixing" /\ b \in Branches
    BY <1>0 DEF IntegrationInv, Placed, RoundStopped, AtWork
  <1>3. w \in Places /\ w.on = b /\ Grows(b) /\ (w.merging # None => w.tree # "clean")
    BY <1>0, <1>1, <1>2, WorkedIs
  <1>4. turn' \in Turns /\ Rounds' /\ ~AtWork'
    BY IdleRests DEF RoundStopped, End
  <1>5. wt' \in Places /\ wt'.merging = None
    BY <1>1, <1>3, ResetIs DEF AbandonMerge
  <1>6. branch' \in [Branches -> Builds] /\ CommittedIsJudged'
    BY <1>2, <1>3, GrowsIs DEF IntegrationInv
  <1>7. Saved' /\ abandoned' \in [Branches -> Resolutions \cup {None}]
    BY <1>1, <1>2, <1>3, KeepAbandonedIs DEF IntegrationInv, RoundStopped, Saved
  <1>8. Standing'
    BY <1>5 DEF Standing
  <1> QED
    BY <1>4, <1>5, <1>6, <1>7, <1>8, AsideInv DEF IntegrationInv, Types, RoundStopped


----------------------------------------------------------------------------
(* Gates and commits *)

\* A step that leaves the worktree as it is, but for the label it goes on from.
LEMMA StepInv ==
    ASSUME IntegrationInv, AtWork, turn.todo # <<>>,
           UNCHANGED <<tip, branch, kept, abandoned>>, wt' \in Places, wt'.merging = wt.merging,
           wt'.on = wt.on, wt'.foreign = wt.foreign, wt'.merging # None => wt'.tree # "clean",
           turn' \in Turns, turn'.pc \in {"settle", "judge", "round", "commit", "ask"},
           turn'.b = turn.b, turn'.sync = turn.sync, turn'.todo = turn.todo, turn'.seen = turn.seen,
           turn'.round = turn.round, turn'.limit = turn.limit, turn'.stale = turn.stale,
           turn'.pc \in {"commit", "ask"} => wt'.tree # "markers" /\ (turn'.edited = {} => wt'.tree = "green")
    PROVE  IntegrationInv'
  <1>1. AtWork' /\ Placed' /\ Rounds'
    BY DEF IntegrationInv, Placed, AtWork, Rounds, Edited
  <1>2. Grows(turn.b) /\ Saved'
    BY DEF IntegrationInv, Grows, Saved
  <1> QED
    BY <1>1, <1>2, GoesOnInv DEF IntegrationInv, Types

LEMMA JudgeInv ==
    ASSUME IntegrationInv, Judge PROVE IntegrationInv'
  <1>0. PICK b, m, t : b = turn.b /\ m = Incoming /\ t = turn.seen[m]
    OBVIOUS
  <1>1. /\ AtWork /\ turn.pc = "judge" /\ turn.todo # <<>> /\ b \in Branches /\ turn \in Turns
        /\ wt \in Places /\ ~wt.foreign /\ (wt.merging # None => wt.tree # "clean")
    BY <1>0 DEF IntegrationInv, Types, Placed, Judge, AtWork
  <1>2. m \in Sources /\ tip[m] \in Tips /\ t \in Tips /\ Covers(t, tip[m])
    BY <1>0, <1>1, IncomingIs DEF IntegrationInv, StillThere
  <1>3. UNCHANGED <<tip, branch, kept, abandoned>>
    BY DEF Judge
  <1>4. CASE JudgedGreen /\ (wt.merging # None \/ wt.tree # "clean") /\ To("commit") /\ UNCHANGED wt
    <2>1. wt.tree = "green"
      BY <1>1, <1>4 DEF JudgedGreen
    <2> QED
      BY <1>1, <1>3, <1>4, <2>1, ToIs, StepInv
  <1>5. CASE wt.merging = None /\ wt.tree = "clean" /\ Contained(turn.b, m) /\ Merged /\ UNCHANGED wt
    <2>1. Has(b, m, t)
      BY <1>0, <1>1, <1>2, <1>5, HasEarlier DEF Contained, IntegrationInv, Types
    <2>2. Entries(b)' = Entries(b) /\ branch'[b].under = branch[b].under
      BY <1>3 DEF Entries
    <2>3. Has(b, m, t)'
      BY <2>1, <2>2, HasStays
    <2>4. Saved' /\ Grows(b)
      BY <1>3 DEF IntegrationInv, Saved, Grows
    <2> QED
      BY <1>0, <1>1, <1>3, <1>5, <2>3, <2>4, MergedInv DEF IntegrationInv, Types
  <1>6. CASE wt.merging = None /\ wt.tree = "clean" /\ To("round") /\ UNCHANGED wt
    <2>1. turn'.pc = "round"
      BY <1>1, <1>6 DEF To, Turns
    <2> QED
      BY <1>1, <1>3, <1>6, <2>1, ToIs, StepInv
  <1>7. CASE wt' = [wt EXCEPT !.tree = "green"] /\ turn' = [turn EXCEPT !.fix = "replayed"]
    <2>1. wt' \in Places /\ wt'.merging = wt.merging /\ wt'.on = wt.on /\ wt'.foreign = wt.foreign /\ wt'.tree = "green"
      BY <1>1, <1>7 DEF Places, Trees
    <2>2. /\ turn' \in Turns /\ turn'.pc = "judge" /\ turn'.b = turn.b /\ turn'.sync = turn.sync
          /\ turn'.todo = turn.todo /\ turn'.seen = turn.seen
          /\ turn'.round = turn.round /\ turn'.limit = turn.limit /\ turn'.stale = turn.stale
      BY <1>1, <1>7 DEF Turns
    <2> QED
      BY <1>1, <1>3, <2>1, <2>2, StepInv
  <1>8. CASE /\ turn' = [turn EXCEPT !.pc = IF turn.from = "git" THEN "settle" ELSE "round",
                                     !.fix = IF @ = "none" THEN "broke" ELSE @]
             /\ UNCHANGED wt
    <2>1. PICK pc, f : pc = (IF turn.from = "git" THEN "settle" ELSE "round")
                       /\ f = (IF turn.fix = "none" THEN "broke" ELSE turn.fix)
      OBVIOUS
    <2>2. turn' = [turn EXCEPT !.pc = pc, !.fix = f] /\ pc \in {"settle", "round"}
          /\ f \in {"none", "replayed", "broke"}
      BY <1>1, <1>8, <2>1 DEF Turns
    <2>3. /\ turn' \in Turns /\ turn'.pc = pc /\ turn'.b = turn.b /\ turn'.sync = turn.sync
          /\ turn'.todo = turn.todo /\ turn'.seen = turn.seen
          /\ turn'.round = turn.round /\ turn'.limit = turn.limit /\ turn'.stale = turn.stale
      BY <1>1, <2>2 DEF Turns
    <2> QED
      BY <1>1, <1>3, <1>8, <2>2, <2>3, StepInv
  <1> QED
    BY <1>0, <1>4, <1>5, <1>6, <1>7, <1>8 DEF Judge

LEMMA JudgeFailsInv ==
    ASSUME IntegrationInv, JudgeFails PROVE IntegrationInv'
  <1>1. AtWork /\ UNCHANGED <<tip, branch, kept>> /\ Throw("failed")
    BY DEF JudgeFails, AtWork
  <1> QED
    BY <1>1, ThrowInv

\* A resolution the integrator commits is of a tree the gates passed on, unless
\* it was edited, and is of the merge the turn is at, or of none.
LEMMA AcceptedInv ==
    ASSUME IntegrationInv, turn.pc \in {"commit", "ask"}, NEW tree, NEW edited \in BOOLEAN,
           ~edited => tree = "green", Accepted(tree, edited), UNCHANGED <<tip, kept>>
    PROVE  IntegrationInv'
  <1>0. PICK b, m, t : b = turn.b /\ m = Incoming /\ t = turn.seen[m]
    OBVIOUS
  <1>1. /\ AtWork /\ turn.todo # <<>> /\ b \in Branches /\ turn \in Turns
        /\ wt \in Places /\ wt.on = b /\ ~wt.foreign
    BY <1>0 DEF IntegrationInv, Types, Placed, AtWork
  <1>2. wt' \in Places /\ wt'.merging = None /\ wt'.on = wt.on /\ ~wt'.foreign
    BY <1>1, ResetIs DEF Accepted, Concluded
  <1>3. Saved' /\ abandoned' \in [Branches -> Resolutions \cup {None}]
        /\ kept' \in [Phases -> Refused \cup {None}]
    BY <1>0, <1>1 DEF IntegrationInv, Types, Saved, Accepted
  <1>4. Merged
    BY DEF Accepted
  <1>5. CASE wt.merging = None
    <2>1. PICK e : e = Resolution(None, NoTip, "integrator", tree = "green", edited)
      OBVIOUS
    <2>2. e = [src |-> None, tip |-> NoTip, by |-> "integrator", ok |-> tree = "green", edited |-> edited]
      BY <2>1 DEF Resolution
    <2>3. e \in Commits /\ e.src = None /\ e.by = "integrator" /\ Sound(e)
      BY <2>2, NoTipType, NoneAssumption DEF Commits, Sound, Fresh, Sources
    <2>4. branch' = Committed(b, e)
      BY <1>0, <1>5, <2>1 DEF Accepted
    <2>5. Squashed(b)' /\ Grows(b)
      BY <1>1, <2>3, <2>4, CommittedIs DEF IntegrationInv, Types, Squashed, Grows
    <2> QED
      BY <1>0, <1>1, <1>2, <1>3, <1>4, <2>5, MergedInv
  <1>6. CASE wt.merging # None
    <2>1. PICK e : e = Resolution(wt.merging.src, wt.merging.tip, "integrator", tree = "green", edited)
      OBVIOUS
    <2>2. /\ wt.merging \in Pending /\ wt.merging.src = m /\ Covers(t, wt.merging.tip)
          /\ Covers(wt.merging.tip, tip[m])
      BY <1>0, <1>1, <1>6 DEF IntegrationInv, StillThere, Places
    <2>3. e = [src |-> m, tip |-> wt.merging.tip, by |-> "integrator", ok |-> tree = "green", edited |-> edited]
      BY <2>1, <2>2 DEF Resolution
    <2>4. e \in Commits /\ e.src = m /\ m \in Sources /\ Sound(e) /\ Covers(t, e.tip)
      BY <2>2, <2>3 DEF Pending, Commits, Sound, Fresh, Covers
    <2>5. branch' = Committed(b, e)
      BY <1>0, <1>6, <2>1 DEF Accepted
    <2>6. Has(b, m, t)' /\ Grows(b)
      BY <1>1, <2>4, <2>5, CommitHas DEF IntegrationInv, Grows
    <2> QED
      BY <1>0, <1>1, <1>2, <1>3, <1>4, <2>6, MergedInv
  <1> QED
    BY <1>5, <1>6

\* While a resolution is committed, or its commit is asked about.
LEMMA Committing ==
    ASSUME IntegrationInv, turn.pc \in {"commit", "ask"}
    PROVE  /\ AtWork /\ turn.todo # <<>> /\ turn \in Turns /\ turn.b \in Branches
           /\ wt \in Places /\ wt.on = turn.b /\ ~wt.foreign /\ (wt.merging # None => wt.tree # "clean")
           /\ wt.tree # "markers" /\ (turn.edited = {} => wt.tree = "green")
  BY DEF IntegrationInv, Types, Placed, AtWork, Edited

LEMMA CommitInv ==
    ASSUME IntegrationInv, Commit PROVE IntegrationInv'
  <1>0. /\ AtWork /\ turn.todo # <<>> /\ turn \in Turns /\ wt \in Places /\ turn.pc = "commit"
        /\ wt.tree # "markers" /\ (turn.edited = {} => wt.tree = "green")
        /\ (wt.merging # None => wt.tree # "clean") /\ UNCHANGED <<tip, kept>>
    BY Committing DEF Commit
  <1>1. CASE Accepted(wt.tree, Edited)
    BY <1>0, <1>1, AcceptedInv DEF Edited
  <1>2. ASSUME NEW t \in Resolved, Accepted(t, TRUE) PROVE IntegrationInv'
    BY <1>0, <1>2, AcceptedInv
  <1>3. CASE To("ask") /\ UNCHANGED <<branch, wt, abandoned>>
    <2>1. turn'.edited = turn.edited
      BY <1>0, <1>3 DEF To, Turns
    <2> QED
      BY <1>0, <1>3, <2>1, ToIs, StepInv
  <1>4. ASSUME NEW t \in Resolved, wt' = [wt EXCEPT !.tree = t], UNCHANGED <<branch, abandoned>>,
               turn' = [turn EXCEPT !.edited = @ \cup {"hook"}]
        PROVE  IntegrationInv'
    <2>1. wt' \in Places /\ wt'.merging = wt.merging /\ wt'.on = wt.on /\ wt'.foreign = wt.foreign /\ wt'.tree = t
          /\ t \notin {"markers", "clean"}
      BY <1>0, <1>4 DEF Places, Trees, Resolved
    <2>2. /\ turn' \in Turns /\ turn'.pc = "commit" /\ turn'.b = turn.b /\ turn'.sync = turn.sync
          /\ turn'.todo = turn.todo /\ turn'.seen = turn.seen
          /\ turn'.round = turn.round /\ turn'.limit = turn.limit /\ turn'.stale = turn.stale
          /\ turn'.edited # {}
      BY <1>0, <1>4 DEF Turns
    <2> QED
      BY <1>0, <1>4, <2>1, <2>2, StepInv
  <1> QED
    BY <1>1, <1>2, <1>3, <1>4 DEF Commit

LEMMA OperatorEditsInv ==
    ASSUME IntegrationInv, OperatorEdits PROVE IntegrationInv'
  <1>0. PICK b, m : b = turn.b /\ m = Incoming
    OBVIOUS
  <1>1. /\ AtWork /\ turn.todo # <<>> /\ turn \in Turns /\ b \in Branches /\ turn.pc = "ask"
        /\ wt \in Places /\ wt.on = b /\ ~wt.foreign /\ UNCHANGED <<tip, kept, abandoned>>
    BY <1>0, Committing DEF OperatorEdits
  <1>2. /\ turn' \in Turns /\ turn'.pc = "ask" /\ turn'.b = turn.b /\ turn'.sync = turn.sync
        /\ turn'.todo = turn.todo /\ turn'.seen = turn.seen
        /\ turn'.round = turn.round /\ turn'.limit = turn.limit /\ turn'.stale = turn.stale
        /\ turn'.edited # {}
    BY <1>1 DEF OperatorEdits, Turns
  <1>3. CASE (\E t \in Resolved : wt' = [wt EXCEPT !.tree = t]) /\ UNCHANGED branch
    <2>1. PICK t \in Resolved : wt' = [wt EXCEPT !.tree = t]
      BY <1>3
    <2>2. wt' \in Places /\ wt'.merging = wt.merging /\ wt'.on = wt.on /\ wt'.foreign = wt.foreign /\ wt'.tree = t
          /\ t \notin {"markers", "clean"}
      BY <1>1, <2>1 DEF Places, Trees, Resolved
    <2> QED
      BY <1>1, <1>2, <1>3, <2>2, StepInv
  <1>4. CASE Grows(b) /\ wt' = Reset(wt)
    <2>1. wt' \in Places /\ wt'.merging = None /\ wt'.on = wt.on /\ ~wt'.foreign /\ wt'.tree = "clean"
      BY <1>1, <1>4, ResetIs
    <2>2. Placed' /\ AtWork' /\ Rounds'
      BY <1>0, <1>1, <1>2, <2>1 DEF IntegrationInv, Placed, AtWork, Rounds, Edited
    <2>3. Saved' /\ kept' \in [Phases -> Refused \cup {None}] /\ abandoned' \in [Branches -> Resolutions \cup {None}]
      BY <1>1 DEF IntegrationInv, Types, Saved
    <2> QED
      BY <1>0, <1>1, <1>2, <1>4, <2>1, <2>2, <2>3, GoesOnInv
  <1>5. CASE /\ wt.merging # None /\ wt' = Reset(wt)
             /\ branch' = Committed(b, Merge(wt.merging.src, wt.merging.tip, "other", wt.tree = "green"))
    <2>1. PICK e : e = Merge(wt.merging.src, wt.merging.tip, "other", wt.tree = "green")
      OBVIOUS
    <2>2. wt.merging \in Pending /\ Covers(wt.merging.tip, tip[wt.merging.src])
      BY <1>1, <1>5 DEF IntegrationInv, StillThere, Places
    <2>3. e \in Commits /\ Sound(e)
      BY <2>1, <2>2 DEF Resolution, Merge, Pending, Commits, Sound, Fresh, Covers
    <2> QED
      BY <1>4, <1>5, <2>1, <2>3 DEF Grows
  <1>6. CASE wt' = Reset(wt) /\ UNCHANGED branch
    BY <1>4, <1>6 DEF Grows
  <1> QED
    BY <1>0, <1>3, <1>5, <1>6 DEF OperatorEdits

LEMMA AnswerInv ==
    ASSUME IntegrationInv, Answer PROVE IntegrationInv'
  <1>1. /\ AtWork /\ turn.todo # <<>> /\ wt \in Places /\ turn \in Turns
        /\ turn.b \in Branches /\ turn.pc = "ask" /\ wt.tree # "markers"
        /\ (turn.edited = {} => wt.tree = "green") /\ (wt.merging # None => wt.tree # "clean")
    BY Committing DEF Answer
  <1>2. CASE To("commit") /\ UNCHANGED <<branch, wt, kept, abandoned>>
    <2>1. turn'.edited = turn.edited
      BY <1>1, <1>2 DEF To, Turns
    <2> QED
      BY <1>1, <1>2, <2>1, ToIs, StepInv DEF Answer
  <1>3. CASE Accepted(wt.tree, Edited) /\ UNCHANGED kept
    BY <1>1, <1>3, AcceptedInv DEF Answer, Edited
  <1>4. CASE kept' = Preserved(wt) /\ wt' = AbandonMerge(wt) /\ End("hook") /\ UNCHANGED <<branch, abandoned>>
    <2>1. turn' \in Turns /\ Rounds' /\ ~AtWork'
      BY <1>4, IdleRests DEF End
    <2>2. wt' \in Places /\ wt'.merging = None
      BY <1>1, <1>4, ResetIs DEF AbandonMerge
    <2>3. PICK o, k, ed :
              /\ o = Owner /\ ed = Edited
              /\ k = IF wt.merging = None THEN None
                     ELSE [head |-> HeadOf(turn.b), tip |-> wt.merging.tip,
                           src |-> wt.merging.src, tree |-> wt.tree, edited |-> ed]
      OBVIOUS
    <2>4. o \in Phases /\ HeadOf(turn.b) \in Heads /\ ed \in BOOLEAN /\ (~ed => wt.tree = "green")
      BY <1>1, <2>3, OwnerIs, HeadOfType DEF IntegrationInv, Types, Edited
    <2>5. k \in Refused \cup {None} /\ (k # None /\ ~k.edited => k.tree = "green")
      <3>1. CASE wt.merging = None
        BY <2>3, <3>1
      <3>2. CASE wt.merging # None
        <4>1. wt.merging.tip \in Tips /\ wt.merging.src \in Sources /\ wt.tree \in Trees
          BY <1>1, <3>2 DEF Places, Pending
        <4>2. k = [head |-> HeadOf(turn.b), tip |-> wt.merging.tip, src |-> wt.merging.src, tree |-> wt.tree,
                   edited |-> ed]
          BY <2>3, <3>2
        <4> QED
          BY <2>4, <4>1, <4>2 DEF Refused
      <3> QED
        BY <3>1, <3>2
    <2>6. kept' = [kept EXCEPT ![o] = k]
      BY <1>4, <2>3 DEF Preserved
    <2>7. Saved' /\ kept' \in [Phases -> Refused \cup {None}]
      BY <1>4, <2>4, <2>5, <2>6 DEF IntegrationInv, Types, Saved
    <2>8. Standing' /\ CommittedIsJudged'
      BY <1>4, <2>2 DEF IntegrationInv, Standing, CommittedIsJudged, Entries
    <2> QED
      BY <1>4, <2>1, <2>2, <2>7, <2>8, AsideInv DEF IntegrationInv, Types, Answer
  <1> QED
    BY <1>2, <1>3, <1>4 DEF Answer


----------------------------------------------------------------------------
(* Around the turn *)

LEMMA KillInv ==
    ASSUME IntegrationInv, Kill PROVE IntegrationInv'
  <1>0. PICK b : b = turn.b
    OBVIOUS
  <1>1. AtWork /\ b \in Branches
    BY <1>0 DEF IntegrationInv, Placed, Kill, AtWork
  <1>2. turn' \in Turns /\ Rounds' /\ ~AtWork' /\ turn'.pc = "down"
    BY IdleRests, IdleIs DEF Kill, Turns
  <1>3. /\ Grows(b) /\ wt' \in Places
        /\ wt'.merging # None => /\ Covers(wt'.merging.tip, tip[wt'.merging.src])
                                 /\ wt'.tree # "clean" /\ wt'.on \in Branches /\ ~wt'.foreign
    <2>1. CASE turn.pc = "fixing"
      <3>1. PICK w \in Worktrees : Worked(w) /\ wt' = w
        BY <2>1 DEF Kill
      <3> QED
        BY <1>0, <1>1, <2>1, <3>1, WorkedIs
    <2>2. CASE turn.pc # "fixing"
      <3>1. UNCHANGED <<wt, branch>>
        BY <2>2 DEF Kill
      <3> QED
        BY <3>1 DEF IntegrationInv, Types, Placed, StillThere, Grows
    <2> QED
      BY <2>1, <2>2
  <1>4. branch' \in [Branches -> Builds] /\ CommittedIsJudged'
    BY <1>1, <1>3, GrowsIs DEF IntegrationInv
  <1>5. Saved' /\ Standing'
    BY <1>2 DEF IntegrationInv, Kill, Saved, Standing
  <1> QED
    BY <1>2, <1>3, <1>4, <1>5, AsideInv DEF IntegrationInv, Types, Kill

\* A merge that makes the worktree busy is of the plan branch, which has moved.
LEMMA BusyIs ==
    ASSUME IntegrationInv, wt.merging # None, Busy
    PROVE  wt.merging.src = Base /\ wt.merging.tip.at < tip[Base].at
  <1>1. ~Own
    BY DEF IntegrationInv, Placed, Busy
  <1>2. wt.merging.src = Base /\ wt.merging.tip # tip[Base] /\ Covers(wt.merging.tip, tip[Base])
    BY <1>1 DEF Own, IntegrationInv, StillThere
  <1>3. wt.merging.tip \in Tips /\ tip[Base] \in Tips
    BY DEF IntegrationInv, Types, Places, Pending, Sources
  <1> QED
    BY <1>2, <1>3 DEF Covers, Tips

LEMMA ReclaimIs ==
    ASSUME IntegrationInv, Reclaim
    PROVE  /\ wt' \in Places /\ wt'.merging = None
           /\ abandoned' \in [Branches -> Resolutions \cup {None}]
           /\ \A b \in Branches : abandoned'[b] # None => abandoned'[b].tree # "clean"
  <1>1. wt \in Places /\ (wt.merging # None => wt.tree # "clean" /\ wt.on \in Branches)
    BY DEF IntegrationInv, Types, Placed
  <1> QED
    BY <1>1, ResetIs, KeepAbandonedIs DEF IntegrationInv, Reclaim

LEMMA ResumeInv ==
    ASSUME IntegrationInv, Resume PROVE IntegrationInv'
  <1>1. turn' \in Turns /\ Rounds' /\ ~AtWork'
    BY IdleRests DEF Resume
  <1>2. CommittedIsJudged' /\ UNCHANGED <<tip, branch, kept>>
    BY DEF IntegrationInv, Resume, CommittedIsJudged, Entries
  <1>3. CASE Busy /\ UNCHANGED <<wt, abandoned>>
    <2>1. Standing'
      BY <1>2, <1>3, BusyIs DEF Standing
    <2>2. Saved'
      BY <1>2, <1>3 DEF IntegrationInv, Saved
    <2> QED
      BY <1>1, <1>2, <1>3, <2>1, <2>2, AsideInv DEF IntegrationInv, Types, Placed, StillThere
  <1>4. CASE Reclaim
    <2>1. wt' \in Places /\ wt'.merging = None /\ abandoned' \in [Branches -> Resolutions \cup {None}]
          /\ \A b \in Branches : abandoned'[b] # None => abandoned'[b].tree # "clean"
      BY <1>4, ReclaimIs
    <2>2. Standing' /\ Saved'
      BY <1>2, <2>1 DEF IntegrationInv, Standing, Saved
    <2> QED
      BY <1>1, <1>2, <2>1, <2>2, AsideInv DEF IntegrationInv, Types
  <1> QED
    BY <1>3, <1>4 DEF Resume

LEMMA PersonInv ==
    ASSUME IntegrationInv, Person \/ PersonLeaves PROVE IntegrationInv'
  <1>1. ~AtWork /\ UNCHANGED <<tip, kept, abandoned, turn, out>>
    BY DEF Person, PersonLeaves, AtWork
  <1>2. turn' \in Turns /\ Rounds' /\ ~AtWork' /\ Saved'
    BY <1>1 DEF IntegrationInv, Types, Rounds, AtWork, Saved
  <1>3. wt \in Places /\ (wt.merging # None => wt.on \in Branches) /\ wt.on \in Branches \cup {None}
    BY DEF IntegrationInv, Types, Placed, Places
  <1>4. CASE wt.merging # None /\ wt' = Reset(wt)
             /\ branch' = Committed(wt.on, Merge(wt.merging.src, wt.merging.tip, "other", TRUE))
    <2>1. PICK b, e : b = wt.on /\ e = Merge(wt.merging.src, wt.merging.tip, "other", TRUE)
      OBVIOUS
    <2>2. e \in Commits /\ e.by = "other"
      BY <1>3, <1>4, <2>1 DEF Resolution, Merge, Commits, Places, Pending
    <2>3. branch' \in [Branches -> Builds] /\ Entries(b)' = Entries(b) \cup {e}
          /\ \A c \in Branches \ {b} : Entries(c)' = Entries(c)
      BY <1>3, <1>4, <2>1, <2>2, CommittedIs DEF IntegrationInv, Types
    <2>4. CommittedIsJudged'
      BY <2>2, <2>3 DEF IntegrationInv, CommittedIsJudged
    <2>5. wt' \in Places /\ wt'.merging = None
      BY <1>3, <1>4, ResetIs
    <2>6. Standing'
      BY <2>5 DEF Standing
    <2> QED
      BY <1>1, <1>2, <2>3, <2>4, <2>5, <2>6, AsideInv DEF IntegrationInv, Types
  <1>5. CASE wt.on # None /\ wt.merging = None /\ branch' = Committed(wt.on, OwnCommit("other", TRUE)) /\ UNCHANGED wt
    <2>1. PICK b, e : b = wt.on /\ e = OwnCommit("other", TRUE)
      OBVIOUS
    <2>2. e \in Commits /\ e.by = "other"
      BY <2>1, NoTipType DEF OwnCommit, Merge, Resolution, Commits
    <2>3. branch' \in [Branches -> Builds] /\ Entries(b)' = Entries(b) \cup {e}
          /\ \A c \in Branches \ {b} : Entries(c)' = Entries(c)
      BY <1>3, <1>5, <2>1, <2>2, CommittedIs DEF IntegrationInv, Types
    <2>4. CommittedIsJudged'
      BY <2>2, <2>3 DEF IntegrationInv, CommittedIsJudged
    <2>5. Standing'
      BY <1>5 DEF Standing
    <2> QED
      BY <1>1, <1>2, <1>3, <1>5, <2>3, <2>4, <2>5, AsideInv DEF IntegrationInv, Types
  <1>6. ASSUME NEW there \in BOOLEAN, wt.merging = None, wt' = [wt EXCEPT !.foreign = there], UNCHANGED branch
        PROVE  IntegrationInv'
    <2>1. wt' \in Places /\ wt'.merging = None
      BY <1>3, <1>6 DEF Places
    <2>2. Standing' /\ CommittedIsJudged'
      BY <1>6, <2>1 DEF IntegrationInv, Standing, CommittedIsJudged, Entries
    <2> QED
      BY <1>1, <1>2, <1>6, <2>1, <2>2, AsideInv DEF IntegrationInv, Types
  <1>7. CASE Person
    BY <1>4, <1>5, <1>6, <1>7 DEF Person
  <1>8. CASE PersonLeaves
    BY <1>6, <1>8 DEF IntegrationInv, Placed, PersonLeaves
  <1> QED
    BY <1>7, <1>8

LEMMA MoveInv ==
    ASSUME IntegrationInv, NEW s \in Sources, Move(s) PROVE IntegrationInv'
  <1>1. UNCHANGED <<branch, wt, kept, abandoned, turn, out>>
    BY DEF Move
  <1>2. PICK t : t = [tip[s] EXCEPT !.at = tip[s].at + 1]
    OBVIOUS
  <1>3. t \in Tips /\ t.gen = tip[s].gen /\ t.at = tip[s].at + 1 /\ tip[s] \in Tips
    BY <1>2 DEF IntegrationInv, Types, Tips
  <1>4. tip' = [tip EXCEPT ![s] = t]
    BY <1>2 DEF Move
  <1>5. /\ tip' \in [Sources -> Tips]
        /\ \A r \in Sources : tip'[r].gen = tip[r].gen /\ tip[r].at <= tip'[r].at
    BY <1>3, <1>4 DEF IntegrationInv, Types, Tips
  <1>6. \A r \in Sources, u \in Tips : Covers(u, tip[r]) => Covers(u, tip'[r])
    <2>1. \A r \in Sources : Covers(tip[r], tip'[r]) /\ tip[r] \in Tips /\ tip'[r] \in Tips
      BY <1>5 DEF Covers, IntegrationInv, Types
    <2> QED
      BY <2>1, CoversOrder
  <1>7. (Types /\ Placed /\ Todo /\ Rounds /\ Saved /\ CommittedIsJudged)'
    BY <1>1, <1>5 DEF IntegrationInv, Types, Placed, Todo, Rounds, Saved, CommittedIsJudged, Entries, AtWork, Edited
  <1>8. StillThere'
    <2>1. wt.merging # None => wt.merging.tip \in Tips /\ wt.merging.src \in Sources
      BY DEF IntegrationInv, Types, Places, Pending
    <2>2. \A r \in Sources : turn.seen[r] \in Tips
      BY DEF IntegrationInv, Types, Turns
    <2> QED
      BY <1>1, <1>6, <2>1, <2>2 DEF IntegrationInv, StillThere, AtWork, Incoming
  <1>9. Standing'
    <2>1. Base \in Sources /\ tip[Base] \in Tips /\ tip'[Base] \in Tips
      BY <1>5 DEF IntegrationInv, Types, Sources
    <2>2. wt.merging # None => wt.merging.tip \in Tips
      BY DEF IntegrationInv, Types, Places, Pending
    <2> QED
      BY <1>1, <1>5, <2>1, <2>2 DEF IntegrationInv, Standing, Tips
  <1>10. Whole'
    BY <1>1 DEF IntegrationInv, Whole, AtWork, Squashed, Entries, Members, Has, Merges
  <1>11. Current'
    <2>1. \A r \in Phases : tip'[r].gen = tip[r].gen
      BY <1>5 DEF Sources
    <2> QED
      BY <1>1, <2>1 DEF IntegrationInv, Current, AtWork, Merges, Entries, Fresh
  <1> QED
    BY <1>7, <1>8, <1>9, <1>10, <1>11 DEF IntegrationInv

LEMMA RedoInv ==
    ASSUME IntegrationInv, NEW p \in Phases, Redo(p) PROVE IntegrationInv'
  <1>1. UNCHANGED <<branch, wt, kept, abandoned, turn, out>> /\ wt.merging = None /\ turn.pc = "idle"
    BY DEF Redo, Free
  <1>2. PICK t : t = [gen |-> tip[p].gen + 1, at |-> 0]
    OBVIOUS
  <1>3. tip' = [tip EXCEPT ![p] = t] /\ t \in Tips
    BY <1>2 DEF IntegrationInv, Types, Redo, Tips, Sources
  <1>4. Types'
    BY <1>1, <1>3 DEF IntegrationInv, Types
  <1>5. ~AtWork' /\ ~AtWork
    BY <1>1 DEF AtWork
  <1> QED
    BY <1>1, <1>4, <1>5 DEF IntegrationInv, Placed, Todo, Rounds, StillThere, Saved, Standing, Whole, Current,
                            CommittedIsJudged, Entries


----------------------------------------------------------------------------
(* What is to be merged on a branch that is kept *)

Counts(T) == 0 \in T /\ \A k \in Nat : k \in T => k + 1 \in T

LEMMA Counting ==
    ASSUME NEW T, Counts(T) PROVE Nat \subseteq T
  <1> SUFFICES ASSUME NEW n \in Nat \ T PROVE FALSE
    OBVIOUS
  <1> DEFINE Bad == Nat \ T
  <1>1. \E m \in Bad : \A y \in Bad : ~ (<<y, m>> \in OpToRel(<, Nat))
    <2>1. Bad \subseteq Nat /\ Bad # {}
      OBVIOUS
    <2> HIDE DEF Bad
    <2> QED
      BY <2>1, NatLessThanWellFounded, WFMin
  <1>2. PICK m \in Bad : \A y \in Bad : ~ (<<y, m>> \in OpToRel(<, Nat))
    BY <1>1
  <1>3. m \in Nat /\ m # 0 /\ m - 1 \in Nat
    BY DEF Counts
  <1>4. <<m - 1, m>> \in OpToRel(<, Nat)
    BY <1>3 DEF OpToRel
  <1>5. m - 1 \in T
    BY <1>2, <1>3, <1>4
  <1>6. m - 1 + 1 \in T
    BY <1>3, <1>5 DEF Counts
  <1> QED
    BY <1>3, <1>6

\* f holds what is left of r, after x, up to each place, without the places of
\* `there`.
Lists(f, n, x, r, there) ==
    f = [i \in 0 .. n |-> IF i = 0 THEN x ELSE IF i \in there THEN f[i - 1] ELSE Append(f[i - 1], r[i])]

LEMMA ListsExist ==
    ASSUME NEW x, NEW r, NEW there, NEW n \in Nat PROVE \E f : Lists(f, n, x, r, there)
  <1> DEFINE T == {k \in Nat : \E f : Lists(f, k, x, r, there)}
  <1>1. 0 \in T
    <2> DEFINE f == [i \in 0 .. 0 |-> x]
    <2>1. Lists(f, 0, x, r, there)
      BY DEF Lists
    <2> QED
      BY <2>1
  <1>2. ASSUME NEW k \in Nat, k \in T PROVE k + 1 \in T
    <2>1. PICK f : Lists(f, k, x, r, there)
      BY <1>2
    <2>2. PICK v : v = IF k + 1 \in there THEN f[k] ELSE Append(f[k], r[k + 1])
      OBVIOUS
    <2> DEFINE g == [i \in 0 .. k + 1 |-> IF i = k + 1 THEN v ELSE f[i]]
    <2>3. ASSUME NEW i \in 0 .. k + 1
          PROVE  g[i] = IF i = 0 THEN x ELSE IF i \in there THEN g[i - 1] ELSE Append(g[i - 1], r[i])
      <3>1. CASE i = k + 1
        <4>1. g[i] = v /\ g[i - 1] = f[k] /\ i # 0
          BY <3>1
        <4> QED
          BY <2>2, <3>1, <4>1
      <3>2. CASE i # k + 1
        <4>1. i \in 0 .. k /\ g[i] = f[i] /\ (i # 0 => g[i - 1] = f[i - 1])
          BY <3>2
        <4>2. f[i] = IF i = 0 THEN x ELSE IF i \in there THEN f[i - 1] ELSE Append(f[i - 1], r[i])
          BY <2>1, <4>1 DEF Lists
        <4> QED
          BY <4>1, <4>2
      <3> QED
        BY <3>1, <3>2
    <2>4. Lists(g, k + 1, x, r, there)
      <3>1. g = [i \in 0 .. k + 1 |-> g[i]]
        OBVIOUS
      <3> HIDE DEF g
      <3> QED
        BY <2>3, <3>1 DEF Lists
    <2> HIDE DEF g
    <2> QED
      BY <2>4
  <1>3. Counts(T)
    BY <1>1, <1>2 DEF Counts
  <1> HIDE DEF T
  <1>4. n \in T
    BY <1>3, Counting
  <1> QED
    BY <1>4 DEF T

\* It holds x, every other place of r in order, and nothing else.
LEMMA ListsAre ==
    ASSUME NEW S, NEW x \in Seq(S), NEW r \in Seq(S), NEW there, NEW f, Lists(f, Len(r), x, r, there)
    PROVE  /\ f[Len(r)] \in Seq(S)
           /\ \A j \in DOMAIN x : Queued(f[Len(r)], x[j])
           /\ \A j \in DOMAIN r \ there : Queued(f[Len(r)], r[j])
           /\ \A i \in DOMAIN f[Len(r)] : Queued(x, f[Len(r)][i]) \/ Queued(r, f[Len(r)][i])
  <1> DEFINE Right(k) ==
        /\ f[k] \in Seq(S)
        /\ \A j \in DOMAIN x : Queued(f[k], x[j])
        /\ \A j \in DOMAIN r \ there : j <= k => Queued(f[k], r[j])
        /\ \A i \in DOMAIN f[k] : Queued(x, f[k][i]) \/ Queued(r, f[k][i])
      T == {k \in Nat : k <= Len(r) => Right(k)}
  <1>0. Len(r) \in Nat /\ DOMAIN r = 1 .. Len(r) /\ \A j \in DOMAIN r : r[j] \in S
    BY LenProperties, ElementOfSeq
  <1>1. 0 \in T
    <2>1. f[0] = x
      BY <1>0 DEF Lists
    <2> QED
      BY <1>0, <2>1 DEF Queued
  <1>2. ASSUME NEW k \in Nat, k \in T PROVE k + 1 \in T
    <2> SUFFICES ASSUME k + 1 <= Len(r) PROVE Right(k + 1)
      OBVIOUS
    <2>1. k <= Len(r) /\ k + 1 \in 1 .. Len(r) /\ k + 1 \in 0 .. Len(r) /\ k + 1 # 0 /\ k + 1 - 1 = k
      BY <1>0
    <2>2. Right(k)
      BY <1>2, <2>1
    <2>3. f[k + 1] = IF k + 1 \in there THEN f[k] ELSE Append(f[k], r[k + 1])
      <3>1. PICK n : n = k + 1
        OBVIOUS
      <3>2. n \in 0 .. Len(r) /\ n # 0 /\ n - 1 = k
        BY <2>1, <3>1
      <3>3. f[n] = IF n \in there THEN f[n - 1] ELSE Append(f[n - 1], r[n])
        BY <3>2 DEF Lists
      <3> QED
        BY <3>1, <3>2, <3>3
    <2>4. CASE k + 1 \in there
      <3>1. \A j \in DOMAIN r \ there : j <= k + 1 => j <= k
        BY <1>0, <2>4
      <3>2. f[k + 1] = f[k]
        BY <2>3, <2>4
      <3> QED
        BY <2>2, <3>1, <3>2
    <2>5. CASE k + 1 \notin there
      <3>1. PICK old, e, new : old = f[k] /\ e = r[k + 1] /\ new = f[k + 1]
        OBVIOUS
      <3>2. new = Append(old, e) /\ old \in Seq(S) /\ e \in S
        BY <1>0, <2>1, <2>2, <2>3, <2>5, <3>1
      <3>3. /\ new \in Seq(S) /\ Len(new) = Len(old) + 1 /\ new[Len(new)] = e
            /\ \A i \in 1 .. Len(old) : new[i] = old[i]
            /\ DOMAIN new = 1 .. Len(new) /\ DOMAIN old = 1 .. Len(old) /\ Len(old) \in Nat
        BY <3>2, AppendProperties, LenProperties
      <3>4. \A s : Queued(old, s) => Queued(new, s)
        BY <3>3 DEF Queued
      <3>5. Queued(new, e)
        BY <3>3 DEF Queued
      <3>6. \A j \in DOMAIN x : Queued(new, x[j])
        BY <2>2, <3>1, <3>4
      <3>7. \A j \in DOMAIN r \ there : j <= k + 1 => Queued(new, r[j])
        BY <1>0, <2>2, <3>1, <3>4, <3>5
      <3>8. \A i \in DOMAIN new : Queued(x, new[i]) \/ Queued(r, new[i])
        <4>1. Queued(r, e)
          BY <1>0, <2>1, <3>1 DEF Queued
        <4>2. \A i \in DOMAIN old : Queued(x, old[i]) \/ Queued(r, old[i])
          BY <2>2, <3>1
        <4> QED
          BY <3>3, <4>1, <4>2
      <3> QED
        BY <3>1, <3>3, <3>6, <3>7, <3>8
    <2> QED
      BY <2>4, <2>5
  <1>3. Counts(T)
    BY <1>1, <1>2 DEF Counts
  <1>4. Len(r) \in T
    <2> HIDE DEF T
    <2> QED
      BY <1>0, <1>3, Counting
  <1>5. Right(Len(r))
    BY <1>0, <1>4
  <1> QED
    BY <1>0, <1>5

LEMMA MissingIs ==
    ASSUME NEW b \in Branches
    PROVE  /\ Missing(b) \in Seq(Sources)
           /\ UnderMoved(b) => Queued(Missing(b), Under[b])
           /\ \A j \in DOMAIN Rest[b] : Contained(b, Rest[b][j]) \/ Queued(Missing(b), Rest[b][j])
           /\ \A i \in DOMAIN Missing(b) :
                 Missing(b)[i] \in Phases \/ (UnderMoved(b) /\ Missing(b)[i] = Under[b])
  <1>1. PICK r, n, x, there : /\ r = Rest[b] /\ n = Len(r)
                              /\ x = (IF UnderMoved(b) THEN <<Under[b]>> ELSE <<>>)
                              /\ there = {j \in DOMAIN r : Contained(b, r[j])}
    OBVIOUS
  <1>2. r \in Seq(Phases) /\ r \in Seq(Sources)
    BY <1>1, RestAssumption DEF Sources
  <1>3. n \in Nat /\ DOMAIN r = 1 .. n /\ \A j \in DOMAIN r : r[j] \in Phases
    BY <1>1, <1>2, LenProperties, ElementOfSeq
  <1>4. x \in Seq(Sources) /\ \A j \in DOMAIN x : UnderMoved(b) /\ x[j] = Under[b]
    BY <1>1, UnderAssumption
  <1>5. UnderMoved(b) => 1 \in DOMAIN x /\ x[1] = Under[b]
    BY <1>1
  <1> DEFINE Is(f) == f = [i \in 0 .. n |-> IF i = 0 THEN x
                                            ELSE IF Contained(b, r[i]) THEN f[i - 1]
                                            ELSE Append(f[i - 1], r[i])]
  <1>6. \A f : Lists(f, n, x, r, there) <=> Is(f)
    <2>1. \A i \in 0 .. n : i # 0 => (i \in there <=> Contained(b, r[i]))
      BY <1>1, <1>3
    <2>2. ASSUME NEW f, NEW i \in 0 .. n
          PROVE  (IF i = 0 THEN x ELSE IF i \in there THEN f[i - 1] ELSE Append(f[i - 1], r[i]))
                    = (IF i = 0 THEN x ELSE IF Contained(b, r[i]) THEN f[i - 1] ELSE Append(f[i - 1], r[i]))
      <3>1. CASE i = 0
        BY <3>1
      <3>2. CASE i # 0
        BY <2>1, <3>2
      <3> QED
        BY <3>1, <3>2
    <2> QED
      BY <2>2, Zenon DEF Lists
  <1>7. PICK u : u = CHOOSE f : Is(f)
    OBVIOUS
  <1>8. \E f : Is(f)
    BY <1>3, <1>6, ListsExist
  <1>9. Is(u)
    <2> HIDE DEF Is
    <2> QED
      BY <1>7, <1>8
  <1>10. Missing(b) = u[n]
    BY <1>1, <1>7 DEF Missing
  <1>11. Lists(u, Len(r), x, r, there)
    BY <1>1, <1>6, <1>9
  <1>12. /\ u[n] \in Seq(Sources)
         /\ \A j \in DOMAIN x : Queued(u[n], x[j])
         /\ \A j \in DOMAIN r \ there : Queued(u[n], r[j])
         /\ \A i \in DOMAIN u[n] : Queued(x, u[n][i]) \/ Queued(r, u[n][i])
    BY <1>1, <1>2, <1>4, <1>11, ListsAre
  <1> HIDE DEF Is
  <1> QED
    BY <1>1, <1>3, <1>4, <1>5, <1>10, <1>12 DEF Queued


----------------------------------------------------------------------------
(* The start of a turn *)

LEMMA BeginIs ==
    ASSUME Types, NEW b \in Branches, NEW sync \in BOOLEAN, NEW todo \in Seq(Sources), Begin(b, sync, todo)
    PROVE  /\ turn' \in Turns /\ turn'.pc = "next" /\ turn'.b = b /\ turn'.sync = sync
           /\ turn'.todo = todo /\ turn'.seen = tip
           /\ turn'.round = 0 /\ turn'.limit = MaxFixRounds /\ ~turn'.stale
           /\ AtWork' /\ Rounds'
  <1>1. turn' = [Idle EXCEPT !.pc = "next", !.b = b, !.sync = sync, !.todo = todo, !.seen = tip]
    BY DEF Begin
  <1>2. /\ turn' \in Turns /\ turn'.pc = "next" /\ turn'.b = b /\ turn'.sync = sync
        /\ turn'.todo = todo /\ turn'.seen = tip
        /\ turn'.round = 0 /\ turn'.limit = MaxFixRounds /\ ~turn'.stale
    BY <1>1, IdleIs DEF Types, Turns
  <1> QED
    BY <1>2, RoundsAssumption DEF AtWork, Rounds

LEMMA CutIs ==
    ASSUME IntegrationInv, NEW b \in Branches, branch' = Cut(b)
    PROVE  /\ branch' \in [Branches -> Builds] /\ CommittedIsJudged'
           /\ branch'[b].under = tip[Under[b]] /\ Entries(b)' = {}
  <1>1. tip[Under[b]] \in Tips
    BY UnderAssumption DEF IntegrationInv, Types
  <1>2. PICK r, n : n = branch[b].build + 1
                    /\ r = [made |-> TRUE, build |-> n, under |-> tip[Under[b]], cut |-> tip[Under[b]], ins |-> <<>>]
    OBVIOUS
  <1>3. n \in Nat
    BY <1>2 DEF IntegrationInv, Types, Builds
  <1>4. r \in Builds /\ r.ins = <<>> /\ r.under = tip[Under[b]]
    BY <1>1, <1>2, <1>3, EmptySeq DEF Builds
  <1>5. branch' = [branch EXCEPT ![b] = r]
    BY <1>2 DEF Cut
  <1>6. /\ branch' \in [Branches -> Builds] /\ branch'[b] = r
        /\ \A c \in Branches \ {b} : branch'[c] = branch[c]
    BY <1>4, <1>5 DEF IntegrationInv, Types
  <1>7. Entries(b)' = {}
    BY <1>4, <1>6 DEF Entries
  <1>8. \A c \in Branches \ {b} : Entries(c)' = Entries(c)
    BY <1>6 DEF Entries
  <1> QED
    BY <1>4, <1>6, <1>7, <1>8 DEF IntegrationInv, CommittedIsJudged

\* A turn starts over what the worktree is left with once nothing is in it, and
\* a branch that has what is not queued.
LEMMA BegunInv ==
    ASSUME IntegrationInv, NEW b \in Branches, NEW sync \in BOOLEAN, NEW todo \in Seq(Sources),
           Begin(b, sync, todo), UNCHANGED <<tip, kept>>,
           wt' \in Places, wt'.merging = None, wt'.on = b, ~wt'.foreign,
           abandoned' \in [Branches -> Resolutions \cup {None}], Saved',
           branch' \in [Branches -> Builds], CommittedIsJudged',
           sync => Under[b] = Base /\ \A i \in DOMAIN todo : todo[i] = Base,
           ~sync => \A i \in DOMAIN todo : todo[i] \in Phases,
           \A s \in IF sync THEN {Base} ELSE {Under[b]} \cup {Rest[b][i] : i \in DOMAIN Rest[b]} :
               Queued(todo, s) \/ \A t : t = tip[s] => Has(b, s, t)',
           ~sync => \A e \in Merges(b)' : Fresh(e)
    PROVE  IntegrationInv'
  <1>1. /\ turn' \in Turns /\ turn'.pc = "next" /\ turn'.b = b /\ turn'.sync = sync
        /\ turn'.todo = todo /\ turn'.seen = tip /\ AtWork' /\ Rounds'
    BY BeginIs DEF IntegrationInv
  <1>2. Types'
    BY <1>1 DEF IntegrationInv, Types
  <1>3. Placed' /\ Todo' /\ Standing'
    BY <1>1 DEF Placed, Todo, Standing
  <1>4. StillThere'
    BY <1>1, CoversOrder DEF IntegrationInv, Types, StillThere
  <1>5. Whole'
    <2>1. Members(turn)' = IF sync THEN {Base} ELSE {Under[b]} \cup {Rest[b][i] : i \in DOMAIN Rest[b]}
      BY <1>1 DEF Members
    <2>2. ASSUME NEW s \in Members(turn)', NEW t, t = tip[s]
          PROVE  Queued(todo, s) \/ Has(b, s, t)'
      BY <2>1, <2>2
    <2> QED
      BY <1>1, <2>2 DEF Whole
  <1>6. Current'
    BY <1>1 DEF Current, Fresh
  <1> QED
    BY <1>1, <1>2, <1>3, <1>4, <1>5, <1>6 DEF IntegrationInv

\* A turn that ends where it would have started.
LEMMA NotBegunInv ==
    ASSUME IntegrationInv, UNCHANGED <<tip, branch, kept, wt>>,
           \/ End("busy") /\ Busy
           \/ End("failed"),
           abandoned' \in [Branches -> Resolutions \cup {None}], Saved'
    PROVE  IntegrationInv'
  <1>1. turn' \in Turns /\ Rounds' /\ ~AtWork'
    BY IdleRests DEF End
  <1>2. Standing'
    BY BusyIs DEF End, Standing
  <1>3. CommittedIsJudged'
    BY DEF IntegrationInv, CommittedIsJudged, Entries
  <1> QED
    BY <1>1, <1>2, <1>3, AsideInv DEF IntegrationInv, Types, Placed, StillThere

\* The worktree, as the turn takes it over.
LEMMA TakenOver ==
    ASSUME IntegrationInv, ~Busy, NEW b \in Branches, abandoned' = KeepAbandoned(wt), kept' = kept,
           wt' = [Reset(wt) EXCEPT !.on = b, !.tree = IF wt.merging = None THEN wt.tree ELSE "clean"]
    PROVE  /\ wt' \in Places /\ wt'.merging = None /\ wt'.on = b /\ ~wt'.foreign
           /\ abandoned' \in [Branches -> Resolutions \cup {None}] /\ Saved'
  <1>1. wt \in Places /\ ~wt.foreign /\ (wt.merging # None => wt.tree # "clean" /\ wt.on \in Branches)
    BY DEF IntegrationInv, Types, Placed, Busy
  <1>2. PICK t, w : t = (IF wt.merging = None THEN wt.tree ELSE "clean") /\ w = Reset(wt)
    OBVIOUS
  <1>3. t \in Trees /\ w \in Places /\ w.merging = None /\ ~w.foreign
    BY <1>1, <1>2, ResetIs DEF Places, Trees
  <1>4. wt' = [w EXCEPT !.on = b, !.tree = t]
    BY <1>2
  <1>5. wt' \in Places /\ wt'.merging = None /\ wt'.on = b /\ ~wt'.foreign
    BY <1>3, <1>4 DEF Places
  <1> QED
    BY <1>1, <1>5, KeepAbandonedIs DEF IntegrationInv, Saved

LEMMA StartInv ==
    ASSUME IntegrationInv, NEW b \in Branches, Start(b) PROVE IntegrationInv'
  <1>1. UNCHANGED <<tip, kept>> /\ Under[b] \in Sources /\ tip[Under[b]] \in Tips
    BY UnderAssumption DEF IntegrationInv, Types, Start
  <1>2. CASE Busy
    <2>1. End("busy") /\ UNCHANGED <<wt, branch, abandoned>>
      BY <1>2 DEF Start
    <2> QED
      BY <1>1, <1>2, <2>1, NotBegunInv DEF IntegrationInv, Types, Saved
  <1>3. CASE ~Busy /\ End("failed") /\ wt.merging = None /\ UNCHANGED <<wt, branch>>
    <2>1. abandoned' = abandoned
      BY <1>3 DEF Start, KeepAbandoned
    <2> QED
      BY <1>1, <1>3, <2>1, NotBegunInv DEF IntegrationInv, Types, Saved
  <1>4. CASE /\ ~Busy
             /\ wt' = [Reset(wt) EXCEPT !.on = b, !.tree = IF wt.merging = None THEN wt.tree ELSE "clean"]
             /\ branch' = IF Reusable(b) THEN branch ELSE Cut(b)
             /\ Begin(b, FALSE, IF Reusable(b) THEN Missing(b) ELSE Rest[b])
    <2>1. /\ wt' \in Places /\ wt'.merging = None /\ wt'.on = b /\ ~wt'.foreign
          /\ abandoned' \in [Branches -> Resolutions \cup {None}] /\ Saved'
      <3>1. abandoned' = KeepAbandoned(wt)
        BY <1>4 DEF Start
      <3> QED
        BY <1>1, <1>4, <3>1, TakenOver
    <2>2. CASE Reusable(b)
      <3>1. branch' = branch /\ Begin(b, FALSE, Missing(b))
        BY <1>4, <2>2
      <3>2. branch' \in [Branches -> Builds] /\ CommittedIsJudged' /\ Entries(b)' = Entries(b)
        BY <3>1 DEF IntegrationInv, Types, CommittedIsJudged, Entries
      <3>3. PICK todo : todo = Missing(b)
        OBVIOUS
      <3>4. /\ todo \in Seq(Sources) /\ Begin(b, FALSE, todo)
            /\ UnderMoved(b) => Queued(todo, Under[b])
            /\ \A j \in DOMAIN Rest[b] : Contained(b, Rest[b][j]) \/ Queued(todo, Rest[b][j])
        BY <3>1, <3>3, MissingIs
      <3>5. \A i \in DOMAIN todo : todo[i] \in Phases
        BY <2>2, <3>3, MissingIs DEF Reusable
      <3>6. ASSUME NEW s \in {Under[b]} \cup {Rest[b][i] : i \in DOMAIN Rest[b]}, NEW t, t = tip[s]
            PROVE  Queued(todo, s) \/ Has(b, s, t)'
        <4>1. Queued(todo, s) \/ Has(b, s, t)
          BY <3>4, <3>6 DEF UnderMoved, Contained
        <4> QED
          BY <3>1, <3>2, <4>1, HasStays
      <3>7. \A e \in Merges(b)' : Fresh(e)
        BY <2>2, <3>2 DEF Reusable, Merges, Fresh, Covers
      <3> QED
        BY <1>1, <2>1, <3>2, <3>4, <3>5, <3>6, <3>7, BegunInv
    <2>3. CASE ~Reusable(b)
      <3>1. branch' = Cut(b) /\ Begin(b, FALSE, Rest[b])
        BY <1>4, <2>3
      <3>2. /\ branch' \in [Branches -> Builds] /\ CommittedIsJudged'
            /\ branch'[b].under = tip[Under[b]] /\ Entries(b)' = {}
        BY <3>1, CutIs
      <3>3. PICK todo : todo = Rest[b]
        OBVIOUS
      <3>4. todo \in Seq(Sources) /\ todo \in Seq(Phases) /\ Begin(b, FALSE, todo)
        <4>1. todo \in Seq(Phases)
          BY <3>3, RestAssumption
        <4>2. todo \in Seq(Sources)
          BY <4>1 DEF Sources
        <4> QED
          BY <3>1, <3>3, <4>1, <4>2
      <3>5. \A i \in DOMAIN todo : todo[i] \in Phases
        BY <3>4, ElementOfSeq, LenProperties
      <3>6. ASSUME NEW s \in {Under[b]} \cup {Rest[b][i] : i \in DOMAIN Rest[b]}, NEW t, t = tip[s]
            PROVE  Queued(todo, s) \/ Has(b, s, t)'
        <4>1. CASE s = Under[b]
          <5>1. Covers(t, branch'[b].under)
            BY <1>1, <3>2, <3>6, <4>1, CoversOrder
          <5> QED
            BY <4>1, <5>1 DEF Has
        <4>2. CASE s # Under[b]
          BY <3>3, <3>6, <4>2 DEF Queued
        <4> QED
          BY <4>1, <4>2
      <3>7. \A e \in Merges(b)' : Fresh(e)
        BY <3>2 DEF Merges
      <3> QED
        BY <1>1, <2>1, <3>2, <3>4, <3>5, <3>6, <3>7, BegunInv
    <2> QED
      BY <2>2, <2>3
  <1> QED
    BY <1>2, <1>3, <1>4 DEF Start

LEMMA StartSyncInv ==
    ASSUME IntegrationInv, NEW b \in Branches, StartSync(b) PROVE IntegrationInv'
  <1>1. UNCHANGED <<tip, kept, branch>> /\ Under[b] = Base
    BY DEF StartSync
  <1>2. CASE Busy
    <2>1. End("busy") /\ UNCHANGED <<wt, abandoned>>
      BY <1>2 DEF StartSync
    <2> QED
      BY <1>1, <1>2, <2>1, NotBegunInv DEF IntegrationInv, Types, Saved
  <1>3. CASE ~Busy
    <2>1. /\ wt' = [Reset(wt) EXCEPT !.on = b, !.tree = IF wt.merging = None THEN wt.tree ELSE "clean"]
          /\ abandoned' = KeepAbandoned(wt) /\ Begin(b, TRUE, <<Base>>)
      BY <1>3 DEF StartSync
    <2>2. /\ wt' \in Places /\ wt'.merging = None /\ wt'.on = b /\ ~wt'.foreign
          /\ abandoned' \in [Branches -> Resolutions \cup {None}] /\ Saved'
      BY <1>1, <1>3, <2>1, TakenOver
    <2>3. PICK todo : todo = <<Base>>
      OBVIOUS
    <2>4. todo \in Seq(Sources) /\ (\A i \in DOMAIN todo : todo[i] = Base) /\ Queued(todo, Base)
      BY <2>3 DEF Sources, Queued
    <2>5. branch' \in [Branches -> Builds] /\ CommittedIsJudged'
      BY <1>1 DEF IntegrationInv, Types, CommittedIsJudged, Entries
    <2> QED
      BY <1>1, <2>1, <2>2, <2>3, <2>4, <2>5, BegunInv
  <1> QED
    BY <1>2, <1>3

----------------------------------------------------------------------------

LEMMA InitInv ==
    Init => IntegrationInv
  <1> SUFFICES ASSUME Init PROVE IntegrationInv
    OBVIOUS
  <1>1. tip = [s \in Sources |-> NoTip] /\ Base \in Sources
    BY DEF Init, Sources
  <1>2. PICK r : r = [made |-> FALSE, build |-> 0, under |-> tip[Base], cut |-> tip[Base], ins |-> <<>>]
    OBVIOUS
  <1>3. r \in Builds /\ r.ins = <<>>
    BY <1>1, <1>2, NoTipType, EmptySeq DEF Builds
  <1>4. branch = [b \in Branches |-> r]
    BY <1>2 DEF Init
  <1>5. wt \in Places /\ wt.merging = None
    BY DEF Init, CleanOn, Places, Trees
  <1>6. /\ turn \in Turns /\ turn.pc = "idle" /\ turn.round = 0 /\ turn.limit = MaxFixRounds /\ ~turn.stale
    BY IdleIs DEF Init
  <1>7. Types
    BY <1>1, <1>3, <1>4, <1>5, <1>6, NoTipType DEF Init, Types
  <1>8. \A b \in Branches : Entries(b) = {}
    BY <1>3, <1>4 DEF Entries
  <1> QED
    BY <1>5, <1>6, <1>7, <1>8, RoundsAssumption
       DEF Init, IntegrationInv, Placed, Todo, Rounds, StillThere, Saved, Standing, Whole, Current, AtWork,
           CommittedIsJudged

LEMMA StutterInv ==
    ASSUME IntegrationInv, UNCHANGED vars PROVE IntegrationInv'
  BY DEF vars, IntegrationInv, Types, Placed, Todo, Rounds, StillThere, Saved, Standing, Whole, Current, AtWork,
         CommittedIsJudged, Entries, Merges, Has, Squashed, Members, Fresh, Incoming, Edited

LEMMA NextInv ==
    ASSUME IntegrationInv, [Next]_vars PROVE IntegrationInv'
  <1>1. ASSUME Turn PROVE IntegrationInv'
    BY <1>1, MergeNextInv, FinishInv, SettleInv, RoundInv, RoundEndsInv, RoundRefusedInv, RoundStoppedInv,
       JudgeInv, JudgeFailsInv, CommitInv DEF Turn
  <1> QED
    BY <1>1, AnswerInv, OperatorEditsInv, ResumeInv, KillInv, PersonInv, StartInv, StartSyncInv, MoveInv, RedoInv, StutterInv
       DEF Next

LEMMA InvHolds ==
    Spec => []IntegrationInv
  BY InitInv, NextInv, PTL DEF Spec

LEMMA InvIsTyped ==
    ASSUME IntegrationInv PROVE TypeOK
  <1>1. turn.limit <= MaxFixRounds + 1 /\ turn.round <= turn.limit
    BY RoundsAssumption DEF IntegrationInv, Rounds
  <1> QED
    BY <1>1 DEF IntegrationInv, Types, Placed, AtWork, TypeOK

\* Whatever moved, was killed, was finished by hand or refused in between, a
\* branch that a turn of prepareBase, mergeWave or mergeBranch hands out holds
\* every member the turn was about, and nothing of a history that a member no
\* longer has, unless a resolution was committed that was no merge; and the
\* rounds of a merge are never more than `max_fix_rounds` and one
\* (`#reusable`, `#mergeOne`).
THEOREM BranchesAreWhole == Spec => []HandedOutWhole
  <1>1. ASSUME IntegrationInv, turn.pc = "next", turn.todo = <<>>
        PROVE  /\ \/ \A s \in Members(turn) : Has(turn.b, s, turn.seen[s])
                  \/ \E e \in Entries(turn.b) : e.by = "integrator" /\ e.src = None
               /\ ~turn.sync => \A e \in Merges(turn.b) : e.src \in Phases => e.tip.gen = tip[e.src].gen
    <2>1. AtWork /\ \A s : ~Queued(turn.todo, s)
      BY <1>1 DEF AtWork, Queued
    <2> QED
      BY <1>1, <2>1 DEF IntegrationInv, Whole, Current, Squashed, Fresh
  <1>2. IntegrationInv => HandedOutWhole
    BY <1>1, InvIsTyped DEF HandedOutWhole, Members
  <1> QED
    BY <1>2, InvHolds, PTL

\* Every commit the integrator makes of a resolution, at once, after a round, of
\* a previous attempt or of one kept from a refused commit, is of a tree that
\* the gates passed on (`#verify` before `#commitResolution`), unless a hook or
\* the operator who was asked staged something else while it was committed.
THEOREM CommitsAreJudged == Spec => []CommittedIsJudged
  <1>1. IntegrationInv => CommittedIsJudged
    BY DEF IntegrationInv
  <1> QED
    BY <1>1, InvHolds, PTL

\* A turn that ends leaves a merge of the run standing only when it says that
\* its rounds ran out or that its gates could not run (`#abandonMerge`).
THEOREM StandingIsTold == Spec => []StandsOnlyWhenToldSo
  <1>1. IntegrationInv => StandsOnlyWhenToldSo
    <2> SUFFICES ASSUME IntegrationInv, turn.pc = "idle", wt.merging # None, ~Busy,
                        out \notin {"unresolved", "failed"}
                 PROVE  FALSE
      BY DEF StandsOnlyWhenToldSo
    <2>1. wt.merging.src = Base /\ wt.merging.tip.at < tip[Base].at
      BY DEF IntegrationInv, Standing
    <2>2. wt.merging.tip = tip[Base]
      BY <2>1 DEF Busy, Own
    <2>3. tip[Base].at \in Nat
      BY DEF IntegrationInv, Types, Sources, Tips
    <2> QED
      BY <2>1, <2>2, <2>3
  <1> QED
    BY <1>1, InvHolds, PTL

\* An unfinished merge that a later turn or a resume takes out of the worktree
\* is under its ref first, with its tree and both of its tips (`reclaim`,
\* `#keepAbandoned`).
THEOREM TakenDownIsThere == Spec => TakenDownIsKept
  <1>1. ASSUME IntegrationInv, [Next]_vars, wt.merging # None, wt'.merging = None,
               turn.pc \in {"idle", "down"}, turn' # turn
        PROVE  abandoned'[wt.on] = Kept(wt)
    <2>1. abandoned' = KeepAbandoned(wt) => abandoned'[wt.on] = Kept(wt)
      BY <1>1, KeepAbandonedIs DEF IntegrationInv, Types, Placed
    <2>2. ~Turn /\ ~Answer /\ ~OperatorEdits /\ ~Kill
      BY <1>1 DEF Turn, MergeNext, Finish, Settle, Round, RoundEnds, RoundRefused, RoundStopped, Judge,
                  JudgeFails, Commit, Answer, OperatorEdits, Kill
    <2>3. CASE Resume
      BY <1>1, <2>1, <2>3 DEF Resume, Reclaim
    <2>4. CASE Person \/ PersonLeaves
      BY <1>1, <2>4 DEF Person, PersonLeaves
    <2>5. ASSUME NEW b \in Branches, Start(b) PROVE abandoned'[wt.on] = Kept(wt)
      BY <1>1, <2>1, <2>5 DEF Start
    <2>6. ASSUME NEW b \in Branches, StartSync(b) PROVE abandoned'[wt.on] = Kept(wt)
      BY <1>1, <2>1, <2>6 DEF StartSync
    <2>7. ASSUME NEW s \in Sources, Move(s) PROVE FALSE
      BY <1>1, <2>7 DEF Move
    <2>8. ASSUME NEW p \in Phases, Redo(p) PROVE FALSE
      BY <1>1, <2>8 DEF Redo
    <2>9. ~UNCHANGED vars
      BY <1>1 DEF vars
    <2> QED
      BY <1>1, <2>2, <2>3, <2>4, <2>5, <2>6, <2>7, <2>8, <2>9 DEF Next
  <1>2. IntegrationInv /\ [Next]_vars =>
            [/\ wt.merging # None /\ wt'.merging = None
             /\ turn.pc \in {"idle", "down"} /\ turn' # turn
             => abandoned'[wt.on] = Kept(wt)]_vars
    BY <1>1
  <1> QED
    BY <1>2, InvHolds, PTL DEF Spec, TakenDownIsKept
=============================================================================
