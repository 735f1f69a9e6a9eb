---------------------------- MODULE Integration ----------------------------
(***************************************************************************)
(* The integration worktree: the branches that merge several phases, and    *)
(* the conflict loop around each merge                                      *)
(* (packages/vinta-ai-maestro/src/integration/integrator.ts, fixer.ts).     *)
(*                                                                          *)
(* Turns are serialized by the executor's queue (module Waves), so one turn  *)
(* at a time is at work here; what interleaves with it is everything that    *)
(* does not queue: phases that commit, the agent that fixes, the operator,   *)
(* a process that is killed.  Git is its reachability: a tip is a history    *)
(* (`gen`) and a length (`at`), a branch is what it was cut from and the      *)
(* commits made on it since.  Paths, messages and generated files are left   *)
(* out; a tree is clean, has conflict markers, or has none and is red or      *)
(* green under the gates.                                                   *)
(***************************************************************************)
EXTENDS Integers, Sequences

CONSTANTS
    Phases,       \* phases whose branches are merged
    Base,         \* the run's own base, which is no phase
    Branches,     \* `integ-<id>` and `wave-<n>` branches
    Under,        \* branch -> what it is cut from: a phase, or Base
    Rest,         \* branch -> the phases merged on it, in plan order
    MaxFixRounds, \* max_fix_rounds
    None,         \* no kept commit, no merge
    Budget        \* BOUND: turns in a behaviour, and events: a tip that moves, a
                  \* kill, a commit a hook refuses or rewrites, a thing an operator does

Sources == Phases \cup {Base}

ASSUME BaseAssumption == Base \notin Phases
ASSUME UnderAssumption == Under \in [Branches -> Sources]
ASSUME RestAssumption == Rest \in [Branches -> Seq(Phases)]
ASSUME RoundsAssumption == MaxFixRounds \in Nat
\* A wave has phases.
ASSUME WaveAssumption == \A b \in Branches : Under[b] = Base => Rest[b] # <<>>
ASSUME NoneAssumption == None \notin Sources
ASSUME BudgetAssumption == Budget \in [{"turns", "events"} -> Nat]

VARIABLES
    tip,       \* source -> its branch's tip
    branch,    \* branch -> [made, build, under, cut, ins]: `under` is the tip it
               \* contains, `cut` the one CUT_REFS remembers, `ins` its commits
    wt,        \* the worktree: [on, merging, tree, foreign]
    kept,      \* phase -> RESOLUTION_REFS: what was staged when its commit was given up
    abandoned, \* branch -> ABANDONED_REFS: an unfinished merge that was taken down
    fixes,     \* FIX_REFS holds a fix
    turn,      \* the turn in the worktree
    out,       \* how the last turn ended
    left       \* what is left of Budget

vars == <<tip, branch, wt, kept, abandoned, fixes, turn, out, left>>

Resolved == {"red", "green"}
NoTip == [gen |-> 0, at |-> 0]
\* `from` is where the tree being judged came from: git itself, the previous
\* attempt or a fix round; `fix` whether the gates broke on this merge, and
\* were mended by a recorded fix; `edited` who changed what is staged since the
\* gates passed on it, while it was being committed.
Idle == [pc |-> "idle", b |-> CHOOSE b \in Branches : TRUE, sync |-> FALSE, todo |-> <<>>,
         seen |-> [s \in Sources |-> NoTip], from |-> "none", round |-> 0, limit |-> MaxFixRounds,
         stale |-> FALSE, fix |-> "none", edited |-> {}]
Work == Resolved \cup {"markers"}
CleanOn(b) == [on |-> b, merging |-> None, tree |-> "clean", foreign |-> FALSE]

Init ==
    /\ tip = [s \in Sources |-> NoTip]
    /\ branch = [b \in Branches |-> [made |-> FALSE, build |-> 0, under |-> tip[Base], cut |-> tip[Base], ins |-> <<>>]]
    /\ wt = CleanOn(None)
    /\ kept = [p \in Phases |-> None]
    /\ abandoned = [b \in Branches |-> None]
    /\ fixes = FALSE
    /\ turn = Idle
    /\ out = "none"
    /\ left = Budget

Spend(what) == left[what] > 0 /\ left' = [left EXCEPT ![what] = @ - 1]

----------------------------------------------------------------------------
(* Reachability *)

\* merge-base --is-ancestor, between two tips of one branch.
Covers(old, new) == old.gen = new.gen /\ old.at <= new.at

\* A commit: who made it (the integrator, the integrator of a kept resolution,
\* or git, an agent or a person), whether the gates pass on it, and whether it
\* is `edited`: of another tree than the one they were run on.
Resolution(s, t, by, ok, edited) == [src |-> s, tip |-> t, by |-> by, ok |-> ok, edited |-> edited]
Merge(s, t, by, ok) == Resolution(s, t, by, ok, FALSE)
OwnCommit(by, ok) == Merge(None, NoTip, by, ok)

Entries(b) == {branch[b].ins[i] : i \in DOMAIN branch[b].ins}
Merges(b) == {e \in Entries(b) : e.src # None}

\* merge-base --is-ancestor <source> <branch>
Has(b, s, t) ==
    \/ s = Under[b] /\ Covers(t, branch[b].under)
    \/ \E e \in Merges(b) : e.src = s /\ Covers(t, e.tip)

\* A branch's HEAD: what it was cut at until a commit is made on it.
HeadOf(b) ==
    IF branch[b].ins = <<>> THEN <<Under[b], branch[b].under>>
    ELSE <<b, branch[b].build, Len(branch[b].ins)>>

HeadOk(b) == \A i \in DOMAIN branch[b].ins : i = Len(branch[b].ins) => branch[b].ins[i].ok

Committed(b, e) == [branch EXCEPT ![b].ins = Append(@, e)]

\* #contains: the incoming branch, where it stands now.
Contained(b, s) == Has(b, s, tip[s])

UnderMoved(b) == ~Has(b, Under[b], tip[Under[b]])

\* Fault: what was merged into the branch is not looked at again.
ReusableUnlooked(b) ==
    branch[b].made /\ (UnderMoved(b) => Under[b] \in Phases /\ Covers(branch[b].cut, tip[Under[b]]))

\* #reusable, its `return null`s: whether the branch can be built on.  The
\* incoming side of each merge has to be in some member's tip, and a resolution
\* that was kept is a commit of its own, in nobody's.
Reusable(b) ==
    /\ branch[b].made
    /\ UnderMoved(b) => Under[b] \in Phases /\ Covers(branch[b].cut, tip[Under[b]])
    /\ \A e \in Merges(b) :
         /\ e.by # "kept"
         /\ \/ \E i \in DOMAIN Rest[b] : e.src = Rest[b][i]
            \/ UnderMoved(b) /\ e.src = Under[b]
         /\ Covers(e.tip, tip[e.src])

\* #reusable: what is to be merged on a branch that is kept, in order.
Missing(b) ==
    LET upTo[i \in 0 .. Len(Rest[b])] ==
            IF i = 0 THEN IF UnderMoved(b) THEN <<Under[b]>> ELSE <<>>
            ELSE IF Contained(b, Rest[b][i]) THEN upTo[i - 1]
            ELSE Append(upTo[i - 1], Rest[b][i])
    IN  upTo[Len(Rest[b])]

\* #cut
Cut(b) ==
    [branch EXCEPT ![b] = [made |-> TRUE, build |-> @.build + 1, under |-> tip[Under[b]],
                           cut |-> tip[Under[b]], ins |-> <<>>]]

----------------------------------------------------------------------------
(* reclaim *)

\* #ownMerge: one of the plan's branches, taking something a phase's has;
\* a merge of the plan branch only while that is still where it was.
Own ==
    /\ wt.merging # None
    /\ IF wt.merging.src = Base THEN wt.merging.tip = tip[Base] ELSE Covers(wt.merging.tip, tip[wt.merging.src])

Busy == wt.foreign \/ (wt.merging # None /\ ~Own)

\* The tree as a commit with the merge's own parents.
Kept(w) == [head |-> HeadOf(w.on), tip |-> w.merging.tip, src |-> w.merging.src, tree |-> w.tree]

\* Fault: only a tree without conflict markers is written, which is what
\* write-tree can do before the paths are staged.
KeepAbandonedUnstaged(w) ==
    IF w.merging # None /\ w.tree # "markers" THEN [abandoned EXCEPT ![w.on] = Kept(w)] ELSE abandoned

\* #keepAbandoned
KeepAbandoned(w) ==
    IF w.merging # None THEN [abandoned EXCEPT ![w.on] = Kept(w)] ELSE abandoned

Reset(w) == [w EXCEPT !.merging = None, !.tree = "clean"]

\* reclaim, when it does not refuse.  A tree left dirty with no merge in it is
\* no operation, and stays.
Reclaim ==
    /\ abandoned' = KeepAbandoned(wt)
    /\ wt' = IF wt.merging = None THEN wt ELSE Reset(wt)

----------------------------------------------------------------------------
(* prepareBase and mergeWave; mergeBranch, for sync-base *)

End(how) == turn' = Idle /\ out' = how

Begin(b, sync, todo) ==
    /\ turn' = [Idle EXCEPT !.pc = "next", !.b = b, !.sync = sync, !.todo = todo, !.seen = tip]
    /\ out' = "none"

Free == turn.pc = "idle"

Start(b) ==
    /\ Free /\ Spend("turns")
    /\ IF Busy
       THEN End("busy") /\ UNCHANGED <<wt, branch, abandoned>>
       ELSE /\ abandoned' = KeepAbandoned(wt)
            /\ \/ /\ wt' = [Reset(wt) EXCEPT !.on = b, !.tree = IF wt.merging = None THEN wt.tree ELSE "clean"]
                  /\ branch' = IF Reusable(b) THEN branch ELSE Cut(b)
                  /\ Begin(b, FALSE, IF Reusable(b) THEN Missing(b) ELSE Rest[b])
               \/ /\ wt.merging = None /\ wt.tree # "clean"   \* the checkout is refused
                  /\ End("failed") /\ UNCHANGED <<wt, branch>>
    /\ UNCHANGED <<tip, kept, fixes>>

\* The plan branch, which has moved, into a wave branch that exists.
StartSync(b) ==
    /\ Free /\ Under[b] = Base /\ branch[b].made /\ ~Has(b, Base, tip[Base])
    /\ Spend("turns")
    /\ IF Busy
       THEN End("busy") /\ UNCHANGED <<wt, abandoned>>
       ELSE /\ abandoned' = KeepAbandoned(wt)
            /\ wt' = [Reset(wt) EXCEPT !.on = b, !.tree = IF wt.merging = None THEN wt.tree ELSE "clean"]
            /\ Begin(b, TRUE, <<Base>>)
    /\ UNCHANGED <<tip, branch, kept, fixes>>

Finish ==
    /\ turn.pc = "next" /\ turn.todo = <<>>
    /\ End("ok")
    /\ UNCHANGED <<tip, branch, wt, kept, abandoned, fixes, left>>

----------------------------------------------------------------------------
(* #mergeOne *)

To(pc) == turn' = [turn EXCEPT !.pc = pc]

\* One merge is over; the next one starts with nothing tried.
Merged ==
    turn' = [turn EXCEPT !.pc = "next", !.todo = Tail(@), !.from = "none", !.round = 0, !.limit = MaxFixRounds,
                         !.stale = FALSE, !.fix = "none", !.edited = {}]

Incoming == Head(turn.todo)
Concluded == wt' = Reset(wt)   \* by the commit

\* Fault: what could not be committed is left in the worktree.
NotAbandoned(w) == w

\* #abandonMerge
AbandonMerge(w) == Reset(w)

\* What the resolution of this merge is kept under: its own phase, and the last
\* phase of the branch when the merge is of no phase.
Owner == IF turn.sync THEN Rest[turn.b][Len(Rest[turn.b])] ELSE Incoming

MergeNext ==
    /\ turn.pc = "next" /\ turn.todo # <<>>
    /\ LET m == Incoming IN
       \/ /\ wt.tree # "clean"                    \* refused: a tree left dirty without a merge
          /\ End("failed")
          /\ UNCHANGED <<branch, wt, left>>
       \/ /\ wt.tree = "clean"
          /\ branch' = Committed(turn.b, Merge(m, tip[m], "other", TRUE))
          /\ Merged
          /\ UNCHANGED <<wt, out, left>>
       \/ /\ wt.tree = "clean"
          /\ wt' = [wt EXCEPT !.merging = [src |-> m, tip |-> tip[m]], !.tree = "markers"]
          /\ To("settle")
          /\ UNCHANGED <<branch, out, left>>
       \/ /\ wt.tree = "clean" /\ Spend("events")   \* resolved by git, refused by a hook
          /\ \E t \in Resolved : wt' = [wt EXCEPT !.merging = [src |-> m, tip |-> tip[m]], !.tree = t]
          /\ turn' = [turn EXCEPT !.pc = "judge", !.from = "git"]
          /\ UNCHANGED <<branch, out>>
    /\ UNCHANGED <<tip, kept, abandoned, fixes>>

\* What is under a ref is about this merge: its parents are the two tips.
ThisMerge(k) == k # None /\ k.head = HeadOf(turn.b) /\ k.src = Incoming /\ k.tip = tip[Incoming]

\* Fault: a previous attempt without markers is a resolution.
PreviousTrusted(t) == IF t = "markers" THEN "round" ELSE "commit"

AfterPrevious(t) == IF t = "markers" THEN "round" ELSE "judge"

\* #previousAttempt, and starting from it
Previous(w) ==
    IF ThisMerge(abandoned[turn.b])
    THEN LET t == abandoned[turn.b].tree IN
         /\ wt' = [w EXCEPT !.tree = t]
         /\ turn' = [turn EXCEPT !.pc = AfterPrevious(t), !.from = "previous"]
    ELSE wt' = w /\ To("round")

Settle ==
    /\ turn.pc = "settle"
    /\ LET k == kept[Owner] IN
       \/ /\ ThisMerge(k)
          /\ branch' = Committed(turn.b, Resolution(Incoming, k.tip, "kept", k.tree = "green", k.edited))
          /\ Concluded /\ Merged
          /\ UNCHANGED <<kept, left>>
       \/ /\ ThisMerge(k) /\ Spend("events")
          /\ kept' = [kept EXCEPT ![Owner] = None]
          /\ Previous([wt EXCEPT !.tree = "markers"])
          /\ UNCHANGED branch
       \/ /\ ~ThisMerge(k)
          /\ Previous(wt)
          /\ UNCHANGED <<branch, kept, left>>
    /\ UNCHANGED <<tip, abandoned, fixes, out>>

\* mergeBranch takes down what a turn that throws leaves standing.
Throw(how) ==
    /\ End(how)
    /\ IF turn.sync /\ wt.merging # None
       THEN wt' = AbandonMerge(wt) /\ abandoned' = KeepAbandoned(wt)
       ELSE UNCHANGED <<wt, abandoned>>

\* Fault: the rounds after a stale environment are not counted.
CountedUnlessStale == IF turn.stale THEN turn.round ELSE turn.round + 1

Counted == turn.round + 1

Round ==
    /\ turn.pc = "round"
    /\ IF turn.round < turn.limit
       THEN turn' = [turn EXCEPT !.pc = "fixing", !.round = Counted] /\ UNCHANGED <<wt, abandoned, out>>
       ELSE Throw("unresolved")
    /\ UNCHANGED <<tip, branch, kept, fixes, left>>

Worktrees == [on : {turn.b}, merging : {wt.merging, None, [src |-> Incoming, tip |-> tip[Incoming]]},
              tree : Work \cup {"clean"}, foreign : {FALSE}]

\* What an agent does to the worktree and the branch in a round, or part of one.
Worked(w) ==
    LET m == Incoming IN
    \/ w = wt /\ UNCHANGED branch
    \/ /\ ~Contained(turn.b, m) /\ UNCHANGED branch
       /\ \E t \in Work : w = [wt EXCEPT !.merging = IF @ = None THEN [src |-> m, tip |-> tip[m]] ELSE @, !.tree = t]
    \/ /\ ~Contained(turn.b, m) /\ w = Reset(wt)                   \* committed by the fixer
       /\ \E ok \in BOOLEAN : branch' = Committed(turn.b, Merge(m, tip[m], "other", ok))
    \/ /\ ~Contained(turn.b, m) /\ w = Reset(wt) /\ UNCHANGED branch   \* thrown away
    \/ /\ wt.merging = None \/ ~Contained(turn.b, m)              \* staged with no merge: a
       /\ UNCHANGED branch                                        \* refinement, or a squash
       /\ \E t \in Resolved : w = [Reset(wt) EXCEPT !.tree = t]

\* A stale environment gives its round back, once.
GivesBack(stale) == stale /\ ~turn.stale

\* fix() returns, with or without ENVIRONMENT_STALE; `endRound` is a return.
RoundEnds ==
    /\ turn.pc = "fixing"
    /\ \E w \in Worktrees, stale \in BOOLEAN :
         /\ Worked(w)
         /\ wt' = w
         /\ turn' = [turn EXCEPT !.pc = IF w.tree = "markers" THEN "round" ELSE "judge", !.from = "fixer",
                                 !.stale = @ \/ stale, !.limit = IF GivesBack(stale) THEN @ + 1 ELSE @]
    /\ UNCHANGED <<tip, kept, abandoned, fixes, out, left>>

\* The agent could not be started: capacity, or a harness that died.
RoundRefused ==
    /\ turn.pc = "fixing"
    /\ wt' = AbandonMerge(wt)
    /\ End("refused")
    /\ UNCHANGED <<tip, branch, kept, abandoned, fixes, left>>

\* Its limit passed, or the run is torn down.
RoundStopped ==
    /\ turn.pc = "fixing"
    /\ \E w \in Worktrees :
         /\ Worked(w)
         /\ abandoned' = KeepAbandoned(w)
         /\ wt' = AbandonMerge(w)
    /\ End("stopped")
    /\ UNCHANGED <<tip, kept, fixes, left>>

\* #verify, on the tree in the worktree.
JudgedGreen == wt.tree = "green" \/ (wt.tree = "clean" /\ HeadOk(turn.b))

\* The gates, and on the first red of a merge the fixes recorded from others.
Judge ==
    /\ turn.pc = "judge"
    /\ \/ /\ JudgedGreen
          /\ \/ /\ wt.merging # None \/ wt.tree # "clean"
                /\ To("commit")
                /\ UNCHANGED fixes
             \/ /\ wt.merging = None /\ wt.tree = "clean"
                /\ IF Contained(turn.b, Incoming)
                   THEN Merged /\ fixes' = (fixes \/ turn.fix = "broke")
                   ELSE To("round") /\ UNCHANGED fixes
          /\ UNCHANGED wt
       \/ /\ ~JudgedGreen
          /\ UNCHANGED fixes
          /\ \/ /\ turn.fix = "none" /\ fixes
                /\ wt' = [wt EXCEPT !.tree = "green"]
                /\ turn' = [turn EXCEPT !.fix = "replayed"]
             \/ /\ turn' = [turn EXCEPT !.pc = IF turn.from = "git" THEN "settle" ELSE "round",
                                        !.fix = IF @ = "none" THEN "broke" ELSE @]
                /\ UNCHANGED wt
    /\ UNCHANGED <<tip, branch, kept, abandoned, out, left>>

\* The gates could not be run at all.
JudgeFails ==
    /\ turn.pc = "judge"
    /\ Throw("failed")
    /\ UNCHANGED <<tip, branch, kept, fixes, left>>

\* `git commit`: of what is staged, which is the merge or no merge.
Accepted(tree, edited) ==
    /\ wt.tree # "clean"                            \* else there is nothing to commit
    /\ branch' = Committed(turn.b,
                   LET m == IF wt.merging = None THEN [src |-> None, tip |-> NoTip] ELSE wt.merging
                   IN  Resolution(m.src, m.tip, "integrator", tree = "green", edited))
    /\ Concluded
    /\ abandoned' = IF turn.from = "previous" THEN [abandoned EXCEPT ![turn.b] = None] ELSE abandoned
    /\ fixes' = (fixes \/ (turn.from = "fixer" /\ turn.fix = "broke"))
    /\ Merged

Edited == turn.edited # {}

\* #commitResolution, without its question: a hook that takes the commit may
\* have staged a rewrite of its own, one that refuses it may have left one,
\* which is staged and committed, once, with the gates not run again.
Commit ==
    /\ turn.pc = "commit"
    /\ \/ Accepted(wt.tree, Edited) /\ UNCHANGED left
       \/ Spend("events") /\ \E t \in Resolved : Accepted(t, TRUE)
       \/ /\ wt.tree # "clean" /\ Spend("events")
          /\ \/ /\ "hook" \notin turn.edited            \* restageHookEdits
                /\ \E t \in Resolved : wt' = [wt EXCEPT !.tree = t]
                /\ turn' = [turn EXCEPT !.edited = @ \cup {"hook"}]
             \/ To("ask") /\ UNCHANGED wt
          /\ UNCHANGED <<branch, abandoned, fixes>>
       \/ /\ wt.tree = "clean"
          /\ To("ask")
          /\ UNCHANGED <<branch, wt, abandoned, fixes, left>>
    /\ UNCHANGED <<tip, kept, out>>

\* The worktree while the question waits is the operator's: what they stage,
\* the merge they conclude by hand, or the one they throw away.
OperatorEdits ==
    /\ turn.pc = "ask"
    /\ turn' = [turn EXCEPT !.edited = @ \cup {"operator"}]
    /\ \/ /\ \E t \in Resolved : wt' = [wt EXCEPT !.tree = t]
          /\ UNCHANGED branch
       \/ /\ wt.merging # None
          /\ branch' = Committed(turn.b, Merge(wt.merging.src, wt.merging.tip, "other", wt.tree = "green"))
          /\ wt' = Reset(wt)
       \/ wt' = Reset(wt) /\ UNCHANGED branch
    /\ UNCHANGED <<tip, kept, abandoned, fixes, out, left>>

\* preserveResolution: two parents while the merge stands, and one after, which
\* no merge ever matches.
Preserved(w) ==
    [kept EXCEPT ![Owner] =
        IF w.merging = None THEN None
        ELSE [head |-> HeadOf(turn.b), tip |-> w.merging.tip, src |-> w.merging.src, tree |-> w.tree,
              edited |-> Edited]]

\* onCommitFailure's answer: commit, no-verify, abort; or no answer, the
\* question withdrawn.
Answer ==
    /\ turn.pc = "ask"
    /\ \/ To("commit") /\ UNCHANGED <<branch, wt, kept, abandoned, fixes, out>>
       \/ Accepted(wt.tree, Edited) /\ UNCHANGED <<kept, out>>
       \/ /\ kept' = Preserved(wt)
          /\ wt' = AbandonMerge(wt)
          /\ End("hook")
          /\ UNCHANGED <<branch, abandoned, fixes>>
    /\ UNCHANGED <<tip, left>>

----------------------------------------------------------------------------
(* Around the turn *)

\* The process dies; what an agent had done so far is in the worktree.
Kill ==
    /\ turn.pc \notin {"idle", "down"}
    /\ Spend("events")
    /\ IF turn.pc = "fixing"
       THEN \E w \in Worktrees : Worked(w) /\ wt' = w
       ELSE UNCHANGED <<wt, branch>>
    /\ turn' = [Idle EXCEPT !.pc = "down"]
    /\ out' = "killed"
    /\ UNCHANGED <<tip, kept, abandoned, fixes>>

\* The host adopts the run and sweeps the worktree (run/host.ts).
Resume ==
    /\ turn.pc = "down"
    /\ turn' = Idle
    /\ IF Busy THEN UNCHANGED <<wt, abandoned>> ELSE Reclaim
    /\ UNCHANGED <<tip, branch, kept, fixes, out, left>>

\* An operator in the worktree, between turns.
Person ==
    /\ turn.pc \in {"idle", "down"}
    /\ Spend("events")
    /\ \/ /\ wt.merging # None                        \* finishes the merge by hand
          /\ branch' = Committed(wt.on, Merge(wt.merging.src, wt.merging.tip, "other", TRUE))
          /\ wt' = Reset(wt)
       \/ /\ wt.on # None /\ wt.merging = None /\ wt.tree = "clean" /\ ~wt.foreign
          /\ \/ branch' = Committed(wt.on, OwnCommit("other", TRUE)) /\ UNCHANGED wt
             \/ wt' = [wt EXCEPT !.foreign = TRUE] /\ UNCHANGED branch
    /\ UNCHANGED <<tip, kept, abandoned, fixes, turn, out>>

PersonLeaves ==
    /\ turn.pc \in {"idle", "down"} /\ wt.foreign
    /\ wt' = [wt EXCEPT !.foreign = FALSE]
    /\ UNCHANGED <<tip, branch, kept, abandoned, fixes, turn, out, left>>

\* A phase commits, and the plan branch takes its base in.
Move(s) ==
    /\ Spend("events")
    /\ tip' = [tip EXCEPT ![s].at = @ + 1]
    /\ UNCHANGED <<branch, wt, kept, abandoned, fixes, turn, out>>

\* A phase is rebased or cut again, by an amendment: in this worktree too, so
\* between turns.
Redo(p) ==
    /\ Free /\ wt.merging = None /\ ~wt.foreign
    /\ Spend("events")
    /\ tip' = [tip EXCEPT ![p] = [gen |-> @.gen + 1, at |-> 0]]
    /\ UNCHANGED <<branch, wt, kept, abandoned, fixes, turn, out>>

Turn == MergeNext \/ Finish \/ Settle \/ Round \/ RoundEnds \/ RoundRefused \/ RoundStopped
        \/ Judge \/ JudgeFails \/ Commit

Next ==
    \/ Turn \/ Answer \/ OperatorEdits \/ Resume \/ Kill \/ Person \/ PersonLeaves
    \/ \E b \in Branches : Start(b) \/ StartSync(b)
    \/ \E s \in Sources : Move(s)
    \/ \E p \in Phases : Redo(p)

Spec == Init /\ [][Next]_vars

\* A turn goes on by itself: git, the gates and a round, which has a time limit,
\* all return.  Nobody has to answer a question, or to start the next turn.
FairSpec == Spec /\ WF_vars(Turn)

----------------------------------------------------------------------------
(* Properties *)

Tips == [gen : Nat, at : Nat]

\* The state is well formed: a merge in progress is of this run's branches, the
\* tree has something in it exactly while there is something to conclude, and a
\* round is never past the limit, which a stale environment raises once.
TypeOK ==
    /\ tip \in [Sources -> Tips]
    /\ wt.merging # None => wt.tree # "clean" /\ wt.on \in Branches
    /\ wt.foreign => wt.merging = None
    /\ turn.pc \notin {"idle", "down"} => wt.on = turn.b
    /\ turn.pc \in {"settle", "fixing", "round", "commit", "judge", "ask"} => turn.todo # <<>>
    /\ turn.round <= turn.limit /\ turn.limit <= MaxFixRounds + 1
    /\ turn.pc = "commit" => wt.tree # "markers"

\* integrator.ts, before the only `continue` on it: "recording the phase as
\* integrated when its commits are nowhere here would surface much later, as a
\* phase built on work that is not there".  Every merge of a turn that is over
\* left its phase's commits in the branch.
IntegratedIsThere ==
    [][\A b \in Branches, m \in Sources :
          /\ b = turn.b /\ turn.todo # <<>> /\ m = Incoming
          /\ turn'.pc = "next" /\ turn'.todo = Tail(turn.todo)
          => \E e \in Merges(b)' : e.src = m /\ Covers(turn.seen[m], e.tip)]_vars

\* What holds of it: a branch that a turn hands out has every member, at least
\* at the tip it had when the turn began, and nothing of a history a member no
\* longer has, unless a resolution was committed that was no merge.
HandedOutWhole ==
    TypeOK /\ (turn.pc = "next" /\ turn.todo = <<>> =>
        LET into == turn.b
            members == IF turn.sync THEN {Base} ELSE {Under[into]} \cup {Rest[into][i] : i \in DOMAIN Rest[into]} IN
        /\ \/ \A s \in members : Has(into, s, turn.seen[s])
           \/ \E e \in Entries(into) : e.by = "integrator" /\ e.src = None
        /\ ~turn.sync => \A e \in Merges(into) : e.src \in Phases => e.tip.gen = tip[e.src].gen)

\* Every commit the integrator makes of a resolution is of a tree the gates
\* passed on, whoever resolved it and whenever: a round, a previous attempt, a
\* resolution kept from a commit a hook refused.  Only a hook and an operator
\* who was asked about it get a tree past the gates, by staging something while
\* it is being committed; what they staged is then merged later as well, from
\* the ref it was kept under.
CommittedIsJudged ==
    \A b \in Branches : \A e \in Entries(b) : e.by \in {"integrator", "kept"} /\ ~e.edited => e.ok

\* Between turns a merge of this run is left standing only by a turn that says
\* so: its rounds ran out or its gates could not run.  Never by one that ended
\* well, was stopped, or was refused its agent or its commit.
StandsOnlyWhenToldSo ==
    turn.pc = "idle" /\ wt.merging # None /\ ~Busy => out \in {"unresolved", "failed"}

\* An unfinished merge that the next turn or a resume finds and takes down is
\* kept first, tree and tips, whatever state the kill left it in.
TakenDownIsKept ==
    [][/\ wt.merging # None /\ wt'.merging = None
       /\ turn.pc \in {"idle", "down"} /\ turn' # turn
       => abandoned'[wt.on] = Kept(wt)]_vars

\* A turn ends, or waits for somebody to answer a refused commit.
TurnEnds == turn.pc \notin {"idle", "down", "ask"} ~> turn.pc \in {"idle", "down", "ask"}
=============================================================================
