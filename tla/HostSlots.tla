----------------------------- MODULE HostSlots -----------------------------
(***************************************************************************)
(* The slots of a pool shared by every run on the machine                   *)
(* (packages/vinta-ai-maestro/src/resources/host-slots.ts).                 *)
(*                                                                          *)
(* A slot is a lock file created with O_EXCL.  Runs are processes that share *)
(* nothing else, so the model's grain is one system call: between any two    *)
(* of them another run may act, or the process may die.  Within a process    *)
(* `tryTake` and `release` are synchronous, so each process has one program  *)
(* counter.                                                                 *)
(*                                                                          *)
(* The names every specification has start with HS here, for                *)
(* ResourcePoolsProofs to extend this module beside ResourcePools.           *)
(***************************************************************************)
EXTENDS Integers, FiniteSets

CONSTANTS
    Proc,       \* runs on the machine, one process each
    NoProc,     \* what reading a missing or half-written file gives
    Capacity,   \* each run's own reading of the pool's capacity
    Slots,      \* slot indices, those below the largest capacity
    MaxHold,    \* BOUND: leases of one slot a run keeps unreleased
    Me          \* the run that the pools of ResourcePools are of

ASSUME CapacityType == Capacity \in [Proc -> Nat \ {0}]
ASSUME SlotsType == Slots = UNION {0 .. Capacity[p] - 1 : p \in Proc}
ASSUME NoProcType == NoProc \notin Proc
ASSUME MeType == Me \in Proc
ASSUME MaxHoldType == MaxHold \in Nat \ {0}

VARIABLES
    text,   \* slot -> its file: "absent", "half" (created, not yet written),
            \*         "old" (unreadable for HALF_WRITTEN_MS), "full"
    owner,  \* slot -> the process that created its file
    alive,  \* processes that have not died
    pc,     \* process -> the system call it makes next
    at,     \* process -> the slot that call is about
    seen,   \* process -> the pid its last read of the file found
    holds,  \* process -> slot -> leases not yet released
    same,   \* history: processes at #stale whose slot has the file they read
    robbed  \* history: slots where the file of a live run was unlinked by one
            \*          that had read another, or none

HSvars == <<text, owner, alive, pc, at, seen, holds, same, robbed>>

HSInit ==
    /\ text = [s \in Slots |-> "absent"]
    /\ owner = [s \in Slots |-> NoProc]
    /\ alive = Proc
    /\ pc = [p \in Proc |-> "idle"]
    /\ at = [p \in Proc |-> 0]
    /\ seen = [p \in Proc |-> NoProc]
    /\ holds = [p \in Proc |-> [s \in Slots |-> 0]]
    /\ same = {} /\ robbed = {}

----------------------------------------------------------------------------

Goto(p, label) == pc' = [pc EXCEPT ![p] = label]

\* The `for` of tryTake: on to the next slot, or null after the last.
NextSlot(p) ==
    IF at[p] + 1 < Capacity[p]
    THEN Goto(p, "create") /\ at' = [at EXCEPT ![p] = @ + 1]
    ELSE Goto(p, "idle") /\ UNCHANGED at

\* The pid in the file, or none when it is missing or does not parse.
PidIn(s) == IF text[s] = "full" THEN owner[s] ELSE NoProc

\* A file leaves its slot: it is no longer the one anybody read.
Gone(s) ==
    /\ text' = [text EXCEPT ![s] = "absent"]
    /\ owner' = [owner EXCEPT ![s] = NoProc]
    /\ same' = same \ {q \in Proc : at[q] = s}

----------------------------------------------------------------------------
(* tryTake *)

Begin(p) ==
    /\ pc[p] = "idle"
    /\ \A s \in Slots : holds[p][s] < MaxHold
    /\ Goto(p, "create")
    /\ at' = [at EXCEPT ![p] = 0]
    /\ UNCHANGED <<text, owner, alive, seen, holds, same, robbed>>

\* Fault: a create that opens an existing file.
CreateShared(p) ==
    /\ pc[p] \in {"create", "recreate"}
    /\ text' = [text EXCEPT ![at[p]] = "half"]
    /\ owner' = [owner EXCEPT ![at[p]] = p]
    /\ Goto(p, "write") /\ UNCHANGED <<at, alive, seen, holds, same, robbed>>

\* openSync(path, 'wx')
Create(p) ==
    /\ pc[p] \in {"create", "recreate"}
    /\ \/ /\ text[at[p]] = "absent"
          /\ text' = [text EXCEPT ![at[p]] = "half"]
          /\ owner' = [owner EXCEPT ![at[p]] = p]
          /\ Goto(p, "write") /\ UNCHANGED at
       \/ /\ text[at[p]] # "absent"
          /\ IF pc[p] = "create" THEN Goto(p, "read") /\ UNCHANGED at ELSE NextSlot(p)
          /\ UNCHANGED <<text, owner>>
    /\ UNCHANGED <<alive, seen, holds, same, robbed>>

\* writeSync: into the file it created, even if another run has unlinked it.
Write(p) ==
    /\ pc[p] = "write"
    /\ text' = IF owner[at[p]] = p /\ text[at[p]] \in {"half", "old"}
               THEN [text EXCEPT ![at[p]] = "full"] ELSE text
    /\ holds' = [holds EXCEPT ![p][at[p]] = @ + 1]
    /\ Goto(p, "idle")
    /\ UNCHANGED <<owner, alive, at, seen, same, robbed>>

\* #stale: readFileSync
Read(p) ==
    /\ pc[p] = "read"
    /\ seen' = [seen EXCEPT ![p] = PidIn(at[p])]
    /\ same' = IF text[at[p]] = "absent" THEN same ELSE same \cup {p}
    /\ Goto(p, "judge")
    /\ UNCHANGED <<text, owner, alive, at, holds, robbed>>

\* #stale: false, so the slot is left to its holder.
Valid(p) == NextSlot(p) /\ same' = same \ {p}

\* Fault: an unreadable file is judged stale at once.
JudgeHasty(p) ==
    /\ pc[p] = "judge"
    /\ IF seen[p] \in alive THEN Valid(p) ELSE Goto(p, "unlink") /\ UNCHANGED <<at, same>>
    /\ seen' = [seen EXCEPT ![p] = NoProc]
    /\ UNCHANGED <<text, owner, alive, holds, robbed>>

\* Fault: a dead holder is taken for a live one.
JudgeAllAlive(p) ==
    /\ pc[p] = "judge"
    /\ Valid(p)
    /\ seen' = [seen EXCEPT ![p] = NoProc]
    /\ UNCHANGED <<text, owner, alive, holds, robbed>>

\* #stale: is the pid alive, or has the file been unreadable for a while?  The
\* mtime of a missing file is 0, which is a while ago.
Judge(p) ==
    /\ pc[p] = "judge"
    /\ IF \/ seen[p] \in alive
          \/ seen[p] = NoProc /\ text[at[p]] \in {"half", "full"}
       THEN Valid(p)
       ELSE Goto(p, "unlink") /\ UNCHANGED <<at, same>>
    /\ seen' = [seen EXCEPT ![p] = NoProc]
    /\ UNCHANGED <<text, owner, alive, holds, robbed>>

\* #stale: unlinkSync, of whatever is at the path by then; it fails when there
\* is nothing.
Unlink(p) ==
    /\ pc[p] = "unlink"
    /\ IF text[at[p]] = "absent" THEN NextSlot(p) ELSE Goto(p, "recreate") /\ UNCHANGED at
    /\ Gone(at[p])
    /\ robbed' = IF owner[at[p]] \in alive /\ p \notin same THEN robbed \cup {at[p]} ELSE robbed
    /\ UNCHANGED <<alive, seen, holds>>

----------------------------------------------------------------------------
(* release *)

\* Fault: a release that forgets the file.
ReleaseInMemory(p, s) ==
    /\ pc[p] = "idle" /\ holds[p][s] > 0
    /\ holds' = [holds EXCEPT ![p][s] = @ - 1]
    /\ UNCHANGED <<text, owner, alive, pc, at, seen, same, robbed>>

\* The first release of a lease reads the file: only our own is removed.
ReleaseSlot(p, s) ==
    /\ pc[p] = "idle" /\ holds[p][s] > 0
    /\ holds' = [holds EXCEPT ![p][s] = @ - 1]
    /\ at' = [at EXCEPT ![p] = s]
    /\ Goto(p, IF PidIn(s) \in {p, NoProc} THEN "remove" ELSE "idle")
    /\ UNCHANGED <<text, owner, alive, seen, same, robbed>>

Remove(p) ==
    /\ pc[p] = "remove"
    /\ Gone(at[p])
    /\ Goto(p, "idle")
    /\ UNCHANGED <<alive, at, seen, holds, robbed>>

----------------------------------------------------------------------------
(* The machine *)

\* A run dies, at any point; its files stay.
Crash(p) ==
    /\ p \in alive /\ alive # {p}
    /\ alive' = alive \ {p}
    /\ Goto(p, "dead")
    /\ seen' = [seen EXCEPT ![p] = NoProc]
    /\ holds' = [holds EXCEPT ![p] = [s \in Slots |-> 0]]
    /\ same' = same \ {p}
    /\ UNCHANGED <<text, owner, at, robbed>>

\* Five seconds pass over a half-written file.  A live writer is microseconds
\* from its write, so the file is a dead run's.
GrowOld(s) ==
    /\ text[s] = "half"
    /\ pc[owner[s]] # "write"
    /\ text' = [text EXCEPT ![s] = "old"]
    /\ UNCHANGED <<owner, alive, pc, at, seen, holds, same, robbed>>

Call(p) ==
    Create(p) \/ Write(p) \/ Read(p) \/ Judge(p) \/ Unlink(p) \/ Remove(p)

HSNext ==
    \/ \E p \in Proc :
          \/ Begin(p)
          \/ Call(p)
          \/ \E s \in Slots : ReleaseSlot(p, s)
          \/ Crash(p)
    \/ \E s \in Slots : GrowOld(s)

HSSpec == HSInit /\ [][HSNext]_HSvars

\* A run takes its steps, a holder releases in the end, a queue with a waiter
\* polls (pools.ts:318), and time passes.
HSFairness ==
    /\ \A p \in Proc : WF_HSvars(Begin(p)) /\ WF_HSvars(Call(p))
    /\ \A p \in Proc, s \in Slots : WF_HSvars(ReleaseSlot(p, s)) /\ WF_HSvars(GrowOld(s))

HSFairSpec == HSSpec /\ HSFairness

----------------------------------------------------------------------------
(* Properties *)

HSTypeOK ==
    /\ text \in [Slots -> {"absent", "half", "old", "full"}]
    /\ owner \in [Slots -> Proc \cup {NoProc}]
    /\ alive \subseteq Proc
    /\ pc \in [Proc -> {"idle", "create", "write", "read", "judge", "unlink",
                        "recreate", "remove", "dead"}]
    /\ at \in [Proc -> Slots]
    /\ seen \in [Proc -> Proc \cup {NoProc}]
    /\ holds \in [Proc -> [Slots -> 0 .. MaxHold]]
    /\ same \subseteq Proc /\ robbed \subseteq Slots

\* "created with `O_EXCL` so exactly one process gets it" (host-slots.ts:10-14):
\* one lease of a slot on the whole machine.
OneHolder ==
    \A s \in Slots, p, q \in Proc :
        /\ holds[p][s] <= 1
        /\ holds[p][s] > 0 /\ holds[q][s] > 0 => p = q

\* Files and leases go together, in every slot that no run was robbed of: a slot
\* has one holder, with one lease, and its own readable file is what the next run
\* finds there; and a file whose creator is alive is held, being written or being
\* removed.  A slot is lost to a crash only, and whatever else goes wrong with one
\* begins with an unlink of a live run's file by a run that judged another file.
FilesAreLeases ==
    /\ HSTypeOK
    /\ \A s \in Slots \ robbed :
        /\ \A p \in Proc : holds[p][s] > 0 => holds[p][s] = 1 /\ text[s] = "full" /\ owner[s] = p
        /\ text[s] # "absent" /\ owner[s] \in alive =>
            \/ holds[owner[s]][s] > 0
            \/ pc[owner[s]] \in {"write", "remove"} /\ at[owner[s]] = s

\* The slot of a run that died comes back to the others: the first one, that
\* every acquisition tries, whoever else comes and goes.
DeadSlotsComeBack ==
    text[0] # "absent" /\ owner[0] \notin alive
        ~> text[0] = "absent" \/ owner[0] \in alive

\* The slots that Me has a lease of, and those of Me's pool that others have, of
\* the slots that no run was robbed of.
Mine == {s \in Slots \ robbed : holds[Me][s] > 0}
Theirs == {s \in 0 .. Capacity[Me] - 1 : s \notin robbed /\ \E p \in Proc \ {Me} : holds[p][s] > 0}

\* What one run sees of the slots is a pool of AtomicLeases that others share,
\* which is what `foreign` of ResourcePools takes it for: a run never has more
\* slots than the others leave of its capacity, a request gets one nobody has, and
\* none is lost but by giving it back, dying or being robbed of it.  A request that
\* finds none is back at once, so nobody waits here.
MachinePool == INSTANCE AtomicLeases WITH
    Pool <- {"machine"}, Holder <- Slots, NeedSets <- {{"machine"}},
    Growing <- {}, Shared <- {"machine"},
    limit <- [x \in {"machine"} |-> Capacity[Me] - Cardinality(Theirs)],
    need <- [s \in Slots |-> {"machine"}],
    waiting <- {}, ahead <- [s \in Slots |-> {}], has <- Mine

SlotsAreShared == MachinePool!Spec
=============================================================================
