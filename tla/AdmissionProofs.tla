--------------------------- MODULE AdmissionProofs ---------------------------
(***************************************************************************)
(* What Admission guarantees for any nodes, models, fallbacks, ceilings,     *)
(* refusals and crashes: a wait is on disk as it is in memory and told of    *)
(* once, no spawn starts on a harness or a model its caller would not have   *)
(* started on, no slot is lost or kept back, and rank decides who gets one.  *)
(***************************************************************************)
EXTENDS Admission, TLAPS, SequenceTheorems, FiniteSetTheorems, WellFoundedInduction

----------------------------------------------------------------------------
(* The wait *)

\* A notice has gone out exactly when a wait is on disk, and the process that
\* lives knows of both.
WaitInv ==
    /\ up \in BOOLEAN /\ notified \in BOOLEAN
    /\ wake \in {"none", "ahead", "past"} /\ waitRow \in {"none", "ahead", "past"}
    /\ notices = IF waitRow = "none" THEN 0 ELSE 1
    /\ IF up THEN wake = waitRow /\ (notified <=> waitRow # "none") ELSE wake = "none"

\* What leaves the wait and the process alone.
LEMMA AsideWait ==
    ASSUME WaitInv, up' = up, UNCHANGED wait PROVE WaitInv'
  BY DEF WaitInv, wait

LEMMA ParkWait ==
    ASSUME WaitInv, up, up' = up, NEW kind, Park(kind) PROVE WaitInv'
  <1>1. PICK until \in {"ahead", "past"} : wake' = Later(wake, until) /\ waitRow' = wake'
    BY DEF Park, Record
  <1>2. wake' \in {"ahead", "past"}
    BY <1>1 DEF Later
  <1>3. notified' = TRUE /\ notices' = IF notified \/ notices = 2 THEN notices ELSE notices + 1
    BY DEF Park, Notify
  <1>4. notices' = 1
    BY <1>3 DEF WaitInv
  <1> QED
    BY <1>1, <1>2, <1>3, <1>4 DEF WaitInv

LEMMA TimesWait ==
    ASSUME WaitInv, TimePasses \/ TimerFires PROVE WaitInv'
  <1>1. CASE TimePasses
    BY <1>1 DEF TimePasses, WaitInv
  <1>2. CASE TimerFires
    BY <1>2 DEF TimerFires, WaitInv
  <1> QED
    BY <1>1, <1>2

LEMMA RestartsWait ==
    ASSUME WaitInv, Crash \/ CrashInPark \/ Boot PROVE WaitInv'
  <1>1. CASE Crash \/ CrashInPark
    BY <1>1 DEF Crash, CrashInPark, Forget, WaitInv
  <1>2. CASE Boot
    BY <1>2 DEF Boot, WaitInv
  <1> QED
    BY <1>1, <1>2

LEMMA NextWait ==
    ASSUME WaitInv, [Next]_vars PROVE WaitInv'
  <1>1. ASSUME NEW n \in Node, NEW kind \in Kinds, SpawnRefused(n, kind) \/ RefusedMidTurn(n, kind)
        PROVE  WaitInv'
    <2>1. CASE up /\ up' = up /\ Park(kind)
      BY <2>1, ParkWait
    <2>2. CASE up' = up /\ UNCHANGED wait
      BY <2>2, AsideWait
    <2> QED
      BY <1>1, <2>1, <2>2 DEF SpawnRefused, RefusedMidTurn, TurnEnds
  <1>2. ASSUME NEW n \in Node,
               \/ Admit(n) \/ Start(n) \/ SpawnOk(n) \/ SpawnFails(n)
               \/ SpawnUnauthenticated(n) \/ SpawnFallsBack(n) \/ Wait(n)
        PROVE  WaitInv'
    BY <1>2, AsideWait DEF Admit, Start, SpawnOk, SpawnFails, SpawnUnauthenticated, SpawnFallsBack, Wait
  <1>3. ASSUME NEW n \in Node, TurnFails(n) \/ TurnCompleted(n) \/ LoginLapsed(n) PROVE WaitInv'
    BY <1>3, AsideWait DEF TurnFails, TurnCompleted, LoginLapsed, TurnEnds
  <1>4. CASE LoggedIn \/ (\E m \in Model : ModelReturns(m)) \/ UNCHANGED vars
    BY <1>4, AsideWait DEF LoggedIn, ModelReturns, vars, wait
  <1> QED
    BY <1>1, <1>2, <1>3, <1>4, TimesWait, RestartsWait DEF Next

\* Whatever is refused, wherever the process dies and however often it comes
\* back, the wait of the harness is on disk as it is in memory, and the operator
\* is told of it once (#park, #arm and the constructor over CapacityWaitLog).
THEOREM WaitsSurvive ==
    Spec => []WaitIsDurable
  <1>1. Init => WaitInv
    BY DEF Init, WaitInv
  <1>2. WaitInv => WaitIsDurable
    BY DEF WaitInv, WaitIsDurable
  <1> QED
    BY <1>1, <1>2, NextWait, PTL DEF Spec

----------------------------------------------------------------------------
(* The spawn *)

\* Every node has a place and a model.
Placed == DOMAIN pc = Node /\ DOMAIN model = Node

\* The first of a chain that is not out is not out.
LEMMA NextIsIn ==
    ASSUME NEW m, NEW out, NextFallback(m, out) # NoModel PROVE NextFallback(m, out) \notin out
  <1> DEFINE f == Chain(m)
             first == {k \in 1 .. Cardinality(Model) :
                         /\ f[k] \notin out \cup {NoModel}
                         /\ \A j \in 1 .. k - 1 : f[j] \in out
                         /\ \A i, j \in 0 .. k : f[i] = f[j] => i = j}
  <1>1. NextFallback(m, out) = IF first = {} THEN NoModel ELSE f[CHOOSE k \in first : TRUE]
    BY DEF NextFallback
  <1>2. \A k \in first : f[k] \notin out
    OBVIOUS
  <1> HIDE DEF first, f
  <1> QED
    BY <1>1, <1>2

LEMMA AvoidsWhatIsOut ==
    ASSUME NEW m, Avoid(m) \in exhausted PROVE NextFallback(Avoid(m), exhausted) = NoModel
  BY NextIsIn DEF Avoid

LEMMA NextPlaced ==
    ASSUME Placed, [Next]_vars PROVE Placed'
  <1>1. ASSUME NEW n \in Node,
               \/ Admit(n) \/ Start(n) \/ SpawnOk(n) \/ SpawnFails(n)
               \/ SpawnUnauthenticated(n) \/ SpawnFallsBack(n) \/ Wait(n)
        PROVE  Placed'
    BY <1>1 DEF Admit, Start, SpawnOk, SpawnFails, SpawnUnauthenticated, SpawnFallsBack, Wait, Attempt,
                call, Placed
  <1>2. ASSUME NEW n \in Node, \E next : TurnEnds(n, next) PROVE Placed'
    BY <1>2 DEF TurnEnds, call, Placed
  <1>3. ASSUME NEW n \in Node, NEW kind \in Kinds, SpawnRefused(n, kind) PROVE Placed'
    BY <1>3 DEF SpawnRefused, call, Placed
  <1>4. CASE TimePasses \/ TimerFires \/ LoggedIn \/ (\E m \in Model : ModelReturns(m)) \/ UNCHANGED vars
    BY <1>4 DEF TimePasses, TimerFires, LoggedIn, LetGo, ModelReturns, vars, call, Placed
  <1>5. CASE Crash \/ CrashInPark \/ Boot
    BY <1>5, ModelType DEF Crash, CrashInPark, Boot, Forget, call, Placed
  <1> QED
    BY <1>1, <1>2, <1>3, <1>4, <1>5
       DEF Next, TurnFails, TurnCompleted, LoginLapsed, RefusedMidTurn

\* Who starts a spawn comes through the gate, and looks again.
LEMMA StartsThroughTheGate ==
    ASSUME Placed, Next, NEW n \in Node, Starts(n) PROVE Start(n)
  <1>1. pc[n] = "admitting" /\ pc'[n] = "spawning"
    BY DEF Starts
  <1>2. ASSUME NEW m \in Node, NEW v, v # "spawning", pc' = [pc EXCEPT ![m] = v] PROVE FALSE
    BY <1>1, <1>2 DEF Placed
  <1>3. ASSUME NEW m \in Node, Start(m), m # n PROVE FALSE
    <2>1. pc'[n] = pc[n]
      BY <1>3 DEF Start, Placed
    <2> QED
      BY <1>1, <2>1
  <1>4. ASSUME NEW m \in Node,
               \/ Admit(m) \/ SpawnOk(m) \/ SpawnFails(m) \/ SpawnUnauthenticated(m)
               \/ SpawnFallsBack(m) \/ Wait(m)
        PROVE  FALSE
    <2>1. \E v : v # "spawning" /\ pc' = [pc EXCEPT ![m] = v]
      BY <1>4 DEF Admit, SpawnOk, SpawnFails, SpawnUnauthenticated, SpawnFallsBack, Wait, Attempt
    <2> QED
      BY <1>2, <2>1
  <1>5. ASSUME NEW m \in Node,
               \/ TurnFails(m) \/ TurnCompleted(m) \/ LoginLapsed(m)
               \/ \E kind \in Kinds : SpawnRefused(m, kind) \/ RefusedMidTurn(m, kind)
        PROVE  FALSE
    <2>1. \E v : v # "spawning" /\ pc' = [pc EXCEPT ![m] = v]
      BY <1>5 DEF TurnFails, TurnCompleted, LoginLapsed, SpawnRefused, RefusedMidTurn, TurnEnds
    <2> QED
      BY <1>2, <2>1
  <1>6. CASE TimePasses \/ TimerFires \/ LoggedIn \/ (\E m \in Model : ModelReturns(m))
             \/ Crash \/ CrashInPark \/ Boot
    <2>1. pc'[n] # "spawning" \/ pc'[n] = pc[n]
      BY <1>6 DEF TimePasses, TimerFires, LoggedIn, LetGo, ModelReturns, Crash, CrashInPark, Boot, Forget
    <2> QED
      BY <1>1, <2>1
  <1> QED
    BY <1>3, <1>4, <1>5, <1>6 DEF Next

\* However long a caller queued for its slot and for the gate, and whatever
\* happened meanwhile, it spawns on a harness that is neither parked nor logged
\* out, and on a model that is out only when all it could fall back to is (the
\* checks of `admit` after its awaits).
THEOREM NothingSpawnsStale ==
    Spec => NoStaleSpawn
  <1> DEFINE Fine == \A n \in Node : Starts(n) =>
                        /\ wake # "ahead" /\ ~login
                        /\ model'[n] \in exhausted => NextFallback(model'[n], exhausted) = NoModel
  <1>1. Init => Placed
    BY ModelType DEF Init, Placed
  <1>2. Placed /\ [Next]_vars => [Fine]_vars
    <2> SUFFICES ASSUME Placed, Next, NEW n \in Node, Starts(n)
                 PROVE  /\ wake # "ahead" /\ ~login
                        /\ model'[n] \in exhausted => NextFallback(model'[n], exhausted) = NoModel
      OBVIOUS
    <2>1. Start(n) /\ pc'[n] = "spawning"
      BY StartsThroughTheGate DEF Starts
    <2>2. wake # "ahead" /\ ~login /\ model' = [model EXCEPT ![n] = Avoid(model[n])]
      <3>1. CASE login \/ wake = "ahead"
        <4>1. pc' = [pc EXCEPT ![n] = IF login THEN "asking" ELSE "retry"]
          BY <2>1, <3>1 DEF Start
        <4> QED
          BY <2>1, <4>1 DEF Placed
      <3> QED
        BY <2>1, <3>1 DEF Start
    <2>3. model'[n] = Avoid(model[n])
      BY <2>2 DEF Placed
    <2> QED
      BY <2>2, <2>3, AvoidsWhatIsOut
  <1>3. Placed /\ [Next]_vars => Placed'
    BY NextPlaced
  <1> QED
    BY <1>1, <1>2, <1>3, PTL DEF Spec, NoStaleSpawn


----------------------------------------------------------------------------
(* Induction and recursion over the naturals, for sets and functions *)

LEMMA Counting ==
    ASSUME NEW T, 0 \in T, \A k \in Nat : k \in T => k + 1 \in T
    PROVE  Nat \subseteq T
  <1> SUFFICES ASSUME NEW b \in Nat \ T PROVE FALSE
    OBVIOUS
  <1> DEFINE Bad == Nat \ T
  <1>1. \E m \in Bad : \A y \in Bad : ~ (<<y, m>> \in OpToRel(<, Nat))
    <2>1. Bad \subseteq Nat /\ Bad # {}
      OBVIOUS
    <2> HIDE DEF Bad
    <2> QED
      BY <2>1, NatLessThanWellFounded, WFMin
  <1>2. PICK m \in Bad : \A y \in Bad : ~ (<<y, m>> \in OpToRel(<, Nat))
    BY <1>1
  <1>3. m \in Nat /\ m # 0 /\ m - 1 \in Nat
    OBVIOUS
  <1>4. <<m - 1, m>> \in OpToRel(<, Nat)
    BY <1>3 DEF OpToRel
  <1>5. m - 1 \in T
    BY <1>2, <1>3, <1>4
  <1>6. m - 1 + 1 \in T
    BY <1>3, <1>5
  <1> QED
    BY <1>3, <1>6

Closed(S, G) == \A y \in S : G[y] \in S

\* The c values after x under G.
IsRun(f, S, G, x, c) ==
    /\ f \in [0 .. c -> S]
    /\ \A j \in 0 .. c : f[j] = IF j = 0 THEN x ELSE G[f[j - 1]]

\* A step repeated from a start defines a function, and a set of values closed
\* under the step is not left.
LEMMA Repeats ==
    ASSUME NEW S, NEW G, Closed(S, G), NEW x \in S, NEW c \in Nat
    PROVE  \E f : IsRun(f, S, G, x, c)
  <1> DEFINE Runs(k, f) == \A j \in 0 .. k : f[j] = IF j = 0 THEN x ELSE G[f[j - 1]]
             T == {k \in Nat : \E f \in [0 .. k -> S] : Runs(k, f)}
  <1>1. 0 \in T
    <2> DEFINE f == [j \in 0 .. 0 |-> x]
    <2>1. f \in [0 .. 0 -> S] /\ Runs(0, f)
      OBVIOUS
    <2> QED
      BY <2>1
  <1>0. \A y \in S : G[y] \in S
    BY DEF Closed
  <1>2. ASSUME NEW k \in Nat, k \in T PROVE k + 1 \in T
    <2>1. PICK f \in [0 .. k -> S] : Runs(k, f)
      BY <1>2
    <2> DEFINE g == [j \in 0 .. k + 1 |-> IF j = k + 1 THEN G[f[k]] ELSE f[j]]
    <2>2. g \in [0 .. k + 1 -> S]
      BY <1>0
    <2>3. ASSUME NEW j \in 0 .. k + 1 PROVE g[j] = IF j = 0 THEN x ELSE G[g[j - 1]]
      <3>1. CASE j = k + 1
        <4>1. k \in 0 .. k + 1 /\ k # k + 1 /\ j - 1 = k /\ j # 0
          BY <3>1
        <4> QED
          BY <4>1, <3>1
      <3>2. CASE j # k + 1
        <4>1. j \in 0 .. k /\ g[j] = f[j]
          BY <3>2
        <4>2. f[j] = IF j = 0 THEN x ELSE G[f[j - 1]]
          BY <2>1, <4>1
        <4>3. j # 0 => j - 1 \in 0 .. k + 1 /\ j - 1 # k + 1
          BY <4>1
        <4> QED
          BY <4>1, <4>2, <4>3
      <3> QED
        BY <3>1, <3>2
    <2>4. Runs(k + 1, g)
      BY <2>2, <2>3
    <2> HIDE DEF g, Runs
    <2> QED
      BY <2>2, <2>4
  <1> HIDE DEF T
  <1>3. c \in T
    BY <1>1, <1>2, Counting
  <1> QED
    BY <1>3 DEF T, IsRun


----------------------------------------------------------------------------
(* Sequences without repetition *)

OneToOne(s) == \A i, j \in DOMAIN s : s[i] = s[j] => i = j

LEMMA CountOfSeq ==
    ASSUME NEW S, NEW s \in Seq(S), OneToOne(s)
    PROVE  IsFiniteSet(Range(s)) /\ Cardinality(Range(s)) = Len(s) /\ Range(s) \subseteq S
  <1>1. Len(s) \in Nat /\ DOMAIN s = 1 .. Len(s) /\ s \in [1 .. Len(s) -> S]
    BY LenProperties
  <1>2. s \in Bijection(1 .. Len(s), Range(s))
    BY <1>1 DEF Bijection, Injection, Surjection, IsInjective, OneToOne, Range
  <1>3. IsFiniteSet(1 .. Len(s)) /\ Cardinality(1 .. Len(s)) = Len(s)
    BY <1>1, FS_Interval
  <1>4. ExistsBijection(1 .. Len(s), Range(s))
    BY <1>2 DEF ExistsBijection
  <1> QED
    BY <1>1, <1>3, <1>4, FS_Bijection DEF Range

LEMMA WithOneMore ==
    ASSUME NEW S, NEW s \in Seq(S), OneToOne(s), NEW e \in S, e \notin Range(s)
    PROVE  /\ Append(s, e) \in Seq(S) /\ Len(Append(s, e)) = Len(s) + 1
           /\ OneToOne(Append(s, e)) /\ Range(Append(s, e)) = Range(s) \cup {e}
  <1> DEFINE a == Append(s, e)
  <1>1. Len(s) \in Nat /\ DOMAIN s = 1 .. Len(s)
    BY LenProperties
  <1>2. /\ a \in Seq(S) /\ Len(a) = Len(s) + 1
        /\ \A i \in 1 .. Len(s) : a[i] = s[i]
        /\ a[Len(s) + 1] = e
    BY AppendProperties
  <1>3. DOMAIN a = 1 .. Len(s) + 1
    BY <1>2, LenProperties
  <1> HIDE DEF a
  <1>4. OneToOne(a)
    BY <1>1, <1>2, <1>3 DEF OneToOne, Range
  <1>5. Range(a) = Range(s) \cup {e}
    BY <1>1, <1>2, <1>3 DEF Range
  <1> QED
    BY <1>2, <1>4, <1>5 DEF a

\* What is left of a sequence when the one at i is taken out.
LEMMA WithoutIt ==
    ASSUME NEW S, NEW s \in Seq(S), NEW i \in DOMAIN s
    PROVE  /\ Without(s, i) \in Seq(S) /\ Len(Without(s, i)) = Len(s) - 1
           /\ \A j \in 1 .. Len(s) - 1 : Without(s, i)[j] = IF j < i THEN s[j] ELSE s[j + 1]
  <1> DEFINE a == SubSeq(s, 1, i - 1)
             b == SubSeq(s, i + 1, Len(s))
  <1>1. Len(s) \in Nat /\ i \in 1 .. Len(s) /\ \A j \in 1 .. Len(s) : s[j] \in S
    BY LenProperties, ElementOfSeq
  <1>2. /\ a \in Seq(S) /\ Len(a) = i - 1
        /\ \A j \in 1 .. i - 1 : a[j] = s[j]
    <2>1. \A j \in 1 .. i - 1 : s[j] \in S
      BY <1>1
    <2>2. /\ a \in Seq(S)
          /\ Len(a) = IF 1 <= i - 1 THEN i - 1 - 1 + 1 ELSE 0
          /\ \A j \in 1 .. i - 1 - 1 + 1 : a[j] = s[1 + j - 1]
      BY <1>1, <2>1, SubSeqProperties
    <2> QED
      BY <1>1, <2>2
  <1>3. /\ b \in Seq(S) /\ Len(b) = Len(s) - i
        /\ \A j \in 1 .. Len(s) - i : b[j] = s[i + j]
    <2>1. \A j \in i + 1 .. Len(s) : s[j] \in S
      BY <1>1
    <2>2. /\ b \in Seq(S)
          /\ Len(b) = IF i + 1 <= Len(s) THEN Len(s) - (i + 1) + 1 ELSE 0
          /\ \A j \in 1 .. Len(s) - (i + 1) + 1 : b[j] = s[i + 1 + j - 1]
      BY <1>1, <2>1, SubSeqProperties
    <2> QED
      BY <1>1, <2>2
  <1> HIDE DEF a, b
  <1>4. /\ a \o b \in Seq(S) /\ Len(a \o b) = Len(a) + Len(b)
        /\ \A j \in 1 .. Len(a) + Len(b) : (a \o b)[j] = IF j <= Len(a) THEN a[j] ELSE b[j - Len(a)]
    BY <1>2, <1>3, ConcatProperties
  <1>5. Without(s, i) = a \o b
    BY DEF Without, a, b
  <1>6. ASSUME NEW j \in 1 .. Len(s) - 1
        PROVE  (a \o b)[j] = IF j < i THEN s[j] ELSE s[j + 1]
    <2>1. CASE j < i
      <3>1. j \in 1 .. Len(a) + Len(b) /\ j <= Len(a) /\ j \in 1 .. i - 1
        BY <1>1, <1>2, <1>3, <2>1
      <3>2. (a \o b)[j] = a[j] /\ a[j] = s[j]
        BY <1>2, <1>4, <3>1
      <3> QED
        BY <2>1, <3>2
    <2>2. CASE ~ (j < i)
      <3>1. j \in 1 .. Len(a) + Len(b) /\ ~ (j <= Len(a)) /\ j - Len(a) = j - i + 1
        BY <1>1, <1>2, <1>3, <2>2
      <3>2. j - i + 1 \in 1 .. Len(s) - i /\ i + (j - i + 1) = j + 1
        BY <1>1, <2>2
      <3>3. (a \o b)[j] = b[j - i + 1] /\ b[j - i + 1] = s[i + (j - i + 1)]
        BY <1>3, <1>4, <3>1, <3>2
      <3> QED
        BY <2>2, <3>2, <3>3
    <2> QED
      BY <2>1, <2>2
  <1>7. Len(a) + Len(b) = Len(s) - 1
    BY <1>1, <1>2, <1>3
  <1> QED
    BY <1>4, <1>5, <1>6, <1>7

LEMMA WithOneLess ==
    ASSUME NEW S, NEW s \in Seq(S), OneToOne(s), NEW i \in DOMAIN s
    PROVE  OneToOne(Without(s, i)) /\ Range(Without(s, i)) = Range(s) \ {s[i]}
  <1> DEFINE w == Without(s, i)
  <1>1. Len(s) \in Nat /\ DOMAIN s = 1 .. Len(s)
    BY LenProperties
  <1>2. /\ w \in Seq(S) /\ Len(w) = Len(s) - 1
        /\ \A j \in 1 .. Len(s) - 1 : w[j] = IF j < i THEN s[j] ELSE s[j + 1]
    BY WithoutIt
  <1>3. DOMAIN w = 1 .. Len(s) - 1
    BY <1>2, LenProperties
  <1> HIDE DEF w
  <1>4. ASSUME NEW j \in DOMAIN w, NEW k \in DOMAIN w, w[j] = w[k] PROVE j = k
    <2>1. /\ w[j] = s[IF j < i THEN j ELSE j + 1]
          /\ w[k] = s[IF k < i THEN k ELSE k + 1]
      BY <1>2, <1>3
    <2>2. /\ (IF j < i THEN j ELSE j + 1) \in DOMAIN s
          /\ (IF k < i THEN k ELSE k + 1) \in DOMAIN s
      BY <1>1, <1>3
    <2>3. (IF j < i THEN j ELSE j + 1) = (IF k < i THEN k ELSE k + 1)
      BY <1>4, <2>1, <2>2 DEF OneToOne
    <2> QED
      BY <1>1, <1>3, <2>3
  <1>5. ASSUME NEW x \in Range(w) PROVE x \in Range(s) /\ x # s[i]
    BY <1>1, <1>2, <1>3, <1>5 DEF OneToOne, Range
  <1>6. ASSUME NEW x \in Range(s), x # s[i] PROVE x \in Range(w)
    <2>1. PICK j \in 1 .. Len(s) : x = s[j]
      BY <1>1, <1>6 DEF Range
    <2>2. CASE j < i
      BY <1>1, <1>2, <1>3, <2>1, <2>2 DEF Range
    <2>3. CASE j > i
      <3>1. j - 1 \in 1 .. Len(s) - 1 /\ ~ (j - 1 < i) /\ j - 1 + 1 = j
        BY <1>1, <2>1, <2>3
      <3> QED
        BY <1>2, <1>3, <2>1, <3>1 DEF Range
    <2> QED
      BY <1>1, <1>6, <2>1, <2>2, <2>3
  <1> QED
    BY <1>4, <1>5, <1>6 DEF w, OneToOne


----------------------------------------------------------------------------
(* The line *)

Lines == [inFlight : Int, slots : Seq(Node), gate : Seq(Node)]

\* The callers inside admit, A, stand in the line once each, and the sessions in
\* flight are those that start and the k that run.
LineOK(l, A, k) ==
    /\ OneToOne(l.slots) /\ OneToOne(l.gate)
    /\ Range(l.slots) \cap Range(l.gate) = {} /\ Range(l.slots) \cup Range(l.gate) = A
    /\ l.inFlight = Len(l.gate) + k

\* The slot granted next is one of the queue, and none of it ranks higher.
LEMMA BestIsThere ==
    ASSUME NEW q \in Seq(Node), q # <<>>
    PROVE  /\ Best(q) \in DOMAIN q
           /\ \A j \in DOMAIN q : Priority[q[Best(q)]] >= Priority[q[j]]
  <1> DEFINE Ahead(i, j) == \/ Priority[q[i]] > Priority[q[j]]
                            \/ Priority[q[i]] = Priority[q[j]] /\ i < j
             First(i, k) == \A j \in 1 .. k : j # i => Ahead(i, j)
             T == {k \in Nat : k \in 1 .. Len(q) => \E i \in 1 .. k : First(i, k)}
  <1>1. Len(q) \in Nat /\ Len(q) # 0 /\ DOMAIN q = 1 .. Len(q)
    BY LenProperties, EmptySeq
  <1>2. \A j \in 1 .. Len(q) : Priority[q[j]] \in Nat
    BY PriorityType, ElementOfSeq
  <1>3. 0 \in T
    OBVIOUS
  <1>4. ASSUME NEW k \in Nat, k \in T PROVE k + 1 \in T
    <2> SUFFICES ASSUME k + 1 \in 1 .. Len(q) PROVE \E i \in 1 .. k + 1 : First(i, k + 1)
      OBVIOUS
    <2>1. CASE k = 0
      <3>1. First(1, k + 1)
        BY <2>1
      <3> QED
        BY <2>1, <3>1
    <2>2. CASE k # 0
      <3>1. PICK i \in 1 .. k : First(i, k)
        BY <1>1, <1>4, <2>2
      <3>2. \A j \in 1 .. k + 1 : j \in 1 .. k \/ j = k + 1
        OBVIOUS
      <3>3. CASE Priority[q[i]] >= Priority[q[k + 1]]
        <4>1. Ahead(i, k + 1)
          BY <1>1, <1>2, <3>3
        <4>2. First(i, k + 1)
          BY <3>1, <3>2, <4>1
        <4> QED
          BY <4>2
      <3>4. CASE Priority[q[i]] < Priority[q[k + 1]]
        <4>1. \A j \in 1 .. k : Priority[q[i]] >= Priority[q[j]]
          BY <1>1, <1>2, <3>1
        <4>2. \A j \in 1 .. k : Priority[q[k + 1]] > Priority[q[j]]
          BY <1>1, <1>2, <3>4, <4>1
        <4>3. First(k + 1, k + 1)
          BY <3>2, <4>2
        <4> QED
          BY <4>3
      <3>5. Priority[q[i]] >= Priority[q[k + 1]] \/ Priority[q[i]] < Priority[q[k + 1]]
        <4>1. i \in 1 .. Len(q) /\ k + 1 \in 1 .. Len(q)
          BY <1>1
        <4>2. Priority[q[i]] \in Nat /\ Priority[q[k + 1]] \in Nat
          BY <1>2, <4>1
        <4> QED
          BY <4>2
      <3> QED
        BY <3>3, <3>4, <3>5
    <2> QED
      BY <2>1, <2>2
  <1> HIDE DEF T
  <1>5. Len(q) \in T
    BY <1>1, <1>3, <1>4, Counting
  <1>6. PICK i \in 1 .. Len(q) : First(i, Len(q))
    BY <1>1, <1>5 DEF T
  <1>7. /\ Best(q) \in DOMAIN q
        /\ \A j \in DOMAIN q \ {Best(q)} : Ahead(Best(q), j)
    BY <1>1, <1>6 DEF Best
  <1>8. ASSUME NEW j \in DOMAIN q PROVE Priority[q[Best(q)]] >= Priority[q[j]]
    BY <1>1, <1>2, <1>7
  <1> QED
    BY <1>7, <1>8


\* A round of #pump: the best of the queue moves to the gate, and takes a slot.
LEMMA Granted ==
    ASSUME NEW l \in Lines, NEW A, NEW k \in Nat, LineOK(l, A, k), l.slots # <<>>
    PROVE  /\ Grant(l) \in Lines /\ LineOK(Grant(l), A, k)
           /\ Grant(l).inFlight = l.inFlight + 1
           /\ Len(Grant(l).slots) = Len(l.slots) - 1
           /\ \E n \in Range(l.slots) :
                 /\ Range(Grant(l).slots) = Range(l.slots) \ {n}
                 /\ Range(Grant(l).gate) = Range(l.gate) \cup {n}
                 /\ \A q \in Range(l.slots) : Priority[n] >= Priority[q]
  <1> DEFINE i == Best(l.slots)
             n == l.slots[i]
             s == Without(l.slots, i)
             g == Append(l.gate, n)
  <1>1. l.slots \in Seq(Node) /\ l.gate \in Seq(Node) /\ l.inFlight \in Int
    BY DEF Lines
  <1>2. i \in DOMAIN l.slots /\ \A j \in DOMAIN l.slots : Priority[n] >= Priority[l.slots[j]]
    BY <1>1, BestIsThere
  <1>3. n \in Node /\ n \in Range(l.slots) /\ n \notin Range(l.gate)
    <2>1. n \in Range(l.slots)
      BY <1>2 DEF Range
    <2>2. Range(l.slots) \subseteq Node
      BY <1>1, CountOfSeq DEF LineOK
    <2> QED
      BY <2>1, <2>2 DEF LineOK
  <1>4. Grant(l) = [inFlight |-> l.inFlight + 1, slots |-> s, gate |-> g]
    BY DEF Grant
  <1>5. \A q \in Range(l.slots) : Priority[n] >= Priority[q]
    BY <1>2 DEF Range
  <1>6. OneToOne(l.slots) /\ OneToOne(l.gate)
    BY DEF LineOK
  <1> HIDE DEF n, i
  <1>7. s \in Seq(Node) /\ Len(s) = Len(l.slots) - 1
    BY <1>1, <1>2, WithoutIt
  <1>8. OneToOne(s) /\ Range(s) = Range(l.slots) \ {n}
    BY <1>1, <1>2, <1>6, WithOneLess DEF n
  <1>9. g \in Seq(Node) /\ Len(g) = Len(l.gate) + 1 /\ OneToOne(g) /\ Range(g) = Range(l.gate) \cup {n}
    BY <1>1, <1>3, <1>6, WithOneMore
  <1> HIDE DEF s, g
  <1>10. /\ Grant(l).inFlight = l.inFlight + 1 /\ Grant(l).slots = s /\ Grant(l).gate = g
    BY <1>4
  <1>11. Grant(l) \in Lines
    BY <1>1, <1>4, <1>7, <1>9 DEF Lines
  <1>12. LineOK(Grant(l), A, k)
    <2>1. Len(l.gate) \in Nat
      BY <1>1, LenProperties
    <2>2. l.inFlight + 1 = Len(g) + k
      BY <1>9, <2>1 DEF LineOK
    <2> QED
      BY <1>3, <1>8, <1>9, <1>10, <2>2 DEF LineOK
  <1> QED
    BY <1>3, <1>5, <1>7, <1>8, <1>9, <1>10, <1>11, <1>12

\* How m came of l by handing out slots under a ceiling.
Served(l, m, ceil) ==
    /\ Range(m.slots) \subseteq Range(l.slots) /\ Range(l.gate) \subseteq Range(m.gate)
    /\ \A n \in Range(m.gate) \ Range(l.gate) :
          m.inFlight <= ceil /\ \A q \in Range(m.slots) : Priority[n] >= Priority[q]

\* The queue is empty or the ceiling reached.
Full(l, ceil) == l.slots # <<>> => l.inFlight >= ceil

LEMMA OneRound ==
    ASSUME NEW l, NEW m \in Lines, NEW A, NEW k \in Nat, LineOK(m, A, k), NEW ceil \in Nat,
           Served(l, m, ceil)
    PROVE  /\ Pumped(m, ceil) \in Lines /\ LineOK(Pumped(m, ceil), A, k)
           /\ Served(l, Pumped(m, ceil), ceil)
           /\ Full(Pumped(m, ceil), ceil) \/ Len(Pumped(m, ceil).slots) = Len(m.slots) - 1
  <1>1. CASE m.slots # <<>> /\ m.inFlight < ceil
    <2> DEFINE g == Grant(m)
    <2>1. Pumped(m, ceil) = g
      BY <1>1 DEF Pumped
    <2>2. /\ g \in Lines /\ LineOK(g, A, k) /\ g.inFlight = m.inFlight + 1
          /\ Len(g.slots) = Len(m.slots) - 1
      BY <1>1, Granted
    <2>3. PICK n \in Range(m.slots) :
             /\ Range(g.slots) = Range(m.slots) \ {n} /\ Range(g.gate) = Range(m.gate) \cup {n}
             /\ \A q \in Range(m.slots) : Priority[n] >= Priority[q]
      BY <1>1, Granted
    <2>4. g.inFlight <= ceil
      BY <1>1, <2>2 DEF Lines
    <2> HIDE DEF g
    <2>5. Served(l, g, ceil)
      BY <2>3, <2>4 DEF Served
    <2> QED
      BY <2>1, <2>2, <2>5
  <1>2. CASE ~ (m.slots # <<>> /\ m.inFlight < ceil)
    <2>1. Pumped(m, ceil) = m /\ m.inFlight \in Int
      BY <1>2 DEF Pumped, Lines
    <2> QED
      BY <1>2, <2>1 DEF Full
  <1> QED
    BY <1>1, <1>2


\* #pump as a whole: nobody is lost, it stops only when it must, and whom it
\* serves ranks before all who stay.
LEMMA PumpServes ==
    ASSUME NEW l \in Lines, NEW A \in SUBSET Node, NEW k \in Nat, LineOK(l, A, k), NEW ceil \in Nat
    PROVE  /\ Pump(l, ceil) \in Lines /\ LineOK(Pump(l, ceil), A, k)
           /\ Served(l, Pump(l, ceil), ceil) /\ Full(Pump(l, ceil), ceil)
  <1> DEFINE c == Cardinality(Node)
             S == {m \in Lines : LineOK(m, A, k) /\ Served(l, m, ceil)}
             G == [m \in S |-> Pumped(m, ceil)]
             Loops(f) == f = [j \in 0 .. c |-> IF j = 0 THEN l ELSE Pumped(f[j - 1], ceil)]
             p == CHOOSE f : Loops(f)
  <1>1. c \in Nat
    BY NodeFinite, FS_CardinalityType
  <1>2. \A m \in S : Pumped(m, ceil) \in S
    BY OneRound
  <1>3. Closed(S, G)
    BY <1>2 DEF Closed
  <1>4. l \in S
    BY DEF Served
  <1>5. \A m \in S : G[m] = Pumped(m, ceil)
    OBVIOUS
  <1> HIDE DEF S, G, c
  <1>6. PICK f : IsRun(f, S, G, l, c)
    BY <1>1, <1>3, <1>4, Repeats
  <1>7. Loops(f)
    <2>1. ASSUME NEW j \in 0 .. c PROVE f[j] = IF j = 0 THEN l ELSE Pumped(f[j - 1], ceil)
      <3>1. j # 0 => f[j - 1] \in S
        BY <1>1, <1>6 DEF IsRun
      <3> QED
        BY <1>5, <1>6, <3>1 DEF IsRun
    <2> QED
      BY <1>6, <2>1 DEF IsRun
  <1>8. Loops(p)
    BY <1>7
  <1>9. Pump(l, ceil) = p[c]
    BY DEF Pump, c
  <1> HIDE DEF p
  <1>10. /\ p[0] = l
         /\ \A j \in 0 .. c : j # 0 => p[j] = Pumped(p[j - 1], ceil)
    BY <1>1, <1>8
  <1> HIDE DEF Loops
  <1> DEFINE Fine(j) == p[j] \in S /\ (Full(p[j], ceil) \/ Len(p[j].slots) + j <= Len(l.slots))
             T == {j \in Nat : j \in 0 .. c => Fine(j)}
  <1>11. \A m \in S : m \in Lines /\ Len(m.slots) \in Nat
    <2>1. \A m \in S : m \in Lines /\ m.slots \in Seq(Node)
      BY DEF S, Lines
    <2> QED
      BY <2>1, LenProperties
  <1>12. 0 \in T
    BY <1>1, <1>4, <1>10, <1>11
  <1>13. ASSUME NEW j \in Nat, j \in T PROVE j + 1 \in T
    <2> SUFFICES ASSUME j + 1 \in 0 .. c PROVE Fine(j + 1)
      <3> HIDE DEF Fine
      <3> QED
        OBVIOUS
    <2> DEFINE m == p[j]
               next == p[j + 1]
    <2>1. j \in 0 .. c /\ j + 1 # 0 /\ j + 1 - 1 = j
      BY <1>1
    <2>2. m \in S /\ (Full(m, ceil) \/ Len(m.slots) + j <= Len(l.slots))
      BY <1>13, <2>1
    <2>3. next = Pumped(m, ceil)
      BY <1>10, <2>1
    <2> HIDE DEF m, next, T
    <2>4. next \in S
      BY <1>2, <2>2, <2>3
    <2>5. Full(next, ceil) \/ Len(next.slots) = Len(m.slots) - 1
      BY <2>2, <2>3, OneRound DEF S
    <2>6. Full(m, ceil) => next = m
      BY <1>11, <2>2, <2>3 DEF Full, Pumped, Lines
    <2>7. Len(m.slots) \in Nat /\ Len(l.slots) \in Nat /\ Len(next.slots) \in Nat
      BY <1>4, <1>11, <2>2, <2>4
    <2>8. Full(next, ceil) \/ Len(next.slots) + (j + 1) <= Len(l.slots)
      <3>1. CASE Full(m, ceil)
        BY <2>6, <3>1
      <3>2. CASE ~ Full(m, ceil)
        <4>1. Len(m.slots) + j <= Len(l.slots)
          BY <2>2, <3>2
        <4>2. Len(next.slots) = Len(m.slots) - 1 => Len(next.slots) + (j + 1) <= Len(l.slots)
          <5> DEFINE a == Len(m.slots)
                     b == Len(next.slots)
                     d == Len(l.slots)
          <5>1. a \in Nat /\ b \in Nat /\ d \in Nat /\ a + j <= d
            BY <2>7, <4>1
          <5> HIDE DEF a, b, d
          <5>2. b = a - 1 => b + (j + 1) <= d
            BY <5>1
          <5> QED
            BY <5>2 DEF a, b, d
        <4> QED
          BY <2>5, <4>2
      <3> QED
        BY <3>1, <3>2
    <2> QED
      BY <2>4, <2>8 DEF next
  <1> HIDE DEF T
  <1>14. c \in T
    BY <1>1, <1>12, <1>13, Counting
  <1>15. p[c] \in S /\ (Full(p[c], ceil) \/ Len(p[c].slots) + c <= Len(l.slots))
    BY <1>1, <1>14 DEF T
  <1>16. Len(l.slots) <= c
    <2>1. /\ IsFiniteSet(Range(l.slots)) /\ Cardinality(Range(l.slots)) = Len(l.slots)
          /\ Range(l.slots) \in SUBSET Node
      BY CountOfSeq DEF LineOK, Lines
    <2>2. Cardinality(Range(l.slots)) <= Cardinality(Node)
      BY <2>1, NodeFinite, FS_Subset
    <2> QED
      BY <2>1, <2>2 DEF c
  <1>17. Full(p[c], ceil)
    <2> SUFFICES ASSUME Len(p[c].slots) + c <= Len(l.slots) PROVE p[c].slots = <<>>
      BY <1>15 DEF Full
    <2>1. Len(p[c].slots) \in Nat /\ Len(l.slots) \in Nat /\ p[c].slots \in Seq(Node)
      BY <1>4, <1>11, <1>15 DEF Lines
    <2>2. Len(p[c].slots) = 0
      BY <1>1, <1>16, <2>1
    <2> QED
      BY <2>1, <2>2, EmptySeq
  <1>18. p[c] \in Lines /\ LineOK(p[c], A, k) /\ Served(l, p[c], ceil)
    BY <1>15 DEF S
  <1> QED
    BY <1>9, <1>17, <1>18


\* A caller that takes its place in the line.
LEMMA TakesPlace ==
    ASSUME NEW l \in Lines, NEW A, NEW k \in Nat, LineOK(l, A, k), NEW n \in Node \ A,
           ceiling \in Nat, Full(l, ceiling)
    PROVE  /\ Acquire(n, l) \in Lines /\ LineOK(Acquire(n, l), A \cup {n}, k)
           /\ Full(Acquire(n, l), ceiling)
           /\ Range(l.gate) \subseteq Range(Acquire(n, l).gate)
           /\ Range(Acquire(n, l).gate) \subseteq Range(l.gate) \cup {n}
           /\ Range(Acquire(n, l).slots) \subseteq Range(l.slots) \cup {n}
           /\ Acquire(n, l).inFlight <= ceiling \/ Acquire(n, l).inFlight = l.inFlight
  <1> DEFINE g == Append(l.gate, n)
             s == Append(l.slots, n)
  <1>1. l.slots \in Seq(Node) /\ l.gate \in Seq(Node) /\ l.inFlight \in Int /\ Len(l.gate) \in Nat
    BY LenProperties DEF Lines
  <1>2. OneToOne(l.slots) /\ OneToOne(l.gate) /\ n \notin Range(l.slots) /\ n \notin Range(l.gate)
    BY DEF LineOK
  <1>3. g \in Seq(Node) /\ Len(g) = Len(l.gate) + 1 /\ OneToOne(g) /\ Range(g) = Range(l.gate) \cup {n}
    BY <1>1, <1>2, WithOneMore
  <1>4. s \in Seq(Node) /\ Len(s) = Len(l.slots) + 1 /\ OneToOne(s) /\ Range(s) = Range(l.slots) \cup {n}
    BY <1>1, <1>2, WithOneMore
  <1> HIDE DEF g, s
  <1>5. CASE l.inFlight < ceiling /\ l.slots = <<>>
    <2> DEFINE m == [inFlight |-> l.inFlight + 1, slots |-> l.slots, gate |-> g]
    <2>1. Acquire(n, l) = m
      BY <1>5 DEF Acquire, Lines, g
    <2>2. m \in Lines /\ m.slots = l.slots /\ m.gate = g /\ m.inFlight = l.inFlight + 1
      BY <1>1, <1>3 DEF Lines
    <2> HIDE DEF m
    <2>3. LineOK(m, A \cup {n}, k)
      <3>1. m.inFlight = Len(g) + k
        BY <1>1, <1>3, <2>2 DEF LineOK
      <3> QED
        BY <1>2, <1>3, <2>2, <3>1 DEF LineOK
    <2>4. m.inFlight <= ceiling
      BY <1>1, <1>5, <2>2
    <2> QED
      BY <1>3, <1>5, <2>1, <2>2, <2>3, <2>4 DEF Full
  <1>6. CASE ~ (l.inFlight < ceiling /\ l.slots = <<>>)
    <2> DEFINE m == [inFlight |-> l.inFlight, slots |-> s, gate |-> l.gate]
    <2>1. Acquire(n, l) = m
      BY <1>6 DEF Acquire, Lines, s
    <2>2. m \in Lines /\ m.slots = s /\ m.gate = l.gate /\ m.inFlight = l.inFlight
      BY <1>1, <1>4 DEF Lines
    <2> HIDE DEF m
    <2>3. LineOK(m, A \cup {n}, k)
      BY <1>2, <1>4, <2>2 DEF LineOK
    <2>4. m.inFlight >= ceiling
      BY <1>1, <1>6, <2>2 DEF Full
    <2> QED
      BY <1>4, <2>1, <2>2, <2>3, <2>4 DEF Full
  <1> QED
    BY <1>5, <1>6

\* The gate handed on by n.
LEMMA OpensGate ==
    ASSUME NEW l \in Lines, NEW A, NEW k \in Nat, LineOK(l, A, k), NEW n \in Range(l.gate)
    PROVE  /\ Opened(n, l) \in Lines /\ LineOK(Opened(n, l), A \ {n}, k + 1)
           /\ Opened(n, l).inFlight = l.inFlight /\ Opened(n, l).slots = l.slots
           /\ Range(Opened(n, l).gate) = Range(l.gate) \ {n}
  <1> DEFINE i == CHOOSE i \in DOMAIN l.gate : l.gate[i] = n
             g == Without(l.gate, i)
             m == [inFlight |-> l.inFlight, slots |-> l.slots, gate |-> g]
  <1>1. l.slots \in Seq(Node) /\ l.gate \in Seq(Node) /\ l.inFlight \in Int /\ Len(l.gate) \in Nat
    BY LenProperties DEF Lines
  <1>2. i \in DOMAIN l.gate /\ l.gate[i] = n
    BY DEF Range
  <1>3. OneToOne(l.gate) /\ n \notin Range(l.slots)
    BY DEF LineOK
  <1>4. Opened(n, l) = m
    BY DEF Opened, Lines
  <1> HIDE DEF i
  <1>5. g \in Seq(Node) /\ Len(g) = Len(l.gate) - 1 /\ OneToOne(g) /\ Range(g) = Range(l.gate) \ {n}
    BY <1>1, <1>2, <1>3, WithoutIt, WithOneLess
  <1> HIDE DEF g
  <1>6. m \in Lines /\ m.slots = l.slots /\ m.gate = g /\ m.inFlight = l.inFlight
    BY <1>1, <1>5 DEF Lines
  <1> HIDE DEF m
  <1>7. m.inFlight = Len(g) + (k + 1)
    <2>1. l.inFlight = Len(l.gate) + k
      BY DEF LineOK
    <2> QED
      <3> DEFINE b == Len(l.gate)
                 d == Len(g)
      <3>1. b \in Nat /\ d = b - 1 /\ m.inFlight = b + k
        BY <1>1, <1>5, <1>6, <2>1
      <3> HIDE DEF b, d
      <3>2. m.inFlight = d + (k + 1)
        BY <3>1
      <3> QED
        BY <3>2 DEF d
  <1>8. LineOK(m, A \ {n}, k + 1)
    BY <1>3, <1>5, <1>6, <1>7 DEF LineOK
  <1> QED
    BY <1>4, <1>5, <1>6, <1>8

\* A slot that comes back and goes to whom it may.
LEMMA GivesSlot ==
    ASSUME NEW l \in Lines, NEW A \in SUBSET Node, NEW k \in Nat, LineOK(l, A, k + 1), NEW ceil \in Nat
    PROVE  LET m == Pump([l EXCEPT !.inFlight = @ - 1], ceil) IN
           m \in Lines /\ LineOK(m, A, k) /\ Served(l, m, ceil) /\ Full(m, ceil)
  <1> DEFINE d == [l EXCEPT !.inFlight = @ - 1]
  <1>1. l.slots \in Seq(Node) /\ l.gate \in Seq(Node) /\ l.inFlight \in Int /\ Len(l.gate) \in Nat
    BY LenProperties DEF Lines
  <1>2. d = [inFlight |-> l.inFlight - 1, slots |-> l.slots, gate |-> l.gate]
    BY DEF Lines
  <1> HIDE DEF d
  <1>3. d \in Lines /\ d.slots = l.slots /\ d.gate = l.gate /\ d.inFlight = l.inFlight - 1
    BY <1>1, <1>2 DEF Lines
  <1>4. d.inFlight = Len(d.gate) + k
    BY <1>1, <1>3 DEF LineOK
  <1>5. LineOK(d, A, k)
    BY <1>3, <1>4 DEF LineOK
  <1>6. /\ Pump(d, ceil) \in Lines /\ LineOK(Pump(d, ceil), A, k)
        /\ Served(d, Pump(d, ceil), ceil) /\ Full(Pump(d, ceil), ceil)
    BY <1>3, <1>5, PumpServes
  <1>7. Served(l, Pump(d, ceil), ceil)
    BY <1>3, <1>6 DEF Served
  <1> QED
    BY <1>6, <1>7 DEF d

\* started() and #releaseSlot together.
LEMMA GivesBack ==
    ASSUME line \in Lines, NEW A \in SUBSET Node, NEW k \in Nat, LineOK(line, A, k),
           NEW n \in Range(line.gate), NEW ceil \in Nat
    PROVE  /\ GivenBack(n, ceil) \in Lines /\ LineOK(GivenBack(n, ceil), A \ {n}, k)
           /\ Full(GivenBack(n, ceil), ceil) /\ Served(Opened(n, line), GivenBack(n, ceil), ceil)
  <1> DEFINE l == Opened(n, line)
  <1>1. l \in Lines /\ LineOK(l, A \ {n}, k + 1)
    BY OpensGate
  <1> HIDE DEF l
  <1>2. LET m == Pump([l EXCEPT !.inFlight = @ - 1], ceil) IN
        m \in Lines /\ LineOK(m, A \ {n}, k) /\ Served(l, m, ceil) /\ Full(m, ceil)
    BY <1>1, GivesSlot
  <1> QED
    BY <1>2 DEF GivenBack, l


----------------------------------------------------------------------------
(* The types of all but the line *)

\* A model of the chain behind one that is asked for.
LEMMA ChainModels ==
    ASSUME NEW m \in Model, NEW out
    PROVE  NextFallback(m, out) \in Model \cup {NoModel}
  <1> DEFINE c == Cardinality(Model)
             S == Model \cup {NoModel}
             G == [x \in S |-> Behind(x)]
             Walks(f) == f = [j \in 0 .. c |-> IF j = 0 THEN m ELSE Behind(f[j - 1])]
             f == CHOOSE f : Walks(f)
             first == {k \in 1 .. c :
                         /\ f[k] \notin out \cup {NoModel}
                         /\ \A j \in 1 .. k - 1 : f[j] \in out
                         /\ \A i, j \in 0 .. k : f[i] = f[j] => i = j}
  <1>1. c \in Nat
    BY NodeFinite, FS_CardinalityType
  <1>2. Closed(S, G) /\ (\A x \in S : G[x] = Behind(x)) /\ m \in S
    BY ModelType, NoModelType DEF Closed, Behind
  <1>3. NextFallback(m, out) = IF first = {} THEN NoModel ELSE f[CHOOSE k \in first : TRUE]
    BY DEF NextFallback, Chain
  <1> HIDE DEF S, G, c
  <1>4. PICK h : IsRun(h, S, G, m, c)
    BY <1>1, <1>2, Repeats
  <1>5. Walks(h)
    <2>1. ASSUME NEW j \in 0 .. c PROVE h[j] = IF j = 0 THEN m ELSE Behind(h[j - 1])
      <3>1. j # 0 => h[j - 1] \in S
        BY <1>1, <1>4 DEF IsRun
      <3> QED
        BY <1>2, <1>4, <3>1 DEF IsRun
    <2> QED
      BY <1>4, <2>1 DEF IsRun
  <1>6. Walks(f)
    BY <1>5
  <1> HIDE DEF f, first
  <1>7. /\ f[0] = m
        /\ \A j \in 0 .. c : j # 0 => f[j] = Behind(f[j - 1])
    BY <1>1, <1>6
  <1> DEFINE T == {j \in Nat : j \in 0 .. c => f[j] \in S}
  <1>8. 0 \in T
    BY <1>2, <1>7
  <1>9. ASSUME NEW j \in Nat, j \in T PROVE j + 1 \in T
    <2> SUFFICES ASSUME j + 1 \in 0 .. c PROVE f[j + 1] \in S
      OBVIOUS
    <2>1. j \in 0 .. c /\ j + 1 # 0 /\ j + 1 - 1 = j
      BY <1>1
    <2>2. f[j] \in S
      BY <1>9, <2>1
    <2>3. f[j + 1] = Behind(f[j])
      BY <1>7, <2>1
    <2> QED
      BY <1>2, <2>2, <2>3 DEF Closed
  <1> HIDE DEF T
  <1>10. \A k \in 1 .. c : f[k] \in S
    <2>1. Nat \subseteq T
      BY <1>8, <1>9, Counting
    <2> QED
      BY <1>1, <2>1 DEF T
  <1>11. first # {} => (CHOOSE k \in first : TRUE) \in 1 .. c
    BY DEF first
  <1> QED
    BY <1>3, <1>10, <1>11 DEF S

Sizes ==
    /\ ceiling \in 1 .. Configured /\ clean \in 0 .. IncreaseAfter - 1
    /\ ceilRow \in 0 .. Configured - 1

Flags ==
    /\ up \in BOOLEAN /\ notified \in BOOLEAN /\ login \in BOOLEAN /\ open \in {"no", "open", "overdue"}
    /\ wake \in {"none", "ahead", "past"} /\ waitRow \in {"none", "ahead", "past"}
    /\ outage \in {"none", "auth", "network"} /\ notices \in 0 .. 2

Models ==
    model \in [Node -> Model] /\ found \in [Node -> SUBSET Model] /\ exhausted \subseteq Model

Places == pc \in [Node -> {"out", "admitting", "spawning", "running", "retry", "sleeping", "asking"}]


LEMMA HalvedSize ==
    ASSUME Sizes
    PROVE  /\ Halved \in 1 .. Configured /\ Halved <= ceiling
           /\ Remembered(Halved) \in 0 .. Configured - 1
  <1>1. ceiling \in 1 .. Configured /\ Configured \in Nat
    BY CeilingType DEF Sizes
  <1>2. Halved \in 1 .. Configured /\ Halved <= ceiling
    BY <1>1 DEF Halved
  <1> HIDE DEF Halved
  <1> QED
    BY <1>1, <1>2 DEF Remembered

LEMMA ShrinksSizes ==
    ASSUME Sizes, NEW kind, Park(kind)
    PROVE  Sizes' /\ ceiling' <= ceiling
  <1>1. clean' = 0 /\ Shrink(kind)
    BY DEF Park
  <1>2. 0 \in 0 .. IncreaseAfter - 1 /\ ceiling \in Int
    BY CeilingType DEF Sizes
  <1>3. CASE kind \in {"concurrency", "rate_limit"}
    <2>1. ceiling' = Halved /\ ceilRow' = Remembered(Halved)
      BY <1>1, <1>3 DEF Shrink
    <2> QED
      BY <1>1, <1>2, <2>1, HalvedSize DEF Sizes
  <1>4. CASE kind \notin {"concurrency", "rate_limit"}
    BY <1>1, <1>2, <1>4 DEF Shrink, Sizes
  <1> QED
    BY <1>3, <1>4

LEMMA CleanSizes ==
    ASSUME Sizes, NEW l, OnClean(l)
    PROVE  Sizes'
  <1>1. /\ ceiling \in 1 .. Configured /\ clean \in 0 .. IncreaseAfter - 1 /\ ceilRow \in 0 .. Configured - 1
        /\ Configured \in Nat \ {0} /\ IncreaseAfter \in Nat \ {0}
    BY CeilingType DEF Sizes
  <1>2. CASE clean + 1 < IncreaseAfter
    BY <1>1, <1>2 DEF OnClean, Sizes
  <1>3. CASE ~ (clean + 1 < IncreaseAfter)
    <2>1. /\ clean' = 0
          /\ ceiling' = IF ceiling < Configured THEN ceiling + 1 ELSE ceiling
          /\ ceilRow' = IF ceiling' # ceiling THEN Remembered(ceiling') ELSE ceilRow
      BY <1>3 DEF OnClean
    <2>2. ceiling' \in 1 .. Configured /\ clean' \in 0 .. IncreaseAfter - 1
      BY <1>1, <2>1
    <2>3. ceilRow' \in 0 .. Configured - 1
      BY <1>1, <2>1, <2>2 DEF Remembered
    <2> QED
      BY <2>2, <2>3 DEF Sizes
  <1> QED
    BY <1>2, <1>3

LEMMA NextSizes ==
    ASSUME Sizes, [Next]_vars
    PROVE  Sizes'
  <1>1. ASSUME NEW n \in Node, NEW kind \in Kinds, SpawnRefused(n, kind) \/ RefusedMidTurn(n, kind)
        PROVE  Sizes'
    BY <1>1, ShrinksSizes DEF SpawnRefused, RefusedMidTurn, aimd, Sizes
  <1>2. ASSUME NEW n \in Node, SpawnOk(n) PROVE Sizes'
    BY <1>2, CleanSizes DEF SpawnOk
  <1>3. CASE UNCHANGED aimd
    BY <1>3 DEF aimd, Sizes
  <1>4. CASE Crash \/ CrashInPark
    <2>1. ceiling' = Configured /\ clean' = 0
      BY <1>4 DEF Crash, CrashInPark, Forget
    <2>2. ceilRow' \in 0 .. Configured - 1
      BY <1>4, HalvedSize DEF Crash, CrashInPark, Sizes
    <2> QED
      BY <2>1, <2>2, CeilingType DEF Sizes
  <1>5. CASE Boot
    <2>1. ceilRow' = ceilRow /\ clean' = clean /\ (ceiling' = Configured \/ (ceilRow # 0 /\ ceiling' = ceilRow))
      <3>1. \E fresh \in BOOLEAN :
               ceiling' = IF fresh /\ ceilRow # 0 /\ ceilRow < Configured THEN ceilRow ELSE Configured
        BY <1>5 DEF Boot
      <3>2. ceiling' = Configured \/ (ceilRow # 0 /\ ceiling' = ceilRow)
        <4>1. PICK fresh \in BOOLEAN :
                 ceiling' = IF fresh /\ ceilRow # 0 /\ ceilRow < Configured THEN ceilRow ELSE Configured
          BY <3>1
        <4> DEFINE hinted == fresh /\ ceilRow # 0 /\ ceilRow < Configured
        <4>2. hinted => ceilRow # 0
          OBVIOUS
        <4>3. ceiling' = IF hinted THEN ceilRow ELSE Configured
          BY <4>1
        <4> HIDE DEF hinted
        <4> QED
          BY <4>2, <4>3
      <3> QED
        BY <1>5, <3>2 DEF Boot
    <2> QED
      BY <2>1, CeilingType DEF Sizes
  <1> QED
    BY <1>1, <1>2, <1>3, <1>4, <1>5
       DEF Next, Admit, Start, SpawnFails, SpawnUnauthenticated, SpawnFallsBack, Wait, TurnFails,
           TurnCompleted, LoginLapsed, ModelReturns, TimePasses, TimerFires, LoggedIn, vars, aimd


LEMMA NextFlags ==
    ASSUME Flags, [Next]_vars
    PROVE  Flags'
  <1>1. ASSUME NEW cause \in {"auth", "network"}, OutageStarts(cause)
        PROVE  outage' \in {"none", "auth", "network"} /\ open' \in {"no", "open", "overdue"}
    BY <1>1 DEF OutageStarts, Flags
  <1>2. ASSUME NEW n \in Node, NEW kind \in Kinds, up' = up, Park(kind)
        PROVE  Flags'
    <2>1. wake' \in {"ahead", "past"} /\ waitRow' = wake' /\ login' = login
      BY <1>2 DEF Park, Record, Later
    <2>2. notified' = TRUE /\ notices' \in 0 .. 2
      BY <1>2 DEF Park, Notify, Flags
    <2>3. outage' \in {"none", "auth", "network"} /\ open' \in {"no", "open", "overdue"}
      BY <1>1, <1>2 DEF Park, Flags
    <2> QED
      BY <1>2, <2>1, <2>2, <2>3 DEF Flags
  <1>3. ASSUME NEW n \in Node, NEW kind \in Kinds, SpawnRefused(n, kind) \/ RefusedMidTurn(n, kind)
        PROVE  Flags'
    <2>1. CASE up' = up /\ Park(kind)
      BY <1>2, <2>1
    <2>2. CASE up' = up /\ UNCHANGED wait /\ UNCHANGED hold
      BY <2>2 DEF wait, hold, Flags
    <2> QED
      BY <1>3, <2>1, <2>2 DEF SpawnRefused, RefusedMidTurn, TurnEnds
  <1>4. ASSUME NEW n \in Node, SpawnUnauthenticated(n) \/ LoginLapsed(n) PROVE Flags'
    <2>1. up' = up /\ UNCHANGED wait /\ login' = TRUE /\ OutageStarts("auth")
      BY <1>4 DEF SpawnUnauthenticated, LoginLapsed, TurnEnds
    <2> QED
      BY <1>1, <2>1 DEF wait, Flags
  <1>5. ASSUME NEW n \in Node, TurnCompleted(n) PROVE Flags'
    BY <1>5 DEF TurnCompleted, TurnEnds, wait, Flags
  <1>6. CASE up' = up /\ UNCHANGED wait /\ UNCHANGED hold
    BY <1>6 DEF wait, hold, Flags
  <1>7. CASE TimePasses \/ TimerFires \/ LoggedIn
    <2>1. CASE TimePasses
      BY <2>1 DEF TimePasses, hold, Flags
    <2>2. CASE TimerFires
      <3>1. /\ up' = up /\ notified' = FALSE /\ login' = login
            /\ wake' = "none" /\ waitRow' = "none" /\ notices' = 0
            /\ outage' = outage /\ open' = open
        BY <2>2 DEF TimerFires, hold
      <3>2. up' \in BOOLEAN /\ notified' \in BOOLEAN /\ login' \in BOOLEAN
        BY <3>1 DEF Flags
      <3>3. notices' \in 0 .. 2
        BY <3>1
      <3> QED
        BY <3>1, <3>2, <3>3, Zenon DEF Flags
    <2>3. CASE LoggedIn
      BY <2>3 DEF LoggedIn, wait, Flags
    <2> QED
      BY <1>7, <2>1, <2>2, <2>3
  <1>8. CASE Crash \/ CrashInPark
    BY <1>8 DEF Crash, CrashInPark, Forget, Flags
  <1>9. CASE Boot
    BY <1>9 DEF Boot, hold, Flags
  <1> QED
    BY <1>3, <1>4, <1>5, <1>6, <1>7, <1>8, <1>9
       DEF Next, Admit, Start, SpawnOk, SpawnFails, SpawnFallsBack, Wait, TurnFails, TurnEnds,
           ModelReturns, vars, wait, hold

\* A model for a caller, one more found out for its call.
LEMMA ModelsKept ==
    ASSUME Models, NEW n \in Node, NEW m \in Model, NEW F \in SUBSET Model
    PROVE  /\ [model EXCEPT ![n] = m] \in [Node -> Model]
           /\ [found EXCEPT ![n] = F] \in [Node -> SUBSET Model]
  BY DEF Models

LEMMA AvoidIsModel ==
    ASSUME Models, NEW m \in Model
    PROVE  Avoid(m) \in Model
  BY ChainModels DEF Avoid

LEMMA NextModels ==
    ASSUME Models, [Next]_vars
    PROVE  Models'
  <1>0. \A n \in Node : model[n] \in Model /\ found[n] \in SUBSET Model /\ Want[n] \in Model
    BY ModelType DEF Models
  <1>1. ASSUME NEW n \in Node, Admit(n) PROVE Models'
    <2>1. Avoid(Want[n]) \in Model
      BY <1>0, AvoidIsModel
    <2>2. /\ model' = [model EXCEPT ![n] = Avoid(Want[n])] /\ found' = [found EXCEPT ![n] = {}]
          /\ exhausted' = exhausted
      BY <1>1 DEF Admit
    <2> QED
      BY <2>1, <2>2, ModelsKept DEF Models
  <1>2. ASSUME NEW n \in Node, Start(n) PROVE Models'
    <2>1. Avoid(model[n]) \in Model
      BY <1>0, AvoidIsModel
    <2>2. exhausted' = exhausted
      BY <1>2 DEF Start
    <2>3. CASE login \/ wake = "ahead"
      BY <1>2, <2>2, <2>3 DEF Start, call, Models
    <2>4. CASE ~ (login \/ wake = "ahead")
      <3>1. model' = [model EXCEPT ![n] = Avoid(model[n])] /\ found' = found
        BY <1>2, <2>4 DEF Start
      <3> QED
        BY <2>1, <2>2, <3>1, ModelsKept DEF Models
    <2> QED
      BY <2>3, <2>4
  <1>3. ASSUME NEW n \in Node, SpawnFallsBack(n) PROVE Models'
    <2>1. NextFallback(model[n], exhausted) \in Model
      BY <1>0, <1>3, ChainModels DEF SpawnFallsBack
    <2>2. /\ model' = [model EXCEPT ![n] = NextFallback(model[n], exhausted)]
          /\ found' = [found EXCEPT ![n] = @ \cup {model[n]}]
          /\ exhausted' = exhausted \cup {model[n]}
      BY <1>3 DEF SpawnFallsBack
    <2>3. found' = [found EXCEPT ![n] = found[n] \cup {model[n]}] /\ found[n] \cup {model[n]} \in SUBSET Model
      BY <1>0, <2>2 DEF Models
    <2> QED
      BY <1>0, <2>1, <2>2, <2>3, ModelsKept DEF Models
  <1>4. ASSUME NEW n \in Node, NEW kind \in Kinds, SpawnRefused(n, kind) \/ RefusedMidTurn(n, kind)
        PROVE  Models'
    <2>1. UNCHANGED call
      BY <1>4 DEF SpawnRefused, RefusedMidTurn, TurnEnds
    <2>2. exhausted' \subseteq exhausted \cup {model[n]}
      BY <1>4 DEF SpawnRefused, RefusedMidTurn
    <2> QED
      BY <1>0, <2>1, <2>2 DEF call, Models
  <1>5. CASE UNCHANGED call /\ exhausted' \subseteq exhausted
    BY <1>5 DEF call, Models
  <1>6. CASE Crash \/ CrashInPark
    BY <1>6, ModelType DEF Crash, CrashInPark, Forget, Models
  <1> QED
    BY <1>1, <1>2, <1>3, <1>4, <1>5, <1>6
       DEF Next, SpawnOk, SpawnFails, SpawnUnauthenticated, Wait, TurnFails, TurnCompleted, LoginLapsed,
           TurnEnds, ModelReturns, TimePasses, TimerFires, LoggedIn, Boot, vars, call

LEMMA NextPlaces ==
    ASSUME Places, [Next]_vars
    PROVE  Places'
  <1>1. ASSUME NEW n \in Node,
               NEW v \in {"out", "admitting", "spawning", "running", "retry", "sleeping", "asking"},
               pc' = [pc EXCEPT ![n] = v]
        PROVE  Places'
    BY <1>1 DEF Places
  <1>2. ASSUME NEW n \in Node,
               \/ Admit(n) \/ Start(n) \/ SpawnOk(n) \/ SpawnFails(n)
               \/ SpawnUnauthenticated(n) \/ SpawnFallsBack(n) \/ Wait(n)
               \/ TurnFails(n) \/ TurnCompleted(n) \/ LoginLapsed(n)
               \/ \E kind \in Kinds : SpawnRefused(n, kind) \/ RefusedMidTurn(n, kind)
        PROVE  Places'
    <2>1. \E v \in {"out", "admitting", "spawning", "running", "retry", "sleeping", "asking"} :
             pc' = [pc EXCEPT ![n] = v]
      BY <1>2 DEF Admit, Start, SpawnOk, SpawnFails, SpawnUnauthenticated, SpawnFallsBack, Wait,
                  TurnFails, TurnCompleted, LoginLapsed, SpawnRefused, RefusedMidTurn, TurnEnds, Attempt
    <2> QED
      BY <1>1, <2>1
  <1>3. CASE TimerFires \/ LoggedIn \/ Crash \/ CrashInPark
    BY <1>3 DEF TimerFires, LoggedIn, LetGo, Crash, CrashInPark, Forget, Places
  <1>4. CASE UNCHANGED pc
    BY <1>4 DEF Places
  <1> QED
    BY <1>2, <1>3, <1>4 DEF Next, ModelReturns, TimePasses, Boot, vars


----------------------------------------------------------------------------
(* The line and the callers *)

Callers == At({"admitting", "spawning"})
Spawning == At({"spawning"})
Running == At({"running"})

\* Those inside admit stand in the line, those that spawn past the gate, and
\* only a running turn holds a slot besides.
LineInv ==
    /\ line \in Lines /\ LineOK(line, Callers, Cardinality(Running))
    /\ Spawning \subseteq Range(line.gate)
    /\ Full(line, ceiling)
    /\ ~up => line = NoLine /\ \A n \in Node : pc[n] = "out"

SlotInv == Flags /\ Sizes /\ Models /\ Places /\ LineInv

\* Who is granted a slot in a step, and over whom.
Ranked ==
    up' => \A n \in Range(line'.gate) \ Range(line.gate) :
              /\ line'.inFlight <= ceiling \/ line'.inFlight <= ceiling'
              /\ n \in Range(line.slots) =>
                    \A q \in Range(line'.slots) \cap Range(line.slots) : Priority[n] >= Priority[q]

\* The places after one node has moved.
LEMMA OneMoves ==
    ASSUME Places, NEW n \in Node, NEW v, pc' = [pc EXCEPT ![n] = v]
    PROVE  /\ Callers' = IF v \in {"admitting", "spawning"} THEN Callers \cup {n} ELSE Callers \ {n}
           /\ Spawning' = IF v = "spawning" THEN Spawning \cup {n} ELSE Spawning \ {n}
           /\ Running' = IF v = "running" THEN Running \cup {n} ELSE Running \ {n}
  BY DEF Places, Callers, Spawning, Running, At

LEMMA RunningCounts ==
    ASSUME NEW n
    PROVE  /\ Cardinality(Running) \in Nat
           /\ n \in Running => /\ Cardinality(Running \ {n}) \in Nat
                               /\ Cardinality(Running) = Cardinality(Running \ {n}) + 1
           /\ n \notin Running => Cardinality(Running \cup {n}) = Cardinality(Running) + 1
  <1>1. IsFiniteSet(Running) /\ IsFiniteSet(Running \ {n})
    <2>1. Running \in SUBSET Node /\ Running \ {n} \in SUBSET Node
      BY DEF Running, At
    <2> QED
      BY <2>1, NodeFinite, FS_Subset
  <1>2. Cardinality(Running) \in Nat /\ Cardinality(Running \ {n}) \in Nat
    BY <1>1, FS_CardinalityType
  <1>3. /\ Cardinality(Running \ {n}) = IF n \in Running THEN Cardinality(Running) - 1 ELSE Cardinality(Running)
        /\ Cardinality(Running \cup {n}) = IF n \in Running THEN Cardinality(Running) ELSE Cardinality(Running) + 1
    BY <1>1, FS_AddElement, FS_RemoveElement
  <1> QED
    BY <1>2, <1>3

\* The start of an action: who stands where.
LEMMA StandsIn ==
    ASSUME SlotInv, NEW n \in Node
    PROVE  /\ line \in Lines /\ Callers \in SUBSET Node /\ ceiling \in Nat /\ Cardinality(Running) \in Nat
           /\ LineOK(line, Callers, Cardinality(Running)) /\ Full(line, ceiling)
           /\ Spawning \subseteq Range(line.gate) /\ Spawning \subseteq Callers
           /\ pc[n] = "spawning" => n \in Range(line.gate) /\ n \in Spawning
           /\ pc[n] \notin {"admitting", "spawning"} => n \notin Callers /\ n \notin Spawning
           /\ pc[n] = "running" <=> n \in Running
  <1>1. ceiling \in Nat
    BY CeilingType DEF SlotInv, Sizes
  <1>2. Callers \in SUBSET Node /\ Spawning \subseteq Callers
    BY DEF Callers, Spawning, At
  <1>3. /\ pc[n] = "spawning" => n \in Spawning
        /\ pc[n] \notin {"admitting", "spawning"} => n \notin Callers
        /\ pc[n] = "running" <=> n \in Running
    BY DEF Callers, Spawning, Running, At
  <1> QED
    BY <1>1, <1>2, <1>3, RunningCounts DEF SlotInv, LineInv

\* Nobody enters or leaves admit or the line.
LEMMA LineAside ==
    ASSUME SlotInv, line' = line, Callers' = Callers, Spawning' = Spawning, Running' = Running,
           ceiling' = ceiling, up, up' = up
    PROVE  LineInv' /\ Ranked
  <1>1. Ranked
    BY DEF Ranked
  <1>2. LineInv'
    BY DEF SlotInv, LineInv, Full
  <1> QED
    BY <1>1, <1>2

\* Whom #pump grants a slot ranks before all it leaves.
LEMMA PumpRanks ==
    ASSUME NEW l, Range(l.gate) \subseteq Range(line.gate),
           Served(l, line', ceiling) \/ Served(l, line', ceiling')
    PROVE  Ranked
  BY DEF Served, Ranked

LEMMA AdmitLine ==
    ASSUME SlotInv, NEW n \in Node, Admit(n) PROVE LineInv' /\ Ranked
  <1>1. /\ up /\ up' = up /\ ceiling' = ceiling /\ pc[n] = "out" /\ Places
        /\ n \notin Callers /\ n \notin Spawning /\ n \notin Running
    BY StandsIn DEF Admit, aimd, SlotInv
  <1>2. CASE line' = line /\ \E v \in {"asking", "retry"} : pc' = [pc EXCEPT ![n] = v]
    <2>1. PICK v \in {"asking", "retry"} : pc' = [pc EXCEPT ![n] = v]
      BY <1>2
    <2>2. /\ Callers' = Callers \ {n} /\ Spawning' = Spawning \ {n} /\ Running' = Running \ {n}
      BY <1>1, <2>1, OneMoves
    <2>3. Callers' = Callers /\ Spawning' = Spawning /\ Running' = Running
      BY <1>1, <2>2
    <2> QED
      BY <1>1, <1>2, <2>3, LineAside
  <1>3. CASE line' = Acquire(n, line) /\ pc' = [pc EXCEPT ![n] = "admitting"]
    <2>1. Callers' = Callers \cup {n} /\ Spawning' = Spawning /\ Running' = Running
      <3>1. PICK v \in {"admitting"} : pc' = [pc EXCEPT ![n] = v]
        BY <1>3
      <3>2. /\ Callers' = Callers \cup {n} /\ Spawning' = Spawning \ {n} /\ Running' = Running \ {n}
        BY <1>1, <3>1, OneMoves
      <3> QED
        BY <1>1, <3>2
    <2>2. /\ line \in Lines /\ n \in Node \ Callers /\ ceiling \in Nat /\ Cardinality(Running) \in Nat
          /\ LineOK(line, Callers, Cardinality(Running)) /\ Full(line, ceiling)
          /\ Spawning \subseteq Range(line.gate)
      BY <1>1, StandsIn
    <2>3. /\ line' \in Lines /\ LineOK(line', Callers \cup {n}, Cardinality(Running))
          /\ Full(line', ceiling) /\ Range(line.gate) \subseteq Range(line'.gate)
          /\ Range(line'.gate) \subseteq Range(line.gate) \cup {n}
          /\ line'.inFlight <= ceiling \/ line'.inFlight = line.inFlight
      BY <1>3, <2>2, TakesPlace
    <2>4. line'.inFlight = line.inFlight => Range(line'.gate) = Range(line.gate)
      <3>1. Acquire(n, line).inFlight = line.inFlight => Acquire(n, line).gate = line.gate
        BY <2>2 DEF Acquire, Lines
      <3> QED
        BY <1>3, <3>1
    <2>5. n \notin Range(line.slots)
      BY <1>1, <2>2 DEF LineOK
    <2>6. Ranked
      BY <2>3, <2>4, <2>5 DEF Ranked
    <2>7. LineInv'
      BY <1>1, <2>1, <2>2, <2>3 DEF LineInv
    <2> QED
      BY <2>6, <2>7
  <1> QED
    BY <1>2, <1>3 DEF Admit, Attempt

\* A caller gives back its place in the gate and its slot, and leaves admit.
LEMMA LeaveLine ==
    ASSUME SlotInv, NEW n \in Range(line.gate), up, up' = up, line' = GivenBack(n, ceiling),
           NEW v \in {"out", "asking", "retry"}, pc' = [pc EXCEPT ![n] = v],
           ceiling' \in Nat, ceiling' <= ceiling
    PROVE  LineInv' /\ Ranked
  <1> DEFINE A == Callers
             k == Cardinality(Running)
             o == Opened(n, line)
  <1>0. n \in Node /\ n \in Callers /\ Places
    BY CountOfSeq DEF SlotInv, LineInv, LineOK, Lines
  <1>1. /\ line \in Lines /\ A \in SUBSET Node /\ ceiling \in Nat /\ k \in Nat
        /\ LineOK(line, A, k) /\ Spawning \subseteq Range(line.gate) /\ n \notin Running
    <2>1. n \notin Running
      BY <1>0 DEF Callers, Running, At
    <2> QED
      BY <1>0, <2>1, StandsIn
  <1>2. Callers' = A \ {n} /\ Spawning' = Spawning \ {n} /\ Running' = Running
    <2>1. Callers' = Callers \ {n} /\ Spawning' = Spawning \ {n} /\ Running' = Running \ {n}
      BY <1>0, OneMoves
    <2> QED
      BY <1>1, <2>1
  <1> HIDE DEF A, k
  <1>3. /\ line' \in Lines /\ LineOK(line', A \ {n}, k) /\ Full(line', ceiling) /\ Served(o, line', ceiling)
    BY <1>1, GivesBack
  <1>4. Range(o.gate) = Range(line.gate) \ {n}
    BY <1>1, OpensGate
  <1> HIDE DEF o
  <1>5. Ranked
    BY <1>3, <1>4, PumpRanks
  <1>6. Spawning' \subseteq Range(line'.gate)
    BY <1>1, <1>2, <1>3, <1>4 DEF Served
  <1>7. Full(line', ceiling')
    BY <1>1, <1>3 DEF Full, Lines
  <1>8. LineInv'
    BY <1>2, <1>3, <1>6, <1>7 DEF LineInv, k
  <1> QED
    BY <1>5, <1>8


LEMMA StartLine ==
    ASSUME SlotInv, NEW n \in Node, Start(n) PROVE LineInv' /\ Ranked
  <1>1. /\ up /\ up' = up /\ ceiling' = ceiling /\ ceiling \in Nat /\ Places
        /\ pc[n] = "admitting" /\ n \in Range(line.gate)
    BY StandsIn DEF Start, AtGate, aimd, SlotInv
  <1>2. CASE login \/ wake = "ahead"
    <2>1. /\ \E v \in {"out", "asking", "retry"} : pc' = [pc EXCEPT ![n] = v]
          /\ line' = GivenBack(n, ceiling)
      BY <1>2 DEF Start
    <2>2. ceiling' \in Nat /\ ceiling' <= ceiling
      BY <1>1
    <2> QED
      BY <1>1, <2>1, <2>2, LeaveLine
  <1>3. CASE ~ (login \/ wake = "ahead")
    <2>1. PICK v \in {"spawning"} : pc' = [pc EXCEPT ![n] = v]
      BY <1>3 DEF Start
    <2>2. line' = line
      BY <1>3 DEF Start
    <2>3. Callers' = Callers \cup {n} /\ Spawning' = Spawning \cup {n} /\ Running' = Running \ {n}
      BY <1>1, <2>1, OneMoves
    <2>4. n \in Callers /\ n \notin Running
      BY <1>1 DEF Callers, Running, At
    <2>5. Callers' = Callers /\ Running' = Running
      BY <2>3, <2>4
    <2>6. Ranked
      BY <2>2 DEF Ranked
    <2>7. LineInv'
      BY <1>1, <2>2, <2>3, <2>5 DEF SlotInv, LineInv, Full
    <2> QED
      BY <2>6, <2>7
  <1> QED
    BY <1>2, <1>3

LEMMA SpawnOkLine ==
    ASSUME SlotInv, NEW n \in Node, SpawnOk(n) PROVE LineInv' /\ Ranked
  <1> DEFINE A == Callers
             k == Cardinality(Running)
             o == Opened(n, line)
  <1>1. /\ up /\ up' = up /\ pc[n] = "spawning" /\ Places /\ OnClean(o)
        /\ \E v \in {"running"} : pc' = [pc EXCEPT ![n] = v]
    BY DEF SpawnOk, SlotInv
  <1>2. /\ line \in Lines /\ A \in SUBSET Node /\ ceiling \in Nat /\ k \in Nat /\ LineOK(line, A, k)
        /\ Full(line, ceiling) /\ Spawning \subseteq Range(line.gate) /\ n \in Range(line.gate)
    BY <1>1, StandsIn
  <1>3. n \notin Running
    BY <1>1 DEF Running, At
  <1>4. Callers' = A \ {n} /\ Spawning' = Spawning \ {n} /\ Running' = Running \cup {n}
    BY <1>1, OneMoves
  <1>5. Cardinality(Running') = k + 1
    BY <1>3, <1>4, RunningCounts
  <1> HIDE DEF A, k
  <1>6. /\ o \in Lines /\ LineOK(o, A \ {n}, k + 1) /\ o.inFlight = line.inFlight
        /\ o.slots = line.slots /\ Range(o.gate) = Range(line.gate) \ {n}
    BY <1>2, OpensGate
  <1> HIDE DEF o
  <1>7. Sizes' /\ ceiling' \in Nat
    BY <1>1, CleanSizes, CeilingType DEF SlotInv, Sizes
  <1>8. CASE clean + 1 < IncreaseAfter
    <2>1. line' = o /\ ceiling' = ceiling
      BY <1>1, <1>8 DEF OnClean
    <2>2. Ranked
      BY <1>6, <2>1 DEF Ranked
    <2>3. Full(line', ceiling')
      BY <1>2, <1>6, <2>1 DEF Full
    <2>4. LineInv'
      BY <1>1, <1>2, <1>4, <1>5, <1>6, <2>1, <2>3 DEF LineInv
    <2> QED
      BY <2>2, <2>4
  <1>9. CASE ~ (clean + 1 < IncreaseAfter)
    <2>1. line' = Pump(o, ceiling')
      BY <1>1, <1>9 DEF OnClean
    <2>2. A \ {n} \in SUBSET Node /\ k + 1 \in Nat
      BY <1>2
    <2>3. /\ line' \in Lines /\ LineOK(line', A \ {n}, k + 1) /\ Served(o, line', ceiling')
          /\ Full(line', ceiling')
      BY <1>6, <1>7, <2>1, <2>2, PumpServes
    <2>4. Ranked
      BY <1>6, <2>3, PumpRanks
    <2>5. Spawning' \subseteq Range(line'.gate)
      BY <1>2, <1>4, <1>6, <2>3 DEF Served
    <2>6. LineInv'
      BY <1>1, <1>4, <1>5, <2>3, <2>5 DEF LineInv
    <2> QED
      BY <2>4, <2>6
  <1> QED
    BY <1>8, <1>9

\* A session that will not start leaves its place, whatever else it does.
LEMMA SpawnEndsLine ==
    ASSUME SlotInv, NEW n \in Node,
           \/ SpawnFails(n) \/ SpawnUnauthenticated(n)
           \/ \E kind \in Kinds : SpawnRefused(n, kind)
    PROVE  LineInv' /\ Ranked
  <1>1. /\ up /\ up' = up /\ pc[n] = "spawning" /\ line' = GivenBack(n, ceiling)
        /\ \E v \in {"out", "asking", "retry"} : pc' = [pc EXCEPT ![n] = v]
    BY DEF SpawnFails, SpawnUnauthenticated, SpawnRefused
  <1>2. n \in Range(line.gate) /\ ceiling \in Nat
    BY <1>1, StandsIn
  <1>3. ceiling' \in Nat /\ ceiling' <= ceiling
    <2>1. CASE UNCHANGED aimd
      BY <1>2, <2>1 DEF aimd
    <2>2. CASE \E kind \in Kinds : Park(kind)
      <3>1. Sizes' /\ ceiling' <= ceiling
        BY <2>2, ShrinksSizes DEF SlotInv
      <3> QED
        BY <3>1, CeilingType DEF Sizes
    <2> QED
      BY <2>1, <2>2 DEF SpawnFails, SpawnUnauthenticated, SpawnRefused
  <1> QED
    BY <1>1, <1>2, <1>3, LeaveLine

\* A call that falls back gives its place up and stands at the end again.
LEMMA FallsBackLine ==
    ASSUME SlotInv, NEW n \in Node, SpawnFallsBack(n) PROVE LineInv' /\ Ranked
  <1> DEFINE A == Callers
             k == Cardinality(Running)
             o == Opened(n, line)
             g == GivenBack(n, ceiling)
  <1>1. /\ up /\ up' = up /\ pc[n] = "spawning" /\ Places /\ ceiling' = ceiling /\ Attempt(n, g)
    BY DEF SpawnFallsBack, aimd, SlotInv
  <1>2. /\ line \in Lines /\ A \in SUBSET Node /\ ceiling \in Nat /\ k \in Nat /\ LineOK(line, A, k)
        /\ Spawning \subseteq Range(line.gate) /\ n \in Range(line.gate)
    BY <1>1, StandsIn
  <1>3. n \notin Running /\ n \in Callers
    BY <1>1 DEF Running, Callers, At
  <1>4. CASE line' = g /\ \E v \in {"asking", "retry"} : pc' = [pc EXCEPT ![n] = v]
    <2>1. \E v \in {"out", "asking", "retry"} : pc' = [pc EXCEPT ![n] = v]
      BY <1>4
    <2>2. ceiling' \in Nat /\ ceiling' <= ceiling
      BY <1>1, <1>2
    <2> QED
      BY <1>1, <1>2, <1>4, <2>1, <2>2, LeaveLine
  <1>5. CASE line' = Acquire(n, g) /\ pc' = [pc EXCEPT ![n] = "admitting"]
    <2>1. PICK v \in {"admitting"} : pc' = [pc EXCEPT ![n] = v]
      BY <1>5
    <2>2. Callers' = Callers \cup {n} /\ Spawning' = Spawning \ {n} /\ Running' = Running \ {n}
      BY <1>1, <2>1, OneMoves
    <2>3. Callers' = A /\ Running' = Running
      BY <1>3, <2>2
    <2>4. Range(o.gate) = Range(line.gate) \ {n}
      BY <1>2, OpensGate
    <2>5. A \ {n} \in SUBSET Node /\ (A \ {n}) \cup {n} = A /\ n \in Node \ (A \ {n})
      BY <1>2, <1>3
    <2> HIDE DEF A, k, o
    <2>6. g \in Lines /\ LineOK(g, A \ {n}, k) /\ Full(g, ceiling) /\ Served(o, g, ceiling)
      BY <1>2, GivesBack DEF o
    <2> HIDE DEF g
    <2>7. /\ line' \in Lines /\ LineOK(line', A, k) /\ Full(line', ceiling)
          /\ Range(g.gate) \subseteq Range(line'.gate) /\ Range(line'.gate) \subseteq Range(g.gate) \cup {n}
          /\ Range(line'.slots) \subseteq Range(g.slots) \cup {n}
          /\ line'.inFlight <= ceiling \/ line'.inFlight = g.inFlight
      <3> DEFINE B == A \ {n}
      <3> HIDE DEF B
      <3>1. g \in Lines /\ LineOK(g, B, k) /\ Full(g, ceiling) /\ n \in Node \ B /\ B \cup {n} = A
        BY <2>5, <2>6 DEF B
      <3>2. /\ Acquire(n, g) \in Lines /\ LineOK(Acquire(n, g), B \cup {n}, k)
            /\ Full(Acquire(n, g), ceiling)
            /\ Range(g.gate) \subseteq Range(Acquire(n, g).gate)
            /\ Range(Acquire(n, g).gate) \subseteq Range(g.gate) \cup {n}
            /\ Range(Acquire(n, g).slots) \subseteq Range(g.slots) \cup {n}
            /\ Acquire(n, g).inFlight <= ceiling \/ Acquire(n, g).inFlight = g.inFlight
        BY <1>2, <3>1, TakesPlace
      <3> QED
        BY <1>5, <3>1, <3>2
    <2>8. ASSUME NEW m \in Range(line'.gate) \ Range(line.gate)
          PROVE  /\ line'.inFlight <= ceiling
                 /\ \A q \in Range(line'.slots) \cap Range(line.slots) : Priority[m] >= Priority[q]
      <3>1. m \in Range(g.gate) \ Range(o.gate)
        BY <1>2, <2>4, <2>7
      <3>2. g.inFlight <= ceiling /\ \A q \in Range(g.slots) : Priority[m] >= Priority[q]
        BY <2>6, <3>1 DEF Served
      <3>3. n \notin Range(line.slots)
        BY <1>2 DEF LineOK
      <3> QED
        BY <2>7, <3>2, <3>3
    <2>9. Ranked
      BY <2>8 DEF Ranked
    <2>10. Spawning' \subseteq Range(line'.gate)
      BY <1>2, <2>2, <2>4, <2>6, <2>7 DEF Served
    <2>11. LineInv'
      BY <1>1, <2>3, <2>7, <2>10 DEF LineInv, k
    <2> QED
      BY <2>9, <2>11
  <1> QED
    BY <1>1, <1>4, <1>5 DEF Attempt

LEMMA TurnLine ==
    ASSUME SlotInv, NEW n \in Node, NEW next \in {"out", "retry"}, TurnEnds(n, next),
           ceiling' \in Nat, ceiling' <= ceiling
    PROVE  LineInv' /\ Ranked
  <1> DEFINE k == Cardinality(Running \ {n})
  <1>1. /\ up /\ up' = up /\ pc[n] = "running" /\ Places /\ pc' = [pc EXCEPT ![n] = next]
        /\ line' = Pump([line EXCEPT !.inFlight = @ - 1], ceiling)
    BY DEF TurnEnds, Released, SlotInv
  <1>2. /\ line \in Lines /\ Callers \in SUBSET Node /\ ceiling \in Nat
        /\ LineOK(line, Callers, Cardinality(Running)) /\ Spawning \subseteq Range(line.gate)
        /\ n \notin Callers /\ n \notin Spawning /\ n \in Running
    BY <1>1, StandsIn
  <1>3. k \in Nat /\ Cardinality(Running) = k + 1
    BY <1>2, RunningCounts
  <1>4. Callers' = Callers /\ Spawning' = Spawning /\ Running' = Running \ {n}
    <2>1. Callers' = Callers \ {n} /\ Spawning' = Spawning \ {n} /\ Running' = Running \ {n}
      BY <1>1, OneMoves
    <2> QED
      BY <1>2, <2>1
  <1> HIDE DEF k
  <1>5. /\ line' \in Lines /\ LineOK(line', Callers, k) /\ Served(line, line', ceiling)
        /\ Full(line', ceiling)
    <2>1. LineOK(line, Callers, k + 1)
      BY <1>2, <1>3
    <2>2. LET m == Pump([line EXCEPT !.inFlight = @ - 1], ceiling) IN
          m \in Lines /\ LineOK(m, Callers, k) /\ Served(line, m, ceiling) /\ Full(m, ceiling)
      BY <1>2, <1>3, <2>1, GivesSlot
    <2> QED
      BY <1>1, <2>2
  <1>6. Ranked
    BY <1>5, PumpRanks
  <1>7. Full(line', ceiling')
    BY <1>2, <1>5 DEF Full, Lines
  <1>8. Spawning' \subseteq Range(line'.gate)
    BY <1>2, <1>4, <1>5 DEF Served
  <1>9. LineInv'
    BY <1>1, <1>4, <1>5, <1>7, <1>8 DEF LineInv, k
  <1> QED
    BY <1>6, <1>9


\* Time, waits, logins and models move nobody in the line.
LEMMA StillLine ==
    ASSUME SlotInv,
           \/ \E n \in Node : Wait(n)
           \/ \E m \in Model : ModelReturns(m)
           \/ TimerFires \/ LoggedIn
    PROVE  LineInv' /\ Ranked
  <1>1. up /\ up' = up /\ line' = line /\ ceiling' = ceiling
    BY DEF Wait, ModelReturns, TimerFires, LoggedIn, aimd
  <1>2. ASSUME NEW n \in Node
        PROVE  pc'[n] = pc[n] \/ {pc[n], pc'[n]} \subseteq {"out", "retry", "sleeping", "asking"}
    BY DEF SlotInv, Places, Wait, ModelReturns, TimerFires, LoggedIn, LetGo
  <1>3. Callers' = Callers /\ Spawning' = Spawning /\ Running' = Running
    BY <1>2 DEF Callers, Spawning, Running, At
  <1> QED
    BY <1>1, <1>3, LineAside

LEMMA ClockLine ==
    ASSUME SlotInv, TimePasses \/ UNCHANGED vars PROVE LineInv' /\ Ranked
  <1>1. up' = up /\ line' = line /\ ceiling' = ceiling /\ pc' = pc
    BY DEF TimePasses, vars, aimd
  <1>2. Callers' = Callers /\ Spawning' = Spawning /\ Running' = Running
    BY <1>1 DEF Callers, Spawning, Running, At
  <1>3. Ranked
    BY <1>1 DEF Ranked
  <1>4. LineInv'
    BY <1>1, <1>2 DEF SlotInv, LineInv, Full
  <1> QED
    BY <1>3, <1>4

LEMMA EmptyLine ==
    /\ NoLine \in Lines /\ LineOK(NoLine, {}, 0)
    /\ NoLine.slots = <<>> /\ Range(NoLine.gate) = {}
  <1>1. /\ NoLine.inFlight = 0 /\ NoLine.slots = <<>> /\ NoLine.gate = <<>> /\ <<>> \in Seq(Node)
        /\ Len(<<>>) = 0
    BY EmptySeq DEF NoLine
  <1>2. OneToOne(<<>>) /\ Range(<<>>) = {}
    BY DEF OneToOne, Range
  <1>3. NoLine \in Lines
    BY <1>1 DEF Lines, NoLine
  <1>4. LineOK(NoLine, {}, 0)
    BY <1>1, <1>2 DEF LineOK
  <1> QED
    BY <1>1, <1>2, <1>3, <1>4

LEMMA RestartLine ==
    ASSUME SlotInv, Crash \/ CrashInPark \/ Boot PROVE LineInv' /\ Ranked
  <1>1. line' = NoLine /\ \A n \in Node : pc'[n] = "out"
    <2>1. CASE Crash \/ CrashInPark
      BY <2>1 DEF Crash, CrashInPark, Forget
    <2>2. CASE Boot
      BY <2>2 DEF Boot, SlotInv, LineInv
    <2> QED
      BY <2>1, <2>2
  <1>2. Range(line'.gate) = {}
    BY <1>1, EmptyLine
  <1>3. Ranked
    BY <1>2 DEF Ranked
  <1>4. Callers' = {} /\ Spawning' = {} /\ Running' = {} /\ Cardinality({}) = 0
    BY <1>1, FS_EmptySet DEF Callers, Spawning, Running, At
  <1>5. LineInv'
    BY <1>1, <1>4, EmptyLine DEF LineInv, Full
  <1> QED
    BY <1>3, <1>5

LEMMA NextLine ==
    ASSUME SlotInv, [Next]_vars PROVE LineInv' /\ Ranked
  <1>1. ASSUME NEW n \in Node,
               TurnFails(n) \/ TurnCompleted(n) \/ LoginLapsed(n)
               \/ \E kind \in Kinds : RefusedMidTurn(n, kind)
        PROVE  LineInv' /\ Ranked
    <2>1. \E next \in {"out", "retry"} : TurnEnds(n, next)
      BY <1>1 DEF TurnFails, TurnCompleted, LoginLapsed, RefusedMidTurn
    <2>2. ceiling' \in Nat /\ ceiling' <= ceiling
      <3>1. CASE UNCHANGED aimd
        BY <3>1, CeilingType DEF aimd, SlotInv, Sizes
      <3>2. CASE \E kind \in Kinds : Park(kind)
        <4>1. Sizes' /\ ceiling' <= ceiling
          BY <3>2, ShrinksSizes DEF SlotInv
        <4> QED
          BY <4>1, CeilingType DEF Sizes
      <3> QED
        BY <1>1, <3>1, <3>2 DEF TurnFails, TurnCompleted, LoginLapsed, RefusedMidTurn
    <2> QED
      BY <2>1, <2>2, TurnLine
  <1>2. ASSUME NEW n \in Node,
               \/ SpawnFails(n) \/ SpawnUnauthenticated(n)
               \/ \E kind \in Kinds : SpawnRefused(n, kind)
        PROVE  LineInv' /\ Ranked
    BY <1>2, SpawnEndsLine
  <1>3. ASSUME NEW n \in Node, Admit(n) \/ Start(n) \/ SpawnOk(n) \/ SpawnFallsBack(n)
        PROVE  LineInv' /\ Ranked
    BY <1>3, AdmitLine, StartLine, SpawnOkLine, FallsBackLine
  <1> QED
    BY <1>1, <1>2, <1>3, StillLine, ClockLine, RestartLine DEF Next

LEMMA NextSlots ==
    ASSUME SlotInv, [Next]_vars PROVE SlotInv' /\ Ranked
  <1>1. Flags' /\ Sizes' /\ Models' /\ Places'
    BY NextFlags, NextSizes, NextModels, NextPlaces DEF SlotInv
  <1> QED
    BY <1>1, NextLine DEF SlotInv

LEMMA SlotsAtFirst ==
    ASSUME Init PROVE SlotInv
  <1>1. Flags
    <2>1. up \in BOOLEAN /\ notified \in BOOLEAN /\ login \in BOOLEAN /\ notices \in 0 .. 2
      <3>1. up \in BOOLEAN /\ notified \in BOOLEAN /\ login \in BOOLEAN
        BY Zenon DEF Init
      <3>2. notices = 0
        BY DEF Init
      <3> QED
        BY <3>1, <3>2
    <2>2. wake = "none" /\ waitRow = "none" /\ outage = "none" /\ open = "no"
      BY DEF Init
    <2> QED
      BY <2>1, <2>2, Zenon DEF Flags
  <1>4. Models /\ Places
    BY ModelType DEF Init, Models, Places
  <1>2. Sizes
    BY CeilingType DEF Init, Sizes
  <1>3. LineInv
    <2>1. Callers = {} /\ Spawning = {} /\ Running = {} /\ Cardinality({}) = 0
      BY FS_EmptySet DEF Init, Callers, Spawning, Running, At
    <2>2. up /\ line = NoLine
      BY DEF Init
    <2> QED
      BY <2>1, <2>2, EmptyLine DEF LineInv, Full
  <1> QED
    BY <1>1, <1>2, <1>3, <1>4 DEF SlotInv

\* Two sets apart count together.
LEMMA Apart ==
    ASSUME NEW S, NEW T, IsFiniteSet(S), IsFiniteSet(T), S \cap T = {}
    PROVE  Cardinality(S \cup T) = Cardinality(T) + Cardinality(S)
  <1>1. Cardinality(S \cup T) = Cardinality(S) + Cardinality(T) - Cardinality(S \cap T)
    BY FS_Union
  <1>2. Cardinality(S \cap T) = 0 /\ Cardinality(S) \in Nat /\ Cardinality(T) \in Nat
    BY FS_EmptySet, FS_CardinalityType
  <1> QED
    BY <1>1, <1>2

LEMMA SlotsCount ==
    ASSUME SlotInv PROVE SlotsAccounted
  <1>1. /\ line \in Lines /\ LineOK(line, Callers, Cardinality(Running)) /\ Full(line, ceiling)
    BY DEF SlotInv, LineInv
  <1>2. /\ line.slots \in Seq(Node) /\ line.gate \in Seq(Node)
        /\ OneToOne(line.slots) /\ OneToOne(line.gate)
        /\ Range(line.slots) \cap Range(line.gate) = {} /\ Range(line.slots) \cup Range(line.gate) = Callers
    BY <1>1 DEF Lines, LineOK
  <1> DEFINE S == Range(line.slots)
             G == Range(line.gate)
  <1>3. /\ IsFiniteSet(S) /\ Cardinality(S) = Len(line.slots)
        /\ IsFiniteSet(G) /\ Cardinality(G) = Len(line.gate)
        /\ Len(line.slots) \in Nat /\ Len(line.gate) \in Nat
    BY <1>2, CountOfSeq, LenProperties
  <1>4. line.inFlight = Len(line.gate) + Cardinality(Running)
    BY <1>1 DEF LineOK
  <1>5. Running \subseteq Node /\ G \subseteq Node /\ G \cap Running = {} /\ IsFiniteSet(Running)
    <2>1. Running \subseteq Node /\ Callers \subseteq Node /\ Callers \cap Running = {}
      BY DEF Callers, Running, At
    <2> QED
      BY <1>2, <2>1, NodeFinite, FS_Subset
  <1> HIDE DEF S, G
  <1>6. Cardinality(Callers) = Len(line.gate) + Len(line.slots)
    <2>1. S \cap G = {} /\ S \cup G = Callers
      BY <1>2 DEF S, G
    <2> QED
      BY <1>3, <2>1, Apart
  <1>7. line.inFlight \in 0 .. Cardinality(Node)
    <2>1. Cardinality(G \cup Running) = Cardinality(Running) + Cardinality(G)
      BY <1>3, <1>5, Apart
    <2>2. Cardinality(G \cup Running) <= Cardinality(Node)
      BY <1>5, NodeFinite, FS_Subset
    <2>3. Cardinality(Running) \in Nat /\ Cardinality(Node) \in Nat
      BY <1>5, NodeFinite, FS_CardinalityType
    <2> QED
      BY <1>3, <1>4, <2>1, <2>2, <2>3
  <1>8. TypeOK
    BY <1>2, <1>7 DEF SlotInv, Flags, Sizes, Models, Places, TypeOK
  <1> QED
    BY <1>1, <1>2, <1>4, <1>6, <1>8 DEF SlotsAccounted, Full, Callers, Running

\* On every path out of `admit` and every end of a turn, whatever is refused,
\* falls back or crashes: the slots that are out are held by live calls and
\* turns, every caller inside stands in the line once, and nobody waits while
\* the ceiling, halved or grown, leaves room (#acquireSlot, #releaseSlot, #pump
\* and #startGate).
THEOREM SlotsAreHeld ==
    Spec => []SlotsAccounted
  <1> USE DEF Spec
  <1> QED
    BY SlotsAtFirst, NextSlots, SlotsCount, PTL

\* Whoever #pump grants a slot ranks before all it leaves in the queue, and it
\* grants none above the ceiling, on whichever path it runs.
THEOREM RankDecides ==
    Spec => CriticalPathFirst
  <1>1. SlotInv /\ [Next]_vars => [Ranked]_vars
    BY NextSlots
  <1> QED
    BY <1>1, SlotsAtFirst, NextSlots, PTL DEF Spec, CriticalPathFirst, Ranked
=============================================================================
