---------------------------- MODULE AtomicLeases ----------------------------
(***************************************************************************)
(* What the resource pools promise whoever uses them, with no walk, aging,   *)
(* poll, token or timer in sight (the head of                               *)
(* packages/vinta-ai-maestro/src/resources/pools.ts, and of                 *)
(* agent-leases.ts for a command that waits in instalments).                *)
(*                                                                          *)
(* A holder asks for a set of pools and gets all of them in one step or     *)
(* waits; it leaves by giving its lease back or giving up.  Nobody takes a   *)
(* slot there is not, a place in the queue is kept, and it is not lost to a  *)
(* later request that wants the same pools.                                  *)
(*                                                                          *)
(* ResourcePools, AgentLeases, AgentGates and, as one run sees it, HostSlots *)
(* are each shown to implement it.                                          *)
(***************************************************************************)
EXTENDS Integers, FiniteSets

CONSTANTS
    Pool, Holder,
    NeedSets,       \* the sets of pools a holder may ask for
    Growing,        \* pools that may get more slots
    Shared          \* pools whose slots others take too, unseen

VARIABLES
    limit,      \* pool -> slots there are for these holders
    need,       \* holder -> the pools it last asked for
    waiting, ahead,   \* the queue: who is in it, and in front of whom
    has         \* holders with a lease

vars == <<limit, need, waiting, ahead, has>>

\* The leases of S, with needs n, within the limits l.
Within(S, n, l) == \A p \in Pool : Cardinality({h \in S : p \in n[h]}) <= l[p]

Init ==
    /\ limit \in [Pool -> Nat]
    /\ need \in [Holder -> SUBSET Pool]
    /\ waiting = {} /\ has = {}
    /\ ahead = [h \in Holder |-> {}]

Full(p) == Cardinality({h \in has : p \in need[h]}) >= limit[p]

\* The first in the queue waits for a pool that is full.  (A slot others share
\* may be free again by the time anybody looks.)
FrontIsServed ==
    \A h \in waiting : ahead[h] = {} /\ need[h] \cap Shared = {} => \E p \in need[h] : Full(p)

\* Some of the queue w is granted on top of the leases of S: within the limits,
\* and past nobody whose every need the later request has.
Settle(w, ah, n, S, l) ==
    /\ \E G \in SUBSET w :
          /\ Within(S \cup G, n, l)
          /\ \A k \in G : \A h \in ah[k] \ G : n[h] \cap Shared # {} \/ ~(n[h] \subseteq n[k])
          /\ waiting' = w \ G
          /\ ahead' = [h \in Holder |-> IF h \in w \ G THEN ah[h] \ G ELSE {}]
          /\ has' = S \cup G
    /\ need' = n /\ limit' = l
    /\ FrontIsServed'

\* The queue without W.
Without(W) == [h \in Holder |-> IF h \in W THEN {} ELSE ahead[h] \ W]

Ask(h, n) ==
    /\ h \notin waiting \cup has
    /\ Settle(waiting \cup {h}, [ahead EXCEPT ![h] = waiting], [need EXCEPT ![h] = n], has, limit)

\* R give their leases back; what W waits for is called off with it.
Return(R, W) ==
    /\ R # {}
    /\ Settle(waiting \ W, Without(W), need, has \ R, limit)

\* Nobody is served by it.
GiveUp(W) ==
    /\ waiting' = waiting \ W /\ ahead' = Without(W)
    /\ UNCHANGED <<limit, need, has>>

Raise(p) == Settle(waiting, ahead, need, has, [limit EXCEPT ![p] = @ + 1])

\* The queue is looked at again.
Look == Settle(waiting, ahead, need, has, limit)

\* Others take a slot that is free, or give one back.
Others(p) ==
    /\ limit'[p] \in Nat
    /\ limit' = [limit EXCEPT ![p] = limit'[p]]
    /\ Within(has, need, limit')
    /\ UNCHANGED <<need, waiting, ahead, has>>

Next ==
    \/ \E h \in Holder, n \in NeedSets : Ask(h, n)
    \/ \E R \in SUBSET has, W \in SUBSET waiting : Return(R, W)
    \/ \E W \in SUBSET waiting : GiveUp(W)
    \/ \E p \in Growing : Raise(p)
    \/ Look
    \/ \E p \in Shared : Others(p)

Spec == Init /\ [][Next]_vars
=============================================================================
