---------------------------- MODULE MCHostSlots ----------------------------
(* Instances of HostSlots for TLC. *)
EXTENDS HostSlots, TLC

CONSTANTS a, b, c

\* Two runs that declare one slot and one that declares two.
MixedCapacity == (a :> 1) @@ (b :> 2) @@ (c :> 1)
SingleSlot == [p \in Proc |-> 1]
=============================================================================
