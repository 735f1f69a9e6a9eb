---------------------------- MODULE MCAdmission ----------------------------
(* Instances of Admission for TLC. *)
EXTENDS Admission, TLC

CONSTANTS a, b, c, big, small

\* One node on the critical path; the others are leaves.
Heights == [n \in Node |-> IF n = b THEN 2 ELSE 1]

\* One node asks for the small model; big falls back to small.
Wants == [n \in Node |-> IF n = c THEN small ELSE big]
Chained == (big :> small) @@ (small :> NoModel)
=============================================================================
