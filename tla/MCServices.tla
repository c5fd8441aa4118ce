----------------------------- MODULE MCServices -----------------------------
(***************************************************************************)
(* Model-checking instance of Services: "crossing" has one pair of which a *)
(* new task may start before the old one has ended, "halting" two pairs    *)
(* with a task each.                                                       *)
(***************************************************************************)
EXTENDS Services, TLC

Symmetry ==
  Permutations(Processes) \cup Permutations(Pids)

=============================================================================
