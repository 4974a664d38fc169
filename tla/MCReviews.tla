----------------------------- MODULE MCReviews ------------------------------
(***************************************************************************)
(* Instance of Reviews for TLC: two claims that contradict each other, and *)
(* audits of different parts.                                              *)
(***************************************************************************)
EXTENDS Reviews

CONSTANTS v1, v2

MCConflicting == {{v1, v2}}
MCPlans == {{"conflicts"}, {"conflicts", "outdated"}, {"outdated", "escalation"}}
=============================================================================
