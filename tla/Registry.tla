------------------------------ MODULE Registry ------------------------------
(***************************************************************************)
(* What the routing of a question shares with the team registry (teams.py): *)
(* extract_teams looks clubs up in it, and route_and_plan resolves the      *)
(* names that a caller passes.                                             *)
(***************************************************************************)

CONSTANTS
    Clubs,      \* canonical ids of the registry
    None        \* no club, no intent, no answer yet
=============================================================================
