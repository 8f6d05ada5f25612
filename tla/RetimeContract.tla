---------------------------- MODULE RetimeContract ----------------------------
(***************************************************************************)
(* What a retime search promises its callers (route_retime_search.hpp,     *)
(* LocalPlanner._search_retime_whole_route): it answers with a dilation    *)
(* that is feasible, and gives up only when no dilation of its grid is.    *)
(* RetimeSearch is the search; RouteCascade relies on nothing else of it.  *)
(***************************************************************************)
RetimeOutcomes(feasible, grid, none) ==
  feasible \cup (IF grid \cap feasible = {} THEN {none} ELSE {})
=============================================================================
