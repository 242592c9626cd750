----------------------------- MODULE MCSideLanes -----------------------------
(* A small instance of SideLanes for TLC.                                  *)
EXTENDS SideLanes

\* one book in two versions, and another book between them
MCBooks == {"first", "second"}
MCBookOf == <<"first", "second", "first">>

MCHome == [actor |-> "home", player |-> "inn"]

\* the reading matters to its own lane only
MCInit == LanesInit /\ (lane = "disposition" \/ reading = "low")
MCSpec == MCInit /\ [][LanesNext]_LanesVars /\ LanesFairness
================================================================================
