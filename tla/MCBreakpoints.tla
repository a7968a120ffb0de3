--------------------------- MODULE MCBreakpoints ---------------------------
(* Values for model-checking BreakpointCoordinator: three configurations,  *)
(* two of which differ only in their log message.                          *)
EXTENDS BreakpointCoordinator, TLC

CONSTANTS a1, a2, s1, s2

MCAddresses == {a1, a2}
MCSources == {s1, s2}
MCConfigs == {"plain", "logged", "conditional"}
MCLogpoints == {"logged"}
MCBackendOf == [c \in MCConfigs |-> IF c = "conditional" THEN "when" ELSE "always"]

\* Single breakpoints when commands fail, pairs when they are obeyed.
MCFaulty == [rejecting |-> TRUE, duplicates |-> TRUE, longest |-> 1, configs |-> MCConfigs]
MCObedient == [rejecting |-> FALSE, duplicates |-> FALSE, longest |-> 2, configs |-> {"plain", "conditional"}]
MCModes == {MCFaulty, MCObedient}
MCRejecting == {[MCObedient EXCEPT !.rejecting = TRUE]}

Symmetric == Permutations({a1, a2}) \cup Permutations({s1, s2})
=============================================================================
