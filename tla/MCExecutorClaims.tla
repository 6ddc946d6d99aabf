-------------------------- MODULE MCExecutorClaims --------------------------
(* Three requests: two for one preview of run_once, in different server    *)
(* processes, and one for a preview of run_bounded.                        *)
EXTENDS ExecutorClaims

CONSTANTS c1, c2, c3, once, bounded, s1, s2

Requests == [c \in Calls |-> IF c = c3 THEN bounded ELSE once]
NoFault == {{}}
OneFault == {{"stall"}, {"write"}}
AllFaultsOrNone == {{}, {"stall", "write"}}

Processes == [c \in Calls |-> IF c = c2 THEN s2 ELSE s1]

=============================================================================
