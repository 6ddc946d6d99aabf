---------------------------- MODULE MCRunnerState ----------------------------
EXTENDS RunnerState, TLC

CONSTANTS a, b

Enabled(v) == [version |-> v, enabled |-> TRUE]
Disabled(v) == [version |-> v, enabled |-> FALSE]

(* A version is appended to the plan, switched off at first.               *)
Short == <<Enabled(a)>>
Switched == <<Enabled(a), Disabled(b)>>
Long == <<Enabled(a), Enabled(b)>>
ShortOrLong == {Short, Long}
Growth == {<<Short, Switched>>, <<Switched, Long>>}

TwoVersions == {Long}

ASSUME PlansOnlyGrow == PlansGrow

WriterSymmetry == Permutations(Writers)
==============================================================================
