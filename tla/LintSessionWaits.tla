-------------------------- MODULE LintSessionWaits --------------------------
(***************************************************************************)
(* LintSession with the idle time each request has waited through as a     *)
(* history variable, to say what a timeout must not be caused by.          *)
(***************************************************************************)
EXTENDS LintSession

VARIABLE idle   \* timer periods a request was queued and no lease was active

WaitsInit == Init /\ idle = [c \in Clients |-> 0]

WaitsNext ==
    /\ Next
    /\ idle' = IF Timer /\ active = {}
               THEN [c \in Clients |-> IF c \in Queued /\ idle[c] < Timeout
                                       THEN idle[c] + 1 ELSE idle[c]]
               ELSE idle

WaitsSpec == WaitsInit /\ [][WaitsNext]_<<vars, idle>>

\* Action property (docs/lint-execution.md:79, "Legitimate active work does
\* not cause a false queue timeout"): a request that is timed out has waited
\* for as many idle timer periods as the timeout is long, so that the periods
\* in which it waited behind active work did not count against it.
NoFalseTimeout ==
    [][Extends => \A c \in Clients : TimedOut(c) => idle'[c] >= Timeout]_<<vars, idle>>
=============================================================================
