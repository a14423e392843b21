--------------------------- MODULE HsmRuntimeClaims ---------------------------
(***************************************************************************)
(* What the documentation says of the runtime and the code does not do:    *)
(* each property is refuted by a run, and is a finding of the project.     *)
(***************************************************************************)
EXTENDS HsmRuntimeProps

\* reference.md, hsm.defer: deferred events are "queued and processed when
\* entering a state that can handle them".  None of them vanishes.
DeferredNeverLost == \A i \in EventId : outcome[i] # "lost"

\* reference.md, hsm.entry: "Defines entry actions that run when entering a
\* state."  A machine that has come to be in a state has run them, for this
\* state and for each one around it.
EntryActionsRun ==
    Settled /\ faults = 0 => \A v \in ActiveIn(state) : balance[v] >= 1

\* reference.md, hsm.activity: "Activities are automatically cancelled when
\* exiting the state", and the exit goes on: a cancelled activity ends.
CancelledActivityEnds ==
    \A t \in TaskId :
        task[t].status \in {"cancelling", "cleanwait"} ~> task[t].status = "done"
=============================================================================
