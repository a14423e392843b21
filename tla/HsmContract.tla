----------------------------- MODULE HsmContract -----------------------------
(***************************************************************************)
(* HsmRuntime implements the machine that HsmMachines describes.           *)
(***************************************************************************)
EXTENDS HsmRuntimeProps

Seen(v) == [x \in {Root} |-> v]

Contract == INSTANCE HsmMachines WITH
    Member <- {Root},
    owner  <- Seen(holder),
    inside <- Seen(state # Root),
    listed <- Seen(registered),
    closed <- Seen(ctxDone),
    next   <- Seen(nextId),
    answer <- Seen(answer),
    call   <- Seen(client)

\* dispatch, _start, _stop, _restart: whatever the chart, its callbacks and
\* its activities do, callers see a machine of HsmMachines: an event is taken
\* in one step, the state changes under the mutex only, and everybody who
\* waits is answered or woken when the mutex is released.
KeepsContract == Contract!MachinesSpec
=============================================================================
