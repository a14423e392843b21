----------------------------- MODULE HsmMachines -----------------------------
(***************************************************************************)
(* What the rest of the library relies on from started and stopped         *)
(* machines: who works on each of them, whether it is in a state, what it  *)
(* answers to dispatch(), and how its stop() and restart() calls proceed.  *)
(* Charts, queues and activities are hidden.  HsmRuntime implements this   *)
(* specification with one machine (HsmContract).                           *)
(***************************************************************************)
EXTENDS Integers

CONSTANTS
    Member,         \* the machines
    Client,         \* tasks that call stop() or restart()
    Free, Startup, Process, \* holders of a mutex that are not clients
    MaxEvents,      \* bound: events dispatched to a machine
    ParentMayEnd    \* may the context given to start() be cancelled?

VARIABLES
    owner,  \* who holds the mutex
    inside, \* is the current state one below the model?
    listed, \* is the machine in the registry of instances?
    closed, \* is its context done?
    next,   \* the id of the next event
    answer, \* the awaitable each dispatch() returned
    call    \* the calls of stop() and restart()

mach == <<owner, inside, listed, closed, next, answer, call>>

EventId  == 1 .. MaxEvents
IdleCall == [status |-> "idle", mode |-> "stop"]

Startable(x) == ~inside[x] /\ owner[x] = Free

(***************************************************************************)
(* The mutex                                                               *)
(***************************************************************************)
Takes(x, who) == owner' = [owner EXCEPT ![x] = who]

CallIs(x, c, status, mode) ==
    call' = [call EXCEPT ![x] = [@ EXCEPT ![c] = [status |-> status, mode |-> mode]]]

Woken(x) ==
    [c \in Client |-> IF call[x][c].status = "waiting"
                      THEN [call[x][c] EXCEPT !.status = "woken"] ELSE call[x][c]]

\* Release: every dispatch() that waits is answered, the one that ran the
\* loop with ran.
Releases(x, ran) ==
    /\ Takes(x, Free)
    /\ answer' = [answer EXCEPT ![x] =
                     [i \in EventId |-> CASE answer[x][i] = "wait" -> "true"
                                          [] answer[x][i] = "run"  -> ran
                                          [] OTHER                 -> answer[x][i]]]

(***************************************************************************)
(* Events                                                                  *)
(***************************************************************************)
\* dispatch(): the event is taken, and the loop runs when nobody works.
Take(x) ==
    /\ ~Startable(x)
    /\ next[x] \in EventId
    /\ next' = [next EXCEPT ![x] = @ + 1]
    /\ owner' = IF owner[x] = Free THEN [owner EXCEPT ![x] = Process] ELSE owner
    /\ answer' = [answer EXCEPT ![x] = [@ EXCEPT ![next[x]] =
                     IF owner[x] = Free THEN "run"
                     ELSE IF closed[x] THEN "true" ELSE "sent"]]
    /\ UNCHANGED <<inside, listed, closed, call>>

\* The task of a dispatch() that found the mutex taken begins.
Listens(x, i) ==
    /\ answer[x][i] = "sent"
    /\ answer' = [answer EXCEPT ![x] = [@ EXCEPT ![i] =
                     IF owner[x] = Free THEN "true" ELSE "wait"]]
    /\ UNCHANGED <<owner, inside, listed, closed, next, call>>

\* The state changes only under a startup or a loop.
Arrives(x) ==
    /\ owner[x] \in {Startup, Process}
    /\ \E in \in BOOLEAN : inside' = [inside EXCEPT ![x] = in]
    /\ UNCHANGED <<owner, listed, closed, next, answer, call>>

Ends(x) ==
    /\ owner[x] \in {Startup, Process}
    /\ Releases(x, "true")
    /\ call' = [call EXCEPT ![x] = Woken(x)]
    /\ UNCHANGED <<inside, listed, closed, next>>

\* A callback raises: a stop() under way is abandoned.
Raises(x) ==
    /\ owner[x] # Free
    /\ Releases(x, "failed")
    /\ call' = [call EXCEPT ![x] =
                   [c \in Client |-> IF c = owner[x] THEN IdleCall ELSE Woken(x)[c]]]
    /\ UNCHANGED <<inside, listed, closed, next>>

ParentEnds(x) ==
    /\ ParentMayEnd
    /\ closed' = [closed EXCEPT ![x] = TRUE]
    /\ UNCHANGED <<owner, inside, listed, next, answer, call>>

(***************************************************************************)
(* The life cycle                                                          *)
(***************************************************************************)
Starts(x) ==
    /\ Startable(x)
    /\ Takes(x, Startup)
    /\ listed' = [listed EXCEPT ![x] = TRUE]
    /\ closed' = [closed EXCEPT ![x] = FALSE]
    /\ UNCHANGED <<inside, next, answer>>

Start(x) == Starts(x) /\ UNCHANGED call

\* stop() and restart() take the mutex or wait for it.
StopAsks(x, c, m) ==
    /\ IF owner[x] = Free
       THEN /\ Takes(x, c)
            /\ closed' = [closed EXCEPT ![x] = TRUE]
            /\ CallIs(x, c, "running", m)
       ELSE CallIs(x, c, "waiting", m) /\ UNCHANGED <<owner, closed>>
    /\ UNCHANGED <<inside, listed, next, answer>>

StopCall(x, c, m) ==
    /\ call[x][c].status = "idle"
    /\ m = "restart" => ~Startable(x)
    /\ StopAsks(x, c, m)

StopRetry(x, c) ==
    /\ call[x][c].status = "woken"
    /\ StopAsks(x, c, call[x][c].mode)

\* The stop() that has the mutex has left every state.
StopEnds(x) ==
    /\ owner[x] \in Client
    /\ Releases(x, "true")
    /\ call' = [call EXCEPT ![x] = [Woken(x) EXCEPT ![owner[x]].status = "stopped"]]
    /\ inside' = [inside EXCEPT ![x] = FALSE]
    /\ listed' = [listed EXCEPT ![x] = FALSE]
    /\ UNCHANGED <<closed, next>>

StopReturns(x, c) ==
    /\ call[x][c] = [status |-> "stopped", mode |-> "stop"]
    /\ CallIs(x, c, "idle", "stop")
    /\ UNCHANGED <<owner, inside, listed, closed, next, answer>>

RestartStarts(x, c) ==
    /\ call[x][c] = [status |-> "stopped", mode |-> "restart"]
    /\ Starts(x)
    /\ CallIs(x, c, "idle", "stop")

RestartFails(x, c) ==
    /\ call[x][c] = [status |-> "stopped", mode |-> "restart"]
    /\ ~Startable(x)
    /\ CallIs(x, c, "idle", "stop")
    /\ UNCHANGED <<owner, inside, listed, closed, next, answer>>

\* The context given to restart() is done.
RestartAbandoned(x, c) ==
    /\ call[x][c].mode = "restart" /\ call[x][c].status # "idle"
    /\ IF call[x][c].status = "running" THEN CallIs(x, c, "running", "stop")
                                        ELSE CallIs(x, c, "idle", "stop")
    /\ UNCHANGED <<owner, inside, listed, closed, next, answer>>

(***************************************************************************)
(* The specification                                                       *)
(***************************************************************************)
MachinesInit ==
    /\ owner  = [x \in Member |-> Free]
    /\ inside = [x \in Member |-> FALSE] /\ listed = [x \in Member |-> FALSE]
    /\ closed = [x \in Member |-> TRUE]
    /\ next   = [x \in Member |-> 1]
    /\ answer = [x \in Member |-> [i \in EventId |-> "none"]]
    /\ call   = [x \in Member |-> [c \in Client |-> IdleCall]]

CallStep(x, c) ==
    \/ \E m \in {"stop", "restart"} : StopCall(x, c, m)
    \/ StopRetry(x, c) \/ StopReturns(x, c)
    \/ RestartStarts(x, c) \/ RestartFails(x, c) \/ RestartAbandoned(x, c)

MachineStep(x) ==
    \/ Take(x)
    \/ \E i \in EventId : Listens(x, i)
    \/ Arrives(x) \/ Ends(x) \/ Raises(x)
    \/ ParentEnds(x) \/ Start(x) \/ StopEnds(x)
    \/ \E c \in Client : CallStep(x, c)

MachinesNext == \E x \in Member : MachineStep(x)

MachinesSpec == MachinesInit /\ [][MachinesNext]_mach
=============================================================================
