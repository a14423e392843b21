------------------------------- MODULE HsmGroup -------------------------------
(***************************************************************************)
(* Several machines driven together: Group.dispatch, Group.stop and        *)
(* Group.restart, and DispatchTo, which broadcasts to the registry.  The   *)
(* machines are those of HsmMachines.                                      *)
(*                                                                         *)
(* A call of a Group is a task that begins later (ensure_future); DispatchTo*)
(* begins at once.  Either loops over its recipients without an await, and *)
(* each recipient with a free mutex works synchronously: its callbacks may *)
(* call anything, also DispatchTo, so turn is a stack of loops and no other*)
(* task moves before it is empty.  Then the call gathers the answers.      *)
(***************************************************************************)
EXTENDS HsmMachines, Sequences

CONSTANTS
    GroupCall,  \* the calls; each is made once
    Members,    \* Group._instances: nested groups are flattened, and an
                \* instance may occur more than once
    MaxStarts,  \* bound: how often a machine is started but by a restart()
    MaxFaults   \* bound: callbacks that raise

VARIABLES
    job,    \* the calls: what they do and how far they are
    part,   \* what became of a call's part for its recipient at a position
    got,    \* the event a recipient took for a broadcast, 0 for none
    turn,   \* the loops that are running, the innermost first
    starts, \* how often a machine was started
    since,  \* starts when a call began
    faults  \* callbacks that raised

groupVars == <<job, part, got, turn, since>>
allVars   == <<mach, groupVars, starts, faults>>

Pos       == DOMAIN Members
JobKind   == {"dispatch", "dispatchTo", "stop", "restart"}
JobStatus == {"idle", "scheduled", "looping", "gathering", "ok", "nobody", "failed"}
Part      == {"none", "asked", "starting", "done", "failed"}

ASSUME GroupAssumption ==
    /\ Members \in Seq(Member) /\ \A x \in Member : \E p \in Pos : Members[p] = x
    /\ Client = GroupCall \X Pos
    /\ MaxStarts \in Nat /\ MaxFaults \in Nat

\* The holders of a mutex differ.
ASSUME HolderAssumption ==
    /\ Free \notin Client /\ Startup \notin Client /\ Process \notin Client
    /\ Free # Startup /\ Free # Process /\ Startup # Process
    /\ MaxEvents \in Nat

Broadcasts(g) == job[g].kind \in {"dispatch", "dispatchTo"}
Recipient(g, p) == job[g].list[p]

(***************************************************************************)
(* The machines                                                            *)
(***************************************************************************)
\* The tasks of parts move when no loop is running.
Switching == turn = << >>

PartIs(c, p) == part' = [part EXCEPT ![c[1]] = [@ EXCEPT ![c[2]] = p]]

\* A restart() that waits for the startup it began is woken by the release.
StartupsDone(x) ==
    [g \in GroupCall |-> [p \in Pos |->
        IF part[g][p] = "starting" /\ Recipient(g, p) = x THEN "done" ELSE part[g][p]]]

StartCounts(x) == starts' = [starts EXCEPT ![x] = @ + 1]

MemberRaises(x) ==
    /\ faults < MaxFaults /\ faults' = faults + 1
    /\ Raises(x)
    /\ part' = IF owner[x] \in Client
               THEN [StartupsDone(x) EXCEPT ![owner[x][1]][owner[x][2]] = "failed"]
               ELSE StartupsDone(x)
    /\ UNCHANGED <<job, got, turn, starts, since>>

\* Mutant: nobody wakes the restart() that waits for a startup.
StartupNotDone(x) == (Ends(x) \/ StopEnds(x)) /\ UNCHANGED <<groupVars, starts, faults>>

MemberReleases(x) ==
    /\ Ends(x) \/ StopEnds(x)
    /\ part' = StartupsDone(x)
    /\ UNCHANGED <<job, got, turn, starts, since, faults>>

\* No chart here has a transition to its model.
MemberWorks(x) ==
    ~inside[x] /\ Arrives(x) /\ inside'[x] /\ UNCHANGED <<groupVars, starts, faults>>

MemberStarts(x) ==
    starts[x] < MaxStarts /\ Start(x) /\ StartCounts(x) /\ UNCHANGED <<groupVars, faults>>

MemberListens(x) ==
    /\ Switching
    /\ \E i \in EventId : Listens(x, i)
    /\ UNCHANGED <<groupVars, starts, faults>>

MemberRetries(x, c) == Switching /\ StopRetry(x, c) /\ UNCHANGED <<groupVars, starts, faults>>

MemberStopped(x, c) ==
    /\ Switching
    /\ StopReturns(x, c)
    /\ PartIs(c, "done")
    /\ UNCHANGED <<job, got, turn, starts, since, faults>>

\* Mutant: the part of a restart() whose start is refused counts as done.
RestartRefusedDone(x, c) ==
    /\ Switching
    /\ \/ RestartStarts(x, c) /\ StartCounts(x) /\ PartIs(c, "starting")
       \/ RestartFails(x, c) /\ PartIs(c, "done") /\ UNCHANGED starts
    /\ UNCHANGED <<job, got, turn, since, faults>>

MemberRestarts(x, c) ==
    /\ Switching
    /\ \/ RestartStarts(x, c) /\ StartCounts(x) /\ PartIs(c, "starting")
       \/ RestartFails(x, c) /\ PartIs(c, "failed") /\ UNCHANGED starts
    /\ UNCHANGED <<job, got, turn, since, faults>>

(***************************************************************************)
(* The calls                                                               *)
(***************************************************************************)
JobBecomes(g, status) == job' = [job EXCEPT ![g] = [@ EXCEPT !.status = status]]

\* Group.dispatch, Group.stop, Group.restart, from anywhere.
Schedule(g, kind) ==
    /\ job[g].status = "idle"
    /\ job' = [job EXCEPT ![g] = [kind |-> kind, status |-> "scheduled",
                                  list |-> Members, pos |-> 1]]
    /\ UNCHANGED <<mach, part, got, turn, starts, since, faults>>

\* Mutant: the task begins inside the loop of another call.
BeginEager(g) ==
    /\ job[g].status = "scheduled"
    /\ JobBecomes(g, "looping")
    /\ turn' = <<g>> \o turn
    /\ since' = [since EXCEPT ![g] = starts]
    /\ UNCHANGED <<mach, part, got, starts, faults>>

Begin(g) ==
    /\ Switching
    /\ job[g].status = "scheduled"
    /\ JobBecomes(g, "looping")
    /\ turn' = <<g>>
    /\ since' = [since EXCEPT ![g] = starts]
    /\ UNCHANGED <<mach, part, got, starts, faults>>

\* DispatchTo: some of the machines in the registry, in any order, each once.
DispatchTo(g, list) ==
    /\ job[g].status = "idle"
    /\ \A p \in DOMAIN list : listed[list[p]]
    /\ \A p, q \in DOMAIN list : list[p] = list[q] => p = q
    /\ job' = [job EXCEPT ![g] = [kind |-> "dispatchTo", status |-> "looping",
                                  list |-> list, pos |-> 1]]
    /\ turn' = <<g>> \o turn
    /\ since' = [since EXCEPT ![g] = starts]
    /\ UNCHANGED <<mach, part, got, starts, faults>>

\* The loop of g is at its recipient x, position p.
At(g, p, x) ==
    /\ turn # << >> /\ g = Head(turn)
    /\ p = job[g].pos /\ p \in DOMAIN job[g].list /\ x = Recipient(g, p)
    /\ job' = [job EXCEPT ![g].pos = @ + 1]

\* A machine without a current state is skipped, also while it starts.
Skip(g, p, x) ==
    /\ At(g, p, x)
    /\ Broadcasts(g) /\ ~inside[x]
    /\ UNCHANGED <<mach, part, got, turn, starts, since, faults>>

Offer(g, p, x) ==
    /\ At(g, p, x)
    /\ Broadcasts(g) /\ inside[x]
    /\ got' = [got EXCEPT ![g] = [@ EXCEPT ![p] = next[x]]]
    /\ Take(x)
    /\ UNCHANGED <<part, turn, starts, since, faults>>

\* stop() of every recipient, started or not.
AskStop(g, p, x) ==
    /\ At(g, p, x)
    /\ job[g].kind = "stop"
    /\ StopCall(x, <<g, p>>, "stop")
    /\ PartIs(<<g, p>>, "asked")
    /\ UNCHANGED <<got, turn, starts, since, faults>>

\* restart() of every recipient fails at once for one that is not started.
AskRestart(g, p, x) ==
    /\ At(g, p, x)
    /\ job[g].kind = "restart"
    /\ IF Startable(x) THEN PartIs(<<g, p>>, "failed") /\ UNCHANGED mach
                       ELSE StopCall(x, <<g, p>>, "restart") /\ PartIs(<<g, p>>, "asked")
    /\ UNCHANGED <<got, turn, starts, since, faults>>

\* The loop is over.  A broadcast that nobody took is answered with false.
LoopEnds(g) ==
    /\ turn # << >> /\ g = Head(turn)
    /\ job[g].pos \notin DOMAIN job[g].list
    /\ turn' = Tail(turn)
    /\ JobBecomes(g, IF Broadcasts(g) /\ \A p \in Pos : got[g][p] = 0
                     THEN "nobody" ELSE "gathering")
    /\ UNCHANGED <<mach, part, got, starts, since, faults>>

\* What the part of g at p has come to: gather takes these.
Result(g, p) ==
    IF Broadcasts(g)
    THEN IF got[g][p] = 0 THEN "done"
         ELSE CASE answer[Recipient(g, p)][got[g][p]] = "true"   -> "done"
                [] answer[Recipient(g, p)][got[g][p]] = "failed" -> "failed"
                [] OTHER                                         -> "asked"
    ELSE part[g][p]

\* Mutant: the first answer is enough.
GatherFirst(g) ==
    /\ Switching
    /\ job[g].status = "gathering"
    /\ \/ \E p \in DOMAIN job[g].list : Result(g, p) = "failed" /\ JobBecomes(g, "failed")
       \/ \E p \in DOMAIN job[g].list : Result(g, p) = "done" /\ JobBecomes(g, "ok")
    /\ UNCHANGED <<mach, part, got, turn, starts, since, faults>>

\* gather: the first failure is the answer, while the other parts go on.
Gather(g) ==
    /\ Switching
    /\ job[g].status = "gathering"
    /\ \/ \E p \in DOMAIN job[g].list : Result(g, p) = "failed" /\ JobBecomes(g, "failed")
       \/ /\ \A p \in DOMAIN job[g].list : Result(g, p) = "done"
          /\ JobBecomes(g, "ok")
    /\ UNCHANGED <<mach, part, got, turn, starts, since, faults>>

(***************************************************************************)
(* The specification                                                       *)
(***************************************************************************)
GroupInit ==
    /\ MachinesInit
    /\ job = [g \in GroupCall |-> [kind |-> "dispatch", status |-> "idle",
                                   list |-> << >>, pos |-> 1]]
    /\ part = [g \in GroupCall |-> [p \in Pos |-> "none"]]
    /\ got = [g \in GroupCall |-> [p \in Pos |-> 0]]
    /\ turn = << >>
    /\ starts = [x \in Member |-> 0]
    /\ since = [g \in GroupCall |-> starts]
    /\ faults = 0

MemberStep(x) ==
    \/ MemberStarts(x) \/ MemberWorks(x) \/ MemberReleases(x) \/ MemberRaises(x)
    \/ MemberListens(x)
    \/ \E c \in Client : MemberRetries(x, c) \/ MemberStopped(x, c) \/ MemberRestarts(x, c)

LoopStep(g) ==
    \/ \E p \in Pos, x \in Member :
           Skip(g, p, x) \/ Offer(g, p, x) \/ AskStop(g, p, x) \/ AskRestart(g, p, x)
    \/ LoopEnds(g)

CallMade(g) ==
    \/ \E kind \in JobKind \ {"dispatchTo"} : Schedule(g, kind)
    \/ \E n \in 0 .. Len(Members) : \E list \in [1 .. n -> Member] : DispatchTo(g, list)

GroupNext ==
    \/ \E x \in Member : MemberStep(x)
    \/ \E g \in GroupCall : CallMade(g) \/ Begin(g) \/ LoopStep(g) \/ Gather(g)

GroupSpec == GroupInit /\ [][GroupNext]_allVars
=============================================================================
