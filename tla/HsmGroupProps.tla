---------------------------- MODULE HsmGroupProps ----------------------------
(***************************************************************************)
(* What groups and broadcasts promise.                                     *)
(***************************************************************************)
EXTENDS HsmGroup

\* Group.dispatch: two broadcasts reach the members they share in the same
\* order, and an instance that is listed twice too: the loop of one never
\* runs inside the loop of another, whatever the members' callbacks call.
BroadcastOrder ==
    \A g, h \in GroupCall : job[g].kind = "dispatch" /\ job[h].kind = "dispatch" =>
        \A p, q \in Pos : 0 \notin {got[g][p], got[g][q], got[h][p], got[h][q]} =>
            (got[g][p] < got[h][p] <=> got[g][q] < got[h][q])

Becomes(g, kind, status) ==
    job[g].kind = kind /\ job[g].status # status /\ job'[g].status = status

\* Group.stop: when it returns, each machine of the group is out of its
\* states, or somebody has started it after the call began.
StopBringsDown ==
    [][\A g \in GroupCall : Becomes(g, "stop", "ok") =>
          \A x \in Member : ~inside'[x] \/ starts'[x] > since'[g][x]]_job

\* Group.restart: when it returns, each machine of the group was started
\* after the call began, and nobody else's start took its place.
RestartBringsUp ==
    [][\A g \in GroupCall : Becomes(g, "restart", "ok") =>
          \A x \in Member : starts'[x] > since'[g][x]]_job

\* gather and Mutex.release: a call of a group waits only for a machine that
\* is at work, or for a task that the event loop is going to run: whoever
\* fails, stops or restarts a member wakes the calls that wait for it.
WaitsForWork ==
    \A g \in GroupCall : job[g].status = "gathering" =>
        \A p \in DOMAIN job[g].list : Result(g, p) \in {"asked", "starting"} =>
            LET x == Recipient(g, p)
            IN  \/ owner[x] # Free
                \/ got[g][p] # 0 /\ answer[x][got[g][p]] = "sent"
                \/ call[x][<<g, p>>].status \in {"woken", "stopped"}
=============================================================================
