-------------------------------- MODULE Jobs --------------------------------
(***************************************************************************)
(* The background jobs of one harness session (src/harness/tools/shell.rs, *)
(* JobTable).  The turn thread starts, polls and kills them; the main      *)
(* thread clears the table when the session is closed                      *)
(* (AcpServer::close_registered_session in src/harness/acp.rs), which does *)
(* not stop a turn in the middle of its tool calls.                        *)
(***************************************************************************)
EXTENDS Naturals, FiniteSets

CONSTANTS
    JobIds,      \* the jobs the model may start
    MaxFinished  \* MAX_RETAINED_FINISHED_JOBS

ConstantsOK == MaxFinished \in Nat \ {0}

VARIABLES
    proc,   \* [JobIds -> the operating system's view of the process]
    table,  \* [JobIds -> the entry: exit_code seen, killed by us, or absent]
    older,  \* last_used of the entries: the pairs <<i, j>> with i's before j's
    holder, \* who holds the table's mutex across steps: "none", "turn"
    call,   \* what the turn thread is doing: <<kind, job>> or Ready
    closed, \* the session was closed and its table cleared
    told    \* [JobIds -> the status the last report on the job gave]

vars == <<proc, table, older, holder, call, closed, told>>

Ready == <<"ready">>
Over == <<"over">>
NoEntry == [in |-> FALSE, exit |-> FALSE, killed |-> FALSE]

Entries(t) == {j \in JobIds : t[j].in}

(* A strict total order on S, as the clock that stamps the entries gives.  *)
Ordered(R, S) ==
    /\ R \subseteq S \X S
    /\ \A i, j \in S : <<i, j>> \in R => <<j, i>> \notin R
    /\ \A i, j \in S : i # j => <<i, j>> \in R \/ <<j, i>> \in R
    /\ \A i, j, k \in S : <<i, j>> \in R /\ <<j, k>> \in R => <<i, k>> \in R

TypeOK ==
    /\ proc \in [JobIds -> {"none", "run", "exited", "signalled"}]
    /\ table \in [JobIds -> [in : BOOLEAN, exit : BOOLEAN, killed : BOOLEAN]]
    /\ Ordered(older, Entries(table))
    /\ holder \in {"none", "turn"}
    /\ call \in {Ready, Over} \union ({"insert", "relock", "report"} \X JobIds)
    /\ closed \in BOOLEAN
    /\ told \in [JobIds -> {"nothing", "running", "exited", "killed"}]

Init ==
    /\ proc = [j \in JobIds |-> "none"]
    /\ table = [j \in JobIds |-> NoEntry]
    /\ older = {}
    /\ holder = "none"
    /\ call = Ready
    /\ closed = FALSE
    /\ told = [j \in JobIds |-> "nothing"]
-----------------------------------------------------------------------------
Finished(t, j) == t[j].in /\ (t[j].exit \/ t[j].killed)

Done(t) == {j \in JobIds : Finished(t, j)}

(* prune_finished_jobs: of the finished jobs the keep that were used last  *)
(* stay, and every running job.  keep is less than the cap on entries when *)
(* the cap on bytes takes more.                                            *)
Pruned(t, order, keep) ==
    {j \in Done(t) : Cardinality({i \in Done(t) : <<j, i>> \in order}) >= keep}

(* The order after an operation that uses j last.                          *)
Touched(t, j) ==
    {p \in older : j \notin {p[1], p[2]}} \cup ((Entries(t) \ {j}) \X {j})

(* The table after an operation that leaves entries t, with j used last.   *)
Settle(t, j) ==
    \E keep \in 0 .. MaxFinished :
        LET gone == Pruned(t, Touched(t, j), keep)
        IN /\ table' = [i \in JobIds |-> IF i \in gone THEN NoEntry ELSE t[i]]
           /\ older' = {p \in Touched(t, j) : p[1] \notin gone /\ p[2] \notin gone}

(* JobTable::spawn: the process runs before the table knows of it.         *)
StartJob(j) ==
    /\ call = Ready /\ proc[j] = "none"
    /\ proc' = [proc EXCEPT ![j] = "run"]
    /\ call' = <<"insert", j>>
    /\ UNCHANGED <<table, older, holder, closed, told>>

Insert(j) ==
    /\ call = <<"insert", j>> /\ holder = "none"
    /\ Settle([table EXCEPT ![j] = [NoEntry EXCEPT !.in = TRUE]], j)
    /\ call' = Ready
    /\ UNCHANGED <<proc, holder, closed, told>>

(* try_wait, kept as status.code(): a process that a signal ended has none.*)
Reaped(j) == [table[j] EXCEPT !.exit = @ \/ proc[j] = "exited"]

(* The body of JobTable::poll.  A poll of an unknown job changes nothing.  *)
Report(j) ==
    LET e == Reaped(j)
    IN IF table[j].in
       THEN /\ told' = [told EXCEPT ![j] = IF e.killed THEN "killed"
                                           ELSE IF e.exit THEN "exited"
                                           ELSE "running"]
            /\ Settle([table EXCEPT ![j] = e], j)
       ELSE UNCHANGED <<told, table, older>>

Poll(j) ==
    /\ call = Ready /\ holder = "none" /\ table[j].in
    /\ Report(j)
    /\ UNCHANGED <<proc, holder, call, closed>>

(* JobTable::kill of a job whose exit was not seen: SIGKILL to its group.  *)
KillRunning(j) ==
    /\ call = Ready /\ holder = "none" /\ table[j].in /\ ~table[j].exit
    /\ proc' = [proc EXCEPT ![j] = IF @ = "run" THEN "signalled" ELSE @]
    /\ table' = [table EXCEPT ![j] = [Reaped(j) EXCEPT !.killed = TRUE]]
    /\ call' = <<"report", j>>
    /\ UNCHANGED <<older, holder, closed, told>>

(* ... and then the report, after the mutex was given back.                *)
KillReports(j) ==
    /\ call = <<"report", j>> /\ holder = "none"
    /\ Report(j)
    /\ call' = Ready
    /\ UNCHANGED <<proc, holder, closed>>

(* JobTable::kill of a job whose exit was seen returns self.poll with the  *)
(* guard of the table's mutex still in scope, and poll locks it again: no  *)
(* step follows.                                                           *)
KillExited(j) ==
    /\ call = Ready /\ holder = "none" /\ table[j].in /\ table[j].exit
    /\ holder' = "turn"
    /\ call' = <<"relock", j>>
    /\ UNCHANGED <<proc, table, older, closed, told>>

(* The turn ends between two tool calls; another prompt starts the next.   *)
TurnEnds ==
    /\ call = Ready /\ call' = Over
    /\ UNCHANGED <<proc, table, older, holder, closed, told>>

TurnStarts ==
    /\ call = Over /\ ~closed /\ call' = Ready
    /\ UNCHANGED <<proc, table, older, holder, closed, told>>

(* session/close, or a session/new that supersedes: states.shutdown().     *)
Clear ==
    /\ ~closed /\ holder = "none"
    /\ closed' = TRUE
    /\ proc' = [j \in JobIds |-> IF table[j].in /\ proc[j] = "run"
                                 THEN "signalled" ELSE proc[j]]
    /\ table' = [j \in JobIds |-> NoEntry]
    /\ older' = {}
    /\ UNCHANGED <<holder, call, told>>

(* The command ends by itself, or something else kills it.                 *)
ProcessEnds(j) ==
    /\ proc[j] = "run"
    /\ proc' = [proc EXCEPT ![j] = "exited"] \/ proc' = [proc EXCEPT ![j] = "signalled"]
    /\ UNCHANGED <<table, older, holder, call, closed, told>>

TurnGoesOn == \E j \in JobIds : Insert(j) \/ KillReports(j)

Next ==
    \/ \E j \in JobIds : \/ StartJob(j) \/ Poll(j) \/ KillRunning(j)
                         \/ KillExited(j) \/ ProcessEnds(j)
    \/ TurnGoesOn \/ TurnEnds \/ TurnStarts \/ Clear

Spec == Init /\ [][Next]_vars
FairSpec == Spec /\ WF_vars(TurnGoesOn)
-----------------------------------------------------------------------------
(* Retention drops finished jobs only: while the session is open, a job    *)
(* that runs and whose spawn has returned can be polled and killed, and    *)
(* between two calls no more than the cap of finished jobs is kept.        *)
RunningIsKept ==
    /\ \A j \in JobIds : proc[j] = "run" /\ ~closed /\ call # <<"insert", j>>
                         => table[j].in
    /\ call = Ready => Cardinality(Done(table)) <= MaxFinished

(* "Already exited - report final status without killing": a call on a job *)
(* returns.                                                                *)
CallsReturn == call \notin {Ready, Over} ~> call \in {Ready, Over}

(* "nothing they started may outlive the session"                          *)
NothingOutlivesClose ==
    closed /\ call = Over => \A j \in JobIds : proc[j] # "run"

(* A job that is over when a report looks at it is not called running.     *)
ReportsAreTrue ==
    [][\A j \in JobIds : told'[j] = "running" /\ told'[j] # told[j]
          => proc[j] = "run"]_vars
=============================================================================
