--------------------------- MODULE RuntimeProofs ---------------------------
(***************************************************************************)
(* Proofs about the runtime of the agents' model runs, for every value of  *)
(* the constants: the breaker and the repairs, the connection to an ACP    *)
(* child, the auth provider's single flight, and the sessions that tasks   *)
(* go on in.  Each component has an inductive invariant of its own; a step *)
(* of the composition is a step of each component or leaves it alone.      *)
(***************************************************************************)
EXTENDS Components, TLAPS

LEMMA StepsApart ==
    [Next]_vars =>
        /\ [ModelRun!Next]_modelRunVars
        /\ [AcpClient!Next]_acpClientVars
        /\ [AuthFlight!Next]_authVars
        /\ [Resume!Next]_resumeVars
BY DEF Next, vars, InModelRun, InAcpClient, InAuthFlight, InJobs, InResume, InAgentLoop,
       InSubagents, InSandal, InSplit, InPmo, InReviewer, InQa, InOps
-----------------------------------------------------------------------------
(* Model runs.                                                             *)

Pcs == {"idle", "answered", "attempt", "prompt", "inflight", "respawn", "backoff", "repair"}
Modes == {"task", "repair"}
Runs == [pc : Pcs, mode : Modes, retries : 0 .. MaxRetries,
         transport : 0 .. MaxTransport, nudges : 0 .. MaxNudges, late : 0 .. 2]
Links == [child : {"none", "up", "exited"}, told : BOOLEAN]

(* A run counts an attempt or repair as late once, after the give-up, and  *)
(* then only carries on to its end.                                        *)
OnceLate(r, g) ==
    /\ r.late <= 1
    /\ r.late = 1 => g /\ r.pc \in {"prompt", "inflight", "respawn", "repair"}

(* A repair belongs to a session that was told the task, and so does       *)
(* whatever may become one; the ladders of retries belong to tasks.        *)
Tells(r, l) ==
    /\ r.mode = "repair" => r.pc \in {"prompt", "inflight", "repair"}
    /\ r.mode = "repair" \/ r.pc \in {"inflight", "answered", "repair"} => l.told

RunInv ==
    /\ ModelRun!TypeOK
    /\ \A a \in Runners : OnceLate(run[a], gaveUp) /\ Tells(run[a], link[a])

(* What a step does to the record of its run and to its link, and to the   *)
(* breaker that the others share.                                          *)
RunMoves(a, r, l) ==
    /\ run' = [run EXCEPT ![a] = r] /\ r \in Runs
    /\ link' = [link EXCEPT ![a] = l] /\ l \in Links
    /\ cancel' \in [Runners -> BOOLEAN]
    /\ quit' \in BOOLEAN
    /\ failures' \in 0 .. MaxRetries + 1
    /\ gaveUp' \in BOOLEAN
    /\ gaveUp => gaveUp'
    /\ OnceLate(r, gaveUp') /\ Tells(r, l)

LEMMA MovesKeepRunInv ==
    ASSUME RunInv, NEW a \in Runners, NEW CONSTANT r, NEW CONSTANT l, RunMoves(a, r, l)
    PROVE  RunInv'
<1> USE DEF RunInv, RunMoves
<1>1. /\ run \in [Runners -> Runs] /\ link \in [Runners -> Links]
    BY DEF ModelRun!TypeOK, ModelRun!LateCap, Runs, Pcs, Modes, Links
<1>2. run' \in [Runners -> Runs] /\ link' \in [Runners -> Links]
    BY <1>1
<1>3. ModelRun!TypeOK'
    BY <1>2 DEF ModelRun!TypeOK, ModelRun!LateCap, Runs, Pcs, Modes, Links
<1>4. ASSUME NEW b \in Runners PROVE OnceLate(run'[b], gaveUp') /\ Tells(run'[b], link'[b])
    <2>1. CASE b = a
        BY <2>1, <1>1 DEF OnceLate, Tells
    <2>2. CASE b # a
        <3>1. run'[b] = run[b] /\ link'[b] = link[b]
            BY <2>2, <1>1
        <3> QED BY <3>1 DEF OnceLate, Tells
    <2> QED BY <2>1, <2>2
<1> QED BY <1>3, <1>4

LEMMA BreakerType ==
    ASSUME ModelRun!ConstantsOK, ModelRun!TypeOK
    PROVE  /\ failures \in 0 .. MaxRetries + 1 /\ gaveUp \in BOOLEAN
           /\ ModelRun!RecordFailure \/ ModelRun!RecordSuccess \/ UNCHANGED <<failures, gaveUp>>
              => failures' \in 0 .. MaxRetries + 1 /\ gaveUp' \in BOOLEAN /\ (gaveUp => gaveUp')
<1> USE DEF ModelRun!ConstantsOK, ModelRun!TypeOK
<1>1. CASE ModelRun!RecordFailure
    BY <1>1 DEF ModelRun!RecordFailure
<1>2. CASE ModelRun!RecordSuccess
    BY <1>2 DEF ModelRun!RecordSuccess
<1>3. CASE UNCHANGED <<failures, gaveUp>>
    BY <1>3
<1> QED BY <1>1, <1>2, <1>3

LEMMA RunType ==
    ASSUME ModelRun!TypeOK, NEW a \in Runners
    PROVE  /\ run[a] \in Runs /\ link[a] \in Links
           /\ quit \in BOOLEAN /\ cancel \in [Runners -> BOOLEAN]
           /\ [cancel EXCEPT ![a] = FALSE] \in [Runners -> BOOLEAN]
           /\ [cancel EXCEPT ![a] = TRUE] \in [Runners -> BOOLEAN]
BY DEF ModelRun!TypeOK, ModelRun!LateCap, Runs, Pcs, Modes, Links

(* The records a run passes through are runs.                              *)
LEMMA RecordsOfRuns ==
    ASSUME NEW r \in Runs, NEW p \in Pcs
    PROVE  /\ [r EXCEPT !.pc = p] \in Runs
           /\ \A l \in 0 .. 2 : [r EXCEPT !.pc = p, !.late = l] \in Runs
           /\ \A t \in 0 .. MaxTransport, l \in 0 .. 2 :
                 [r EXCEPT !.pc = p, !.transport = t, !.late = l] \in Runs
           /\ \A t \in 0 .. MaxTransport : [r EXCEPT !.pc = p, !.transport = t] \in Runs
           /\ \A n \in 0 .. MaxRetries : [r EXCEPT !.pc = p, !.retries = n] \in Runs
           /\ \A m \in Modes : [r EXCEPT !.pc = p, !.mode = m] \in Runs
           /\ \A m \in Modes, g \in 0 .. MaxNudges :
                 [r EXCEPT !.pc = p, !.mode = m, !.nudges = g] \in Runs
BY DEF Runs

LEMMA RunFields ==
    ASSUME ModelRun!ConstantsOK, NEW r \in Runs
    PROVE  /\ ModelRun!Idle \in Runs
           /\ r.pc \in Pcs /\ r.mode \in Modes /\ r.late \in 0 .. 2
           /\ 0 \in 0 .. MaxTransport
           /\ r.retries # MaxRetries => r.retries + 1 \in 0 .. MaxRetries
           /\ r.transport # MaxTransport => r.transport + 1 \in 0 .. MaxTransport
           /\ r.nudges < MaxNudges => r.nudges + 1 \in 0 .. MaxNudges
<1>1. r.pc \in Pcs /\ r.mode \in Modes /\ r.late \in 0 .. 2 /\ r.retries \in 0 .. MaxRetries
      /\ r.transport \in 0 .. MaxTransport /\ r.nudges \in 0 .. MaxNudges
    BY DEF Runs
<1>2. 0 \in 0 .. MaxRetries /\ 0 \in 0 .. MaxTransport /\ 0 \in 0 .. MaxNudges
    BY DEF ModelRun!ConstantsOK
<1>3. ModelRun!Idle \in Runs
    BY <1>2 DEF Runs, ModelRun!Idle, Pcs, Modes
<1> QED BY <1>1, <1>2, <1>3 DEF ModelRun!ConstantsOK

LEMMA LinksOfRuns ==
    ASSUME NEW l \in Links
    PROVE  /\ ModelRun!FreshSession \in Links /\ ModelRun!NoLink \in Links
           /\ [l EXCEPT !.child = "exited"] \in Links
           /\ \A b \in BOOLEAN : [l EXCEPT !.told = b] \in Links
           /\ l.told \in BOOLEAN
BY DEF Links, ModelRun!FreshSession, ModelRun!NoLink

LEMMA SameLink ==
    ASSUME ModelRun!TypeOK, NEW a \in Runners
    PROVE  link = [link EXCEPT ![a] = link[a]] /\ run = [run EXCEPT ![a] = run[a]]
BY DEF ModelRun!TypeOK

(* A run that returns after a failure, whatever became of its child.       *)
LEMMA FailKeepsRunInv ==
    ASSUME ModelRun!ConstantsOK, RunInv, NEW a \in Runners, NEW CONSTANT l \in Links,
           ModelRun!Fail(a), link' = [link EXCEPT ![a] = l], quit' \in BOOLEAN,
           ModelRun!RecordFailure \/ UNCHANGED <<failures, gaveUp>>
    PROVE  RunInv'
<1> DEFINE r == [ModelRun!Idle EXCEPT !.pc = "idle"]
<1>1. r \in Runs /\ r.pc = "idle" /\ r.mode = "task" /\ r.late = 0
    BY RunType, RunFields DEF RunInv, ModelRun!Idle
<1>2. run' = [run EXCEPT ![a] = r] /\ cancel' = [cancel EXCEPT ![a] = FALSE]
    BY DEF ModelRun!Fail, ModelRun!Return, ModelRun!Step
<1> HIDE DEF r
<1>3. RunMoves(a, r, l)
    BY <1>1, <1>2, RunType, BreakerType DEF RunMoves, RunInv, OnceLate, Tells
<1> QED BY <1>3, MovesKeepRunInv

(* A run that goes on with record r.                                       *)
LEMMA GoOnKeepsRunInv ==
    ASSUME ModelRun!ConstantsOK, RunInv, NEW a \in Runners, NEW CONSTANT r \in Runs, NEW CONSTANT l \in Links,
           ModelRun!GoOn(a, r), link' = [link EXCEPT ![a] = l], quit' \in BOOLEAN,
           ModelRun!RecordFailure \/ ModelRun!RecordSuccess \/ UNCHANGED <<failures, gaveUp>>,
           OnceLate(r, gaveUp'), Tells(r, l)
    PROVE  RunInv'
<1>1. run' = [run EXCEPT ![a] = r] /\ cancel' = cancel
    BY DEF ModelRun!GoOn, ModelRun!Step
<1>2. RunMoves(a, r, l)
    BY <1>1, RunType, BreakerType DEF RunMoves, RunInv
<1> QED BY <1>2, MovesKeepRunInv

(* The ladders: each failure ends the run, or takes one more try of its    *)
(* task.                                                                   *)
LEMMA EndpointFailureKeepsRunInv ==
    ASSUME ModelRun!ConstantsOK, RunInv, NEW a \in Runners, run[a].pc = "inflight", run[a].mode = "task",
           NEW CONSTANT l \in Links, link' = [link EXCEPT ![a] = l], UNCHANGED quit,
           ModelRun!EndpointFailure(a)
    PROVE  RunInv'
<1> USE DEF RunInv
<1>0. run[a] \in Runs /\ quit' \in BOOLEAN
    BY RunType
<1>1. ModelRun!RecordFailure /\ (gaveUp => gaveUp')
    BY BreakerType DEF ModelRun!EndpointFailure
<1>2. CASE ModelRun!Fail(a)
    BY <1>0, <1>1, <1>2, FailKeepsRunInv
<1>3. CASE ~gaveUp' /\ run[a].retries # MaxRetries
    <2> DEFINE r == [run[a] EXCEPT !.pc = "backoff", !.retries = @ + 1]
    <2>1. r \in Runs
        <3>1. run[a].retries + 1 \in 0 .. MaxRetries /\ "backoff" \in Pcs
            BY <1>0, <1>3, RunFields DEF Pcs
        <3> QED BY <1>0, <3>1, RecordsOfRuns
    <2>2. ModelRun!GoOn(a, r)
        BY <1>3 DEF ModelRun!EndpointFailure
    <2>3. OnceLate(r, gaveUp') /\ Tells(r, l)
        BY <1>0, <1>1, <1>3 DEF OnceLate, Tells, Runs, Pcs, Modes
    <2> HIDE DEF r
    <2> QED BY <1>0, <1>1, <2>1, <2>2, <2>3, GoOnKeepsRunInv
<1> QED BY <1>2, <1>3 DEF ModelRun!EndpointFailure

LEMMA TransportFailureKeepsRunInv ==
    ASSUME ModelRun!ConstantsOK, RunInv, NEW a \in Runners, run[a].pc = "inflight",
           NEW CONSTANT l \in Links, link' = [link EXCEPT ![a] = l], UNCHANGED quit,
           ModelRun!TransportFailure(a)
    PROVE  RunInv'
<1> USE DEF RunInv
<1>0. run[a] \in Runs /\ quit' \in BOOLEAN
    BY RunType
<1>1. CASE run[a].mode = "repair"
    <2>1. ModelRun!RecordFailure /\ ModelRun!Fail(a)
        BY <1>1 DEF ModelRun!TransportFailure, ModelRun!RepairFailure
    <2> QED BY <1>0, <2>1, FailKeepsRunInv
<1>2. CASE run[a].mode = "task" /\ run[a].transport = MaxTransport
    BY <1>2, EndpointFailureKeepsRunInv DEF ModelRun!TransportFailure
<1>3. CASE run[a].mode = "task" /\ run[a].transport # MaxTransport
    <2> DEFINE r == [run[a] EXCEPT !.pc = "respawn", !.transport = @ + 1]
    <2>1. r \in Runs
        <3>1. run[a].transport + 1 \in 0 .. MaxTransport /\ "respawn" \in Pcs
            BY <1>0, <1>3, RunFields DEF Pcs
        <3> QED BY <1>0, <3>1, RecordsOfRuns
    <2>2. ModelRun!GoOn(a, r) /\ UNCHANGED <<failures, gaveUp>>
        BY <1>3 DEF ModelRun!TransportFailure, ModelRun!breaker
    <2>3. OnceLate(r, gaveUp') /\ Tells(r, l)
        BY <1>0, <1>3, <2>2 DEF OnceLate, Tells, Runs, Pcs, Modes
    <2> HIDE DEF r
    <2> QED BY <1>0, <2>1, <2>2, <2>3, GoOnKeepsRunInv
<1> QED BY <1>0, <1>1, <1>2, <1>3 DEF Runs, Modes

(* One action of the run of a.                                             *)
LEMMA ProgressKeepsRunInv ==
    ASSUME ModelRun!ConstantsOK, RunInv, NEW a \in Runners, ModelRun!Progress(a)
    PROVE  RunInv'
<1> USE DEF RunInv
<1> DEFINE R == run[a]
           L == link[a]
           late == ModelRun!Late(a)
<1>0. /\ R \in Runs /\ L \in Links /\ quit \in BOOLEAN
      /\ OnceLate(R, gaveUp) /\ Tells(R, L) /\ gaveUp \in BOOLEAN
      /\ link = [link EXCEPT ![a] = L]
    BY RunType, SameLink, BreakerType
<1>1. /\ R.pc \in Pcs /\ R.mode \in Modes /\ R.late \in 0 .. 2 /\ 0 \in 0 .. MaxTransport
      /\ R.nudges < MaxNudges => R.nudges + 1 \in 0 .. MaxNudges
    BY <1>0, RunFields
<1>2. /\ ModelRun!FreshSession \in Links /\ ModelRun!NoLink \in Links
      /\ \A b \in BOOLEAN : [L EXCEPT !.told = b] \in Links
      /\ L.told \in BOOLEAN
    BY <1>0, LinksOfRuns
<1>3. R.pc = "attempt" \/ ~gaveUp => R.late = 0
    BY <1>0, <1>1 DEF OnceLate
<1>4. R.late = 0 => late \in 0 .. 1 /\ (late = 1 => gaveUp)
    BY DEF ModelRun!Late, ModelRun!LateCap
<1> HIDE DEF late
<1>5. CASE ModelRun!Rotate(a)
    <2> USE <1>5 DEF ModelRun!Rotate
    <2>0. UNCHANGED <<failures, gaveUp>> /\ quit' \in BOOLEAN
        BY <1>0 DEF ModelRun!breaker
    <2>1. CASE ModelRun!Fail(a)
        <3>1. PICK l \in Links : link' = [link EXCEPT ![a] = l]
            BY <1>2
        <3> QED BY <2>0, <2>1, <3>1, FailKeepsRunInv
    <2>2. CASE /\ link' = [link EXCEPT ![a] = ModelRun!FreshSession]
               /\ ModelRun!GoOn(a, [R EXCEPT !.pc = "prompt", !.transport = 0, !.late = late])
        <3> DEFINE r == [R EXCEPT !.pc = "prompt", !.transport = 0, !.late = late]
        <3>1. r \in Runs
            <4>1. late \in 0 .. 2 /\ "prompt" \in Pcs
                BY <1>3, <1>4 DEF Pcs
            <4> QED BY <1>0, <1>1, <4>1, RecordsOfRuns
        <3>2. R.mode = "task"
            BY <1>0, <1>1 DEF Tells, Modes
        <3>3. OnceLate(r, gaveUp') /\ Tells(r, ModelRun!FreshSession)
            BY <1>0, <1>3, <1>4, <2>0, <3>2 DEF OnceLate, Tells, Runs
        <3> HIDE DEF r
        <3> QED BY <1>2, <2>0, <2>2, <3>1, <3>3, GoOnKeepsRunInv DEF r
    <2> QED BY <2>1, <2>2 DEF late
<1>6. CASE ModelRun!Send(a)
    <2> USE <1>6 DEF ModelRun!Send
    <2>0. UNCHANGED <<failures, gaveUp>> /\ quit' \in BOOLEAN
        BY <1>0 DEF ModelRun!breaker
    <2>1. CASE quit
        BY <1>2, <2>0, <2>1, FailKeepsRunInv
    <2>2. CASE ~quit
        <3> DEFINE r == [R EXCEPT !.pc = "inflight"]
                   l == [L EXCEPT !.told = @ \/ R.mode = "task"]
        <3>1. r \in Runs
            BY <1>0, RecordsOfRuns DEF Pcs
        <3>2. l \in Links /\ l.told
            BY <1>0, <1>1, <1>2 DEF Tells, Modes, Links
        <3>3. OnceLate(r, gaveUp') /\ Tells(r, l)
            BY <1>0, <2>0, <3>2 DEF OnceLate, Tells, Runs
        <3>4. ModelRun!GoOn(a, r) /\ link' = [link EXCEPT ![a] = l]
            BY <2>2 DEF ModelRun!Goto
        <3> HIDE DEF r, l
        <3> QED BY <2>0, <3>1, <3>2, <3>3, <3>4, GoOnKeepsRunInv
    <2> QED BY <2>1, <2>2
<1>7. CASE ModelRun!ChildGone(a)
    BY <1>2, <1>7, TransportFailureKeepsRunInv DEF ModelRun!ChildGone
<1>8. CASE ModelRun!PromptFails(a)
    <2>1. link' = [link EXCEPT ![a] = L]
        BY <1>0, <1>8 DEF ModelRun!PromptFails
    <2> QED BY <1>0, <1>8, <2>1, TransportFailureKeepsRunInv DEF ModelRun!PromptFails
<1>9. CASE ModelRun!LoopError(a)
    <2> USE <1>9 DEF ModelRun!LoopError
    <2>1. link' = [link EXCEPT ![a] = L] /\ quit' \in BOOLEAN
        BY <1>0
    <2>2. CASE R.mode = "repair"
        BY <1>0, <2>1, <2>2, FailKeepsRunInv DEF ModelRun!RepairFailure
    <2>3. CASE R.mode = "task"
        BY <1>0, <2>1, <2>3, EndpointFailureKeepsRunInv
    <2> QED BY <1>1, <2>2, <2>3 DEF Modes
<1>10. CASE ModelRun!Answer(a)
    <2> USE <1>10 DEF ModelRun!Answer
    <2>1. /\ link' = [link EXCEPT ![a] = L] /\ quit' \in BOOLEAN
          /\ ModelRun!RecordSuccess /\ gaveUp' = gaveUp /\ L.told
        BY <1>0 DEF ModelRun!RecordSuccess, Tells
    <2>2. CASE ModelRun!Return(a, "answered")
        <3> DEFINE r == [ModelRun!Idle EXCEPT !.pc = "answered"]
        <3>1. r \in Runs /\ r.mode = "task" /\ r.late = 0
            BY <1>0, RunFields, RecordsOfRuns DEF Pcs, ModelRun!Idle
        <3>2. OnceLate(r, gaveUp') /\ Tells(r, L)
            BY <2>1, <3>1 DEF OnceLate, Tells
        <3>3. run' = [run EXCEPT ![a] = r] /\ cancel' = [cancel EXCEPT ![a] = FALSE]
            BY <2>2 DEF ModelRun!Return, ModelRun!Step
        <3> HIDE DEF r
        <3>4. RunMoves(a, r, L)
            BY <1>0, <2>1, <3>1, <3>2, <3>3, RunType, BreakerType DEF RunMoves
        <3> QED BY <3>4, MovesKeepRunInv
    <2>3. CASE /\ R.nudges < MaxNudges
               /\ ModelRun!GoOn(a, [R EXCEPT !.pc = "repair", !.mode = "repair", !.nudges = @ + 1])
        <3> DEFINE r == [R EXCEPT !.pc = "repair", !.mode = "repair", !.nudges = @ + 1]
        <3>1. r \in Runs
            <4>1. R.nudges + 1 \in 0 .. MaxNudges /\ "repair" \in Pcs /\ "repair" \in Modes
                BY <1>1, <2>3 DEF Pcs, Modes
            <4> QED BY <1>0, <4>1, RecordsOfRuns
        <3>2. OnceLate(r, gaveUp') /\ Tells(r, L)
            BY <1>0, <2>1 DEF OnceLate, Tells, Runs
        <3>3. ModelRun!GoOn(a, r)
            BY <2>3
        <3> HIDE DEF r
        <3> QED BY <1>0, <2>1, <3>1, <3>2, <3>3, GoOnKeepsRunInv
    <2> QED BY <2>2, <2>3
<1>11. CASE ModelRun!Interrupt(a)
    BY <1>0, <1>2, <1>11, FailKeepsRunInv DEF ModelRun!Interrupt, ModelRun!breaker
<1>12. CASE ModelRun!Respawn(a)
    <2> USE <1>12 DEF ModelRun!Respawn
    <2>0. UNCHANGED <<failures, gaveUp>> /\ quit' \in BOOLEAN
        BY <1>0 DEF ModelRun!breaker
    <2>1. CASE ModelRun!Fail(a) /\ link' = [link EXCEPT ![a] = ModelRun!NoLink]
        BY <1>2, <2>0, <2>1, FailKeepsRunInv
    <2>2. CASE /\ ModelRun!Goto(a, "prompt")
               /\ link' = [link EXCEPT ![a] = IF @.child = "up" THEN @ ELSE ModelRun!FreshSession]
        <3> DEFINE r == [R EXCEPT !.pc = "prompt"]
                   l == IF L.child = "up" THEN L ELSE ModelRun!FreshSession
        <3>1. r \in Runs /\ l \in Links
            BY <1>0, <1>2, RecordsOfRuns DEF Pcs
        <3>2. R.mode = "task"
            BY <1>0, <1>1 DEF Tells, Modes
        <3>3. OnceLate(r, gaveUp') /\ Tells(r, l)
            BY <1>0, <2>0, <3>2 DEF OnceLate, Tells, Runs
        <3>4. ModelRun!GoOn(a, r) /\ link' = [link EXCEPT ![a] = l]
            BY <2>2 DEF ModelRun!Goto
        <3> HIDE DEF r, l
        <3> QED BY <2>0, <3>1, <3>3, <3>4, GoOnKeepsRunInv
    <2> QED BY <2>1, <2>2
<1>13. CASE ModelRun!BackoffEnds(a)
    <2> USE <1>13 DEF ModelRun!BackoffEnds
    <2>0. /\ UNCHANGED <<failures, gaveUp>> /\ quit' \in BOOLEAN
          /\ link' = [link EXCEPT ![a] = L]
        BY <1>0 DEF ModelRun!breaker
    <2>1. CASE ModelRun!Fail(a)
        BY <1>0, <2>0, <2>1, FailKeepsRunInv
    <2>2. CASE ModelRun!Goto(a, "attempt")
        <3> DEFINE r == [R EXCEPT !.pc = "attempt"]
        <3>1. r \in Runs
            BY <1>0, RecordsOfRuns DEF Pcs
        <3>2. OnceLate(r, gaveUp') /\ Tells(r, L)
            BY <1>0, <1>1, <2>0 DEF OnceLate, Tells, Runs, Modes
        <3>3. ModelRun!GoOn(a, r)
            BY <2>2 DEF ModelRun!Goto
        <3> HIDE DEF r
        <3> QED BY <1>0, <2>0, <3>1, <3>2, <3>3, GoOnKeepsRunInv
    <2> QED BY <2>1, <2>2
<1>14. CASE ModelRun!Repair(a)
    <2> USE <1>14 DEF ModelRun!Repair
    <2>0. /\ UNCHANGED <<failures, gaveUp>> /\ quit' \in BOOLEAN
          /\ link' = [link EXCEPT ![a] = L]
        BY <1>0 DEF ModelRun!breaker
    <2>1. CASE gaveUp
        BY <1>0, <2>0, <2>1, FailKeepsRunInv
    <2>2. CASE ~gaveUp
        <3> DEFINE r == [R EXCEPT !.pc = "prompt", !.late = late]
        <3>1. r \in Runs /\ late = 0
            <4>1. late = 0 /\ late \in 0 .. 2 /\ "prompt" \in Pcs
                BY <1>3, <1>4, <2>2 DEF Pcs
            <4> QED BY <1>0, <4>1, RecordsOfRuns
        <3>2. OnceLate(r, gaveUp') /\ Tells(r, L)
            BY <1>0, <2>0, <3>1 DEF OnceLate, Tells, Runs
        <3>3. ModelRun!GoOn(a, r)
            BY <2>2 DEF late
        <3> HIDE DEF r
        <3> QED BY <1>0, <2>0, <3>1, <3>2, <3>3, GoOnKeepsRunInv
    <2> QED BY <2>1, <2>2
<1> QED
    BY <1>5, <1>6, <1>7, <1>8, <1>9, <1>10, <1>11, <1>12, <1>13, <1>14 DEF ModelRun!Progress

LEMMA InitRunInv == ModelRun!ConstantsOK /\ ModelRun!Init => RunInv
<1> SUFFICES ASSUME ModelRun!ConstantsOK, ModelRun!Init PROVE RunInv
    OBVIOUS
<1>1. ModelRun!Idle \in Runs /\ ModelRun!NoLink \in Links
    BY DEF ModelRun!ConstantsOK, Runs, Pcs, Modes, ModelRun!Idle, Links, ModelRun!NoLink
<1>2. ModelRun!TypeOK
    <2>1. run \in [Runners -> Runs] /\ link \in [Runners -> Links]
        BY <1>1 DEF ModelRun!Init
    <2>2. failures \in 0 .. MaxRetries + 1
        BY DEF ModelRun!ConstantsOK, ModelRun!Init
    <2> QED
      BY <2>1, <2>2 DEF ModelRun!ConstantsOK, ModelRun!Init, ModelRun!TypeOK, ModelRun!LateCap,
                Runs, Pcs, Modes, Links
<1> QED
    BY <1>2 DEF ModelRun!Init, RunInv, OnceLate, Tells, ModelRun!Idle, ModelRun!NoLink

LEMMA NextRunInv == ModelRun!ConstantsOK /\ RunInv /\ [ModelRun!Next]_modelRunVars => RunInv'
<1> SUFFICES ASSUME ModelRun!ConstantsOK, RunInv, [ModelRun!Next]_modelRunVars PROVE RunInv'
    OBVIOUS
<1> USE DEF RunInv
<1>1. ASSUME NEW a \in Runners, ModelRun!Begin(a) PROVE RunInv'
    <2> DEFINE r == [ModelRun!Idle EXCEPT !.pc = "attempt"]
    <2>1. r \in Runs /\ r.mode = "task" /\ r.late = 0 /\ r.pc = "attempt"
        BY RunType, RunFields, RecordsOfRuns DEF Pcs, ModelRun!Idle
    <2>2. OnceLate(r, gaveUp') /\ Tells(r, link[a])
        BY <2>1 DEF OnceLate, Tells
    <2>3. ModelRun!GoOn(a, r) /\ UNCHANGED <<failures, gaveUp>> /\ link' = [link EXCEPT ![a] = link[a]]
          /\ quit' \in BOOLEAN /\ link[a] \in Links
        BY <1>1, RunType, SameLink DEF ModelRun!Begin, ModelRun!GoOn, ModelRun!breaker
    <2> HIDE DEF r
    <2> QED BY <2>1, <2>2, <2>3, GoOnKeepsRunInv
<1>2. ASSUME NEW a \in Runners, ModelRun!Continue(a) PROVE RunInv'
    <2> DEFINE r == [ModelRun!Idle EXCEPT !.pc = "repair", !.mode = "repair"]
    <2>1. r \in Runs /\ r.mode = "repair" /\ r.late = 0 /\ r.pc = "repair"
        <3>1. "repair" \in Pcs /\ "repair" \in Modes
            BY DEF Pcs, Modes
        <3>2. ModelRun!Idle \in Runs
            BY RunType, RunFields
        <3> QED BY <3>1, <3>2, RecordsOfRuns DEF ModelRun!Idle
    <2>2. OnceLate(r, gaveUp') /\ Tells(r, link[a])
        BY <1>2, <2>1 DEF OnceLate, Tells, ModelRun!Continue
    <2>3. ModelRun!GoOn(a, r) /\ UNCHANGED <<failures, gaveUp>> /\ link' = [link EXCEPT ![a] = link[a]]
          /\ quit' \in BOOLEAN /\ link[a] \in Links
        BY <1>2, RunType, SameLink DEF ModelRun!Continue, ModelRun!GoOn, ModelRun!breaker
    <2> HIDE DEF r
    <2> QED BY <2>1, <2>2, <2>3, GoOnKeepsRunInv
<1>3. ASSUME NEW a \in Runners, ModelRun!ChildExits(a) PROVE RunInv'
    <2> DEFINE l == [link[a] EXCEPT !.child = "exited"]
    <2>1. l \in Links /\ l.told = link[a].told /\ run[a] \in Runs
        BY RunType, LinksOfRuns DEF Links
    <2>2. OnceLate(run[a], gaveUp') /\ Tells(run[a], l)
        BY <1>3, <2>1 DEF OnceLate, Tells, ModelRun!ChildExits, ModelRun!breaker
    <2>3. ModelRun!GoOn(a, run[a]) /\ UNCHANGED <<failures, gaveUp>> /\ link' = [link EXCEPT ![a] = l]
          /\ quit' \in BOOLEAN
        BY <1>3, RunType, SameLink DEF ModelRun!ChildExits, ModelRun!GoOn, ModelRun!Step, ModelRun!breaker
    <2> HIDE DEF l
    <2> QED BY <2>1, <2>2, <2>3, GoOnKeepsRunInv
<1>4. ASSUME NEW a \in Runners, ModelRun!CancelTask(a) PROVE RunInv'
    BY <1>4, RunType DEF ModelRun!CancelTask, ModelRun!breaker, ModelRun!TypeOK, OnceLate, Tells
<1>5. CASE ModelRun!Shutdown
    BY <1>5 DEF ModelRun!Shutdown, ModelRun!breaker, ModelRun!TypeOK, OnceLate, Tells
<1>6. CASE UNCHANGED modelRunVars
    BY <1>6 DEF modelRunVars, ModelRun!TypeOK, OnceLate, Tells
<1> QED
    BY <1>1, <1>2, <1>3, <1>4, <1>5, <1>6, ProgressKeepsRunInv DEF ModelRun!Next

(* Once the endpoint is given up on, a run under way begins at most one    *)
(* more attempt or repair, and a repair prompt goes only to a session that *)
(* was told the task, for any number of agents and any length of the       *)
(* ladders.                                                                *)
THEOREM RepairsStaySound == Spec => []RepairsAreSound
<1>1. Init => RunInv
    BY ConstantsOK, InitRunInv DEF Init
<1>2. RunInv /\ [Next]_vars => RunInv'
    BY ConstantsOK, StepsApart, NextRunInv
<1>3. RunInv => RepairsAreSound
    BY DEF RunInv, RepairsAreSound, ModelRun!NoChurnAfterGiveUp, ModelRun!RepairHasContext,
           OnceLate, Tells
<1> QED BY <1>1, <1>2, <1>3, PTL DEF Spec
-----------------------------------------------------------------------------
(* The connection to an ACP child.                                         *)

Numbers == 1 .. MaxRequests + 1
Writers == {"on", "ended"}
Readers == {"head", "read", "hook", "ended"}
Conns == [fresh : BOOLEAN, open : BOOLEAN, stop : BOOLEAN, next : Numbers,
          writer : Writers, reader : Readers]
Lines == 0 .. MaxRequests + 1
Children == [up : BOOLEAN, asked : SUBSET AcpClient!Requests, calls : 0 .. MaxCalls,
             lines : Seq(Lines)]
Places == {"idle", "call", "monitor", "dispose", "closeWriter", "closeReader",
           "grace", "return", "done"}
Prompts == {"none", "wait", "told", "closeWriter", "closeReader"}

(* Who is past its own use of the client holds it no longer.               *)
HoldersUseIt ==
    /\ at \in {"closeWriter", "closeReader", "grace", "return", "done"} => "session" \notin refs
    /\ "prompt" \in refs => prompt \in {"wait", "told"}

(* The reader is joined after the writer, and a child whose client nobody  *)
(* holds is not given its grace before somebody has joined the writer.     *)
WriterFirst ==
    /\ at = "closeReader" \/ prompt = "closeReader" => conn.writer = "ended"
    /\ at = "grace" /\ refs = {} /\ prompt # "closeWriter" => conn.writer = "ended"

ClientInv ==
    /\ AcpClient!TypeOK
    /\ AcpClient!AnswersMatch
    /\ HoldersUseIt
    /\ WriterFirst

LEMMA ClientTypes ==
    AcpClient!TypeOK <=>
        /\ at \in Places /\ prompt \in Prompts
        /\ waits \in [agent : 0 .. MaxRequests, prompt : 0 .. MaxRequests]
        /\ refs \subseteq {"session", "monitor", "prompt"}
        /\ conn \in Conns
        /\ pending \subseteq AcpClient!Requests
        /\ got \subseteq AcpClient!Requests \X AcpClient!Requests
        /\ child \in Children
BY DEF AcpClient!TypeOK, Places, Prompts, Conns, Numbers, Writers, Readers, Children, Lines

LEMMA ClientConstants ==
    ASSUME AcpClient!ConstantsOK
    PROVE  /\ MaxRequests \in Nat /\ MaxCalls \in Nat
           /\ AcpClient!CallLine \in Lines /\ AcpClient!Garbage \in Lines
           /\ \A n \in AcpClient!Requests :
                 n \in Lines /\ n \in 0 .. MaxRequests /\ n \in Numbers /\ n + 1 \in Numbers
BY DEF AcpClient!ConstantsOK, AcpClient!CallLine, AcpClient!Garbage, AcpClient!Requests,
       Lines, Numbers

LEMMA ConnRecords ==
    ASSUME NEW c \in Conns
    PROVE  /\ c.fresh \in BOOLEAN /\ c.open \in BOOLEAN /\ c.stop \in BOOLEAN
           /\ c.next \in Numbers /\ c.writer \in Writers /\ c.reader \in Readers
           /\ \A b \in BOOLEAN : [c EXCEPT !.fresh = b] \in Conns
           /\ [c EXCEPT !.stop = TRUE, !.open = FALSE] \in Conns
           /\ [c EXCEPT !.writer = "ended"] \in Conns
           /\ \A n \in Numbers, w \in Writers : [c EXCEPT !.next = n, !.writer = w] \in Conns
           /\ \A r \in Readers : [c EXCEPT !.reader = r] \in Conns
<1>1. /\ c.fresh \in BOOLEAN /\ c.open \in BOOLEAN /\ c.stop \in BOOLEAN
      /\ c.next \in Numbers /\ c.writer \in Writers /\ c.reader \in Readers
    BY DEF Conns
<1>2. "ended" \in Writers
    BY DEF Writers
<1> QED BY <1>1, <1>2 DEF Conns

LEMMA ChildRecords ==
    ASSUME NEW c \in Children
    PROVE  /\ c.up \in BOOLEAN /\ c.asked \subseteq AcpClient!Requests /\ c.calls \in 0 .. MaxCalls
           /\ c.lines \in Seq(Lines)
           /\ [c EXCEPT !.up = FALSE] \in Children
           /\ \A a \in SUBSET AcpClient!Requests : [c EXCEPT !.asked = a] \in Children
           /\ \A l \in Seq(Lines) : [c EXCEPT !.lines = l] \in Children
           /\ \A a \in SUBSET AcpClient!Requests, l \in Seq(Lines) :
                 [c EXCEPT !.asked = a, !.lines = l] \in Children
           /\ \A n \in 0 .. MaxCalls, l \in Seq(Lines) :
                 [c EXCEPT !.calls = n, !.lines = l] \in Children
<1>1. /\ c.up \in BOOLEAN /\ c.asked \in SUBSET AcpClient!Requests /\ c.calls \in 0 .. MaxCalls
      /\ c.lines \in Seq(Lines)
    BY DEF Children
<1> HIDE DEF Lines
<1> QED BY <1>1 DEF Children

(* A request is recorded under its number, and leaves an ended writer so.  *)
LEMMA SendsTypes ==
    ASSUME AcpClient!ConstantsOK, AcpClient!TypeOK, NEW who \in {"agent", "prompt"},
           AcpClient!Sends(who)
    PROVE  /\ waits' \in [agent : 0 .. MaxRequests, prompt : 0 .. MaxRequests]
           /\ pending' \subseteq AcpClient!Requests
           /\ conn' \in Conns /\ child' \in Children
           /\ conn.writer = "on"
<1>1. /\ conn \in Conns /\ child \in Children /\ pending \subseteq AcpClient!Requests
      /\ waits \in [agent : 0 .. MaxRequests, prompt : 0 .. MaxRequests]
    BY ClientTypes
<1>2. conn.next \in AcpClient!Requests /\ conn.writer = "on"
    BY DEF AcpClient!Sends
<1>3. conn.next \in 0 .. MaxRequests /\ conn.next + 1 \in Numbers
    BY <1>2, ClientConstants
<1>4. waits' = [waits EXCEPT ![who] = conn.next] /\ pending' = pending \cup {conn.next}
    BY DEF AcpClient!Sends
<1>5. waits' \in [agent : 0 .. MaxRequests, prompt : 0 .. MaxRequests]
    BY <1>1, <1>3, <1>4
<1>6. child' \in Children
    <2>1. child' = IF child.up THEN [child EXCEPT !.asked = @ \cup {conn.next}] ELSE child
        BY DEF AcpClient!Sends
    <2>2. child.asked \cup {conn.next} \in SUBSET AcpClient!Requests
        BY <1>1, <1>2, ChildRecords
    <2> QED BY <1>1, <2>1, <2>2, ChildRecords
<1>7. conn' \in Conns
    <2> DEFINE w == IF child.up THEN "on" ELSE "ended"
    <2>1. conn' = [conn EXCEPT !.next = conn.next + 1, !.writer = w]
        BY DEF AcpClient!Sends
    <2>2. w \in Writers
        BY DEF Writers
    <2> HIDE DEF w
    <2> QED BY <1>1, <1>3, <2>1, <2>2, ConnRecords
<1> QED BY <1>1, <1>2, <1>4, <1>5, <1>6, <1>7

LEMMA LetsGoTypes ==
    ASSUME AcpClient!TypeOK, NEW h, AcpClient!LetsGo(h)
    PROVE  conn' \in Conns /\ refs' = refs \ {h} /\ conn'.writer = conn.writer
<1>1. conn \in Conns
    BY ClientTypes
<1>2. CASE AcpClient!Closing
    <2>1. conn' = [conn EXCEPT !.stop = TRUE, !.open = FALSE]
        BY <1>2 DEF AcpClient!Closing
    <2>2. conn'.writer = conn.writer
        BY <1>1, <2>1 DEF Conns
    <2> QED BY <1>1, <2>1, <2>2, ConnRecords DEF AcpClient!LetsGo
<1>3. CASE UNCHANGED conn
    BY <1>1, <1>3 DEF AcpClient!LetsGo
<1> QED BY <1>2, <1>3 DEF AcpClient!LetsGo

LEMMA ReaderTypes ==
    ASSUME AcpClient!TypeOK, NEW r \in Readers, AcpClient!Reader(r)
    PROVE  conn' \in Conns /\ conn'.writer = conn.writer
<1>1. conn \in Conns /\ conn' = [conn EXCEPT !.reader = r]
    BY ClientTypes DEF AcpClient!Reader
<1>2. conn'.writer = conn.writer
    BY <1>1 DEF Conns
<1> QED BY <1>1, <1>2, ConnRecords

(* The agent's thread.                                                     *)
LEMMA AgentKeepsClientInv ==
    ASSUME AcpClient!ConstantsOK, ClientInv,
           \/ AcpClient!Agent \/ AcpClient!Call \/ AcpClient!CallRefused \/ AcpClient!Prompt
           \/ AcpClient!MonitorReturns \/ AcpClient!MonitorStops \/ AcpClient!Retire
    PROVE  ClientInv'
<1>0. /\ at \in Places /\ prompt \in Prompts
      /\ waits \in [agent : 0 .. MaxRequests, prompt : 0 .. MaxRequests]
      /\ refs \subseteq {"session", "monitor", "prompt"}
      /\ conn \in Conns
      /\ pending \subseteq AcpClient!Requests
      /\ got \subseteq AcpClient!Requests \X AcpClient!Requests
      /\ child \in Children
      /\ AcpClient!TypeOK /\ AcpClient!AnswersMatch /\ HoldersUseIt /\ WriterFirst
    BY ClientTypes DEF ClientInv
<1> USE DEF HoldersUseIt, WriterFirst
<1> DEFINE Same == UNCHANGED <<waits, pending, got, child>>
<1>1. ASSUME AcpClient!TypeOK', UNCHANGED got, HoldersUseIt', WriterFirst' PROVE ClientInv'
    BY <1>0, <1>1 DEF ClientInv, AcpClient!AnswersMatch
<1>2. ASSUME at' \in Places, prompt' \in Prompts, refs' \subseteq {"session", "monitor", "prompt"},
             conn' \in Conns, waits' = waits, pending' \subseteq pending, got' = got, child' \in Children
      PROVE  AcpClient!TypeOK'
    BY <1>0, <1>2 DEF AcpClient!TypeOK, Places, Prompts, Conns, Numbers, Writers, Readers, Children, Lines
<1>3. CASE AcpClient!CallTimesOut \/ AcpClient!CallRefused
    <2>1. /\ AcpClient!CallFails /\ UNCHANGED <<prompt, waits, got, child>>
          /\ pending' \subseteq pending /\ at \in {"call", "idle"}
        BY <1>3 DEF AcpClient!CallTimesOut, AcpClient!CallRefused
    <2>2. CASE AcpClient!LetsGo("session") /\ at' = "closeWriter"
        <3>1. conn' \in Conns /\ refs' = refs \ {"session"} /\ conn'.writer = conn.writer
            BY <1>0, <2>2, LetsGoTypes
        <3>2. AcpClient!TypeOK'
            BY <1>0, <1>2, <2>1, <2>2, <3>1 DEF Places
        <3>3. HoldersUseIt' /\ WriterFirst'
            BY <1>0, <2>1, <2>2, <3>1
        <3> QED BY <1>1, <2>1, <3>2, <3>3
    <2>3. CASE at' = "idle" /\ UNCHANGED <<refs, conn>>
        <3>1. AcpClient!TypeOK'
            BY <1>0, <1>2, <2>1, <2>3 DEF Places
        <3>2. HoldersUseIt' /\ WriterFirst'
            BY <1>0, <2>1, <2>3
        <3> QED BY <1>1, <2>1, <3>1, <3>2
    <2> QED BY <2>1, <2>2, <2>3 DEF AcpClient!CallFails
<1>4. CASE AcpClient!CallAnswered
    <2> USE <1>4 DEF AcpClient!CallAnswered
    <2>1. conn' \in Conns /\ conn'.writer = conn.writer
        <3>1. PICK f \in BOOLEAN : conn' = [conn EXCEPT !.fresh = f]
            BY <1>0, ConnRecords
        <3>2. conn'.writer = conn.writer
            BY <1>0, <3>1 DEF Conns
        <3> QED BY <1>0, <3>1, <3>2, ConnRecords
    <2>2. AcpClient!TypeOK'
        BY <1>0, <1>2, <2>1 DEF Places
    <2>3. HoldersUseIt' /\ WriterFirst'
        BY <1>0, <2>1
    <2> QED BY <1>1, <2>2, <2>3
<1>5. CASE AcpClient!Dispose \/ AcpClient!Return
    <2>1. PICK h \in {"session", "monitor"} :
              /\ AcpClient!LetsGo(h) /\ UNCHANGED <<prompt, waits, pending, got, child>>
              /\ h = "session" \/ at = "return"
              /\ at' \in {"grace", "closeWriter", "done"}
              /\ at' = "grace" => refs' # {}
        BY <1>5 DEF AcpClient!Dispose, AcpClient!Return
    <2>2. conn' \in Conns /\ refs' = refs \ {h} /\ conn'.writer = conn.writer
        BY <1>0, <2>1, LetsGoTypes
    <2>3. AcpClient!TypeOK'
        BY <1>0, <1>2, <2>1, <2>2 DEF Places
    <2>4. HoldersUseIt' /\ WriterFirst'
        BY <1>0, <2>1, <2>2
    <2> QED BY <1>1, <2>1, <2>3, <2>4
<1>6. CASE AcpClient!Kill
    <2> USE <1>6 DEF AcpClient!Kill
    <2>1. child' \in Children
        BY <1>0, ChildRecords
    <2>2. AcpClient!TypeOK'
        BY <1>0, <1>2, <2>1 DEF Places
    <2>3. HoldersUseIt' /\ WriterFirst'
        BY <1>0
    <2> QED BY <1>1, <2>2, <2>3
<1>7. CASE AcpClient!AgentJoins
    <2> USE <1>7 DEF AcpClient!AgentJoins
    <2>1. AcpClient!TypeOK'
        BY <1>0, <1>2 DEF Places
    <2>2. HoldersUseIt' /\ WriterFirst'
        BY <1>0
    <2> QED BY <1>1, <2>1, <2>2
<1>8. CASE AcpClient!MonitorReturns \/ AcpClient!MonitorStops \/ AcpClient!Retire
    <2> USE <1>8 DEF AcpClient!MonitorReturns, AcpClient!MonitorStops, AcpClient!Retire
    <2>1. AcpClient!TypeOK'
        BY <1>0, <1>2 DEF Places
    <2>2. HoldersUseIt' /\ WriterFirst'
        BY <1>0
    <2> QED BY <1>1, <2>1, <2>2
<1>9. ASSUME NEW who \in {"agent", "prompt"}, AcpClient!Sends(who), at' \in {"call", "monitor"},
             prompt' \in {prompt, "wait"}, UNCHANGED got,
             refs' = refs \/ (prompt' = "wait" /\ refs' = refs \cup {"monitor", "prompt"})
      PROVE  ClientInv'
    <2>1. /\ waits' \in [agent : 0 .. MaxRequests, prompt : 0 .. MaxRequests]
          /\ pending' \subseteq AcpClient!Requests
          /\ conn' \in Conns /\ child' \in Children
          /\ conn.writer = "on"
        BY <1>0, <1>9, SendsTypes
    <2>2. AcpClient!TypeOK'
        BY <1>0, <1>9, <2>1
           DEF AcpClient!TypeOK, Places, Prompts, Conns, Numbers, Writers, Readers, Children, Lines
    <2>3. HoldersUseIt' /\ WriterFirst'
        BY <1>0, <1>9, <2>1
    <2> QED BY <1>1, <1>9, <2>2, <2>3
<1>10. CASE AcpClient!Call
    BY <1>9, <1>10 DEF AcpClient!Call
<1>11. CASE AcpClient!Prompt
    <2> USE <1>11 DEF AcpClient!Prompt
    <2>1. CASE AcpClient!Sends("prompt") /\ prompt' = "wait"
        BY <1>9, <2>1
    <2>2. CASE prompt' = "told" /\ UNCHANGED <<waits, conn, pending, child>>
        <3>1. AcpClient!TypeOK'
            BY <1>0, <1>2, <2>2 DEF Places, Prompts
        <3>2. HoldersUseIt' /\ WriterFirst'
            BY <1>0, <2>2
        <3> QED BY <1>1, <3>1, <3>2
    <2> QED BY <2>1, <2>2
<1> QED
    BY <1>3, <1>4, <1>5, <1>6, <1>7, <1>8, <1>10, <1>11 DEF AcpClient!Agent

(* The prompt thread.                                                      *)
LEMMA PromptKeepsClientInv ==
    ASSUME ClientInv, AcpClient!PromptThread
    PROVE  ClientInv'
<1>0. /\ at \in Places /\ prompt \in Prompts
      /\ refs \subseteq {"session", "monitor", "prompt"}
      /\ conn \in Conns
      /\ AcpClient!TypeOK /\ AcpClient!AnswersMatch /\ HoldersUseIt /\ WriterFirst
    BY ClientTypes DEF ClientInv
<1> USE DEF HoldersUseIt, WriterFirst
<1>1. UNCHANGED <<at, waits, pending, got, child>> /\ prompt' \in Prompts
    BY DEF AcpClient!PromptThread, AcpClient!PromptAnswered, AcpClient!PromptEnds,
           AcpClient!PromptJoins, Prompts
<1>2. ASSUME refs' \subseteq refs, conn' \in Conns PROVE AcpClient!TypeOK' /\ AcpClient!AnswersMatch'
    BY <1>0, <1>1, <1>2
       DEF AcpClient!TypeOK, AcpClient!AnswersMatch, Prompts, Conns, Numbers, Writers, Readers
<1>3. CASE AcpClient!PromptEnds
    <2>1. conn' \in Conns /\ refs' = refs \ {"prompt"} /\ conn'.writer = conn.writer
        BY <1>0, <1>3, LetsGoTypes DEF AcpClient!PromptEnds
    <2>2. HoldersUseIt' /\ WriterFirst'
        BY <1>0, <1>1, <1>3, <2>1 DEF AcpClient!PromptEnds
    <2> QED BY <1>2, <2>1, <2>2 DEF ClientInv
<1>4. CASE AcpClient!PromptAnswered \/ AcpClient!PromptJoins
    <2> USE <1>4 DEF AcpClient!PromptAnswered, AcpClient!PromptJoins
    <2>1. HoldersUseIt' /\ WriterFirst'
        BY <1>0, <1>1
    <2> QED BY <1>0, <1>2, <2>1 DEF ClientInv
<1> QED BY <1>3, <1>4 DEF AcpClient!PromptThread

(* The writer, the reader and the child.                                   *)
LEMMA ChildKeepsClientInv ==
    ASSUME AcpClient!ConstantsOK, ClientInv,
           \/ AcpClient!WriterEnds \/ AcpClient!ReaderStep
           \/ \E r \in AcpClient!Requests : AcpClient!ChildAnswers(r)
           \/ AcpClient!ChildCalls \/ AcpClient!ChildGarbles
           \/ AcpClient!ChildDies \/ AcpClient!ChildExits
    PROVE  ClientInv'
<1>0. /\ conn \in Conns /\ child \in Children
      /\ pending \subseteq AcpClient!Requests
      /\ got \subseteq AcpClient!Requests \X AcpClient!Requests
      /\ AcpClient!TypeOK /\ AcpClient!AnswersMatch /\ HoldersUseIt /\ WriterFirst
    BY ClientTypes DEF ClientInv
<1> USE DEF HoldersUseIt, WriterFirst
<1>1. UNCHANGED <<at, prompt, waits, refs>>
    BY DEF AcpClient!WriterEnds, AcpClient!ReaderStep, AcpClient!ReaderLooks, AcpClient!ReaderReads,
           AcpClient!HookReturns, AcpClient!ReaderAtEnd, AcpClient!ChildAnswers, AcpClient!ChildCalls,
           AcpClient!ChildGarbles, AcpClient!ChildDies, AcpClient!ChildExits
<1>2. ASSUME conn' \in Conns, child' \in Children, conn'.writer \in {conn.writer, "ended"},
             pending' \subseteq pending,
             got' = got \/ \E n \in AcpClient!Requests : got' = got \cup {<<n, n>>}
      PROVE  ClientInv'
    <2>1. AcpClient!AnswersMatch'
        BY <1>0, <1>2 DEF AcpClient!AnswersMatch
    <2>2. got' \subseteq AcpClient!Requests \X AcpClient!Requests
        BY <1>0, <1>2
    <2>3. AcpClient!TypeOK'
        BY <1>0, <1>1, <1>2, <2>2
           DEF AcpClient!TypeOK, Conns, Numbers, Writers, Readers, Children, Lines
    <2>4. HoldersUseIt' /\ WriterFirst'
        BY <1>0, <1>1, <1>2
    <2> QED BY <2>1, <2>3, <2>4 DEF ClientInv
<1>3. CASE AcpClient!WriterEnds
    <2>1. conn' \in Conns /\ conn'.writer = "ended"
        <3>1. conn' = [conn EXCEPT !.writer = "ended"]
            BY <1>3 DEF AcpClient!WriterEnds
        <3>2. conn'.writer = "ended"
            BY <1>0, <3>1 DEF Conns
        <3> QED BY <1>0, <3>1, <3>2, ConnRecords
    <2> QED BY <1>0, <1>2, <1>3, <2>1 DEF AcpClient!WriterEnds
<1>4. CASE AcpClient!ReaderLooks \/ AcpClient!HookReturns \/ AcpClient!ReaderAtEnd
    <2>1. PICK r \in Readers : AcpClient!Reader(r) /\ UNCHANGED <<pending, got, child>>
        BY <1>4 DEF AcpClient!ReaderLooks, AcpClient!HookReturns, AcpClient!ReaderAtEnd, Readers
    <2> QED BY <1>0, <1>2, <2>1, ReaderTypes
<1>5. CASE AcpClient!ReaderReads
    <2>1. /\ child.lines # <<>> /\ child' = [child EXCEPT !.lines = Tail(@)]
          /\ \E r \in Readers : AcpClient!Reader(r)
          /\ \/ UNCHANGED <<pending, got>>
             \/ \E n \in AcpClient!Requests : AcpClient!Deliver(n)
        BY <1>5 DEF AcpClient!ReaderReads, Readers
    <2>2. child' \in Children
        <3>1. child.lines \in Seq(Lines)
            BY <1>0, ChildRecords
        <3>2. Tail(child.lines) \in Seq(Lines)
            BY <2>1, <3>1
        <3> QED BY <1>0, <2>1, <3>2, ChildRecords
    <2>3. conn' \in Conns /\ conn'.writer = conn.writer
        BY <1>0, <2>1, ReaderTypes
    <2>4. /\ pending' \subseteq pending
          /\ got' = got \/ \E n \in AcpClient!Requests : got' = got \cup {<<n, n>>}
        BY <2>1 DEF AcpClient!Deliver
    <2> QED BY <1>2, <2>2, <2>3, <2>4
<1>6. ASSUME UNCHANGED <<conn, pending, got>>, child' \in Children PROVE ClientInv'
    BY <1>0, <1>2, <1>6
<1>7. ASSUME NEW r \in AcpClient!Requests, AcpClient!ChildAnswers(r) PROVE ClientInv'
    <2>1. child' = [child EXCEPT !.asked = @ \ {r}, !.lines = Append(@, r)]
        BY <1>7 DEF AcpClient!ChildAnswers
    <2>2. child.asked \ {r} \in SUBSET AcpClient!Requests /\ Append(child.lines, r) \in Seq(Lines)
        <3>1. child.asked \subseteq AcpClient!Requests /\ child.lines \in Seq(Lines) /\ r \in Lines
            BY <1>0, <1>7, ChildRecords, ClientConstants
        <3> QED BY <3>1
    <2>3. child' \in Children
        BY <1>0, <2>1, <2>2, ChildRecords
    <2> QED BY <1>6, <1>7, <2>3 DEF AcpClient!ChildAnswers
<1>8. CASE AcpClient!ChildCalls
    <2>1. child' = [child EXCEPT !.calls = @ + 1, !.lines = Append(@, AcpClient!CallLine)]
          /\ child.calls < MaxCalls
        BY <1>8 DEF AcpClient!ChildCalls
    <2>2. child.calls + 1 \in 0 .. MaxCalls /\ Append(child.lines, AcpClient!CallLine) \in Seq(Lines)
        <3>1. /\ child.calls \in 0 .. MaxCalls /\ child.lines \in Seq(Lines)
              /\ AcpClient!CallLine \in Lines /\ MaxCalls \in Nat
            BY <1>0, ChildRecords, ClientConstants
        <3> QED BY <2>1, <3>1
    <2>3. child' \in Children
        BY <1>0, <2>1, <2>2, ChildRecords
    <2> QED BY <1>6, <1>8, <2>3 DEF AcpClient!ChildCalls
<1>9. CASE AcpClient!ChildGarbles
    <2>1. child' = [child EXCEPT !.lines = Append(@, AcpClient!Garbage)]
        BY <1>9 DEF AcpClient!ChildGarbles
    <2>2. Append(child.lines, AcpClient!Garbage) \in Seq(Lines)
        <3>1. child.lines \in Seq(Lines) /\ AcpClient!Garbage \in Lines
            BY <1>0, ChildRecords, ClientConstants
        <3> QED BY <3>1
    <2>3. child' \in Children
        BY <1>0, <2>1, <2>2, ChildRecords
    <2> QED BY <1>6, <1>9, <2>3 DEF AcpClient!ChildGarbles
<1>10. CASE AcpClient!ChildDies \/ AcpClient!ChildExits
    <2>1. child' = [child EXCEPT !.up = FALSE] /\ UNCHANGED <<conn, pending, got>>
        BY <1>10 DEF AcpClient!ChildDies, AcpClient!ChildExits
    <2> QED BY <1>0, <1>6, <2>1, ChildRecords
<1> QED BY <1>3, <1>4, <1>5, <1>7, <1>8, <1>9, <1>10 DEF AcpClient!ReaderStep

LEMMA InitClientInv == AcpClient!ConstantsOK /\ AcpClient!Init => ClientInv
<1> SUFFICES ASSUME AcpClient!ConstantsOK, AcpClient!Init PROVE ClientInv
    OBVIOUS
<1> USE DEF AcpClient!Init
<1>1. waits \in [agent : 0 .. MaxRequests, prompt : 0 .. MaxRequests] /\ 1 \in Numbers
      /\ 0 \in 0 .. MaxCalls
    BY DEF AcpClient!ConstantsOK, Numbers
<1>2. conn \in Conns
    BY <1>1 DEF Conns, Writers, Readers
<1>3. child \in Children
    BY <1>1 DEF Children
<1>4. AcpClient!TypeOK
    BY <1>1, <1>2, <1>3, ClientTypes DEF Places, Prompts
<1> QED BY <1>4 DEF ClientInv, AcpClient!AnswersMatch, HoldersUseIt, WriterFirst

LEMMA NextClientInv ==
    AcpClient!ConstantsOK /\ ClientInv /\ [AcpClient!Next]_acpClientVars => ClientInv'
<1> SUFFICES ASSUME AcpClient!ConstantsOK, ClientInv, [AcpClient!Next]_acpClientVars
             PROVE  ClientInv'
    OBVIOUS
<1>1. CASE UNCHANGED acpClientVars
    BY <1>1 DEF acpClientVars, ClientInv, AcpClient!TypeOK, AcpClient!AnswersMatch, HoldersUseIt,
                WriterFirst
<1>2. CASE AcpClient!Next
    BY <1>2, AgentKeepsClientInv, PromptKeepsClientInv, ChildKeepsClientInv DEF AcpClient!Next
<1> QED BY <1>1, <1>2
-----------------------------------------------------------------------------
(* The auth provider's single flight.                                      *)

Inside(h) == auth[h] \in {"locked", "run"}

(* Whoever is past the lock has it.                                        *)
InsideHasLock == \A h \in Harnesses : Inside(h) => lock = h

(* A provider command runs for one that waits for it, or for a dead one.   *)
RunsAreWaitedFor == \A h \in runs : auth[h] \in {"run", "dead"}

(* No result counts while the next is being made.                          *)
RunClearsOutcome == \A h \in Harnesses : auth[h] = "run" => outcome = "none"

(* What still counts is what the file says.                                *)
FileHasOutcome == outcome # "none" => published = outcome

FlightInv ==
    /\ AuthFlight!TypeOK
    /\ InsideHasLock
    /\ RunsAreWaitedFor
    /\ RunClearsOutcome
    /\ FileHasOutcome
-----------------------------------------------------------------------------
LEMMA InitFlightInv == AuthFlight!ConstantsOK /\ AuthFlight!Init => FlightInv
BY DEF AuthFlight!ConstantsOK, AuthFlight!Init, FlightInv, AuthFlight!TypeOK, InsideHasLock,
   Inside, RunsAreWaitedFor,
       RunClearsOutcome, FileHasOutcome

LEMMA NextFlightTypeOK ==
    AuthFlight!ConstantsOK /\ AuthFlight!TypeOK /\ [AuthFlight!Next]_authVars
        => AuthFlight!TypeOK'
<1> SUFFICES ASSUME AuthFlight!ConstantsOK, AuthFlight!TypeOK, [AuthFlight!Next]_authVars
             PROVE  AuthFlight!TypeOK'
    OBVIOUS
<1> USE DEF AuthFlight!ConstantsOK, AuthFlight!TypeOK, AuthFlight!Goto, AuthFlight!Unlock
<1>1. ASSUME NEW h \in Harnesses,
             AuthFlight!Ask(h) \/ AuthFlight!GivesUp(h) \/ AuthFlight!TakeLock(h)
             PROVE AuthFlight!TypeOK'
    BY <1>1 DEF AuthFlight!Ask, AuthFlight!GivesUp, AuthFlight!TakeLock
<1>2. ASSUME NEW h \in Harnesses, AuthFlight!Reuse(h) \/ AuthFlight!StartRun(h)
      PROVE  AuthFlight!TypeOK'
    BY <1>2 DEF AuthFlight!Reuse, AuthFlight!StartRun
<1>3. ASSUME NEW h \in Harnesses, AuthFlight!RunSucceeds(h) \/ AuthFlight!RunFails(h)
      PROVE  AuthFlight!TypeOK'
    BY <1>3 DEF AuthFlight!RunSucceeds, AuthFlight!RunFails
<1>4. ASSUME NEW h \in Harnesses, AuthFlight!KillHarness(h) \/ AuthFlight!OrphanEnds(h)
      PROVE  AuthFlight!TypeOK'
    BY <1>4 DEF AuthFlight!KillHarness, AuthFlight!OrphanEnds
<1>5. CASE AuthFlight!Expire \/ AuthFlight!Lapse
    BY <1>5 DEF AuthFlight!Expire, AuthFlight!Lapse
<1>6. CASE UNCHANGED authVars
    BY <1>6 DEF authVars
<1> QED BY <1>1, <1>2, <1>3, <1>4, <1>5, <1>6 DEF AuthFlight!Next, AuthFlight!Step

LEMMA NextInside ==
    AuthFlight!ConstantsOK /\ FlightInv /\ [AuthFlight!Next]_authVars => InsideHasLock'
<1> SUFFICES ASSUME AuthFlight!ConstantsOK, FlightInv, [AuthFlight!Next]_authVars,
                    NEW g \in Harnesses, Inside(g)'
             PROVE  lock' = g
    BY DEF InsideHasLock
<1> USE DEF AuthFlight!ConstantsOK, FlightInv, AuthFlight!TypeOK, InsideHasLock, Inside,
    AuthFlight!Goto, AuthFlight!Unlock
<1>1. ASSUME NEW h \in Harnesses,
             AuthFlight!Ask(h) \/ AuthFlight!GivesUp(h) \/ AuthFlight!TakeLock(h)
             PROVE lock' = g
    BY <1>1 DEF AuthFlight!Ask, AuthFlight!GivesUp, AuthFlight!TakeLock
<1>2. ASSUME NEW h \in Harnesses, AuthFlight!Reuse(h) \/ AuthFlight!StartRun(h) PROVE lock' = g
    BY <1>2 DEF AuthFlight!Reuse, AuthFlight!StartRun
<1>3. ASSUME NEW h \in Harnesses, AuthFlight!RunSucceeds(h) \/ AuthFlight!RunFails(h)
      PROVE  lock' = g
    BY <1>3 DEF AuthFlight!RunSucceeds, AuthFlight!RunFails
<1>4. ASSUME NEW h \in Harnesses, AuthFlight!KillHarness(h) \/ AuthFlight!OrphanEnds(h)
      PROVE  lock' = g
    BY <1>4 DEF AuthFlight!KillHarness, AuthFlight!OrphanEnds
<1>5. CASE AuthFlight!Expire \/ AuthFlight!Lapse
    BY <1>5 DEF AuthFlight!Expire, AuthFlight!Lapse
<1>6. CASE UNCHANGED authVars
    BY <1>6 DEF authVars
<1> QED BY <1>1, <1>2, <1>3, <1>4, <1>5, <1>6 DEF AuthFlight!Next, AuthFlight!Step

LEMMA NextWaitedFor == FlightInv /\ [AuthFlight!Next]_authVars => RunsAreWaitedFor'
<1> SUFFICES ASSUME FlightInv, [AuthFlight!Next]_authVars, NEW g \in runs'
             PROVE  auth'[g] \in {"run", "dead"}
    BY DEF RunsAreWaitedFor
<1> USE DEF FlightInv, AuthFlight!TypeOK, RunsAreWaitedFor, AuthFlight!Goto
<1>1. ASSUME NEW h \in Harnesses,
             AuthFlight!Ask(h) \/ AuthFlight!GivesUp(h) \/ AuthFlight!TakeLock(h)
             PROVE auth'[g] \in {"run", "dead"}
    BY <1>1 DEF AuthFlight!Ask, AuthFlight!GivesUp, AuthFlight!TakeLock
<1>2. ASSUME NEW h \in Harnesses, AuthFlight!Reuse(h) \/ AuthFlight!StartRun(h)
      PROVE  auth'[g] \in {"run", "dead"}
    BY <1>2 DEF AuthFlight!Reuse, AuthFlight!StartRun
<1>3. ASSUME NEW h \in Harnesses, AuthFlight!RunSucceeds(h) \/ AuthFlight!RunFails(h)
      PROVE  auth'[g] \in {"run", "dead"}
    BY <1>3 DEF AuthFlight!RunSucceeds, AuthFlight!RunFails
<1>4. ASSUME NEW h \in Harnesses, AuthFlight!KillHarness(h) \/ AuthFlight!OrphanEnds(h)
      PROVE  auth'[g] \in {"run", "dead"}
    BY <1>4 DEF AuthFlight!KillHarness, AuthFlight!OrphanEnds
<1>5. CASE AuthFlight!Expire \/ AuthFlight!Lapse
    BY <1>5 DEF AuthFlight!Expire, AuthFlight!Lapse
<1>6. CASE UNCHANGED authVars
    BY <1>6 DEF authVars
<1> QED BY <1>1, <1>2, <1>3, <1>4, <1>5, <1>6 DEF AuthFlight!Next, AuthFlight!Step

(* The two that speak of outcome go together: a result is published by the *)
(* one harness that runs, so none runs when it begins to count.            *)
LEMMA NextOutcome ==
    FlightInv /\ [AuthFlight!Next]_authVars => RunClearsOutcome' /\ FileHasOutcome'
<1> SUFFICES ASSUME FlightInv, [AuthFlight!Next]_authVars
             PROVE  RunClearsOutcome' /\ FileHasOutcome'
    OBVIOUS
<1> USE DEF FlightInv, AuthFlight!TypeOK, RunClearsOutcome, FileHasOutcome, AuthFlight!Goto
<1>1. ASSUME NEW h \in Harnesses,
             AuthFlight!Ask(h) \/ AuthFlight!GivesUp(h) \/ AuthFlight!TakeLock(h)
             \/ AuthFlight!Reuse(h)
      PROVE  RunClearsOutcome' /\ FileHasOutcome'
    BY <1>1 DEF AuthFlight!Ask, AuthFlight!GivesUp, AuthFlight!TakeLock, AuthFlight!Reuse
<1>2. ASSUME NEW h \in Harnesses, AuthFlight!StartRun(h)
      PROVE  RunClearsOutcome' /\ FileHasOutcome'
    <2>1. outcome = "none"
        BY <1>2 DEF AuthFlight!StartRun, AuthFlight!Usable
    <2> QED BY <1>2, <2>1 DEF AuthFlight!StartRun
<1>3. ASSUME NEW h \in Harnesses, AuthFlight!RunSucceeds(h) \/ AuthFlight!RunFails(h)
      PROVE  RunClearsOutcome' /\ FileHasOutcome'
    <2>1. \A g \in Harnesses : auth'[g] # "run"
        BY <1>3 DEF AuthFlight!RunSucceeds, AuthFlight!RunFails, InsideHasLock, Inside
    <2>2. outcome' # "none" => published' = outcome'
        BY <1>3 DEF AuthFlight!RunSucceeds, AuthFlight!RunFails
    <2> QED BY <2>1, <2>2
<1>4. ASSUME NEW h \in Harnesses, AuthFlight!KillHarness(h) \/ AuthFlight!OrphanEnds(h)
      PROVE  RunClearsOutcome' /\ FileHasOutcome'
    BY <1>4 DEF AuthFlight!KillHarness, AuthFlight!OrphanEnds
<1>5. CASE AuthFlight!Expire \/ AuthFlight!Lapse
    BY <1>5 DEF AuthFlight!Expire, AuthFlight!Lapse
<1>6. CASE UNCHANGED authVars
    BY <1>6 DEF authVars
<1> QED BY <1>1, <1>2, <1>3, <1>4, <1>5, <1>6 DEF AuthFlight!Next, AuthFlight!Step

LEMMA NextFlightInv ==
    AuthFlight!ConstantsOK /\ FlightInv /\ [AuthFlight!Next]_authVars => FlightInv'
BY NextFlightTypeOK, NextInside, NextWaitedFor, NextOutcome DEF FlightInv

(* The provider is started only when the last run left nothing that counts.*)
LEMMA StartsAreNeeded ==
    FlightInv /\ [AuthFlight!Next]_authVars => \A h \in Harnesses : h \in runs' \ runs
        => outcome = "none"
<1> SUFFICES ASSUME FlightInv, [AuthFlight!Next]_authVars, NEW g \in Harnesses, g \in runs',
                    g \notin runs
             PROVE  outcome = "none"
    OBVIOUS
<1> USE DEF FlightInv, AuthFlight!TypeOK, FileHasOutcome
<1>1. ASSUME NEW h \in Harnesses,
             AuthFlight!Ask(h) \/ AuthFlight!GivesUp(h) \/ AuthFlight!TakeLock(h)
             \/ AuthFlight!Reuse(h)
      PROVE  outcome = "none"
    BY <1>1 DEF AuthFlight!Ask, AuthFlight!GivesUp, AuthFlight!TakeLock, AuthFlight!Reuse
<1>2. ASSUME NEW h \in Harnesses, AuthFlight!StartRun(h) PROVE outcome = "none"
    BY <1>2 DEF AuthFlight!StartRun, AuthFlight!Usable
<1>3. ASSUME NEW h \in Harnesses,
             AuthFlight!RunSucceeds(h) \/ AuthFlight!RunFails(h)
             \/ AuthFlight!KillHarness(h) \/ AuthFlight!OrphanEnds(h)
      PROVE  outcome = "none"
    BY <1>3 DEF AuthFlight!RunSucceeds, AuthFlight!RunFails, AuthFlight!KillHarness,
       AuthFlight!OrphanEnds
<1>4. CASE AuthFlight!Expire \/ AuthFlight!Lapse \/ UNCHANGED authVars
    BY <1>4 DEF AuthFlight!Expire, AuthFlight!Lapse, authVars
<1> QED BY <1>1, <1>2, <1>3, <1>4 DEF AuthFlight!Next, AuthFlight!Step

LEMMA InitInvs == Init => ClientInv /\ FlightInv
BY ConstantsOK, InitClientInv, InitFlightInv DEF Init

LEMMA NextInvs == ClientInv /\ FlightInv /\ [Next]_vars => ClientInv' /\ FlightInv'
BY ConstantsOK, StepsApart, NextClientInv, NextFlightInv

(* An answer reaches its own waiter only, an idle child is killed only     *)
(* after its stdin was closed, and of the harnesses that live one at most  *)
(* runs the provider, for any number of requests, calls and harnesses.     *)
THEOREM ClientsStaySound == Spec => []ClientIsSound
<1>1. ClientInv => AcpClient!IdleExitsItself
    BY ClientTypes DEF ClientInv, HoldersUseIt, WriterFirst, AcpClient!IdleExitsItself
<1>2. FlightInv => AuthFlight!OneLeader
    BY DEF FlightInv, AuthFlight!TypeOK, InsideHasLock, Inside, RunsAreWaitedFor,
           AuthFlight!OneLeader
<1>3. ClientInv /\ FlightInv => ClientIsSound
    BY <1>1, <1>2 DEF ClientIsSound, ClientInv, FlightInv
<1> QED BY <1>3, InitInvs, NextInvs, PTL DEF Spec

(* However many harnesses wait, fail and are killed: no two of them run    *)
(* the provider for one expiry.                                            *)
THEOREM ProviderRunsWhenNeeded == Spec => RunsAreNeeded
<1>1. FlightInv /\ [Next]_vars
        => [\A h \in Harnesses : h \in runs' \ runs => outcome = "none"]_authVars
    BY StepsApart, StartsAreNeeded DEF authVars
<1> QED BY <1>1, InitInvs, NextInvs, PTL
       DEF Spec, RunsAreNeeded, AuthFlight!RunsAreNeeded, AuthFlight!vars, authVars
-----------------------------------------------------------------------------
(* The sessions that tasks go on in.                                       *)

MarkerOf(s, t) == [id |-> s, scope |-> scope[t]]

(* A task in its session is in the one that the marker names.              *)
MarkedSession ==
    /\ phase # "idle" => task \in Resume!Tasks
    /\ phase \in {"prompt", "turn"} => up /\ reg # 0 /\ marker = MarkerOf(reg, task)

(* A session's file tells of tasks that were begun, of none before the     *)
(* session was made, and, of the marked one, of the marker's scope.        *)
TalksAreMade ==
    /\ marker.id <= minted /\ reg <= minted
    /\ \A s \in Resume!SessionIds :
          talk[s] \subseteq 1 .. task /\ (s > minted => talk[s] = {})
    /\ marker.id # 0 => \A t \in talk[marker.id] : scope[t] = marker.scope

(* A task that was heard and not rotated away is in the marked session's   *)
(* file, and no child that is up would clear the marker.                   *)
HeardIsMarked ==
    heard # 0 => /\ phase # "idle" /\ marker = MarkerOf(heard, task)
                 /\ task \in talk[heard]
                 /\ phase = "new" => ~up
                 /\ phase \in {"prompt", "turn"} => reg = heard

ResumeInv ==
    /\ Resume!TypeOK
    /\ MarkedSession
    /\ TalksAreMade
    /\ Resume!OneScopePerTalk
    /\ HeardIsMarked

Markers == [id : 0 .. MaxSessions, scope : Scopes \cup {NoScope}]

LEMMA ResumeTypes ==
    ASSUME Resume!ConstantsOK, Resume!TypeOK
    PROVE  /\ phase \in {"idle", "new", "prompt", "turn"}
           /\ task \in 0 .. MaxTasks /\ scope \in [Resume!Tasks -> Scopes \cup {NoScope}]
           /\ over \subseteq Resume!Tasks
           /\ reg \in 0 .. MaxSessions /\ up \in BOOLEAN
           /\ marker \in Markers /\ marker.id \in 0 .. MaxSessions
           /\ minted \in 0 .. MaxSessions /\ talk \in [Resume!SessionIds -> SUBSET Resume!Tasks]
           /\ heard \in 0 .. MaxSessions
           /\ MaxTasks \in Nat /\ MaxSessions \in Nat
           /\ Resume!Tasks = 1 .. MaxTasks /\ Resume!SessionIds = 1 .. MaxSessions
BY DEF Resume!ConstantsOK, Resume!TypeOK, Markers, Resume!Tasks, Resume!SessionIds

LEMMA MarkerFacts ==
    ASSUME Resume!ConstantsOK, Resume!TypeOK, NEW s \in 0 .. MaxSessions, NEW t \in Resume!Tasks
    PROVE  /\ MarkerOf(s, t) \in Markers /\ MarkerOf(s, t).id = s
           /\ MarkerOf(s, t).scope = scope[t]
           /\ Resume!NoMarker \in Markers /\ Resume!NoMarker.id = 0
           /\ Resume!Cleared \in {marker, Resume!NoMarker}
BY ResumeTypes DEF MarkerOf, Markers, Resume!NoMarker, Resume!Cleared

LEMMA InitResumeInv == Resume!ConstantsOK /\ Resume!Init => ResumeInv
<1> SUFFICES ASSUME Resume!ConstantsOK, Resume!Init PROVE ResumeInv
    OBVIOUS
<1>1. marker \in Markers /\ marker.id = 0
    BY DEF Resume!ConstantsOK, Resume!Init, Resume!NoMarker, Markers
<1>2. Resume!TypeOK
    <2>1. MaxTasks \in Nat /\ MaxSessions \in Nat
        BY DEF Resume!ConstantsOK
    <2>2. /\ scope \in [Resume!Tasks -> Scopes \cup {NoScope}]
          /\ talk \in [Resume!SessionIds -> SUBSET Resume!Tasks]
        BY DEF Resume!Init
    <2>3. /\ phase = "idle" /\ task = 0 /\ over = {} /\ reg = 0 /\ up = FALSE
          /\ minted = 0 /\ heard = 0
        BY DEF Resume!Init
    <2>4. 0 \in 0 .. MaxTasks /\ 0 \in 0 .. MaxSessions
        BY <2>1
    <2> QED BY <1>1, <2>2, <2>3, <2>4 DEF Resume!TypeOK, Markers
<1>3. \A s \in Resume!SessionIds : talk[s] = {}
    BY DEF Resume!Init
<1>4. phase = "idle" /\ reg = 0 /\ minted = 0 /\ heard = 0
    BY DEF Resume!Init
<1>5. MarkedSession /\ HeardIsMarked
    BY <1>4 DEF MarkedSession, HeardIsMarked
<1>6. TalksAreMade /\ Resume!OneScopePerTalk
    BY <1>1, <1>3, <1>4 DEF TalksAreMade, Resume!OneScopePerTalk
<1> QED BY <1>2, <1>5, <1>6 DEF ResumeInv

LEMMA NextResumeType ==
    ASSUME Resume!ConstantsOK, ResumeInv, Resume!Next
    PROVE  Resume!TypeOK'
<1>0. Resume!TypeOK /\ MarkedSession
    BY DEF ResumeInv
<1>1. CASE Resume!Begin
    BY <1>0, <1>1, ResumeTypes DEF Resume!TypeOK, Resume!Begin
<1>2. CASE Resume!SessionNew
    <2>1. PICK i \in 0 .. MaxSessions :
              reg' = i /\ marker' = [id |-> i, scope |-> scope[task]]
        <3> DEFINE m == IF up THEN Resume!Cleared ELSE marker
                   i == IF Resume!Adopts(m, task) THEN m.id ELSE minted + 1
        <3>1. m.id \in 0 .. MaxSessions
            BY <1>0, ResumeTypes DEF Resume!Cleared, Resume!NoMarker
        <3>2. i \in 0 .. MaxSessions
            BY <1>0, <1>2, <3>1, ResumeTypes DEF Resume!SessionNew
        <3>3. reg' = i /\ marker' = [id |-> i, scope |-> scope[task]]
            BY <1>2 DEF Resume!SessionNew
        <3> QED BY <3>2, <3>3
    <2>2. task \in Resume!Tasks
        BY <1>0, <1>2 DEF MarkedSession, Resume!SessionNew
    <2>3. marker' \in Markers
        BY <1>0, <2>1, <2>2, ResumeTypes DEF Markers
    <2> QED
        BY <1>0, <1>2, <2>1, <2>3, ResumeTypes DEF Resume!TypeOK, Resume!SessionNew, Markers
<1>3. CASE Resume!NoSession
    <2>1. marker' \in Markers /\ task \in Resume!Tasks
        BY <1>0, <1>3, ResumeTypes
           DEF Resume!NoSession, Resume!Cleared, Resume!NoMarker, Markers, MarkedSession
    <2> QED
        BY <1>0, <1>3, <2>1, ResumeTypes DEF Resume!TypeOK, Resume!NoSession, Markers
<1>4. CASE Resume!Prompt
    BY <1>0, <1>4, ResumeTypes DEF Resume!TypeOK, Resume!Prompt, MarkedSession
<1>5. CASE Resume!Finish \/ Resume!NextAttempt
    BY <1>0, <1>5, ResumeTypes
       DEF Resume!TypeOK, Resume!Finish, Resume!NextAttempt, MarkedSession
<1>6. CASE Resume!ChildExits \/ Resume!Stop
    <2>1. /\ up' \in BOOLEAN /\ reg' \in 0 .. MaxSessions
          /\ phase' \in {"idle", "new", "prompt", "turn"} /\ heard' \in 0 .. MaxSessions
        <3>1. 0 \in 0 .. MaxSessions /\ heard \in 0 .. MaxSessions
              /\ phase \in {"idle", "new", "prompt", "turn"}
            BY <1>0, ResumeTypes
        <3>2. up' = FALSE /\ reg' = 0 /\ heard' \in {heard, 0}
              /\ phase' \in {"new", phase, "idle"}
            BY <1>6 DEF Resume!ChildExits, Resume!Stop
        <3> QED BY <3>1, <3>2
    <2>2. UNCHANGED <<task, scope, over, marker, minted, talk>>
        BY <1>6 DEF Resume!ChildExits, Resume!Stop
    <2>3. UNCHANGED <<Resume!Tasks, Resume!SessionIds>>
        BY DEF Resume!Tasks, Resume!SessionIds
    <2> QED BY <1>0, <2>1, <2>2, <2>3 DEF Resume!TypeOK
<1> QED BY <1>1, <1>2, <1>3, <1>4, <1>5, <1>6 DEF Resume!Next

LEMMA NextTalks ==
    ASSUME Resume!ConstantsOK, ResumeInv, Resume!Next
    PROVE  MarkedSession' /\ TalksAreMade' /\ Resume!OneScopePerTalk' /\ HeardIsMarked'
<1>0. Resume!TypeOK /\ MarkedSession /\ TalksAreMade /\ Resume!OneScopePerTalk /\ HeardIsMarked
    BY DEF ResumeInv
<1> USE DEF MarkedSession, TalksAreMade, HeardIsMarked
<1>1. CASE Resume!Begin
    <2> USE <1>1 DEF Resume!Begin
    <2>1. heard = 0 /\ task + 1 \in Resume!Tasks
        BY <1>0, ResumeTypes
    <2>2. \A t \in 1 .. task : scope'[t] = scope[t]
        BY <1>0, ResumeTypes
    <2>3. \A s \in Resume!SessionIds : \A t \in talk[s] : scope'[t] = scope[t]
        BY <1>0, <2>2
    <2>4. Resume!OneScopePerTalk'
        BY <1>0, <2>3 DEF Resume!OneScopePerTalk
    <2>5. marker.id # 0 => marker.id \in Resume!SessionIds
        BY <1>0, ResumeTypes
    <2>6. TalksAreMade'
        BY <1>0, <2>3, <2>5, ResumeTypes
    <2> QED BY <2>1, <2>4, <2>6
<1>2. CASE Resume!SessionNew
    <2> DEFINE m == IF up THEN Resume!Cleared ELSE marker
               i == IF Resume!Adopts(m, task) THEN m.id ELSE minted + 1
    <2>1. /\ reg' = i /\ marker' = MarkerOf(i, task) /\ minted' = minted + 1 /\ minted < MaxSessions
          /\ up' = TRUE /\ phase' = "prompt" /\ UNCHANGED <<task, scope, over, talk, heard>>
          /\ phase = "new" /\ task \in Resume!Tasks
        BY <1>0, <1>2 DEF Resume!SessionNew, MarkerOf
    <2>2. m \in {marker, Resume!NoMarker} /\ Resume!NoMarker.id = 0
        BY DEF Resume!Cleared, Resume!NoMarker
    <2>3. CASE Resume!Adopts(m, task)
        <3>1. m = marker /\ i = marker.id /\ marker.id # 0 /\ marker.scope = scope[task]
            BY <2>2, <2>3 DEF Resume!Adopts
        <3>2. marker'.id = marker.id /\ marker'.scope = marker.scope /\ marker' = marker
            <4>1. marker = [id |-> marker.id, scope |-> marker.scope]
                BY <1>0, ResumeTypes DEF Markers
            <4> QED BY <2>1, <3>1, <4>1 DEF MarkerOf
        <3>3. MarkedSession'
            BY <2>1, <3>1 DEF MarkerOf
        <3>4. TalksAreMade'
            <4>1. minted' = minted + 1 /\ minted \in Nat /\ marker.id <= minted
                  /\ marker.id \in Nat
                BY <1>0, <2>1, ResumeTypes
            <4>2. marker'.id <= minted' /\ reg' <= minted'
                BY <2>1, <3>1, <3>2, <4>1
            <4>3. \A s \in Resume!SessionIds : s > minted' => s > minted
                BY <1>0, <4>1, ResumeTypes
            <4> QED BY <1>0, <2>1, <3>2, <4>2, <4>3
        <3>5. HeardIsMarked'
            BY <1>0, <2>1, <3>1, <3>2 DEF MarkerOf
        <3> QED BY <1>0, <2>1, <3>3, <3>4, <3>5 DEF Resume!OneScopePerTalk
    <2>4. CASE ~Resume!Adopts(m, task)
        <3>1. i = minted + 1 /\ i \in Resume!SessionIds /\ talk[i] = {} /\ i # 0
            BY <1>0, <2>1, <2>4, ResumeTypes
        <3>2. marker'.id = i /\ marker'.scope = scope[task]
            BY <2>1 DEF MarkerOf
        <3>3. heard = 0
            <4> SUFFICES ASSUME heard # 0 PROVE FALSE
                OBVIOUS
            <4>1. marker = MarkerOf(heard, task) /\ task \in talk[heard] /\ m = marker
                BY <1>0, <2>1
            <4>2. marker.id = heard /\ marker.scope = scope[task]
                BY <4>1 DEF MarkerOf
            <4> QED BY <2>4, <4>1, <4>2 DEF Resume!Adopts
        <3>4. MarkedSession'
            BY <2>1, <3>1 DEF MarkerOf
        <3>5. TalksAreMade'
            BY <1>0, <2>1, <3>1, <3>2, ResumeTypes
        <3> QED BY <1>0, <2>1, <3>3, <3>4, <3>5 DEF Resume!OneScopePerTalk
    <2> QED BY <2>3, <2>4
<1>3. CASE Resume!NoSession
    <2>1. /\ marker' = marker \/ (marker' = Resume!NoMarker /\ marker'.id = 0)
          /\ reg' \in {reg, 0} /\ heard' = 0 /\ phase' = "idle"
          /\ UNCHANGED <<task, scope, minted, talk>>
        BY <1>3 DEF Resume!NoSession, Resume!Cleared, Resume!NoMarker
    <2> QED BY <1>0, <2>1, ResumeTypes DEF Resume!OneScopePerTalk
<1>4. CASE Resume!Prompt
    <2> USE <1>4 DEF Resume!Prompt
    <2>1. /\ reg \in Resume!SessionIds /\ task \in Resume!Tasks /\ marker = MarkerOf(reg, task)
          /\ marker.id = reg /\ marker.scope = scope[task]
        BY <1>0, ResumeTypes DEF MarkerOf
    <2>2. /\ talk'[reg] = talk[reg] \cup {task}
          /\ \A s \in Resume!SessionIds : s # reg => talk'[s] = talk[s]
        BY <1>0, <2>1, ResumeTypes
    <2>3. \A t \in talk'[reg] : scope[t] = scope[task]
        BY <1>0, <2>1, <2>2
    <2>4. Resume!OneScopePerTalk'
        BY <1>0, <2>2, <2>3 DEF Resume!OneScopePerTalk
    <2>5. TalksAreMade'
        BY <1>0, <2>1, <2>2, <2>3, ResumeTypes
    <2>6. MarkerOf(reg, task)' = MarkerOf(reg, task)
        BY DEF MarkerOf
    <2>7. MarkedSession' /\ HeardIsMarked'
        BY <1>0, <2>1, <2>2, <2>6 DEF MarkerOf
    <2> QED BY <2>4, <2>5, <2>7
<1>5. CASE Resume!Finish \/ Resume!NextAttempt
    BY <1>0, <1>5, ResumeTypes
       DEF Resume!Finish, Resume!NextAttempt, Resume!OneScopePerTalk
<1>6. CASE Resume!ChildExits \/ Resume!Stop
    BY <1>0, <1>6, ResumeTypes
       DEF Resume!ChildExits, Resume!Stop, Resume!OneScopePerTalk, MarkerOf
<1> QED BY <1>1, <1>2, <1>3, <1>4, <1>5, <1>6 DEF Resume!Next

LEMMA NextResumeInv ==
    Resume!ConstantsOK /\ ResumeInv /\ [Resume!Next]_resumeVars => ResumeInv'
<1>1. ASSUME ResumeInv, UNCHANGED resumeVars PROVE ResumeInv'
    BY <1>1 DEF resumeVars, ResumeInv, Resume!TypeOK, MarkedSession, TalksAreMade,
                Resume!OneScopePerTalk, HeardIsMarked, MarkerOf
<1> QED BY <1>1, NextResumeType, NextTalks DEF ResumeInv

(* No conversation tells of tasks of two scopes, and a task whose child    *)
(* died goes on in its own, whatever order of exits, failed starts, stops  *)
(* and rotations went before.                                              *)
THEOREM TalksStayApart == Spec => []TalksKeepToTheirTask
<1>1. Init => ResumeInv
    BY ConstantsOK, InitResumeInv DEF Init
<1>2. ResumeInv /\ [Next]_vars => ResumeInv'
    BY ConstantsOK, StepsApart, NextResumeInv
<1>3. ResumeInv => TalksKeepToTheirTask
    BY DEF ResumeInv, TalksKeepToTheirTask, HeardIsMarked, MarkerOf, Resume!CrashKeepsTalk
<1> QED BY <1>1, <1>2, <1>3, PTL DEF Spec
=============================================================================
