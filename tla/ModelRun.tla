------------------------------ MODULE ModelRun ------------------------------
(***************************************************************************)
(* Model runs of agents that are bound to one model endpoint: the task     *)
(* loop of src/core/model/acp/runtime.rs with its two ladders of retries,  *)
(* the repair turns of src/core/agent/model.rs, and the breaker all the    *)
(* agents of the process share (src/core/model/breaker.rs).  One run after *)
(* the other per agent, each on the agent's own ACP child.                 *)
(***************************************************************************)
EXTENDS Naturals

CONSTANTS
    Runners,       \* agents whose children are bound to the endpoint
    MaxRetries,    \* MAX_ENDPOINT_RETRIES
    MaxTransport,  \* MAX_TRANSPORT_RETRIES
    MaxNudges      \* MAX_MODEL_NUDGES

ConstantsOK == MaxRetries \in Nat /\ MaxTransport \in Nat /\ MaxNudges \in Nat

VARIABLES
    failures,  \* consecutive_failures of the endpoint, over all agents
    gaveUp,    \* the endpoint's gave_up
    run,       \* [Runners -> where the agent's run is, and its counters]
    link,      \* [Runners -> the child, and what its session has been told]
    quit,      \* the process is shutting down
    cancel     \* [Runners -> the task's cancel_check answers yes]

breaker == <<failures, gaveUp>>
vars == <<failures, gaveUp, run, link, quit, cancel>>

InRun(a) == run[a].pc \notin {"idle", "answered"}

Idle == [pc |-> "idle", mode |-> "task", retries |-> 0, transport |-> 0,
         nudges |-> 0, late |-> 0]

(* `late` counts the attempts and repairs a run begins after the give-up;  *)
(* it is kept for the properties only.                                     *)
LateCap == 2

TypeOK ==
    /\ failures \in 0 .. MaxRetries + 1
    /\ gaveUp \in BOOLEAN
    /\ run \in [Runners -> [pc : {"idle", "answered", "attempt", "prompt", "inflight",
                                  "respawn", "backoff", "repair"},
                            mode : {"task", "repair"},
                            retries : 0 .. MaxRetries,
                            transport : 0 .. MaxTransport,
                            nudges : 0 .. MaxNudges,
                            late : 0 .. LateCap]]
    /\ link \in [Runners -> [child : {"none", "up", "exited"},
                             told : BOOLEAN]]
    /\ quit \in BOOLEAN
    /\ cancel \in [Runners -> BOOLEAN]

NoLink == [child |-> "none", told |-> FALSE]

Init ==
    /\ failures = 0 /\ gaveUp = FALSE
    /\ run = [a \in Runners |-> Idle]
    /\ link = [a \in Runners |-> NoLink]
    /\ quit = FALSE
    /\ cancel = [a \in Runners |-> FALSE]
-----------------------------------------------------------------------------
(* The breaker. *)

(* Once the endpoint is given up on, the count decides nothing any more.   *)
RecordFailure ==
    /\ failures' = IF failures <= MaxRetries THEN failures + 1 ELSE failures
    /\ gaveUp' = (gaveUp \/ failures + 1 > MaxRetries)

RecordSuccess ==
    /\ failures' = IF gaveUp THEN failures ELSE 0
    /\ UNCHANGED gaveUp

(* The session of the child. *)

FreshSession == [child |-> "up", told |-> FALSE]

Step(a, r) == run' = [run EXCEPT ![a] = r]

(* The run returns.  After an answer, also after a last invalid one, the   *)
(* caller may go on in the same session.                                   *)
Return(a, label) ==
    /\ Step(a, [Idle EXCEPT !.pc = label])
    /\ cancel' = [cancel EXCEPT ![a] = FALSE]

Fail(a) == Return(a, "idle")
GoOn(a, r) == Step(a, r) /\ UNCHANGED cancel
Goto(a, label) == GoOn(a, [run[a] EXCEPT !.pc = label])

Late(a) == IF gaveUp /\ run[a].late < LateCap THEN run[a].late + 1 ELSE run[a].late
-----------------------------------------------------------------------------
(* complete_typed: the first prompt of a task.  run_task refuses at once,  *)
(* changing nothing, when the endpoint was given up on.                    *)
Begin(a) ==
    /\ run[a].pc \in {"idle", "answered"} /\ ~quit
    /\ ~gaveUp
    /\ Step(a, [Idle EXCEPT !.pc = "attempt"])
    /\ UNCHANGED <<breaker, link, quit, cancel>>

(* continue_typed: another prompt in the session of the answered task.     *)
Continue(a) ==
    /\ run[a].pc = "answered"
    /\ Step(a, [Idle EXCEPT !.pc = "repair", !.mode = "repair"])
    /\ UNCHANGED <<breaker, link, quit, cancel>>

(* run_task_attempt: a new session, on the child that is up or on a new    *)
(* one.  A child or a session that does not start ends the run and is no   *)
(* failure of the endpoint.                                                *)
Rotate(a) ==
    /\ run[a].pc = "attempt"
    /\ \/ /\ link' = [link EXCEPT ![a] = FreshSession]
          /\ GoOn(a, [run[a] EXCEPT !.pc = "prompt", !.transport = 0,
                                    !.late = Late(a)])
       \/ /\ link' = [link EXCEPT ![a] =
                        IF @.child = "up" THEN FreshSession ELSE NoLink]
          /\ Fail(a)
    /\ UNCHANGED <<breaker, quit>>

(* The head of run_prompt_once.  Only the task's own prompt carries the    *)
(* task; a repair prompt says what to correct.                             *)
Send(a) ==
    /\ run[a].pc = "prompt"
    /\ IF quit
       THEN Fail(a) /\ link' = [link EXCEPT ![a] = NoLink]
       ELSE /\ Goto(a, "inflight")
            /\ link' = [link EXCEPT ![a].told = @ \/ run[a].mode = "task"]
    /\ UNCHANGED <<breaker, quit>>

(* Mutant: only the shared counter ends the retries. *)
RetryOnBudget(a) ==
    /\ RecordFailure
    /\ IF gaveUp' THEN Fail(a) ELSE GoOn(a, [run[a] EXCEPT !.pc = "backoff"])

(* One endpoint failure of run_task: count it for everybody, then give up, *)
(* stop after this run's own retries, or wait.                             *)
EndpointFailure(a) ==
    /\ RecordFailure
    /\ IF gaveUp' \/ run[a].retries = MaxRetries
       THEN Fail(a)
       ELSE GoOn(a, [run[a] EXCEPT !.pc = "backoff", !.retries = @ + 1])

(* Mutant: a failed correction is resent like a task prompt. *)
ResendRepair(a) ==
    IF run[a].transport = MaxTransport THEN RecordFailure /\ Fail(a)
    ELSE /\ GoOn(a, [run[a] EXCEPT !.pc = "respawn", !.transport = @ + 1])
         /\ UNCHANGED breaker

(* A failed repair is counted and returned: its session is not rebuilt.    *)
RepairFailure(a) == RecordFailure /\ Fail(a)

(* "exited during prompt" and "ACP session/prompt" are resent a few times. *)
TransportFailure(a) ==
    IF run[a].mode = "repair" THEN RepairFailure(a)
    ELSE IF run[a].transport = MaxTransport THEN EndpointFailure(a)
    ELSE /\ GoOn(a, [run[a] EXCEPT !.pc = "respawn", !.transport = @ + 1])
         /\ UNCHANGED breaker

(* The poll loop sees the child's exit before it looks for an answer.      *)
ChildGone(a) ==
    /\ run[a].pc = "inflight" /\ link[a].child = "exited"
    /\ link' = [link EXCEPT ![a] = NoLink]
    /\ TransportFailure(a)
    /\ UNCHANGED quit

(* The request itself is answered with an error.                           *)
PromptFails(a) ==
    /\ run[a].pc = "inflight" /\ link[a].child = "up"
    /\ TransportFailure(a)
    /\ UNCHANGED <<link, quit>>

(* stopReason "error": the agent loop ran out of its own retries.          *)
LoopError(a) ==
    /\ run[a].pc = "inflight" /\ link[a].child = "up"
    /\ IF run[a].mode = "repair" THEN RepairFailure(a) ELSE EndpointFailure(a)
    /\ UNCHANGED <<link, quit>>

(* The turn ends.  resolve_structured_output accepts what it captured, or  *)
(* asks for a correction; it returns also when no correction is left.      *)
Answer(a) ==
    /\ run[a].pc = "inflight" /\ link[a].child = "up"
    /\ RecordSuccess
    /\ \/ Return(a, "answered")
       \/ /\ run[a].nudges < MaxNudges
          /\ GoOn(a, [run[a] EXCEPT !.pc = "repair", !.mode = "repair",
                                    !.nudges = @ + 1])
    /\ UNCHANGED <<link, quit>>

(* Shutdown or cancellation while a prompt is out: the child is disposed   *)
(* of before the run returns.                                              *)
Interrupt(a) ==
    /\ run[a].pc = "inflight" /\ (quit \/ cancel[a])
    /\ link' = [link EXCEPT ![a] = NoLink]
    /\ Fail(a)
    /\ UNCHANGED <<breaker, quit>>

(* ensure_acp_session_for_retry, after a sleep nothing interrupts.         *)
Respawn(a) ==
    /\ run[a].pc = "respawn"
    /\ \/ /\ link' = [link EXCEPT ![a] = IF @.child = "up" THEN @ ELSE FreshSession]
          /\ Goto(a, "prompt")
       \/ /\ link[a].child # "up"
          /\ link' = [link EXCEPT ![a] = NoLink]
          /\ Fail(a)
    /\ UNCHANGED <<breaker, quit>>

(* wait_out_backoff; run_task does not ask the breaker again.              *)
BackoffEnds(a) ==
    /\ run[a].pc = "backoff"
    /\ IF quit \/ cancel[a] THEN Fail(a) ELSE Goto(a, "attempt")
    /\ UNCHANGED <<breaker, link, quit>>

(* Mutant: a correction is sent without asking the breaker. *)
RepairAnyway(a) ==
    /\ run[a].pc = "repair"
    /\ GoOn(a, [run[a] EXCEPT !.pc = "prompt", !.late = Late(a)])
    /\ UNCHANGED <<breaker, link, quit>>

(* run_in_current_session                                                  *)
Repair(a) ==
    /\ run[a].pc = "repair"
    /\ IF gaveUp THEN Fail(a)
       ELSE GoOn(a, [run[a] EXCEPT !.pc = "prompt", !.late = Late(a)])
    /\ UNCHANGED <<breaker, link, quit>>

Progress(a) ==
    \/ Rotate(a) \/ Send(a) \/ ChildGone(a) \/ PromptFails(a) \/ LoopError(a)
    \/ Answer(a) \/ Interrupt(a) \/ Respawn(a) \/ BackoffEnds(a) \/ Repair(a)

(* The outside: a child dies, a task is cancelled, the process stops.      *)
ChildExits(a) ==
    /\ link[a].child = "up"
    /\ link' = [link EXCEPT ![a].child = "exited"]
    /\ UNCHANGED <<breaker, run, quit, cancel>>

CancelTask(a) ==
    /\ InRun(a) /\ ~cancel[a]
    /\ cancel' = [cancel EXCEPT ![a] = TRUE]
    /\ UNCHANGED <<breaker, run, link, quit>>

Shutdown ==
    /\ ~quit /\ quit' = TRUE
    /\ UNCHANGED <<breaker, run, link, cancel>>

Next ==
    \/ \E a \in Runners : \/ Begin(a) \/ Continue(a) \/ Progress(a)
                         \/ ChildExits(a) \/ CancelTask(a)
    \/ Shutdown

(* A run's thread goes on, and every prompt is answered or fails.          *)
Fairness == \A a \in Runners : WF_vars(Progress(a))

Spec == Init /\ [][Next]_vars
FairSpec == Spec /\ Fairness
-----------------------------------------------------------------------------
(* Once the endpoint is given up on, a run that is under way begins at     *)
(* most one more attempt or repair, however many agents were in a backoff  *)
(* or in a prompt when the last failure was counted.                       *)
NoChurnAfterGiveUp == \A a \in Runners : run[a].late <= 1

(* A repair prompt does not restate the task: it goes only to a session    *)
(* that was told the task, never to one that a retry started afresh.       *)
RepairHasContext ==
    \A a \in Runners :
        run[a].mode = "repair" /\ run[a].pc \in {"prompt", "inflight"}
        => link[a].told

(* Every run ends: neither ladder goes on for ever, even when the other    *)
(* agents' successes keep resetting the counter they share.                *)
RunsEnd ==
    \A a \in Runners : InRun(a) ~> ~InRun(a)
=============================================================================
