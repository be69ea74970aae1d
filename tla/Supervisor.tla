---------------------------- MODULE Supervisor ----------------------------
(***************************************************************************)
(* One supervised agent instance (src/core/supervisor.rs, agent.rs,        *)
(* periodic.rs, runtime.rs): the supervisor's loop around an attempt, the  *)
(* attempt's construction, its scheduler and the once-only shutdown guard, *)
(* and the health they publish.  Any hook of the agent may fail or panic.  *)
(* The bus's part of each step is in Fleet.tla.                            *)
(***************************************************************************)
EXTENDS Naturals

CONSTANTS
    Agents,     \* the planned instances
    Works,      \* agents whose task runs a model session
    Owns,       \* agents with an inbox of their own and a task that serves it
    MaxFaults   \* bound on failing or panicking hooks and tasks

ASSUME SupervisorConstants ==
    /\ Works \subseteq Agents
    /\ Owns \subseteq Agents
    /\ MaxFaults \in Nat

VARIABLES
    shutdown,  \* the process-wide flag
    phase,     \* where the instance's thread stands
    health,    \* HealthInner.state
    turn,      \* the scheduled task that comes next
    hooks,     \* on_shutdown calls of this attempt
    done,      \* ShutdownGuard.done
    unwinding, \* is a panic unwinding the attempt's stack?
    faults

supVars == <<shutdown, phase, health, turn, hooks, done, unwinding, faults>>

Tasks(a) == (IF a \in Works THEN {"work"} ELSE {})
            \union (IF a \in Owns THEN {"requests"} ELSE {})

FirstTask(a) == IF a \in Works THEN "work" ELSE "requests"

(* The next entry of periodic_tasks, the work first. *)
NextTask(a, t) == IF t = "work" /\ a \in Owns THEN "requests" ELSE FirstTask(a)

Alive == {"built", "rest", "due", "work", "requests", "finish", "hook", "drop"}

SupTypeOK ==
    /\ shutdown \in BOOLEAN
    /\ phase \in [Agents -> Alive \union {"top", "adopt", "build", "close",
                                          "over", "backoff", "stopped"}]
    /\ health \in [Agents -> {"starting", "idle", "busy", "degraded", "backoff",
                              "stopping", "stopped"}]
    /\ turn \in [Agents -> {"work", "requests"}]
    /\ \A a \in Agents : turn[a] \in Tasks(a)
    /\ hooks \in [Agents -> 0..2]
    /\ done \in [Agents -> BOOLEAN]
    /\ unwinding \in [Agents -> BOOLEAN]
    /\ faults \in 0..MaxFaults

SupInit ==
    /\ shutdown = FALSE
    /\ phase = [a \in Agents |-> "top"]
    /\ health = [a \in Agents |-> "starting"]
    /\ turn = [a \in Agents |-> FirstTask(a)]
    /\ hooks = [a \in Agents |-> 0]
    /\ done = [a \in Agents |-> FALSE]
    /\ unwinding = [a \in Agents |-> FALSE]
    /\ faults = 0

Goto(a, p) == phase' = [phase EXCEPT ![a] = p]
Mark(a, h) == health' = [health EXCEPT ![a] = h]
Fault == faults < MaxFaults /\ faults' = faults + 1
----------------------------------------------------------------------------
(* run_supervised; what belongs to an attempt ends with it. *)
StopOrStart(a) ==
    /\ phase[a] = "top"
    /\ IF shutdown THEN Mark(a, "stopped") /\ Goto(a, "stopped")
                   ELSE Mark(a, "starting") /\ Goto(a, "adopt")
    /\ UNCHANGED <<shutdown, turn, hooks, done, unwinding, faults>>

AttemptOver(a) ==
    /\ phase[a] = "over"
    /\ IF shutdown THEN Mark(a, "stopped") /\ Goto(a, "stopped")
                   ELSE Mark(a, "backoff") /\ Goto(a, "backoff")
    /\ hooks' = [hooks EXCEPT ![a] = 0]
    /\ done' = [done EXCEPT ![a] = FALSE]
    /\ unwinding' = [unwinding EXCEPT ![a] = FALSE]
    /\ turn' = [turn EXCEPT ![a] = FirstTask(a)]
    /\ UNCHANGED <<shutdown, faults>>

(* The delay, doubled from restart to restart, is over or cut short. *)
WaitBackoff(a) ==
    /\ phase[a] = "backoff"
    /\ IF shutdown THEN Mark(a, "stopped") /\ Goto(a, "stopped")
                   ELSE Goto(a, "top") /\ UNCHANGED health
    /\ UNCHANGED <<shutdown, turn, hooks, done, unwinding, faults>>

(* run_from up to the agent's value: adoption, then build. *)
Enter(a, from, to) ==
    /\ phase[a] = from
    /\ Goto(a, to)
    /\ UNCHANGED <<shutdown, health, turn, hooks, done, unwinding, faults>>

BuildFails(a) ==
    /\ phase[a] = "built"
    /\ Fault
    /\ Goto(a, "close")
    /\ UNCHANGED <<shutdown, health, turn, hooks, done, unwinding>>
----------------------------------------------------------------------------
(* run_with_scheduler and run_periodic_scheduler *)
OnStart(a) ==
    /\ phase[a] = "built"
    /\ Mark(a, "idle")
    /\ Goto(a, "rest")
    /\ UNCHANGED <<shutdown, turn, hooks, done, unwinding, faults>>

(* Mutant: the sleep between tasks does not look at the flag. *)
SleepOn(a) ==
    /\ phase[a] = "rest"
    /\ Goto(a, "due")
    /\ UNCHANGED <<shutdown, health, turn, hooks, done, unwinding, faults>>

(* Between tasks: the interval and the jitter, then the flag is read. *)
Rest(a) ==
    /\ phase[a] = "rest"
    /\ Goto(a, IF shutdown THEN "finish" ELSE "due")
    /\ UNCHANGED <<shutdown, health, turn, hooks, done, unwinding, faults>>

BeginTask(a) ==
    /\ phase[a] = "due"
    /\ Mark(a, "busy")
    /\ Goto(a, turn[a])
    /\ turn' = [turn EXCEPT ![a] = NextTask(a, @)]
    /\ UNCHANGED <<shutdown, hooks, done, unwinding, faults>>

TaskSucceeds(a) ==
    /\ Mark(a, "idle")
    /\ Goto(a, "rest")
    /\ UNCHANGED <<shutdown, turn, hooks, done, unwinding, faults>>

(* A failure that comes with the shutdown leaves the health alone. *)
TaskFails(a) ==
    /\ IF shutdown THEN UNCHANGED <<health, faults>> ELSE Fault /\ Mark(a, "degraded")
    /\ Goto(a, "rest")
    /\ UNCHANGED <<shutdown, turn, hooks, done, unwinding>>

(* on_start fails, or on_start or a task panics: the guard runs the hook. *)
StartFails(a) ==
    /\ phase[a] = "built"
    /\ Fault
    /\ Goto(a, "finish")
    /\ UNCHANGED <<shutdown, health, turn, hooks, done, unwinding>>

Panic(a) ==
    /\ phase[a] \in {"built", "work", "requests"}
    /\ Fault
    /\ Goto(a, "finish")
    /\ unwinding' = [unwinding EXCEPT ![a] = TRUE]
    /\ UNCHANGED <<shutdown, health, turn, hooks, done>>
----------------------------------------------------------------------------
(* Mutant: the guard has no done flag. *)
RunAgain(a) ==
    /\ phase[a] = "finish"
    /\ Mark(a, "stopping")
    /\ Goto(a, "hook")
    /\ UNCHANGED <<shutdown, turn, hooks, done, unwinding, faults>>

(* ShutdownGuard::run_once, from finish() or from drop(). *)
RunOnce(a) ==
    /\ phase[a] = "finish"
    /\ IF done[a]
       THEN Goto(a, "drop") /\ UNCHANGED <<done, health>>
       ELSE /\ done' = [done EXCEPT ![a] = TRUE]
            /\ Mark(a, "stopping")
            /\ Goto(a, "hook")
    /\ UNCHANGED <<shutdown, turn, hooks, unwinding, faults>>

OnShutdown(a) ==
    /\ phase[a] = "hook"
    /\ hooks' = [hooks EXCEPT ![a] = @ + 1]
    /\ Mark(a, "stopped")
    /\ Goto(a, "drop")
    /\ UNCHANGED <<shutdown, turn, done, unwinding, faults>>

(* on_shutdown panics inside finish(): the guard's drop runs run_once      *)
(* again.  (During an unwind the second panic would abort the process.)    *)
OnShutdownPanics(a) ==
    /\ phase[a] = "hook"
    /\ ~unwinding[a]
    /\ Fault
    /\ hooks' = [hooks EXCEPT ![a] = @ + 1]
    /\ unwinding' = [unwinding EXCEPT ![a] = TRUE]
    /\ Goto(a, "finish")
    /\ UNCHANGED <<shutdown, health, turn, done>>

(* A signal handler sets the flag. *)
Shutdown ==
    /\ ~shutdown
    /\ shutdown' = TRUE
    /\ UNCHANGED <<phase, health, turn, hooks, done, unwinding, faults>>

(* The steps of an instance's thread that do not touch the bus. *)
ThreadStep(a) ==
    \/ StopOrStart(a)
    \/ AttemptOver(a)
    \/ WaitBackoff(a)
    \/ OnStart(a)
    \/ StartFails(a)
    \/ Rest(a)
    \/ BeginTask(a)
    \/ RunOnce(a)
    \/ OnShutdown(a)
    \/ OnShutdownPanics(a)
=============================================================================
