------------------------------- MODULE Fleet -------------------------------
(***************************************************************************)
(* The fleet in one process: every instance of Supervisor.tla runs on its  *)
(* own thread and they reach each other through Bus.tla.  An agent may     *)
(* serve a route from its own periodic task (web, clerk, ops, ...), may    *)
(* adopt the ssh tool, which a thread of its own serves                    *)
(* (src/core/tools/ssh.rs), and may run model sessions, which call the     *)
(* tools their session was offered (src/core/model/acp/runtime.rs).        *)
(***************************************************************************)
EXTENDS Bus, Supervisor

CONSTANTS
    Adopts,    \* agents whose section configures ssh hosts
    OwnRoute,  \* [Owns -> Routes]
    SshRoute   \* [Adopts -> Routes]

ASSUME FleetConstants ==
    /\ Callers = Agents
    /\ Adopts \subseteq Agents
    /\ OwnRoute \in [Owns -> Routes]
    /\ SshRoute \in [Adopts -> Routes]
    /\ \A a \in Agents : Tasks(a) # {}

VARIABLES
    offered,  \* the routes behind the tools of the agent's model session
    job,      \* the request the agent's own task is answering
    server    \* the thread that serves the adopted ssh tool

fleetVars == <<offered, job, server>>
vars == <<busVars, supVars, fleetVars>>

NoJob == <<>>

TypeOK ==
    /\ BusTypeOK
    /\ SupTypeOK
    /\ offered \in [Agents -> SUBSET Routes]
    /\ job \in [Agents -> Requests \union {NoJob}]
    /\ server \in [Agents -> [st: {"none", "head", "recv", "busy"},
                              stop: BOOLEAN, job: Requests \union {NoJob}]]

Init ==
    /\ BusInit
    /\ SupInit
    /\ offered = [a \in Agents |-> {}]
    /\ job = [a \in Agents |-> NoJob]
    /\ server = [a \in Agents |-> [st |-> "none", stop |-> FALSE, job |-> NoJob]]

DropOwn(a) == IF a \in Owns THEN DropInbox(OwnRoute[a]) ELSE UNCHANGED busVars
----------------------------------------------------------------------------
(* SshServer::adopt, at the head of run_from, if the section has hosts *)
Adopt(a) ==
    /\ IF a \notin Adopts
       THEN Enter(a, "adopt", "build") /\ UNCHANGED <<busVars, server>>
       ELSE /\ MayRegister(SshRoute[a])
            /\ Enter(a, "adopt", "build")
            /\ Register(SshRoute[a])
            /\ server' = [server EXCEPT ![a] =
                             [st |-> "head", stop |-> FALSE, job |-> NoJob]]
    /\ UNCHANGED <<offered, job>>

AdoptFails(a) ==
    /\ a \in Adopts
    /\ ~MayRegister(SshRoute[a])
    /\ Enter(a, "adopt", "over")
    /\ UNCHANGED <<busVars, fleetVars>>

(* The agent's build hook registers its route, then connects the model.    *)
Build(a) ==
    /\ IF a \notin Owns THEN Enter(a, "build", "built") /\ UNCHANGED busVars
       ELSE IF MayRegister(OwnRoute[a])
            THEN Enter(a, "build", "built") /\ Register(OwnRoute[a])
            ELSE Enter(a, "build", "close") /\ UNCHANGED busVars
    /\ UNCHANGED fleetVars

BuildFailsLate(a) == BuildFails(a) /\ DropOwn(a) /\ UNCHANGED fleetVars

(* The agent's value is dropped, and with it its inbox; then the handle of *)
(* the ssh server, which only tells the thread to stop.                    *)
DropAgent(a) == Enter(a, "drop", "close") /\ DropOwn(a) /\ UNCHANGED fleetVars

(* Mutant: dropping the handle does not stop the thread. *)
LeakServer(a) ==
    /\ Enter(a, "close", "over")
    /\ UNCHANGED <<busVars, fleetVars>>

DropServer(a) ==
    /\ Enter(a, "close", "over")
    /\ server' = [server EXCEPT ![a].stop = a \in Adopts]
    /\ UNCHANGED <<busVars, offered, job>>
----------------------------------------------------------------------------
(* A model session: it is offered what the bus lists when it is created,   *)
(* and calls one tool at a time.                                           *)
OpenSession(a) ==
    /\ phase[a] = "work"
    /\ offered[a] = {}
    /\ Offered(a) # {}
    /\ offered' = [offered EXCEPT ![a] = Offered(a)]
    /\ UNCHANGED <<busVars, supVars, job, server>>

CallTool(a) ==
    /\ phase[a] = "work"
    /\ \E n \in offered[a] : Request(a, n)
    /\ UNCHANGED <<supVars, fleetVars>>

(* The session ends by itself once its call has, or it is interrupted by   *)
(* the shutdown.                                                           *)
EndSession(a) ==
    /\ phase[a] = "work"
    /\ call[a].st \in Over \/ shutdown
    /\ offered' = [offered EXCEPT ![a] = {}]
    /\ UNCHANGED <<busVars, job, server>>

SessionEnds(a) == EndSession(a) /\ TaskSucceeds(a)
SessionFails(a) == EndSession(a) /\ TaskFails(a)
SessionPanics(a) == EndSession(a) /\ Panic(a)
----------------------------------------------------------------------------
(* The "requests" task: one request or none, within INBOX_WAIT. *)
TakeRequest(a) ==
    /\ phase[a] = "requests"
    /\ job[a] = NoJob
    /\ Receive(OwnRoute[a])
    /\ job' = [job EXCEPT ![a] = Head(inbox[OwnRoute[a]])]
    /\ UNCHANGED <<supVars, offered, server>>

NoRequest(a) ==
    /\ phase[a] = "requests"
    /\ job[a] = NoJob
    /\ inbox[OwnRoute[a]] = <<>>
    /\ TaskSucceeds(a)
    /\ UNCHANGED <<busVars, fleetVars>>

AnswerRequest(a) ==
    /\ phase[a] = "requests"
    /\ job[a] # NoJob
    /\ Respond(job[a])
    /\ job' = [job EXCEPT ![a] = NoJob]
    /\ TaskSucceeds(a)
    /\ UNCHANGED <<offered, server>>

HandlerPanics(a) ==
    /\ phase[a] # "work"
    /\ Panic(a)
    /\ IF job[a] = NoJob THEN UNCHANGED busVars ELSE Forget(job[a])
    /\ job' = [job EXCEPT ![a] = NoJob]
    /\ UNCHANGED <<offered, server>>
----------------------------------------------------------------------------
(* serve_inbox *)
ServerStops(a) ==
    /\ server[a].st = "head"
    /\ server[a].stop
    /\ DropInbox(SshRoute[a])
    /\ server' = [server EXCEPT ![a].st = "none"]
    /\ UNCHANGED <<supVars, offered, job>>

ServerListens(a) ==
    /\ server[a].st = "head"
    /\ ~server[a].stop
    /\ server' = [server EXCEPT ![a].st = "recv"]
    /\ UNCHANGED <<busVars, supVars, offered, job>>

ServerQuiet(a) ==
    /\ server[a].st = "recv"
    /\ inbox[SshRoute[a]] = <<>>
    /\ server' = [server EXCEPT ![a].st = "head"]
    /\ UNCHANGED <<busVars, supVars, offered, job>>

(* Mutant: the tool is served between the agent's cycles only. *)
ServeBetweenCycles(a) ==
    /\ phase[a] # "work"
    /\ server[a].st = "recv"
    /\ Receive(SshRoute[a])
    /\ server' = [server EXCEPT ![a].st = "busy",
                                ![a].job = Head(inbox[SshRoute[a]])]
    /\ UNCHANGED <<supVars, offered, job>>

ServerTakes(a) ==
    /\ server[a].st = "recv"
    /\ Receive(SshRoute[a])
    /\ server' = [server EXCEPT ![a].st = "busy",
                                ![a].job = Head(inbox[SshRoute[a]])]
    /\ UNCHANGED <<supVars, offered, job>>

ServerAnswers(a) ==
    /\ server[a].st = "busy"
    /\ Respond(server[a].job)
    /\ server' = [server EXCEPT ![a].st = "head", ![a].job = NoJob]
    /\ UNCHANGED <<supVars, offered, job>>

ServerStep(a) ==
    \/ ServerStops(a)
    \/ ServerListens(a)
    \/ ServerQuiet(a)
    \/ ServerTakes(a)
    \/ ServerAnswers(a)
----------------------------------------------------------------------------
AgentStep(a) ==
    \/ ThreadStep(a) /\ UNCHANGED <<busVars, fleetVars>>
    \/ Adopt(a)
    \/ AdoptFails(a)
    \/ Build(a)
    \/ BuildFailsLate(a)
    \/ DropAgent(a)
    \/ DropServer(a)
    \/ OpenSession(a)
    \/ SessionEnds(a)
    \/ SessionFails(a)
    \/ SessionPanics(a)
    \/ TakeRequest(a)
    \/ NoRequest(a)
    \/ AnswerRequest(a)
    \/ HandlerPanics(a)

Next ==
    \/ \E a \in Agents : AgentStep(a)
    \/ \E a \in Agents : CallTool(a)
    \/ \E a \in Agents : ServerStep(a)
    \/ \E c \in Callers : CallerStep(c) /\ UNCHANGED <<supVars, fleetVars>>
    \/ Shutdown /\ UNCHANGED <<busVars, fleetVars>>

Spec == Init /\ [][Next]_vars

(* The deadline is far: CallerMoves leaves it out, so that what ends in a  *)
(* fair behaviour ends without it.                                         *)
CallerMoves(c) ==
    /\ FindRoute(c) \/ SleepOrGiveUp(c) \/ Send(c) \/ LoseRequest(c)
    /\ UNCHANGED <<supVars, fleetVars>>

FairSpec ==
    /\ Spec
    /\ \A a \in Agents : WF_vars(AgentStep(a)) /\ WF_vars(ServerStep(a))
    /\ \A c \in Callers : WF_vars(CallerMoves(c))
----------------------------------------------------------------------------
(* No session ever sees two tools of one name, whoever registers and       *)
(* restarts in whatever order: register's overlap rule is about pairs of   *)
(* scopes, the session's list about one reader.                            *)
OneToolPerName ==
    /\ TypeOK
    /\ \A a \in Agents : \A n, o \in Offered(a) :
        ToolName[n] = ToolName[o] => n = o

(* A caller that sleeps until a route appears is not left asleep when it   *)
(* does: the look-up and the wait are atomic with the registration.        *)
NobodySleepsPastARoute ==
    \A c \in Callers : call[c].st = "asleep" => ~route[call[c].to]

(* A route is never left behind by an agent that can no longer serve it: a *)
(* registered route has its task's agent alive or its thread running.      *)
RoutesAreServed ==
    /\ \A a \in Owns : route[OwnRoute[a]] <=> phase[a] \in Alive
    /\ \A a \in Adopts : route[SshRoute[a]] <=> server[a].st # "none"

(* on_shutdown runs exactly once for every constructed agent, however its  *)
(* run ended: by the flag, an error, a panic, or a panic of on_shutdown.   *)
OnShutdownOnce ==
    \A a \in Agents :
        /\ hooks[a] <= 1
        /\ phase[a] = "drop" => hooks[a] = 1

(* The answer to a call does not need the deadline: the target is built,   *)
(* restarted if it failed, and answers, or its end is noticed.             *)
CallsAreAnswered ==
    \A c \in Works : call[c].st \in Waiting ~> (call[c].st \in Over \/ shutdown)

(* A failed instance serves again, although the route of its old ssh       *)
(* thread may still be registered when the new attempt starts.             *)
BackInService ==
    \A a \in Agents : phase[a] = "backoff" ~> (phase[a] = "rest" \/ shutdown)

(* Once the flag is set every instance stops, and stays stopped. *)
ShutdownEnds == shutdown ~> [](\A a \in Agents : phase[a] = "stopped")
=============================================================================
