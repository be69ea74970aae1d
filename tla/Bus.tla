-------------------------------- MODULE Bus --------------------------------
(***************************************************************************)
(* The in-process request/response bus (src/core/bus.rs).  A provider      *)
(* registers a route with a tool and owns its inbox; a caller looks the    *)
(* route up, sleeps on a condition variable until it appears, sends a      *)
(* request with a response channel of its own, and waits, all within one   *)
(* deadline.  The routes are under one lock, so each critical section is   *)
(* one step; everything else is a step of one thread.                      *)
(***************************************************************************)
EXTENDS Naturals, Sequences

CONSTANTS
    Callers,    \* who sends requests: an agent's model session
    Routes,     \* the names routes are registered under
    ToolName,   \* [Routes -> name of the tool the route serves]
    ScopeOf,    \* [Routes -> Callers \union {Everyone}], a tool's for_agent
    Everyone,   \* for_agent = None
    MaxCalls,   \* bound on the requests of a caller
    MaxLate     \* bound on the requests whose deadline passes

ASSUME BusConstants ==
    /\ Everyone \notin Callers
    /\ ScopeOf \in [Routes -> Callers \union {Everyone}]
    /\ Routes # {}
    /\ MaxCalls \in Nat
    /\ MaxLate \in Nat

VARIABLES
    route,   \* BusInner.routes: is a route registered under the name?
    inbox,   \* the requests in the channel of the route's inbox
    call,    \* the caller's latest request
    lates    \* deadlines that have passed

busVars == <<route, inbox, call, lates>>

Over == {"none", "answered", "failed"}
Waiting == {"lookup", "asleep", "woken", "sending", "waiting"}

(* A request in an inbox is known by its caller and the caller's count. *)
Requests == Callers \X (1..MaxCalls)

BusTypeOK ==
    /\ route \in [Routes -> BOOLEAN]
    /\ inbox \in [Routes -> Seq(Requests)]
    /\ call \in [Callers -> [st: Over \union Waiting, to: Routes,
                             count: 0..MaxCalls, late: BOOLEAN,
                             linked: BOOLEAN]]
    /\ lates \in 0..MaxLate

BusInit ==
    /\ route = [n \in Routes |-> FALSE]
    /\ inbox = [n \in Routes |-> <<>>]
    /\ call = [c \in Callers |-> [st |-> "none", to |-> CHOOSE n \in Routes : TRUE,
                                 count |-> 0, late |-> FALSE, linked |-> FALSE]]
    /\ lates = 0
----------------------------------------------------------------------------
(* Would the tools of n and o be two tools of one name in one session? *)
Overlap(n, o) ==
    /\ ToolName[n] = ToolName[o]
    /\ \/ Everyone \in {ScopeOf[n], ScopeOf[o]}
       \/ ScopeOf[n] = ScopeOf[o]

MayRegister(n) ==
    /\ ~route[n]
    /\ \A o \in Routes : route[o] => ~Overlap(n, o)

(* Mutant: the session is offered every agent's scoped tools too. *)
OfferedToAll(c) == {n \in Routes : route[n]}

(* What registered_tools and session_agent_tools offer a session of c. *)
Offered(c) == {n \in Routes : route[n] /\ ScopeOf[n] \in {Everyone, c}}

(* Mutant: a route appears and nobody is told. *)
NotifyNobody(calls) == calls

(* route_changed.notify_all *)
NotifyAll(calls) ==
    [c \in Callers |->
        IF calls[c].st = "asleep" THEN [calls[c] EXCEPT !.st = "woken"]
        ELSE calls[c]]

(* Dropping a receiver cuts the senders cloned from the route and drops    *)
(* the requests in the channel, each with its response channel.            *)
Cut(n) ==
    [c \in Callers |->
        IF \/ call[c].st = "sending" /\ call[c].to = n
           \/ \E i \in DOMAIN inbox[n] : inbox[n][i] = <<c, call[c].count>>
        THEN [call[c] EXCEPT !.linked = FALSE] ELSE call[c]]

Register(n) ==
    /\ MayRegister(n)
    /\ route' = [route EXCEPT ![n] = TRUE]
    /\ call' = NotifyAll(call)
    /\ UNCHANGED <<inbox, lates>>

(* Mutant: the inbox goes and its route stays in the table. *)
LeaveRoute(n) ==
    /\ inbox' = [inbox EXCEPT ![n] = <<>>]
    /\ call' = Cut(n)
    /\ UNCHANGED <<route, lates>>

(* AgentInbox is dropped by whoever owns it. *)
DropInbox(n) ==
    /\ route' = [route EXCEPT ![n] = FALSE]
    /\ inbox' = [inbox EXCEPT ![n] = <<>>]
    /\ call' = NotifyAll(Cut(n))
    /\ UNCHANGED lates
----------------------------------------------------------------------------
(* AgentBus::request, from the caller's side. *)
End(c, result) ==
    call' = [call EXCEPT ![c] = [@ EXCEPT !.st = result, !.late = FALSE,
                                          !.linked = FALSE]]

Request(c, n) ==
    /\ call[c].st \in Over
    /\ call[c].count < MaxCalls
    /\ call' = [call EXCEPT ![c] = [st |-> "lookup", to |-> n, late |-> FALSE,
                                    count |-> @.count + 1, linked |-> FALSE]]
    /\ UNCHANGED <<route, inbox, lates>>

(* The deadline passes; a caller asleep in wait_timeout wakes up. *)
Expire(c) ==
    /\ lates < MaxLate
    /\ lates' = lates + 1
    /\ call[c].st \in Waiting
    /\ ~call[c].late
    /\ call' = [call EXCEPT ![c] =
                  [@ EXCEPT !.late = TRUE,
                            !.st = IF call[c].st = "asleep" THEN "woken" ELSE call[c].st]]
    /\ UNCHANGED <<route, inbox>>

(* One turn of wait_for_route's loop, under the lock. *)
FindRoute(c) ==
    /\ call[c].st \in {"lookup", "woken"}
    /\ route[call[c].to]
    /\ call' = [call EXCEPT ![c].st = "sending", ![c].linked = TRUE]
    /\ UNCHANGED <<route, inbox, lates>>

SleepOrGiveUp(c) ==
    /\ call[c].st \in {"lookup", "woken"}
    /\ ~route[call[c].to]
    /\ IF call[c].late THEN End(c, "failed")
                       ELSE call' = [call EXCEPT ![c].st = "asleep"]
    /\ UNCHANGED <<route, inbox, lates>>

Send(c) ==
    LET n == call[c].to
    IN /\ call[c].st = "sending"
       /\ IF call[c].linked
          THEN /\ inbox' = [inbox EXCEPT ![n] = Append(@, <<c, call[c].count>>)]
               /\ call' = [call EXCEPT ![c].st = "waiting"]
          ELSE /\ End(c, "failed")
               /\ UNCHANGED inbox
       /\ UNCHANGED <<route, lates>>

(* recv_timeout ends with an error: the request and its response channel   *)
(* are gone, or the deadline is.  A request left in the inbox stays there. *)
LoseRequest(c) ==
    /\ call[c].st = "waiting"
    /\ ~call[c].linked
    /\ End(c, "failed")
    /\ UNCHANGED <<route, inbox, lates>>

TimeOut(c) ==
    /\ call[c].st = "waiting"
    /\ call[c].late
    /\ End(c, "failed")
    /\ UNCHANGED <<route, inbox, lates>>

CallerStep(c) ==
    \/ Expire(c)
    \/ FindRoute(c)
    \/ SleepOrGiveUp(c)
    \/ Send(c)
    \/ LoseRequest(c)
    \/ TimeOut(c)
----------------------------------------------------------------------------
(* AgentInbox::recv_timeout finds a request. *)
Receive(n) ==
    /\ inbox[n] # <<>>
    /\ inbox' = [inbox EXCEPT ![n] = Tail(@)]
    /\ UNCHANGED <<route, call, lates>>

(* Is somebody still waiting for the answer to request r? *)
Awaited(r) == call[r[1]].st = "waiting" /\ call[r[1]].count = r[2]

(* AgentRequest::respond, with a value or an error; nobody may listen. *)
Respond(r) ==
    /\ IF Awaited(r) THEN End(r[1], "answered") ELSE UNCHANGED call
    /\ UNCHANGED <<route, inbox, lates>>

(* The request is dropped unanswered. *)
Forget(r) ==
    /\ call' = IF Awaited(r) THEN [call EXCEPT ![r[1]].linked = FALSE] ELSE call
    /\ UNCHANGED <<route, inbox, lates>>
=============================================================================
