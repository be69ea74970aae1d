----------------------------- MODULE FleetProofs -----------------------------
(***************************************************************************)
(* Proofs about the fleet, for any number of agents, routes and calls.     *)
(* What holds of the bus is proved of what a step does to the bus          *)
(* (BusStep), what holds of an instance of what it does to its supervisor  *)
(* (SupStep); RoutesAreServed relates the two.                             *)
(***************************************************************************)
EXTENDS Fleet, TLAPS

CallRec == [st: Over \union Waiting, to: Routes, count: 0..MaxCalls, late: BOOLEAN,
            linked: BOOLEAN]

BusStep ==
    \/ \E n \in Routes : Register(n) \/ DropInbox(n) \/ Receive(n)
    \/ \E c \in Callers, n \in Routes : Request(c, n)
    \/ \E c \in Callers : CallerStep(c)
    \/ \E r \in Requests : Respond(r) \/ Forget(r)
    \/ UNCHANGED busVars

SupStep ==
    \/ \E a \in Agents :
        \/ ThreadStep(a)
        \/ BuildFails(a)
        \/ Panic(a)
        \/ phase[a] \in {"work", "requests"} /\ (TaskSucceeds(a) \/ TaskFails(a))
        \/ Enter(a, "adopt", "build") \/ Enter(a, "adopt", "over")
        \/ Enter(a, "build", "built") \/ Enter(a, "build", "close")
        \/ Enter(a, "drop", "close") \/ Enter(a, "close", "over")
    \/ Shutdown
    \/ UNCHANGED supVars

(* Where an attempt stands tells how often its on_shutdown has run.        *)
HooksOnce ==
    \A a \in Agents :
        /\ hooks[a] <= 1
        /\ phase[a] \in {"finish", "hook", "drop", "close", "over"}
             \/ (hooks[a] = 0 /\ ~done[a])
        /\ phase[a] = "finish" => (done[a] <=> hooks[a] = 1)
        /\ phase[a] = "hook" => done[a] /\ hooks[a] = 0
        /\ phase[a] = "drop" => hooks[a] = 1

(* A task runs where it was planned.                                       *)
InRole == \A a \in Agents : phase[a] = "requests" => a \in Owns

(* A call that is under way has been counted.                              *)
Counted == \A c \in Callers : call[c].st \in Waiting => call[c].count # 0

(* The tools of no two registered routes meet in one session.              *)
NoOverlap == \A n, o \in Routes : route[n] /\ route[o] /\ Overlap(n, o) => n = o
----------------------------------------------------------------------------
LEMMA CallKinds ==
  /\ \A k \in CallRec : /\ [k EXCEPT !.st = "woken"] \in CallRec
                        /\ [k EXCEPT !.st = "asleep"] \in CallRec
                        /\ [k EXCEPT !.st = "waiting"] \in CallRec
                        /\ [k EXCEPT !.st = "sending", !.linked = TRUE] \in CallRec
                        /\ [k EXCEPT !.linked = FALSE] \in CallRec
  /\ \A k \in CallRec, s \in Over : [k EXCEPT !.st = s, !.late = FALSE, !.linked = FALSE] \in CallRec
  /\ \A k \in CallRec, s \in Over \union Waiting : [k EXCEPT !.late = TRUE, !.st = s] \in CallRec
  BY DEF CallRec, Over, Waiting

LEMMA Ended ==
  ASSUME BusTypeOK, NEW c \in Callers, NEW s \in Over, End(c, s)
  PROVE  call' \in [Callers -> CallRec] /\ call'[c].st = s
  <1>1. PICK k \in CallRec : k = call[c]
    BY DEF BusTypeOK, CallRec
  <1>2. [k EXCEPT !.st = s, !.late = FALSE, !.linked = FALSE] \in CallRec
    BY CallKinds
  <1>3. call' = [call EXCEPT ![c] = [k EXCEPT !.st = s, !.late = FALSE, !.linked = FALSE]]
    BY <1>1 DEF End
  <1> QED BY <1>1, <1>2, <1>3 DEF BusTypeOK, CallRec

LEMMA Notified ==
  ASSUME NEW calls \in [Callers -> CallRec]
  PROVE  /\ NotifyAll(calls) \in [Callers -> CallRec]
         /\ \A c \in Callers :
              LET k == NotifyAll(calls)[c]
              IN /\ k.st # "asleep" /\ k.count = calls[c].count
                 /\ k.st \in Waiting => calls[c].st \in Waiting
  <1>1. \A c \in Callers : [calls[c] EXCEPT !.st = "woken"] \in CallRec
    BY CallKinds
  <1> QED BY <1>1 DEF NotifyAll, CallRec, Waiting

LEMMA CutKeeps ==
  ASSUME BusTypeOK, NEW n \in Routes
  PROVE  /\ Cut(n) \in [Callers -> CallRec]
         /\ \A c \in Callers : Cut(n)[c].count = call[c].count /\ Cut(n)[c].st = call[c].st
  <1>1. \A c \in Callers : call[c] \in CallRec
    BY DEF BusTypeOK, CallRec
  <1>2. \A c \in Callers : [call[c] EXCEPT !.linked = FALSE] \in CallRec
    BY <1>1, CallKinds
  <1> QED BY <1>1, <1>2 DEF Cut, CallRec

LEMMA BusTypes == BusTypeOK /\ Counted /\ BusStep => BusTypeOK' /\ Counted'
  <1> SUFFICES ASSUME BusTypeOK, Counted, BusStep PROVE BusTypeOK' /\ Counted'
    OBVIOUS
  <1> USE BusConstants
  <1>0. call \in [Callers -> CallRec] /\ \A c \in Callers : call[c] \in CallRec
    BY DEF BusTypeOK, CallRec
  <1>a. ASSUME UNCHANGED <<inbox, lates>>, route' \in [Routes -> BOOLEAN],
               call' \in [Callers -> CallRec],
               \A c \in Callers : call'[c].count = call[c].count
                                  /\ (call'[c].st \in Waiting => call[c].st \in Waiting)
        PROVE  BusTypeOK' /\ Counted'
    BY <1>a DEF BusTypeOK, Counted, CallRec
  <1>b. ASSUME NEW c \in Callers, NEW k \in CallRec, call' = [call EXCEPT ![c] = k],
               k.count = call[c].count, k.st \in Waiting => call[c].st \in Waiting
        PROVE  /\ call' \in [Callers -> CallRec]
               /\ \A d \in Callers : call'[d].count = call[d].count
                                     /\ (call'[d].st \in Waiting => call[d].st \in Waiting)
    BY <1>0, <1>b
  <1>c. \A k \in CallRec :
           /\ [k EXCEPT !.st = "asleep"].count = k.count
           /\ [k EXCEPT !.st = "waiting"].count = k.count
           /\ [k EXCEPT !.st = "sending", !.linked = TRUE].count = k.count
           /\ [k EXCEPT !.linked = FALSE].count = k.count
           /\ [k EXCEPT !.linked = FALSE].st = k.st
    BY DEF CallRec
  <1>1. ASSUME NEW n \in Routes, Register(n) PROVE BusTypeOK' /\ Counted'
    BY <1>0, <1>1, <1>a, Notified DEF Register, BusTypeOK
  <1>2. ASSUME NEW n \in Routes, DropInbox(n) PROVE BusTypeOK' /\ Counted'
    <2>1. /\ call' \in [Callers -> CallRec]
          /\ \A c \in Callers : call'[c].count = call[c].count
                                /\ (call'[c].st \in Waiting => call[c].st \in Waiting)
      <3>1. /\ Cut(n) \in [Callers -> CallRec]
            /\ \A c \in Callers : Cut(n)[c].count = call[c].count /\ Cut(n)[c].st = call[c].st
        BY CutKeeps
      <3> QED BY <1>2, <3>1, Notified DEF DropInbox
    <2>2. [inbox EXCEPT ![n] = <<>>] \in [Routes -> Seq(Requests)]
      BY DEF BusTypeOK
    <2> QED BY <1>2, <2>1, <2>2 DEF DropInbox, BusTypeOK, Counted, CallRec
  <1>3. ASSUME NEW n \in Routes, Receive(n) PROVE BusTypeOK' /\ Counted'
    <2>1. inbox[n] \in Seq(Requests) /\ inbox[n] # <<>>
      BY <1>3 DEF Receive, BusTypeOK
    <2>2. Tail(inbox[n]) \in Seq(Requests)
      BY <2>1
    <2> QED BY <1>3, <2>2 DEF Receive, BusTypeOK, Counted
  <1>4. ASSUME NEW c \in Callers, NEW n \in Routes, Request(c, n) PROVE BusTypeOK' /\ Counted'
    <2>1. call[c].count \in 0..MaxCalls /\ call[c].count < MaxCalls
      BY <1>0, <1>4 DEF Request, CallRec
    <2> DEFINE k == [st |-> "lookup", to |-> n, late |-> FALSE, count |-> call[c].count + 1,
                     linked |-> FALSE]
    <2>2. k \in CallRec /\ k.count # 0
      BY <2>1 DEF CallRec, Over, Waiting
    <2>3. call' = [call EXCEPT ![c] = k] /\ UNCHANGED <<route, inbox, lates>>
      BY <1>4 DEF Request
    <2> HIDE DEF k
    <2>4. call' \in [Callers -> CallRec] /\ Counted'
      BY <1>0, <2>2, <2>3 DEF Counted
    <2> QED BY <2>3, <2>4 DEF BusTypeOK, CallRec
  <1>5. ASSUME NEW c \in Callers, Expire(c) PROVE BusTypeOK' /\ Counted'
    <2>1. PICK s \in Waiting :
             call' = [call EXCEPT ![c] = [call[c] EXCEPT !.late = TRUE, !.st = s]]
      <3>1. CASE call[c].st = "asleep"
        <4>1. "woken" \in Waiting
          BY DEF Waiting
        <4> QED BY <1>5, <3>1, <4>1 DEF Expire
      <3>2. CASE call[c].st # "asleep"
        BY <1>5, <3>2 DEF Expire
      <3> QED BY <3>1, <3>2
    <2>2. call' \in [Callers -> CallRec]
      BY <1>0, <2>1, CallKinds
    <2>3. lates' \in 0..MaxLate /\ UNCHANGED <<route, inbox>> /\ call[c].st \in Waiting
      BY <1>5 DEF Expire, BusTypeOK
    <2>4. Counted'
      BY <1>0, <2>1, <2>3 DEF Counted, CallRec
    <2> QED BY <2>2, <2>3, <2>4 DEF BusTypeOK, CallRec
  <1>6. ASSUME NEW c \in Callers, FindRoute(c) PROVE BusTypeOK' /\ Counted'
    <2> DEFINE k == [call[c] EXCEPT !.st = "sending", !.linked = TRUE]
    <2>1. call' = [call EXCEPT ![c] = k] /\ k \in CallRec /\ k.count = call[c].count
      BY <1>0, <1>6, <1>c, CallKinds DEF FindRoute
    <2>2. call[c].st \in Waiting /\ UNCHANGED <<route, inbox, lates>>
      BY <1>6 DEF FindRoute, Waiting
    <2> HIDE DEF k
    <2> QED BY <1>a, <1>b, <2>1, <2>2 DEF BusTypeOK
  <1>7. ASSUME NEW c \in Callers, NEW s \in Over, End(c, s)
        PROVE  /\ call' \in [Callers -> CallRec]
               /\ \A d \in Callers : call'[d].count = call[d].count
                                     /\ (call'[d].st \in Waiting => call[d].st \in Waiting)
    <2>1. call' = [call EXCEPT ![c] = [call[c] EXCEPT !.st = s, !.late = FALSE, !.linked = FALSE]]
      BY <1>7 DEF End
    <2>2. s \notin Waiting
      BY DEF Over, Waiting
    <2> QED BY <1>0, <1>7, <2>1, <2>2, Ended DEF CallRec
  <1>8. ASSUME NEW c \in Callers, SleepOrGiveUp(c) PROVE BusTypeOK' /\ Counted'
    <2>1. CASE call[c].late
      BY <1>7, <1>8, <1>a, <2>1 DEF SleepOrGiveUp, Over, BusTypeOK
    <2>2. CASE ~call[c].late
      <3> DEFINE k == [call[c] EXCEPT !.st = "asleep"]
      <3>1. call' = [call EXCEPT ![c] = k] /\ k \in CallRec /\ k.count = call[c].count
        BY <1>0, <1>8, <1>c, <2>2, CallKinds DEF SleepOrGiveUp
      <3>2. call[c].st \in Waiting /\ UNCHANGED <<route, inbox, lates>>
        BY <1>8 DEF SleepOrGiveUp, Waiting
      <3> HIDE DEF k
      <3> QED BY <1>a, <1>b, <3>1, <3>2 DEF BusTypeOK
    <2> QED BY <2>1, <2>2
  <1>9. ASSUME NEW c \in Callers, Send(c) PROVE BusTypeOK' /\ Counted'
    <2>1. call[c].to \in Routes /\ UNCHANGED <<route, lates>> /\ call[c].st = "sending"
      BY <1>0, <1>9 DEF Send, CallRec
    <2>2. CASE call[c].linked
      <3>1. call' = [call EXCEPT ![c] = [call[c] EXCEPT !.st = "waiting"]]
        BY <1>9, <2>2 DEF Send
      <3>2. call' \in [Callers -> CallRec] /\ Counted'
        <4> DEFINE k == [call[c] EXCEPT !.st = "waiting"]
        <4>1. k \in CallRec /\ k.count = call[c].count /\ call' = [call EXCEPT ![c] = k]
          BY <1>0, <1>c, <3>1, CallKinds
        <4>2. call[c].st \in Waiting
          BY <2>1 DEF Waiting
        <4> HIDE DEF k
        <4> QED BY <1>b, <4>1, <4>2 DEF Counted
      <3>3. <<c, call[c].count>> \in Requests
        BY <1>0, <2>1 DEF Requests, CallRec, Counted, Waiting
      <3>4. inbox' = [inbox EXCEPT ![call[c].to] = Append(inbox[call[c].to], <<c, call[c].count>>)]
        BY <1>9, <2>2 DEF Send
      <3>5. inbox' \in [Routes -> Seq(Requests)]
        <4> DEFINE x == <<c, call[c].count>>
        <4> HIDE DEF x
        <4>1. Append(inbox[call[c].to], x) \in Seq(Requests)
          BY <2>1, <3>3 DEF BusTypeOK, x
        <4> QED BY <2>1, <3>4, <4>1 DEF BusTypeOK, x
      <3> QED BY <2>1, <3>2, <3>5 DEF BusTypeOK, CallRec
    <2>3. CASE ~call[c].linked
      <3>1. End(c, "failed") /\ UNCHANGED inbox
        BY <1>9, <2>3 DEF Send
      <3> QED BY <1>7, <1>a, <2>1, <3>1 DEF Over, BusTypeOK
    <2> QED BY <2>2, <2>3
  <1>10. ASSUME NEW c \in Callers, LoseRequest(c) \/ TimeOut(c) PROVE BusTypeOK' /\ Counted'
    BY <1>7, <1>10, <1>a DEF LoseRequest, TimeOut, Over, BusTypeOK
  <1>11. ASSUME NEW r \in Requests, Respond(r) PROVE BusTypeOK' /\ Counted'
    <2>1. r[1] \in Callers
      BY DEF Requests
    <2>2. CASE Awaited(r)
      BY <1>7, <1>11, <1>a, <2>1, <2>2 DEF Respond, Over, BusTypeOK
    <2>3. CASE ~Awaited(r)
      BY <1>0, <1>11, <1>a, <2>3 DEF Respond, BusTypeOK
    <2> QED BY <2>2, <2>3
  <1>12. ASSUME NEW r \in Requests, Forget(r) PROVE BusTypeOK' /\ Counted'
    <2>1. r[1] \in Callers
      BY DEF Requests
    <2>2. CASE Awaited(r)
      <3> DEFINE k == [call[r[1]] EXCEPT !.linked = FALSE]
      <3>1. /\ call' = [call EXCEPT ![r[1]] = k] /\ k \in CallRec
            /\ k.count = call[r[1]].count /\ k.st = call[r[1]].st
        BY <1>0, <1>12, <1>c, <2>1, <2>2, CallKinds DEF Forget
      <3>2. UNCHANGED <<route, inbox, lates>>
        BY <1>12 DEF Forget
      <3> HIDE DEF k
      <3> QED BY <1>a, <1>b, <2>1, <3>1, <3>2 DEF BusTypeOK
    <2>3. CASE ~Awaited(r)
      BY <1>0, <1>12, <1>a, <2>3 DEF Forget, BusTypeOK
    <2> QED BY <2>2, <2>3
  <1>13. CASE UNCHANGED busVars
    BY <1>13 DEF busVars, BusTypeOK, Counted
  <1> QED BY <1>1, <1>2, <1>3, <1>4, <1>5, <1>6, <1>8, <1>9, <1>10, <1>11, <1>12, <1>13
          DEF BusStep, CallerStep
----------------------------------------------------------------------------
LEMMA Scheduled ==
  ASSUME NEW a \in Agents
  PROVE  /\ FirstTask(a) \in Tasks(a)
         /\ \A t : NextTask(a, t) \in Tasks(a)
         /\ Tasks(a) \subseteq {"work", "requests"}
  <1>1. Tasks(a) # {}
    BY FleetConstants
  <1> QED BY <1>1 DEF Tasks, FirstTask, NextTask

LEMMA SupTypes == SupTypeOK /\ HooksOnce /\ SupStep => SupTypeOK'
  <1> SUFFICES ASSUME SupTypeOK, HooksOnce, SupStep PROVE SupTypeOK'
    OBVIOUS
  <1> USE SupervisorConstants
  <1>1. CASE Shutdown \/ UNCHANGED supVars
    BY <1>1 DEF Shutdown, supVars, SupTypeOK
  <1>2. ASSUME NEW a \in Agents, StopOrStart(a) \/ WaitBackoff(a) \/ OnStart(a) \/ Rest(a)
        PROVE  SupTypeOK'
    BY <1>2 DEF StopOrStart, WaitBackoff, OnStart, Rest, SupTypeOK, Goto, Mark, Alive
  <1>3. ASSUME NEW a \in Agents, AttemptOver(a) PROVE SupTypeOK'
    <2>1. FirstTask(a) \in Tasks(a) /\ FirstTask(a) \in {"work", "requests"}
      BY Scheduled
    <2> QED BY <1>3, <2>1 DEF AttemptOver, SupTypeOK, Goto, Mark, Alive
  <1>4. ASSUME NEW a \in Agents, BeginTask(a) PROVE SupTypeOK'
    <2>1. /\ NextTask(a, turn[a]) \in Tasks(a) /\ NextTask(a, turn[a]) \in {"work", "requests"}
          /\ turn[a] \in {"work", "requests"}
      BY Scheduled DEF SupTypeOK
    <2> QED BY <1>4, <2>1 DEF BeginTask, SupTypeOK, Goto, Mark, Alive
  <1>5. ASSUME NEW a \in Agents, StartFails(a) \/ BuildFails(a) \/ Panic(a) PROVE SupTypeOK'
    <2>1. CASE StartFails(a) \/ BuildFails(a)
      BY <2>1 DEF StartFails, BuildFails, Fault, SupTypeOK, Goto, Alive
    <2>2. CASE Panic(a)
      BY <2>2 DEF Panic, Fault, SupTypeOK, Goto, Alive
    <2> QED BY <1>5, <2>1, <2>2
  <1>6. ASSUME NEW a \in Agents, TaskSucceeds(a) \/ TaskFails(a) PROVE SupTypeOK'
    <2>1. CASE TaskSucceeds(a)
      BY <2>1 DEF TaskSucceeds, SupTypeOK, Goto, Mark, Alive
    <2>2. CASE TaskFails(a) /\ shutdown
      BY <2>2 DEF TaskFails, SupTypeOK, Goto, Mark, Alive
    <2>3. CASE TaskFails(a) /\ ~shutdown
      BY <2>3 DEF TaskFails, Fault, SupTypeOK, Goto, Mark, Alive
    <2> QED BY <1>6, <2>1, <2>2, <2>3
  <1>7. ASSUME NEW a \in Agents, RunOnce(a) PROVE SupTypeOK'
    <2>1. CASE done[a]
      BY <1>7, <2>1 DEF RunOnce, SupTypeOK, Goto, Mark, Alive
    <2>2. CASE ~done[a]
      BY <1>7, <2>2 DEF RunOnce, SupTypeOK, Goto, Mark, Alive
    <2> QED BY <2>1, <2>2
  <1>8. ASSUME NEW a \in Agents, OnShutdown(a) \/ OnShutdownPanics(a) PROVE SupTypeOK'
    <2>1. hooks[a] + 1 \in 0..2
      BY DEF HooksOnce, SupTypeOK
    <2>2. CASE OnShutdown(a)
      BY <2>1, <2>2 DEF OnShutdown, SupTypeOK, Goto, Mark, Alive
    <2>3. CASE OnShutdownPanics(a)
      BY <2>1, <2>3 DEF OnShutdownPanics, Fault, SupTypeOK, Goto, Mark, Alive
    <2> QED BY <1>8, <2>2, <2>3
  <1>9. ASSUME NEW a \in Agents, NEW p, NEW q, Enter(a, p, q),
               q \in {"build", "over", "built", "close"}
        PROVE  SupTypeOK'
    BY <1>9 DEF Enter, SupTypeOK, Goto, Alive
  <1> QED BY <1>1, <1>2, <1>3, <1>4, <1>5, <1>6, <1>7, <1>8, <1>9 DEF SupStep, ThreadStep

LEMMA HooksStep == SupTypeOK /\ HooksOnce /\ SupStep => HooksOnce'
  <1> SUFFICES ASSUME SupTypeOK, HooksOnce, SupStep PROVE HooksOnce'
    OBVIOUS
  <1>1. CASE Shutdown \/ UNCHANGED supVars
    BY <1>1 DEF Shutdown, supVars, HooksOnce
  <1>2. ASSUME NEW a \in Agents, StopOrStart(a) \/ WaitBackoff(a) \/ OnStart(a)
        PROVE  HooksOnce'
    BY <1>2 DEF StopOrStart, WaitBackoff, OnStart, SupTypeOK, HooksOnce, Goto, Mark
  <1>3. ASSUME NEW a \in Agents, AttemptOver(a) PROVE HooksOnce'
    BY <1>3 DEF AttemptOver, SupTypeOK, HooksOnce, Goto, Mark
  <1>4. ASSUME NEW a \in Agents, BeginTask(a) PROVE HooksOnce'
    <2>1. turn[a] \in {"work", "requests"}
      BY DEF SupTypeOK
    <2> QED BY <1>4, <2>1 DEF BeginTask, SupTypeOK, HooksOnce, Goto, Mark
  <1>5. ASSUME NEW a \in Agents, StartFails(a) \/ BuildFails(a) \/ Panic(a) \/ Rest(a)
        PROVE  HooksOnce'
    BY <1>5 DEF StartFails, BuildFails, Panic, Rest, SupTypeOK, HooksOnce, Goto, Mark
  <1>6. ASSUME NEW a \in Agents, phase[a] \in {"work", "requests"}, TaskSucceeds(a) \/ TaskFails(a)
        PROVE  HooksOnce'
    BY <1>6 DEF TaskSucceeds, TaskFails, SupTypeOK, HooksOnce, Goto, Mark
  <1>7. ASSUME NEW a \in Agents, RunOnce(a) PROVE HooksOnce'
    <2>1. CASE done[a]
      BY <1>7, <2>1 DEF RunOnce, SupTypeOK, HooksOnce, Goto, Mark
    <2>2. CASE ~done[a]
      <3>1. hooks[a] = 0
        BY <1>7, <2>2 DEF RunOnce, SupTypeOK, HooksOnce
      <3> QED BY <1>7, <2>2, <3>1 DEF RunOnce, SupTypeOK, HooksOnce, Goto, Mark
    <2> QED BY <2>1, <2>2
  <1>8. ASSUME NEW a \in Agents, OnShutdown(a) \/ OnShutdownPanics(a) PROVE HooksOnce'
    BY <1>8 DEF OnShutdown, OnShutdownPanics, SupTypeOK, HooksOnce, Goto, Mark
  <1>9. ASSUME NEW a \in Agents,
               \/ Enter(a, "adopt", "build") \/ Enter(a, "adopt", "over")
               \/ Enter(a, "build", "built") \/ Enter(a, "build", "close")
               \/ Enter(a, "drop", "close") \/ Enter(a, "close", "over")
        PROVE  HooksOnce'
    BY <1>9 DEF Enter, SupTypeOK, HooksOnce, Goto
  <1> QED BY <1>1, <1>2, <1>3, <1>4, <1>5, <1>6, <1>7, <1>8, <1>9 DEF SupStep, ThreadStep

LEMMA RoleStep == SupTypeOK /\ InRole /\ SupStep => InRole'
  <1> SUFFICES ASSUME SupTypeOK, InRole, SupStep PROVE InRole'
    OBVIOUS
  <1>1. CASE Shutdown \/ UNCHANGED supVars
    BY <1>1 DEF Shutdown, supVars, InRole
  <1>2. ASSUME NEW a \in Agents, BeginTask(a) PROVE InRole'
    <2>1. turn[a] = "requests" => a \in Owns
      BY DEF SupTypeOK, Tasks
    <2> QED BY <1>2, <2>1 DEF BeginTask, SupTypeOK, InRole, Goto
  <1>3. ASSUME NEW a \in Agents, NEW p, Goto(a, p), p # "requests" PROVE InRole'
    BY <1>3 DEF SupTypeOK, InRole, Goto
  <1> QED BY <1>1, <1>2, <1>3
          DEF SupStep, ThreadStep, StopOrStart, AttemptOver, WaitBackoff, OnStart, StartFails, Rest,
              RunOnce, OnShutdown, OnShutdownPanics, BuildFails, Panic, TaskSucceeds, TaskFails,
              Enter
----------------------------------------------------------------------------
FleetTypeOK ==
    /\ offered \in [Agents -> SUBSET Routes]
    /\ job \in [Agents -> Requests \union {NoJob}]
    /\ server \in [Agents -> [st: {"none", "head", "recv", "busy"},
                              stop: BOOLEAN, job: Requests \union {NoJob}]]
    /\ \A a \in Agents : /\ server[a].st = "busy" => server[a].job \in Requests
                         /\ server[a].st # "none" => a \in Adopts

IInv ==
    /\ BusTypeOK /\ Counted /\ NoOverlap
    /\ SupTypeOK /\ HooksOnce /\ InRole
    /\ FleetTypeOK
    /\ NobodySleepsPastARoute

(* What a step of the fleet is to the bus and to the supervisors.          *)
LEMMA Layers == BusTypeOK /\ FleetTypeOK /\ InRole /\ [Next]_vars => BusStep /\ SupStep
  <1> SUFFICES ASSUME BusTypeOK, FleetTypeOK, InRole, [Next]_vars PROVE BusStep /\ SupStep
    OBVIOUS
  <1> USE SupervisorConstants, FleetConstants
  <1>0. ASSUME NEW a \in Agents
        PROVE  /\ a \in Owns => OwnRoute[a] \in Routes
               /\ a \in Adopts => SshRoute[a] \in Routes
               /\ DropOwn(a) => BusStep
               /\ a \in Callers
    BY DEF DropOwn, BusStep
  <1>1. ASSUME NEW a \in Agents, ThreadStep(a), UNCHANGED <<busVars, fleetVars>>
        PROVE  BusStep /\ SupStep
    BY <1>1 DEF BusStep, SupStep
  <1>2. ASSUME NEW a \in Agents, Adopt(a) \/ AdoptFails(a) PROVE BusStep /\ SupStep
    BY <1>0, <1>2 DEF Adopt, AdoptFails, BusStep, SupStep
  <1>3. ASSUME NEW a \in Agents, Build(a) PROVE BusStep /\ SupStep
    BY <1>0, <1>3 DEF Build, BusStep, SupStep
  <1>4. ASSUME NEW a \in Agents, BuildFailsLate(a) \/ DropAgent(a) PROVE BusStep /\ SupStep
    BY <1>0, <1>4 DEF BuildFailsLate, DropAgent, SupStep
  <1>5. ASSUME NEW a \in Agents, DropServer(a) \/ OpenSession(a) PROVE BusStep /\ SupStep
    BY <1>5 DEF DropServer, OpenSession, BusStep, SupStep
  <1>6. ASSUME NEW a \in Agents, SessionEnds(a) \/ SessionFails(a) \/ SessionPanics(a)
        PROVE  BusStep /\ SupStep
    BY <1>6 DEF SessionEnds, SessionFails, SessionPanics, EndSession, BusStep, SupStep
  <1>7. ASSUME NEW a \in Agents, TakeRequest(a) \/ NoRequest(a) PROVE BusStep /\ SupStep
    <2>1. a \in Owns
      BY <1>7 DEF TakeRequest, NoRequest, InRole
    <2> QED BY <1>0, <1>7, <2>1 DEF TakeRequest, NoRequest, BusStep, SupStep
  <1>8. ASSUME NEW a \in Agents, AnswerRequest(a) \/ HandlerPanics(a) PROVE BusStep /\ SupStep
    <2>1. job[a] # NoJob => job[a] \in Requests
      BY DEF FleetTypeOK
    <2> QED BY <1>8, <2>1 DEF AnswerRequest, HandlerPanics, BusStep, SupStep
  <1>9. ASSUME NEW a \in Agents, CallTool(a) PROVE BusStep /\ SupStep
    <2>1. offered[a] \subseteq Routes
      BY DEF FleetTypeOK
    <2> QED BY <1>0, <1>9, <2>1 DEF CallTool, BusStep, SupStep
  <1>10. ASSUME NEW a \in Agents, ServerStep(a) PROVE BusStep /\ SupStep
    <2>1. server[a].st = "busy" => server[a].job \in Requests
      BY DEF FleetTypeOK
    <2>2. a \in Adopts
      BY <1>10 DEF ServerStep, ServerStops, ServerListens, ServerQuiet, ServerTakes, ServerAnswers,
                   FleetTypeOK
    <2> QED BY <2>2, <1>0, <1>10, <2>1 DEF ServerStep, ServerStops, ServerListens, ServerQuiet,
              ServerTakes, ServerAnswers, BusStep, SupStep
  <1>11. ASSUME NEW c \in Callers, CallerStep(c), UNCHANGED <<supVars, fleetVars>>
         PROVE  BusStep /\ SupStep
    BY <1>11 DEF BusStep, SupStep
  <1>12. CASE Shutdown /\ UNCHANGED <<busVars, fleetVars>>
    BY <1>12 DEF BusStep, SupStep
  <1>13. CASE UNCHANGED vars
    BY <1>13 DEF vars, BusStep, SupStep
  <1> QED BY <1>1, <1>2, <1>3, <1>4, <1>5, <1>6, <1>7, <1>8, <1>9, <1>10, <1>11, <1>12, <1>13
          DEF Next, AgentStep

LEMMA FleetTypes == BusTypeOK /\ InRole /\ FleetTypeOK /\ [Next]_vars => FleetTypeOK'
  <1> SUFFICES ASSUME BusTypeOK, InRole, FleetTypeOK, [Next]_vars PROVE FleetTypeOK'
    OBVIOUS
  <1> USE SupervisorConstants, FleetConstants
  <1>0. ASSUME NEW n \in Routes, Receive(n) PROVE Head(inbox[n]) \in Requests
    <2>1. inbox[n] \in Seq(Requests) /\ inbox[n] # <<>>
      BY <1>0 DEF Receive, BusTypeOK
    <2> QED BY <2>1
  <1>1. CASE UNCHANGED fleetVars
    BY <1>1 DEF fleetVars, FleetTypeOK
  <1>2. ASSUME NEW a \in Agents, Adopt(a) PROVE FleetTypeOK'
    <2>1. CASE a \notin Adopts
      BY <1>2, <2>1 DEF Adopt, FleetTypeOK
    <2>2. CASE a \in Adopts
      <3> DEFINE s == [st |-> "head", stop |-> FALSE, job |-> NoJob]
      <3>1. s.st = "head" /\ s \in [st: {"none", "head", "recv", "busy"}, stop: BOOLEAN,
                                    job: Requests \union {NoJob}]
        OBVIOUS
      <3>2. server' = [server EXCEPT ![a] = s] /\ UNCHANGED <<offered, job>>
        BY <1>2, <2>2 DEF Adopt
      <3> HIDE DEF s
      <3> QED BY <2>2, <3>1, <3>2 DEF FleetTypeOK
    <2> QED BY <2>1, <2>2
  <1>3. ASSUME NEW a \in Agents, DropServer(a) PROVE FleetTypeOK'
    <2>1. (a \in Adopts) \in BOOLEAN
      OBVIOUS
    <2>2. server' = [server EXCEPT ![a].stop = a \in Adopts] /\ UNCHANGED <<offered, job>>
      BY <1>3 DEF DropServer
    <2> DEFINE stop == a \in Adopts
    <2> HIDE DEF stop
    <2>3. stop \in BOOLEAN /\ server' = [server EXCEPT ![a].stop = stop]
      BY <2>1, <2>2 DEF stop
    <2> QED BY <2>2, <2>3 DEF FleetTypeOK
  <1>4. ASSUME NEW a \in Agents, OpenSession(a) \/ EndSession(a) PROVE FleetTypeOK'
    <2>1. CASE OpenSession(a)
      BY <2>1 DEF OpenSession, Offered, FleetTypeOK
    <2>2. CASE EndSession(a)
      BY <2>2 DEF EndSession, FleetTypeOK
    <2> QED BY <1>4, <2>1, <2>2
  <1>5. ASSUME NEW a \in Agents, TakeRequest(a) PROVE FleetTypeOK'
    <2>1. OwnRoute[a] \in Routes
      BY <1>5 DEF TakeRequest, InRole
    <2>2. Head(inbox[OwnRoute[a]]) \in Requests
      BY <1>0, <1>5, <2>1 DEF TakeRequest
    <2> QED BY <1>5, <2>2 DEF TakeRequest, FleetTypeOK
  <1>6. ASSUME NEW a \in Agents, AnswerRequest(a) \/ HandlerPanics(a) PROVE FleetTypeOK'
    BY <1>6 DEF AnswerRequest, HandlerPanics, FleetTypeOK
  <1>7. ASSUME NEW a \in Agents, ServerStops(a) \/ ServerListens(a) \/ ServerQuiet(a)
        PROVE  FleetTypeOK'
    <2>1. a \in Adopts /\ UNCHANGED <<offered, job>>
      BY <1>7 DEF ServerStops, ServerListens, ServerQuiet, FleetTypeOK
    <2>2. PICK st \in {"none", "head", "recv"} : server' = [server EXCEPT ![a].st = st]
      BY <1>7 DEF ServerStops, ServerListens, ServerQuiet
    <2> QED BY <2>1, <2>2 DEF FleetTypeOK
  <1>8. ASSUME NEW a \in Agents, ServerTakes(a) PROVE FleetTypeOK'
    <2>1. SshRoute[a] \in Routes /\ server[a].st = "recv" /\ a \in Adopts
      BY <1>8 DEF ServerTakes, FleetTypeOK
    <2> DEFINE r == Head(inbox[SshRoute[a]])
    <2>2. r \in Requests
      BY <1>0, <1>8, <2>1 DEF ServerTakes
    <2>3. server' = [server EXCEPT ![a].st = "busy", ![a].job = r] /\ UNCHANGED <<offered, job>>
      BY <1>8 DEF ServerTakes
    <2> HIDE DEF r
    <2> QED BY <2>1, <2>2, <2>3 DEF FleetTypeOK
  <1>9. ASSUME NEW a \in Agents, ServerAnswers(a) PROVE FleetTypeOK'
    <2>1. server[a].st = "busy" /\ a \in Adopts
      BY <1>9 DEF ServerAnswers, FleetTypeOK
    <2>2. server' = [server EXCEPT ![a].st = "head", ![a].job = NoJob] /\ UNCHANGED <<offered, job>>
      BY <1>9 DEF ServerAnswers
    <2> DEFINE k == [server[a] EXCEPT !.st = "head", !.job = NoJob]
    <2>3. /\ k \in [st: {"none", "head", "recv", "busy"}, stop: BOOLEAN,
                   job: Requests \union {NoJob}]
          /\ k.st = "head"
      BY DEF FleetTypeOK
    <2>4. server' = [server EXCEPT ![a] = k]
      BY <2>2 DEF FleetTypeOK
    <2> HIDE DEF k
    <2>5. /\ server' \in [Agents -> [st: {"none", "head", "recv", "busy"}, stop: BOOLEAN,
                                     job: Requests \union {NoJob}]]
          /\ \A b \in Agents : b # a => server'[b] = server[b]
          /\ server'[a] = k
      BY <2>3, <2>4 DEF FleetTypeOK
    <2> QED BY <2>1, <2>2, <2>3, <2>5 DEF FleetTypeOK
  <1>10. ASSUME NEW a \in Agents,
                \/ AdoptFails(a) \/ Build(a) \/ BuildFailsLate(a) \/ DropAgent(a) \/ NoRequest(a)
                \/ CallTool(a)
         PROVE  FleetTypeOK'
    BY <1>1, <1>10 DEF AdoptFails, Build, BuildFailsLate, DropAgent, NoRequest, CallTool, fleetVars
  <1> QED BY <1>1, <1>2, <1>3, <1>4, <1>5, <1>6, <1>7, <1>8, <1>9, <1>10
          DEF Next, AgentStep, ServerStep, SessionEnds, SessionFails, SessionPanics, vars
----------------------------------------------------------------------------
LEMMA OverlapStep == BusTypeOK /\ NoOverlap /\ BusStep => NoOverlap'
  <1> SUFFICES ASSUME BusTypeOK, NoOverlap, BusStep PROVE NoOverlap'
    OBVIOUS
  <1>1. ASSUME NEW n \in Routes, Register(n) PROVE NoOverlap'
    <2>1. \A o \in Routes : route[o] => ~Overlap(n, o) /\ ~Overlap(o, n)
      BY <1>1 DEF Register, MayRegister, Overlap
    <2> QED BY <1>1, <2>1 DEF Register, NoOverlap, BusTypeOK, Overlap
  <1>2. ASSUME NEW n \in Routes, DropInbox(n) PROVE NoOverlap'
    BY <1>2 DEF DropInbox, NoOverlap, BusTypeOK, Overlap
  <1>3. CASE UNCHANGED route
    BY <1>3 DEF NoOverlap, Overlap
  <1> QED BY <1>1, <1>2, <1>3
          DEF BusStep, CallerStep, Receive, Request, Expire, FindRoute, SleepOrGiveUp, Send,
              LoseRequest, TimeOut, Respond, Forget, busVars

LEMMA SleepStep == BusTypeOK /\ NobodySleepsPastARoute /\ BusStep => NobodySleepsPastARoute'
  <1> SUFFICES ASSUME BusTypeOK, NobodySleepsPastARoute, BusStep,
                      NEW d \in Callers, call'[d].st = "asleep"
               PROVE  ~route'[call'[d].to]
    BY DEF NobodySleepsPastARoute
  <1>0. call \in [Callers -> CallRec] /\ \A c \in Callers : call[c] \in CallRec
    BY DEF BusTypeOK, CallRec
  <1>1. ASSUME NEW n \in Routes, Register(n) PROVE FALSE
    BY <1>0, <1>1, Notified DEF Register
  <1>2. ASSUME NEW n \in Routes, DropInbox(n) PROVE FALSE
    BY <1>2, CutKeeps, Notified DEF DropInbox
  <1>3. ASSUME UNCHANGED route, call'[d].st = "asleep" => call'[d].to = call[d].to /\ call[d].st = "asleep"
        PROVE  ~route'[call'[d].to]
    BY <1>3 DEF NobodySleepsPastARoute
  <1>4. ASSUME NEW n \in Routes, Receive(n) PROVE ~route'[call'[d].to]
    BY <1>3, <1>4 DEF Receive
  <1>5. ASSUME NEW c \in Callers, NEW n \in Routes, Request(c, n) PROVE ~route'[call'[d].to]
    BY <1>0, <1>3, <1>5 DEF Request
  <1>6. ASSUME NEW c \in Callers, NEW s \in Over, End(c, s), UNCHANGED route
        PROVE  ~route'[call'[d].to]
    BY <1>0, <1>3, <1>6 DEF End, CallRec, Over
  <1>7. ASSUME NEW c \in Callers, Expire(c) PROVE ~route'[call'[d].to]
    BY <1>0, <1>3, <1>7 DEF Expire, CallRec
  <1>8. ASSUME NEW c \in Callers, FindRoute(c) PROVE ~route'[call'[d].to]
    BY <1>0, <1>3, <1>8 DEF FindRoute, CallRec
  <1>9. ASSUME NEW c \in Callers, SleepOrGiveUp(c) PROVE ~route'[call'[d].to]
    <2>1. CASE call[c].late
      BY <1>6, <1>9, <2>1 DEF SleepOrGiveUp, Over
    <2>2. CASE ~call[c].late
      <3>1. call' = [call EXCEPT ![c].st = "asleep"] /\ ~route[call[c].to] /\ route' = route
        BY <1>9, <2>2 DEF SleepOrGiveUp
      <3> QED BY <1>0, <1>3, <3>1 DEF CallRec
    <2> QED BY <2>1, <2>2
  <1>10. ASSUME NEW c \in Callers, Send(c) PROVE ~route'[call'[d].to]
    <2>1. CASE call[c].linked
      BY <1>0, <1>3, <1>10, <2>1 DEF Send, CallRec
    <2>2. CASE ~call[c].linked
      BY <1>6, <1>10, <2>2 DEF Send, Over
    <2> QED BY <2>1, <2>2
  <1>11. ASSUME NEW c \in Callers, LoseRequest(c) \/ TimeOut(c) PROVE ~route'[call'[d].to]
    BY <1>6, <1>11 DEF LoseRequest, TimeOut, Over
  <1>12. ASSUME NEW r \in Requests, Respond(r) PROVE ~route'[call'[d].to]
    <2>1. r[1] \in Callers
      BY DEF Requests
    <2> QED BY <1>3, <1>6, <1>12, <2>1 DEF Respond, Over
  <1>13. ASSUME NEW r \in Requests, Forget(r) PROVE ~route'[call'[d].to]
    <2>1. r[1] \in Callers
      BY DEF Requests
    <2> QED BY <1>0, <1>3, <1>13, <2>1 DEF Forget, CallRec
  <1>14. CASE UNCHANGED busVars
    BY <1>3, <1>14 DEF busVars
  <1> QED BY <1>1, <1>2, <1>4, <1>5, <1>7, <1>8, <1>9, <1>10, <1>11, <1>12, <1>13, <1>14
          DEF BusStep, CallerStep
----------------------------------------------------------------------------
LEMMA InitIInv == Init => IInv
  <1> SUFFICES ASSUME Init PROVE IInv
    OBVIOUS
  <1> USE BusConstants, SupervisorConstants, FleetConstants
  <1>1. BusTypeOK /\ Counted
    <2>1. (CHOOSE n \in Routes : TRUE) \in Routes
      OBVIOUS
    <2> DEFINE k == [st |-> "none", to |-> CHOOSE n \in Routes : TRUE, count |-> 0,
                     late |-> FALSE, linked |-> FALSE]
    <2>2. k \in CallRec /\ k.st = "none"
      BY <2>1 DEF CallRec, Over
    <2>3. call = [c \in Callers |-> k]
      BY DEF Init, BusInit
    <2> HIDE DEF k
    <2>4. call \in [Callers -> CallRec] /\ Counted
      BY <2>2, <2>3 DEF Counted, Waiting
    <2>5. <<>> \in Seq(Requests)
      OBVIOUS
    <2> QED BY <2>4, <2>5 DEF Init, BusInit, BusTypeOK, CallRec
  <1>2. NoOverlap /\ NobodySleepsPastARoute
    <2>1. \A n \in Routes : ~route[n]
      BY DEF Init, BusInit
    <2>2. \A c \in Callers : call[c].st = "none"
      BY DEF Init, BusInit
    <2> QED BY <2>1, <2>2 DEF NoOverlap, NobodySleepsPastARoute
  <1>3. SupTypeOK
    <2>1. \A a \in Agents : FirstTask(a) \in Tasks(a) /\ FirstTask(a) \in {"work", "requests"}
      BY Scheduled
    <2>2. turn \in [Agents -> {"work", "requests"}] /\ \A a \in Agents : turn[a] \in Tasks(a)
      BY <2>1 DEF Init, SupInit
    <2>3. /\ phase \in [Agents -> Alive \union {"top", "adopt", "build", "close", "over",
                                             "backoff", "stopped"}]
          /\ health \in [Agents -> {"starting", "idle", "busy", "degraded", "backoff",
                                    "stopping", "stopped"}]
      BY DEF Init, SupInit
    <2>4. done \in [Agents -> BOOLEAN] /\ unwinding \in [Agents -> BOOLEAN]
      BY DEF Init, SupInit
    <2>5. shutdown \in BOOLEAN
      BY Zenon DEF Init, SupInit
    <2>6. faults = 0 /\ MaxFaults \in Nat
      BY DEF Init, SupInit, SupervisorConstants
    <2>7. faults \in 0..MaxFaults
      BY <2>6
    <2>8. hooks = [a \in Agents |-> 0]
      BY DEF Init, SupInit
    <2>9. hooks \in [Agents -> 0..2]
      BY <2>8
    <2> QED BY <2>2, <2>3, <2>4, <2>5, <2>7, <2>9 DEF SupTypeOK
  <1>4. HooksOnce /\ InRole
    BY DEF Init, SupInit, HooksOnce, InRole
  <1>5. FleetTypeOK
    BY DEF Init, FleetTypeOK
  <1> QED BY <1>1, <1>2, <1>3, <1>4, <1>5 DEF IInv

LEMMA NextIInv == IInv /\ [Next]_vars => IInv'
  <1> SUFFICES ASSUME IInv, [Next]_vars PROVE IInv'
    OBVIOUS
  <1>1. BusStep /\ SupStep
    BY Layers DEF IInv
  <1>2. BusTypeOK' /\ Counted' /\ NoOverlap' /\ NobodySleepsPastARoute'
    BY <1>1, BusTypes, OverlapStep, SleepStep DEF IInv
  <1>3. SupTypeOK' /\ HooksOnce' /\ InRole'
    BY <1>1, SupTypes, HooksStep, RoleStep DEF IInv
  <1>4. FleetTypeOK'
    BY FleetTypes DEF IInv
  <1> QED BY <1>2, <1>3, <1>4 DEF IInv

LEMMA Invariance == Spec => []IInv
  BY InitIInv, NextIInv, PTL DEF Spec

(* However instances are built, fail and restart, the tools that are       *)
(* registered never give one session two of one name (AgentBus::register,  *)
(* session_agent_tools).                                                   *)
THEOREM ToolsAreDistinct == Spec => []OneToolPerName
  <1>1. IInv => OneToolPerName
    <2> SUFFICES ASSUME IInv PROVE OneToolPerName
      OBVIOUS
    <2>1. TypeOK
      BY DEF IInv, FleetTypeOK, TypeOK
    <2>2. ASSUME NEW a \in Agents, NEW n \in Offered(a), NEW o \in Offered(a),
                 ToolName[n] = ToolName[o]
          PROVE  n = o
      <3>1. Overlap(n, o) /\ route[n] /\ route[o] /\ n \in Routes /\ o \in Routes
        BY <2>2 DEF Offered, Overlap
      <3> QED BY <3>1 DEF IInv, NoOverlap
    <2> QED BY <2>1, <2>2 DEF OneToolPerName
  <1> QED BY <1>1, Invariance, PTL

(* No caller of AgentBus::request sleeps on in wait_for_route when the     *)
(* route it waits for is registered.                                       *)
THEOREM NoLostWakeUp == Spec => []NobodySleepsPastARoute
  <1>1. IInv => NobodySleepsPastARoute
    BY DEF IInv
  <1> QED BY <1>1, Invariance, PTL

(* ShutdownGuard runs on_shutdown once in every attempt that built an      *)
(* agent, whichever way the attempt ends.                                  *)
THEOREM HookRunsOnce == Spec => []OnShutdownOnce
  <1>1. IInv => OnShutdownOnce
    BY DEF IInv, HooksOnce, OnShutdownOnce
  <1> QED BY <1>1, Invariance, PTL
----------------------------------------------------------------------------
(* Every registrant has a route of its own: ssh is registered under the    *)
(* agent's id (ssh.rs), a served tool under the kind of its agent          *)
(* (clerk.rs, web.rs, ops.rs), and the bus refuses a name in use.          *)
RoutesApart ==
    /\ \A a, b \in Owns : OwnRoute[a] = OwnRoute[b] => a = b
    /\ \A a, b \in Adopts : SshRoute[a] = SshRoute[b] => a = b
    /\ \A a \in Owns, b \in Adopts : OwnRoute[a] # SshRoute[b]

(* A step that registers nothing, drops nothing, and starts or ends none   *)
(* of those who answer.                                                    *)
Uneventful ==
    /\ UNCHANGED route
    /\ \A b \in Agents : phase'[b] \in Alive <=> phase[b] \in Alive
    /\ \A b \in Agents : server'[b].st = "none" <=> server[b].st = "none"

LEMMA OnlyRegistrars ==
    ASSUME IInv, NEW a \in Agents,
           \/ ThreadStep(a) /\ UNCHANGED <<busVars, fleetVars>>
           \/ AdoptFails(a) \/ DropServer(a) \/ OpenSession(a)
           \/ SessionEnds(a) \/ SessionFails(a) \/ SessionPanics(a)
           \/ TakeRequest(a) \/ NoRequest(a) \/ AnswerRequest(a) \/ HandlerPanics(a)
           \/ CallTool(a) \/ (ServerStep(a) /\ ~ServerStops(a))
    PROVE  Uneventful
  <1>0. SupTypeOK /\ FleetTypeOK
    BY DEF IInv
  <1>1. CASE ThreadStep(a) /\ UNCHANGED <<busVars, fleetVars>>
    <2>1. UNCHANGED <<route, server>>
      BY <1>1 DEF busVars, fleetVars
    <2>2. turn[a] \in {"work", "requests"}
      BY <1>0 DEF SupTypeOK
    <2>3. PICK p : phase' = [phase EXCEPT ![a] = p] /\ (p \in Alive <=> phase[a] \in Alive)
      BY <1>1, <2>2 DEF ThreadStep, StopOrStart, AttemptOver, WaitBackoff, OnStart, StartFails, Rest,
         BeginTask, RunOnce, OnShutdown, OnShutdownPanics, Goto, Alive
    <2> QED BY <1>0, <2>1, <2>3 DEF Uneventful, SupTypeOK
  <1>2. CASE AdoptFails(a) \/ DropServer(a) \/ OpenSession(a)
    <2>1. UNCHANGED route /\ \A b \in Agents : phase'[b] \in Alive <=> phase[b] \in Alive
      BY <1>0, <1>2 DEF AdoptFails, DropServer, OpenSession, Enter, Goto, Alive, busVars, supVars,
                        SupTypeOK
    <2>2. \A b \in Agents : server'[b].st = server[b].st
      BY <1>0, <1>2 DEF AdoptFails, DropServer, OpenSession, fleetVars, FleetTypeOK
    <2> QED BY <2>1, <2>2 DEF Uneventful
  <1>3. CASE SessionEnds(a) \/ SessionFails(a) \/ SessionPanics(a)
    <2>1. UNCHANGED <<route, server>>
      BY <1>3 DEF SessionEnds, SessionFails, SessionPanics, EndSession, busVars
    <2>2. \A b \in Agents : phase'[b] \in Alive <=> phase[b] \in Alive
      BY <1>0, <1>3 DEF SessionEnds, SessionFails, SessionPanics, EndSession, TaskSucceeds, TaskFails,
                        Panic, Goto, Alive, SupTypeOK
    <2> QED BY <2>1, <2>2 DEF Uneventful
  <1>4. CASE TakeRequest(a) \/ NoRequest(a) \/ AnswerRequest(a) \/ HandlerPanics(a)
    <2>1. UNCHANGED <<route, server>>
      BY <1>4 DEF TakeRequest, NoRequest, AnswerRequest, HandlerPanics, Receive, Respond, Forget, busVars,
                  fleetVars
    <2>2. \A b \in Agents : phase'[b] \in Alive <=> phase[b] \in Alive
      BY <1>0, <1>4 DEF TakeRequest, NoRequest, AnswerRequest, HandlerPanics, TaskSucceeds, Panic, Goto,
                        Alive, SupTypeOK, supVars
    <2> QED BY <2>1, <2>2 DEF Uneventful
  <1>5. CASE CallTool(a)
    BY <1>5 DEF CallTool, Request, supVars, fleetVars, Uneventful
  <1>6. CASE ServerStep(a) /\ ~ServerStops(a)
    <2>1. UNCHANGED <<route, phase>>
      BY <1>6 DEF ServerStep, ServerListens, ServerQuiet, ServerTakes, ServerAnswers, Receive, Respond,
                  busVars, supVars
    <2>2. server[a].st # "none"
      BY <1>6 DEF ServerStep, ServerListens, ServerQuiet, ServerTakes, ServerAnswers
    <2>3. server'[a].st # "none" /\ \A b \in Agents \ {a} : server'[b] = server[b]
      BY <1>0, <1>6 DEF ServerStep, ServerListens, ServerQuiet, ServerTakes, ServerAnswers, FleetTypeOK
    <2> QED BY <2>1, <2>2, <2>3 DEF Uneventful
  <1> QED BY <1>1, <1>2, <1>3, <1>4, <1>5, <1>6

LEMMA ServedStep == RoutesApart /\ IInv /\ RoutesAreServed /\ [Next]_vars => RoutesAreServed'
  <1> SUFFICES ASSUME RoutesApart, IInv, RoutesAreServed, [Next]_vars PROVE RoutesAreServed'
    OBVIOUS
  <1> USE FleetConstants, SupervisorConstants
  <1>0. SupTypeOK /\ FleetTypeOK /\ route \in [Routes -> BOOLEAN]
    BY DEF IInv, BusTypeOK
  <1>1. Uneventful => RoutesAreServed'
    BY DEF Uneventful, RoutesAreServed, SupervisorConstants, FleetConstants
  <1>2. ASSUME NEW a \in Agents, Adopt(a) PROVE RoutesAreServed'
    <2>1. \A b \in Agents : phase'[b] \in Alive <=> phase[b] \in Alive
      BY <1>0, <1>2 DEF Adopt, Enter, Goto, Alive, SupTypeOK
    <2>2. CASE a \notin Adopts
      <3>1. UNCHANGED <<route, server>>
        BY <1>2, <2>2 DEF Adopt, busVars
      <3> QED BY <1>1, <2>1, <3>1 DEF Uneventful
    <2>3. CASE a \in Adopts
      <3>1. route' = [route EXCEPT ![SshRoute[a]] = TRUE] /\ SshRoute[a] \in Routes
        BY <1>2, <2>3 DEF Adopt, Register, FleetConstants
      <3>2. server'[a].st # "none" /\ \A b \in Agents \ {a} : server'[b] = server[b]
        BY <1>0, <1>2, <2>3 DEF Adopt, FleetTypeOK
      <3> QED BY <1>0, <2>1, <2>3, <3>1, <3>2
              DEF RoutesAreServed, RoutesApart, SupervisorConstants, FleetConstants
    <2> QED BY <2>2, <2>3
  <1>3. ASSUME NEW a \in Agents, Build(a) PROVE RoutesAreServed'
    <2>1. UNCHANGED server
      BY <1>3 DEF Build, fleetVars
    <2>2. CASE a \in Owns /\ MayRegister(OwnRoute[a])
      <3>1. route' = [route EXCEPT ![OwnRoute[a]] = TRUE] /\ OwnRoute[a] \in Routes
        BY <1>3, <2>2 DEF Build, Register, FleetConstants
      <3>2. phase' = [phase EXCEPT ![a] = "built"]
        BY <1>3, <2>2 DEF Build, Enter, Goto
      <3>3. phase'[a] \in Alive /\ \A b \in Agents \ {a} : phase'[b] = phase[b]
        BY <1>0, <3>2 DEF SupTypeOK, Alive
      <3> QED BY <1>0, <2>1, <2>2, <3>1, <3>3
              DEF RoutesAreServed, RoutesApart, SupervisorConstants, FleetConstants
    <2>3. CASE a \in Owns /\ ~MayRegister(OwnRoute[a])
      <3>1. UNCHANGED route /\ phase[a] = "build" /\ phase' = [phase EXCEPT ![a] = "close"]
        BY <1>3, <2>3 DEF Build, Enter, Goto, busVars
      <3>2. \A b \in Agents : phase'[b] \in Alive <=> phase[b] \in Alive
        BY <1>0, <3>1 DEF SupTypeOK, Alive
      <3> QED BY <1>1, <2>1, <3>1, <3>2 DEF Uneventful
    <2>4. CASE a \notin Owns
      <3>1. UNCHANGED route /\ phase' = [phase EXCEPT ![a] = "built"]
        BY <1>3, <2>4 DEF Build, Enter, Goto, busVars
      <3>2. \A b \in Agents \ {a} : phase'[b] = phase[b]
        BY <1>0, <3>1 DEF SupTypeOK
      <3> QED BY <2>1, <2>4, <3>1, <3>2 DEF RoutesAreServed, SupervisorConstants, FleetConstants
    <2> QED BY <2>2, <2>3, <2>4
  <1>4. ASSUME NEW a \in Agents, BuildFailsLate(a) \/ DropAgent(a) PROVE RoutesAreServed'
    <2>1. UNCHANGED server /\ phase' = [phase EXCEPT ![a] = "close"] /\ DropOwn(a)
      BY <1>4 DEF BuildFailsLate, DropAgent, BuildFails, Enter, Goto, fleetVars
    <2>2. phase'[a] \notin Alive /\ \A b \in Agents \ {a} : phase'[b] = phase[b]
      BY <1>0, <2>1 DEF SupTypeOK, Alive
    <2>3. CASE a \in Owns
      <3>1. route' = [route EXCEPT ![OwnRoute[a]] = FALSE] /\ OwnRoute[a] \in Routes
        BY <2>1, <2>3 DEF DropOwn, DropInbox, FleetConstants
      <3> QED BY <1>0, <2>1, <2>2, <2>3, <3>1
              DEF RoutesAreServed, RoutesApart, SupervisorConstants, FleetConstants
    <2>4. CASE a \notin Owns
      <3>1. UNCHANGED route
        BY <2>1, <2>4 DEF DropOwn, busVars
      <3> QED BY <2>1, <2>2, <2>4, <3>1 DEF RoutesAreServed, SupervisorConstants, FleetConstants
    <2> QED BY <2>3, <2>4
  <1>5. ASSUME NEW a \in Agents, ServerStops(a) PROVE RoutesAreServed'
    <2>1. a \in Adopts /\ UNCHANGED phase
      BY <1>0, <1>5 DEF ServerStops, FleetTypeOK, supVars
    <2>2. route' = [route EXCEPT ![SshRoute[a]] = FALSE] /\ SshRoute[a] \in Routes
      BY <1>5, <2>1 DEF ServerStops, DropInbox, FleetConstants
    <2>3. server'[a].st = "none" /\ \A b \in Agents \ {a} : server'[b] = server[b]
      BY <1>0, <1>5 DEF ServerStops, FleetTypeOK
    <2> QED BY <1>0, <2>1, <2>2, <2>3
            DEF RoutesAreServed, RoutesApart, SupervisorConstants, FleetConstants
  <1>6. ASSUME NEW c \in Callers, CallerStep(c), UNCHANGED <<supVars, fleetVars>>
        PROVE  RoutesAreServed'
    <2>1. UNCHANGED <<route, phase, server>>
      BY <1>6 DEF CallerStep, Expire, FindRoute, SleepOrGiveUp, Send, LoseRequest, TimeOut, End,
                  supVars, fleetVars, busVars
    <2> QED BY <1>1, <2>1 DEF Uneventful
  <1>7. CASE (Shutdown /\ UNCHANGED <<busVars, fleetVars>>) \/ UNCHANGED vars
    <2>1. UNCHANGED <<route, phase, server>>
      BY <1>7 DEF Shutdown, vars, supVars, fleetVars, busVars
    <2> QED BY <1>1, <2>1 DEF Uneventful
  <1> QED BY <1>1, <1>2, <1>3, <1>4, <1>5, <1>6, <1>7, OnlyRegistrars DEF Next, AgentStep, ServerStep

(* When every registrant has a route of its own: a route is in the table   *)
(* exactly while its agent, or its ssh thread, is there to answer, through *)
(* failed builds, panics, restarts and shutdown.                           *)
THEOREM RoutesKeepToTheirServers == ASSUME RoutesApart PROVE Spec => []RoutesAreServed
  <1>1. ASSUME Init PROVE RoutesAreServed
    <2>1. \A n \in Routes : ~route[n]
      BY <1>1, BusConstants DEF Init, BusInit
    <2>2. \A a \in Agents : phase[a] = "top" /\ server[a].st = "none"
      BY <1>1 DEF Init, SupInit
    <2> QED
      BY <2>1, <2>2, SupervisorConstants, FleetConstants
         DEF RoutesAreServed, Alive, SupervisorConstants, FleetConstants
  <1>2. RoutesAreServed /\ IInv /\ [Next]_vars => RoutesAreServed'
    BY ServedStep
  <1> QED BY <1>1, <1>2, Invariance, PTL DEF Spec
=============================================================================
