--------------------------- MODULE SessionProofs ----------------------------
(***************************************************************************)
(* Proofs about what an agent's task sessions own, for every value of the  *)
(* constants: the VM pool, the table of background jobs, the subagents and *)
(* the context of the agent loop.                                          *)
(***************************************************************************)
EXTENDS Components, FiniteSets, FiniteSetTheorems, SequenceTheorems, WellFoundedInduction, TLAPS

LEMMA StepsApart ==
    [Next]_vars =>
        /\ [Sandal!Next]_sandalVars
        /\ [Jobs!Next]_jobsVars
        /\ [Subagents!Next]_subagentsVars
        /\ [AgentLoop!Next]_agentLoopVars
BY DEF Next, vars, InModelRun, InAcpClient, InAuthFlight, InJobs, InResume, InAgentLoop,
       InSubagents, InSandal, InSplit, InPmo, InReviewer, InQa, InOps
-----------------------------------------------------------------------------
(* The VM pool.                                                            *)

IsBooted(v) == vm[v] # Sandal!Free

(* An entry of the pool is a VM booted for its session.                    *)
PoolIsOwned ==
    \A s \in Sessions : pool[s] # NoVm => IsBooted(pool[s]) /\ vm[pool[s]].owner = s

(* A call that has a VM has one of its session and its scope.              *)
HeldIsOwn ==
    \A c \in Calls : req[c].pc \in {"held", "run", "remove"} =>
        /\ IsBooted(req[c].vm)
        /\ vm[req[c].vm].owner = req[c].session
        /\ vm[req[c].vm].scope = req[c].scope

(* The run loop boots for a call that still waits.                         *)
TurnIsQueued == turn \in Calls => req[turn].pc = "queued"

PoolInv ==
    /\ Sandal!TypeOK
    /\ TurnIsQueued
    /\ PoolIsOwned
    /\ HeldIsOwn

Queueds == [pc : {"queued", "booted"}, session : Sessions, scope : Scopes]
Holders == [pc : {"held", "run", "remove"}, session : Sessions, scope : Scopes, vm : Vms]
Procs == [st : {"up", "dead"}, owner : Sessions, scope : Scopes, idle : BOOLEAN]
-----------------------------------------------------------------------------
(* The kinds of a call's and of a VM's records.                            *)
LEMMA CallKinds ==
    Sandal!TypeOK => \A c \in Calls :
        /\ req[c] \in {Sandal!NoCall} \cup Queueds \cup Holders
        /\ req[c].pc \in {"held", "run", "remove"} => req[c] \in Holders
        /\ req[c].pc \in {"queued", "booted"} => req[c] \in Queueds
        /\ req[c] \in Holders => "vm" \in DOMAIN req[c]
BY DEF Sandal!TypeOK, Sandal!NoCall, Queueds, Holders

LEMMA VmKinds ==
    Sandal!TypeOK => \A v \in Vms :
        /\ vm[v] \in {Sandal!Free} \cup Procs
        /\ vm[v] # Sandal!Free => vm[v] \in Procs
        /\ vm[v].st # "free" <=> vm[v] # Sandal!Free
BY DEF Sandal!TypeOK, Sandal!Free, Procs

LEMMA InitPoolInv == Sandal!ConstantsOK /\ Sandal!Init => PoolInv
BY DEF Sandal!ConstantsOK, Sandal!Init, PoolInv, Sandal!TypeOK, TurnIsQueued, PoolIsOwned,
   HeldIsOwn, Sandal!NoCall, Sandal!Free

LEMMA RecordSteps ==
    /\ \A k \in Queueds : [k EXCEPT !.pc = "booted"] \in Queueds
    /\ \A k \in Queueds, v \in Vms :
          [pc |-> "held", session |-> k.session, scope |-> k.scope, vm |-> v] \in Holders
    /\ \A k \in Holders, p \in {"run", "remove"} :
          [k EXCEPT !.pc = p] \in Holders /\ k.vm \in Vms
    /\ \A p \in Procs : /\ [p EXCEPT !.idle = FALSE] \in Procs
                        /\ [p EXCEPT !.idle = TRUE] \in Procs
                        /\ [p EXCEPT !.st = "dead"] \in Procs
                        /\ [p EXCEPT !.idle = FALSE, !.st = "dead"] \in Procs
BY DEF Queueds, Holders, Procs

LEMMA ProcSteps ==
    \A p \in Procs :
        \A q \in {[p EXCEPT !.idle = FALSE], [p EXCEPT !.idle = FALSE, !.st = "dead"]} :
        q \in Procs /\ q.owner = p.owner /\ q.scope = p.scope
BY DEF Procs

LEMMA NextTypeOK == Sandal!ConstantsOK /\ PoolInv /\ [Sandal!Next]_sandalVars => Sandal!TypeOK'
<1> SUFFICES ASSUME Sandal!ConstantsOK, PoolInv, [Sandal!Next]_sandalVars PROVE Sandal!TypeOK'
    OBVIOUS
<1>0. /\ pool \in [Sessions -> Vms \cup {NoVm}]
      /\ vm \in [Vms -> {Sandal!Free} \cup Procs]
      /\ req \in [Calls -> {Sandal!NoCall} \cup Queueds \cup Holders]
      /\ turn \in {"reap", "recv", "stopped"} \cup Calls
    BY DEF PoolInv, Sandal!TypeOK, Queueds, Holders, Procs
<1> DEFINE Typed == /\ pool' \in [Sessions -> Vms \cup {NoVm}]
                    /\ vm' \in [Vms -> {Sandal!Free} \cup Procs]
                    /\ req' \in [Calls -> {Sandal!NoCall} \cup Queueds \cup Holders]
                    /\ turn' \in {"reap", "recv", "stopped"} \cup Calls
<1> SUFFICES Typed
    BY DEF Sandal!TypeOK, Queueds, Holders, Procs
<1>c. \A c \in Calls : /\ req[c].pc \in {"held", "run", "remove"} => req[c] \in Holders
                       /\ req[c].pc \in {"queued", "booted"} => req[c] \in Queueds
    BY CallKinds DEF PoolInv
<1>v. \A v \in Vms : /\ vm[v] # Sandal!Free => vm[v] \in Procs
                     /\ vm[v].st # "free" => vm[v] # Sandal!Free
    BY VmKinds DEF PoolInv
<1>1. CASE Sandal!ReapIdle
    <2>1. \A s \in Sessions : pool[s] # NoVm => vm[pool[s]] \in Procs
        BY <1>0, <1>v DEF PoolInv, PoolIsOwned, IsBooted
    <2>2. \A v \in Sandal!Pooled : [vm[v] EXCEPT !.st = "dead"] \in Procs
        BY <2>1, RecordSteps DEF Sandal!Pooled
    <2> QED BY <1>0, <1>1, <2>2 DEF Sandal!ReapIdle, Sandal!Forgetting
<1>2. CASE Sandal!Receive
    BY <1>0, <1>2 DEF Sandal!Receive
<1>3. CASE Sandal!Ensure
    <2>1. turn \in Calls /\ req[turn] \in Queueds
        BY <1>3, <1>c DEF Sandal!Ensure, PoolInv, TurnIsQueued
    <2>2. [req[turn] EXCEPT !.pc = "booted"] \in Queueds
        BY <2>1, RecordSteps
    <2>3. Sandal!Fresh(req[turn].session, req[turn].scope) \in Procs
        BY <2>1 DEF Sandal!Fresh, Procs, Queueds
    <2>4. req[turn].session \in Sessions
        BY <2>1 DEF Queueds
    <2> QED BY <1>0, <1>3, <2>1, <2>2, <2>3, <2>4 DEF Sandal!Ensure
<1>4. CASE Sandal!CloseAll
    <2>1. \A v \in Vms : vm[v].st = "up" => [vm[v] EXCEPT !.st = "dead"] \in Procs
        BY <1>v, RecordSteps
    <2> QED BY <1>0, <1>4, <2>1 DEF Sandal!CloseAll, Sandal!Forgetting
<1>5. ASSUME NEW c \in Calls, Sandal!Ask(c) PROVE Typed
    BY <1>0, <1>5 DEF Sandal!Ask, Queueds
<1>6. ASSUME NEW c \in Calls, Sandal!EntryFor(c) PROVE Typed
    <2> DEFINE v == pool[req[c].session]
               k == [pc |-> "held", session |-> req[c].session,
                     scope |-> req[c].scope, vm |-> v]
    <2>1. req[c] \in Queueds
        BY <1>6, <1>c DEF Sandal!EntryFor
    <2>2. v \in Vms \cup {NoVm}
        BY <1>0, <2>1 DEF Queueds
    <2>3. v # NoVm => k \in Holders
        BY <2>1, <2>2, RecordSteps
    <2>4. /\ req' = [req EXCEPT ![c] =
                          IF Sandal!Binds(v, req[c].scope) THEN k ELSE Sandal!NoCall]
          /\ UNCHANGED <<pool, vm, turn>>
        BY <1>6 DEF Sandal!EntryFor
    <2> QED BY <1>0, <2>3, <2>4 DEF Sandal!Binds
<1>7. ASSUME NEW c \in Calls, Sandal!RunCommand(c) PROVE Typed
    BY <1>0, <1>7, <1>c, <1>v, RecordSteps DEF Sandal!RunCommand, PoolInv, HeldIsOwn, IsBooted
<1>8. ASSUME NEW c \in Calls, Sandal!Finished(c) PROVE Typed
    BY <1>0, <1>8, <1>c, <1>v, RecordSteps DEF Sandal!Finished, PoolInv, HeldIsOwn, IsBooted
<1>9. ASSUME NEW c \in Calls, Sandal!Lost(c) PROVE Typed
    BY <1>0, <1>9, <1>c, <1>v, RecordSteps DEF Sandal!Lost, PoolInv, HeldIsOwn, IsBooted
<1>10. ASSUME NEW c \in Calls, Sandal!Remove(c) PROVE Typed
    BY <1>0, <1>10 DEF Sandal!Remove, Sandal!Forgetting
<1>11. ASSUME NEW v \in Vms, Sandal!Dies(v) PROVE Typed
    BY <1>0, <1>11, <1>v, RecordSteps DEF Sandal!Dies, Sandal!Forgetting, Sandal!Free
<1>12. ASSUME NEW v \in Vms, Sandal!Idles(v) PROVE Typed
    BY <1>0, <1>12, <1>v, RecordSteps DEF Sandal!Idles
<1>13. CASE UNCHANGED sandalVars
    BY <1>0, <1>13 DEF sandalVars
<1> QED BY <1>1, <1>2, <1>3, <1>4, <1>5, <1>6, <1>7, <1>8, <1>9, <1>10, <1>11, <1>12, <1>13
        DEF Sandal!Next, Sandal!RunLoop, Sandal!Thread
-----------------------------------------------------------------------------
(* A process that an entry or a call refers to is not forgotten.           *)
LEMMA ForgettingKeeps ==
    ASSUME NEW procs, NEW entries, NEW calls, NEW v \in Vms,
           \/ procs[v].st # "dead"
           \/ \E s \in Sessions : entries[s] = v
           \/ \E c \in Calls : "vm" \in DOMAIN calls[c] /\ calls[c].vm = v
    PROVE  Sandal!Forgetting(procs, entries, calls)[v] = procs[v]
BY DEF Sandal!Forgetting

(* What a VM was booted for does not change until it is forgotten.         *)
SameBoot(v) == vm'[v] # Sandal!Free /\ vm'[v].owner = vm[v].owner /\ vm'[v].scope = vm[v].scope

(* No step takes the VM from under an entry or a call that keeps it.       *)
LEMMA ReferredKept ==
    ASSUME Sandal!ConstantsOK, PoolInv, [Sandal!Next]_sandalVars, Sandal!TypeOK', NEW v \in Vms,
           vm[v] # Sandal!Free,
           \/ \E s \in Sessions : pool'[s] = v
           \/ \E c \in Calls : req'[c].pc \in {"held", "run", "remove"} /\ req'[c].vm = v
    PROVE  SameBoot(v)
<1>1. vm[v] \in Procs /\ vm \in [Vms -> {Sandal!Free} \cup Procs]
    BY VmKinds DEF PoolInv, Sandal!TypeOK, Procs
<1>2. \/ \E s \in Sessions : pool'[s] = v
      \/ \E c \in Calls : "vm" \in DOMAIN req'[c] /\ req'[c].vm = v
    <2>1. \A c \in Calls : req'[c].pc \in {"held", "run", "remove"} => "vm" \in DOMAIN req'[c]
        BY DEF Sandal!TypeOK, Sandal!NoCall
    <2> QED BY <2>1
<1>3. ASSUME NEW procs, vm' = Sandal!Forgetting(procs, pool', req'),
             procs[v] \in Procs, procs[v].owner = vm[v].owner, procs[v].scope = vm[v].scope
      PROVE  SameBoot(v)
    <2>1. vm'[v] = procs[v]
        BY <1>2, <1>3, ForgettingKeeps
    <2>2. procs[v] # Sandal!Free
        BY <1>3 DEF Procs, Sandal!Free
    <2> QED BY <2>1, <2>2, <1>3 DEF SameBoot
<1>4. Sandal!Free \notin Procs
    BY DEF Sandal!Free, Procs
<1> USE <1>1, <1>4 DEF SameBoot
<1>5. CASE UNCHANGED vm
    BY <1>5
<1>6. CASE Sandal!ReapIdle
    <2> DEFINE procs == [w \in Vms |-> IF w \in {u \in Sandal!Pooled : Sandal!Reaps(u)}
                                       THEN [vm[w] EXCEPT !.st = "dead"] ELSE vm[w]]
    <2>1. vm' = Sandal!Forgetting(procs, pool', req')
        BY <1>6 DEF Sandal!ReapIdle
    <2>2. /\ procs[v] \in Procs
          /\ procs[v].owner = vm[v].owner /\ procs[v].scope = vm[v].scope
        BY DEF Procs
    <2> HIDE DEF procs
    <2> QED BY <1>3, <2>1, <2>2
<1>7. CASE Sandal!Ensure
    BY <1>7 DEF Sandal!Ensure
<1>8. ASSUME NEW c \in Calls, Sandal!RunCommand(c) \/ Sandal!Finished(c) \/ Sandal!Lost(c)
      PROVE  SameBoot(v)
    <2> DEFINE w == req[c].vm
    <2>1. w \in Vms
        BY <1>8, CallKinds DEF PoolInv, Sandal!RunCommand, Sandal!Finished, Sandal!Lost, Holders
    <2>2. \/ vm' = [vm EXCEPT ![w] = [vm[w] EXCEPT !.idle = FALSE]]
          \/ vm' = [vm EXCEPT ![w] = [vm[w] EXCEPT !.idle = FALSE, !.st = "dead"]]
        BY <1>8 DEF Sandal!RunCommand, Sandal!Finished, Sandal!Lost
    <2>3. CASE w = v
        <3>1. \/ vm'[v] = [vm[v] EXCEPT !.idle = FALSE]
              \/ vm'[v] = [vm[v] EXCEPT !.idle = FALSE, !.st = "dead"]
            BY <2>2, <2>3
        <3> QED BY <3>1, ProcSteps
    <2>4. CASE w # v
        BY <2>1, <2>2, <2>4
    <2> QED BY <2>3, <2>4
<1>9. ASSUME NEW c \in Calls, Sandal!Remove(c) PROVE SameBoot(v)
    BY <1>9, <1>3 DEF Sandal!Remove
<1>10. ASSUME NEW w \in Vms, Sandal!Dies(w) PROVE SameBoot(v)
    <2> DEFINE procs == [vm EXCEPT ![w].st = "dead"]
    <2>1. vm' = Sandal!Forgetting(procs, pool', req')
        BY <1>10 DEF Sandal!Dies
    <2>2. /\ procs[v] \in Procs
          /\ procs[v].owner = vm[v].owner /\ procs[v].scope = vm[v].scope
        BY DEF Procs
    <2> HIDE DEF procs
    <2> QED BY <1>3, <2>1, <2>2
<1>11. ASSUME NEW w \in Vms, Sandal!Idles(w) PROVE SameBoot(v)
    BY <1>11 DEF Sandal!Idles, Procs
<1>12. CASE Sandal!CloseAll
    <2> DEFINE procs == [w \in Vms |-> IF vm[w].st = "up" THEN [vm[w] EXCEPT !.st = "dead"]
                                       ELSE vm[w]]
    <2>1. vm' = Sandal!Forgetting(procs, pool', req')
        BY <1>12 DEF Sandal!CloseAll
    <2>2. /\ procs[v] \in Procs
          /\ procs[v].owner = vm[v].owner /\ procs[v].scope = vm[v].scope
        BY DEF Procs
    <2> HIDE DEF procs
    <2> QED BY <1>3, <2>1, <2>2
<1>13. CASE UNCHANGED sandalVars
    BY <1>13 DEF sandalVars
<1> QED
    BY <1>5, <1>6, <1>7, <1>8, <1>9, <1>10, <1>11, <1>12, <1>13
       DEF Sandal!Next, Sandal!RunLoop, Sandal!Thread, Sandal!Receive, Sandal!Ask,
           Sandal!EntryFor
-----------------------------------------------------------------------------
LEMMA NextTurn == Sandal!ConstantsOK /\ PoolInv /\ [Sandal!Next]_sandalVars => TurnIsQueued'
<1> SUFFICES ASSUME Sandal!ConstantsOK, PoolInv, [Sandal!Next]_sandalVars, turn' \in Calls
             PROVE  req'[turn'].pc = "queued"
    BY DEF TurnIsQueued
<1> USE DEF PoolInv, Sandal!TypeOK, TurnIsQueued
<1>1. CASE Sandal!RunLoop \/ Sandal!CloseAll
    BY <1>1 DEF Sandal!RunLoop, Sandal!ReapIdle, Sandal!Receive, Sandal!Ensure, Sandal!CloseAll,
       Sandal!ConstantsOK
<1>2. ASSUME NEW c \in Calls, Sandal!Ask(c) \/ Sandal!Thread(c) PROVE req'[turn'].pc = "queued"
    <2>1. turn' = turn /\ req'[turn] = req[turn]
        BY <1>2 DEF Sandal!Ask, Sandal!NoCall, Sandal!Thread, Sandal!EntryFor,
           Sandal!RunCommand, Sandal!Finished, Sandal!Lost, Sandal!Remove
    <2> QED BY <2>1
<1>3. CASE UNCHANGED <<req, turn>>
    BY <1>3
<1> QED BY <1>1, <1>2, <1>3 DEF Sandal!Next, Sandal!Dies, Sandal!Idles, sandalVars

LEMMA NextPool ==
    Sandal!ConstantsOK /\ PoolInv /\ [Sandal!Next]_sandalVars /\ Sandal!TypeOK' => PoolIsOwned'
<1> SUFFICES ASSUME Sandal!ConstantsOK, PoolInv, [Sandal!Next]_sandalVars, Sandal!TypeOK',
                    NEW s \in Sessions, pool'[s] # NoVm
             PROVE  vm'[pool'[s]] # Sandal!Free /\ vm'[pool'[s]].owner = s
    BY DEF PoolIsOwned, IsBooted
<1> DEFINE v == pool'[s]
<1>1. v \in Vms
    BY DEF Sandal!TypeOK
<1>2. CASE v = pool[s]
    BY <1>1, <1>2, ReferredKept DEF PoolInv, PoolIsOwned, IsBooted, SameBoot
<1>3. CASE v # pool[s]
    <2>1. PICK f \in Scopes : vm' = [vm EXCEPT ![v] = Sandal!Fresh(s, f)]
        <3>1. CASE Sandal!Ensure
            <4>1. turn \in Calls /\ req[turn] \in Queueds
                BY <3>1, CallKinds DEF Sandal!Ensure, PoolInv, TurnIsQueued
            <4>2. req[turn].session \in Sessions /\ req[turn].scope \in Scopes
                BY <4>1 DEF Queueds
            <4> QED BY <1>3, <3>1, <4>2 DEF Sandal!Ensure, PoolInv, Sandal!TypeOK
        <3>2. CASE Sandal!ReapIdle \/ Sandal!CloseAll
            BY <1>3, <3>2 DEF Sandal!ReapIdle, Sandal!CloseAll
        <3>3. ASSUME NEW c \in Calls, Sandal!Remove(c) PROVE FALSE
            BY <1>3, <3>3 DEF Sandal!Remove, PoolInv, Sandal!TypeOK
        <3>4. ~UNCHANGED pool
            BY <1>3
        <3> QED
            BY <3>1, <3>2, <3>3, <3>4
               DEF Sandal!Next, Sandal!RunLoop, Sandal!Receive, Sandal!Thread, Sandal!Ask,
                   Sandal!EntryFor, Sandal!RunCommand, Sandal!Finished, Sandal!Lost,
                   Sandal!Dies, Sandal!Idles, sandalVars
    <2>2. vm'[v] = Sandal!Fresh(s, f)
        BY <1>1, <2>1 DEF PoolInv, Sandal!TypeOK
    <2> QED BY <2>2 DEF Sandal!Fresh, Sandal!Free
<1> QED BY <1>2, <1>3

LEMMA NextHeld ==
    Sandal!ConstantsOK /\ PoolInv /\ [Sandal!Next]_sandalVars /\ Sandal!TypeOK' => HeldIsOwn'
<1> SUFFICES ASSUME Sandal!ConstantsOK, PoolInv, [Sandal!Next]_sandalVars, Sandal!TypeOK',
                    NEW c \in Calls, req'[c].pc \in {"held", "run", "remove"}
             PROVE  /\ vm'[req'[c].vm] # Sandal!Free
                    /\ vm'[req'[c].vm].owner = req'[c].session
                    /\ vm'[req'[c].vm].scope = req'[c].scope
    BY DEF HeldIsOwn, IsBooted
<1> DEFINE v == req'[c].vm
<1>1. v \in Vms
    BY DEF Sandal!TypeOK, Sandal!NoCall
<1>2. /\ vm[v] # Sandal!Free
      /\ vm[v].owner = req'[c].session
      /\ vm[v].scope = req'[c].scope
    <2>1. CASE Sandal!EntryFor(c)
        <3>1. req[c] \in Queueds
            BY <2>1, CallKinds DEF Sandal!EntryFor, PoolInv
        <3>2. /\ v = pool[req[c].session]
              /\ Sandal!Binds(v, req[c].scope)
              /\ req'[c].session = req[c].session
              /\ req'[c].scope = req[c].scope
            BY <2>1, <1>1 DEF Sandal!EntryFor, PoolInv, Sandal!TypeOK, Sandal!NoCall
        <3> QED BY <3>1, <3>2 DEF Sandal!Binds, Queueds, PoolInv, PoolIsOwned, IsBooted
    <2>2. CASE ~Sandal!EntryFor(c)
        <3>1. /\ req[c].pc \in {"held", "run", "remove"}
              /\ req'[c].vm = req[c].vm
              /\ req'[c].session = req[c].session
              /\ req'[c].scope = req[c].scope
            <4> DEFINE Same == req'[c] = req[c]
                       Kept == /\ req[c].pc \in {"held", "run", "remove"}
                               /\ req'[c].vm = req[c].vm
                               /\ req'[c].session = req[c].session
                               /\ req'[c].scope = req[c].scope
            <4>0. Same => Kept
                OBVIOUS
            <4>1. CASE Sandal!RunLoop \/ Sandal!CloseAll
                <5>1. Same
                    <6>1. CASE Sandal!Ensure
                        <7>1. req[turn] \in Queueds
                            BY <6>1, CallKinds DEF Sandal!Ensure, PoolInv, TurnIsQueued
                        <7>2. turn # c
                            BY <6>1, <7>1 DEF Sandal!Ensure, PoolInv, Sandal!TypeOK,
                               Sandal!NoCall, Queueds
                        <7> QED BY <6>1, <7>2 DEF Sandal!Ensure, PoolInv, Sandal!TypeOK
                    <6>2. CASE Sandal!CloseAll
                        BY <6>2 DEF Sandal!CloseAll, Sandal!NoCall
                    <6> QED BY <4>1, <6>1, <6>2 DEF Sandal!RunLoop, Sandal!ReapIdle,
                               Sandal!Receive
                <5> QED BY <4>0, <5>1
            <4>2. CASE Sandal!RunCommand(c) \/ Sandal!Lost(c)
                <5>1. req[c] \in Holders
                    BY <4>2, CallKinds DEF PoolInv, Sandal!RunCommand, Sandal!Lost
                <5> QED BY <4>2, <5>1 DEF Sandal!RunCommand, Sandal!Lost, Holders, PoolInv,
                           Sandal!TypeOK
            <4>3. CASE Sandal!Ask(c) \/ Sandal!Finished(c) \/ Sandal!Remove(c)
                BY <4>3 DEF Sandal!Ask, Sandal!Finished, Sandal!Remove, Sandal!NoCall, PoolInv,
                   Sandal!TypeOK
            <4>4. ASSUME NEW d \in Calls, d # c, Sandal!Ask(d) \/ Sandal!Thread(d) PROVE Kept
                <5>1. \E k : req' = [req EXCEPT ![d] = k]
                    BY <4>4 DEF Sandal!Ask, Sandal!Thread, Sandal!EntryFor, Sandal!RunCommand,
                       Sandal!Finished, Sandal!Lost, Sandal!Remove
                <5>2. Same
                    BY <4>4, <5>1 DEF PoolInv, Sandal!TypeOK
                <5> QED BY <4>0, <5>2
            <4>5. CASE UNCHANGED req
                BY <4>0, <4>5
            <4> QED
                BY <2>2, <4>1, <4>2, <4>3, <4>4, <4>5
                   DEF Sandal!Next, Sandal!Thread, Sandal!Dies, Sandal!Idles, sandalVars
        <3> QED BY <3>1 DEF PoolInv, HeldIsOwn, IsBooted
    <2> QED BY <2>1, <2>2
<1>3. SameBoot(v)
    BY <1>1, <1>2, ReferredKept
<1> QED BY <1>2, <1>3 DEF SameBoot

LEMMA NextPoolInv == Sandal!ConstantsOK /\ PoolInv /\ [Sandal!Next]_sandalVars => PoolInv'
BY NextTypeOK, NextTurn, NextPool, NextHeld DEF PoolInv

(* A command runs only on a VM booted for its session and its scope,       *)
(* however many sessions, scopes and calls there are and whatever dies.    *)
THEOREM CommandsStayInScope == Spec => []OwnScopeOnly
<1>1. Init => PoolInv
    BY ConstantsOK, InitPoolInv DEF Init
<1>2. PoolInv /\ [Next]_vars => PoolInv'
    BY ConstantsOK, StepsApart, NextPoolInv
<1>3. PoolInv => OwnScopeOnly
    BY DEF PoolInv, HeldIsOwn, OwnScopeOnly, Sandal!OwnScopeOnly, Sandal!Busy, Sandal!Holding
<1> QED BY <1>1, <1>2, <1>3, PTL DEF Spec
-----------------------------------------------------------------------------
(* The subagents.                                                          *)

Lives == [status : {"Running", "Done", "Error", "Killed"}, owner : Callers, kid : Kids,
          open : BOOLEAN]
Entries == {Subagents!NoEntry, Subagents!Forgotten} \cup Lives
Asks == {Subagents!NoAsk} \cup [op : {"spawn"}, kid : Kids]
           \cup [op : {"message", "kill"}, sub : Subs]
Reaps == [pc : {"reap"}, caller : Callers]
Spawns == [pc : {"new", "model"}, caller : Callers, sub : Subs, kid : Kids]
Fires == [pc : {"fire"}, sub : Subs]
Hubs == {Subagents!Drain, Subagents!Recv} \cup Reaps \cup Spawns \cup Fires

(* A spawn under way has its seat reserved and its id to itself: only the  *)
(* hub adds entries, one at a time.                                        *)
SpawnHasSeat ==
    hub.pc \in {"new", "model"} =>
        Cardinality(Subagents!Open) < MaxLive /\ sub[hub.sub] = Subagents!NoEntry

(* The subagent a prompt is about to be fired at is still open.            *)
FireHasTarget == hub.pc = "fire" => hub.sub \in Subagents!Open /\ turns[hub.sub] < MaxTurns

SeatsInv ==
    /\ Subagents!TypeOK
    /\ IsFiniteSet(Subagents!Open) /\ Subagents!CapHolds
    /\ SpawnHasSeat
    /\ FireHasTarget
    /\ \A s \in Subs : sub[s] = Subagents!NoEntry => turns[s] = 0

LEMMA SubTypes ==
    Subagents!TypeOK <=>
        /\ caller \in [Callers -> {"live", "retired", "reaped"}]
        /\ ask \in [Callers -> Asks]
        /\ hub \in Hubs
        /\ sub \in [Subs -> Entries]
        /\ turns \in [Subs -> 0 .. MaxTurns]
        /\ kid \in [Kids -> {"up", "dead", "eof"}]
BY DEF Subagents!TypeOK, Asks, Hubs, Reaps, Spawns, Fires, Entries, Lives

LEMMA SubTypesAfter ==
    /\ caller' \in [Callers -> {"live", "retired", "reaped"}]
    /\ ask' \in [Callers -> Asks]
    /\ hub' \in Hubs
    /\ sub' \in [Subs -> Entries]
    /\ turns' \in [Subs -> 0 .. MaxTurns]
    /\ kid' \in [Kids -> {"up", "dead", "eof"}]
    => Subagents!TypeOK'
BY DEF Subagents!TypeOK, Asks, Hubs, Reaps, Spawns, Fires, Entries, Lives

LEMMA HubKinds ==
    /\ \A h \in Hubs : /\ h.pc = "reap" => h \in Reaps /\ h.caller \in Callers
                       /\ h.pc \in {"new", "model"} =>
                            h \in Spawns /\ h.sub \in Subs /\ h.kid \in Kids
                                /\ h.caller \in Callers
                       /\ h.pc = "fire" => h \in Fires /\ h.sub \in Subs
    /\ Subagents!Drain \in Hubs /\ Subagents!Drain.pc = "drain"
    /\ Subagents!Recv \in Hubs /\ Subagents!Recv.pc = "recv"
    /\ \A c \in Callers : LET h == [pc |-> "reap", caller |-> c] IN h \in Hubs /\ h.pc = "reap"
    /\ \A s \in Subs : LET h == [pc |-> "fire", sub |-> s]
                       IN h \in Hubs /\ h.pc = "fire" /\ h.sub = s
    /\ \A c \in Callers, s \in Subs, k \in Kids :
          LET h == [pc |-> "new", caller |-> c, sub |-> s, kid |-> k]
          IN h \in Hubs /\ h.pc = "new" /\ h.sub = s
    /\ \A h \in Spawns : LET m == [h EXCEPT !.pc = "model"]
                         IN m \in Hubs /\ m.pc = "model" /\ m.sub = h.sub
BY DEF Hubs, Reaps, Spawns, Fires, Subagents!Drain, Subagents!Recv

LEMMA EntryKinds ==
    /\ \A e \in Entries : /\ e.status \notin {"none", "gone"} <=> e \in Lives
                          /\ e \notin Lives => e \in {Subagents!NoEntry, Subagents!Forgotten}
    /\ Subagents!NoEntry \in Entries /\ Subagents!NoEntry \notin Lives
    /\ Subagents!Forgotten \in Entries /\ Subagents!Forgotten \notin Lives
    /\ Subagents!Forgotten # Subagents!NoEntry
    /\ \A e \in Lives, t \in {"Running", "Done", "Error"} :
          [e EXCEPT !.status = t] \in Lives /\ [e EXCEPT !.status = t].open = e.open
    /\ \A e \in Lives : LET k == [e EXCEPT !.status = "Killed", !.open = FALSE]
                        IN k \in Lives /\ k.open = FALSE
    /\ \A c \in Callers, k \in Kids : Subagents!Entry(c, k) \in Lives /\ Subagents!Entry(c, k).open = TRUE
<1>1. ASSUME NEW e \in Entries
      PROVE  /\ e.status \notin {"none", "gone"} <=> e \in Lives
             /\ e \notin Lives => e \in {Subagents!NoEntry, Subagents!Forgotten}
    BY DEF Entries, Lives, Subagents!NoEntry, Subagents!Forgotten
<1>2. /\ Subagents!NoEntry \notin Lives /\ Subagents!Forgotten \notin Lives
      /\ Subagents!Forgotten # Subagents!NoEntry
    BY DEF Lives, Subagents!NoEntry, Subagents!Forgotten
<1>3. ASSUME NEW e \in Lives, NEW t \in {"Running", "Done", "Error"}
      PROVE  [e EXCEPT !.status = t] \in Lives /\ [e EXCEPT !.status = t].open = e.open
    BY DEF Lives
<1>4. ASSUME NEW e \in Lives
      PROVE  LET k == [e EXCEPT !.status = "Killed", !.open = FALSE]
             IN k \in Lives /\ k.open = FALSE
    BY DEF Lives
<1>5. \A c \in Callers, k \in Kids :
          Subagents!Entry(c, k) \in Lives /\ Subagents!Entry(c, k).open = TRUE
    BY DEF Lives, Subagents!Entry
<1> QED BY <1>1, <1>2, <1>3, <1>4, <1>5 DEF Entries

LEMMA OpenIs ==
    ASSUME sub \in [Subs -> Entries]
    PROVE  \A s \in Subs : /\ s \in Subagents!Known <=> sub[s] \in Lives
                           /\ s \in Subagents!Open <=> sub[s] \in Lives /\ sub[s].open
BY EntryKinds DEF Subagents!Open, Subagents!Known

LEMMA OpenAfter ==
    ASSUME sub' \in [Subs -> Entries]
    PROVE  \A s \in Subs : s \in Subagents!Open' <=> sub'[s] \in Lives /\ sub'[s].open
BY EntryKinds DEF Subagents!Open, Subagents!Known

(* What a step does to the table when it opens no entry.                   *)
OpensNone ==
    /\ sub' \in [Subs -> Entries]
    /\ \A s \in Subs : sub'[s] \in Lives /\ sub'[s].open => sub[s] \in Lives /\ sub[s].open
    /\ \A s \in Subs : sub'[s] = Subagents!NoEntry => sub[s] = Subagents!NoEntry

(* The instance's Cardinality is the one that the theorems are about.      *)
LEMMA SubsCount == \A S : Subagents!Cardinality(S) = Cardinality(S)
BY DEF Subagents!Cardinality, Cardinality

LEMMA CapIs ==
    /\ Subagents!CapHolds <=> Cardinality(Subagents!Open) <= MaxLive
    /\ Subagents!CapHolds' <=> Cardinality(Subagents!Open') <= MaxLive
BY SubsCount DEF Subagents!CapHolds

LEMMA SeatsShrink ==
    ASSUME SeatsInv, ConstantsOK, OpensNone
    PROVE  /\ IsFiniteSet(Subagents!Open') /\ Subagents!CapHolds'
           /\ Cardinality(Subagents!Open') <= Cardinality(Subagents!Open)
           /\ Cardinality(Subagents!Open') \in Nat /\ Cardinality(Subagents!Open) \in Nat
           /\ MaxLive \in Nat
<1>1. sub \in [Subs -> Entries] /\ IsFiniteSet(Subagents!Open) /\ Subagents!CapHolds
    BY SubTypes DEF SeatsInv
<1>2. Subagents!Open' \subseteq Subagents!Open
    <2>1. \A s \in Subs : s \in Subagents!Open' => s \in Subagents!Open
        BY <1>1, OpenIs, OpenAfter DEF OpensNone
    <2>2. Subagents!Open' \subseteq Subs
        BY DEF Subagents!Open, Subagents!Known
    <2> QED BY <2>1, <2>2
<1>3. /\ IsFiniteSet(Subagents!Open')
      /\ Cardinality(Subagents!Open') <= Cardinality(Subagents!Open)
    BY <1>1, <1>2, FS_Subset
<1>4. Cardinality(Subagents!Open') \in Nat /\ Cardinality(Subagents!Open) \in Nat
    BY <1>1, <1>3, FS_CardinalityType
<1>5. MaxLive \in Nat
    BY ConstantsOK DEF Subagents!ConstantsOK
<1> QED BY <1>1, <1>3, <1>4, <1>5, CapIs

(* A new status for a known subagent, or its end.                          *)
LEMMA NewStatus ==
    ASSUME sub \in [Subs -> Entries], NEW s \in Subs, sub[s] \in Lives,
           \/ \E t \in {"Running", "Done", "Error"} : sub' = [sub EXCEPT ![s].status = t]
           \/ sub' = [sub EXCEPT ![s].status = "Killed", ![s].open = FALSE]
    PROVE  /\ OpensNone
           /\ sub'[s].status # "Killed" => sub'[s] \in Lives /\ sub'[s].open = sub[s].open
           /\ \A u \in Subs : u # s => sub'[u] = sub[u]
<1>1. PICK e \in Lives : sub' = [sub EXCEPT ![s] = e]
          /\ (e.open => sub[s].open) /\ (e.status # "Killed" => e.open = sub[s].open)
    <2>1. ASSUME NEW t \in {"Running", "Done", "Error"}, sub' = [sub EXCEPT ![s].status = t]
          PROVE  \E e \in Lives : sub' = [sub EXCEPT ![s] = e] /\ e.open = sub[s].open
        <3>1. sub' = [sub EXCEPT ![s] = [sub[s] EXCEPT !.status = t]]
            BY <2>1
        <3>2. [sub[s] EXCEPT !.status = t] \in Lives
              /\ [sub[s] EXCEPT !.status = t].open = sub[s].open
            BY EntryKinds
        <3> QED BY <3>1, <3>2
    <2>2. ASSUME sub' = [sub EXCEPT ![s].status = "Killed", ![s].open = FALSE]
          PROVE  \E e \in Lives : sub' = [sub EXCEPT ![s] = e] /\ e.open = FALSE
                                      /\ e.status = "Killed"
        <3> DEFINE e == [sub[s] EXCEPT !.status = "Killed", !.open = FALSE]
        <3>1. sub' = [sub EXCEPT ![s] = e]
            BY <2>2
        <3>2. e \in Lives /\ e.open = FALSE
            BY EntryKinds
        <3>3. e.status = "Killed"
            BY DEF Lives
        <3> QED BY <3>1, <3>2, <3>3
    <2> QED BY <2>1, <2>2
<1>2. sub'[s] = e /\ \A u \in Subs : u # s => sub'[u] = sub[u]
    BY <1>1
<1>3. sub' \in [Subs -> Entries]
    BY <1>1 DEF Entries
<1>4. OpensNone
    BY <1>1, <1>2, <1>3, EntryKinds DEF OpensNone
<1> QED BY <1>1, <1>2, <1>4

(* A step that opens nothing and begins neither a spawn nor a prompt.      *)
LEMMA SeatsKept ==
    ASSUME SeatsInv, ConstantsOK, OpensNone, Subagents!TypeOK',
           hub'.pc \in {"new", "model"} => hub.pc \in {"new", "model"} /\ hub'.sub = hub.sub
                                           /\ sub'[hub.sub] = sub[hub.sub],
           hub'.pc = "fire" => hub'.sub \in Subagents!Open' /\ turns'[hub'.sub] < MaxTurns,
           \A s \in Subs : sub'[s] = Subagents!NoEntry => turns'[s] \in {turns[s], 0}
    PROVE  SeatsInv'
<1>1. /\ IsFiniteSet(Subagents!Open') /\ Subagents!CapHolds'
      /\ Cardinality(Subagents!Open') <= Cardinality(Subagents!Open)
      /\ Cardinality(Subagents!Open') \in Nat /\ Cardinality(Subagents!Open) \in Nat
      /\ MaxLive \in Nat
    BY SeatsShrink
<1>2. SpawnHasSeat'
    <2> SUFFICES ASSUME hub'.pc \in {"new", "model"}
                 PROVE  Cardinality(Subagents!Open') < MaxLive
                            /\ sub'[hub'.sub] = Subagents!NoEntry
        BY DEF SpawnHasSeat
    <2>1. Cardinality(Subagents!Open) < MaxLive /\ sub[hub.sub] = Subagents!NoEntry
        BY DEF SeatsInv, SpawnHasSeat
    <2> QED BY <1>1, <2>1
<1>3. \A s \in Subs : sub'[s] = Subagents!NoEntry => turns'[s] = 0
    BY DEF SeatsInv, OpensNone
<1> QED BY <1>1, <1>2, <1>3 DEF SeatsInv, FireHasTarget

(* A step that leaves the table alone.                                     *)
LEMMA TableKept ==
    ASSUME sub \in [Subs -> Entries], UNCHANGED sub
    PROVE  OpensNone /\ Subagents!Open' = Subagents!Open
BY DEF OpensNone, Subagents!Open, Subagents!Known

LEMMA CallersSteps ==
    ASSUME SeatsInv, ConstantsOK, NEW c \in Callers,
           Subagents!AskSpawn(c) \/ Subagents!AskAbout(c) \/ Subagents!Retire(c)
    PROVE  SeatsInv'
<1>0. Subagents!TypeOK
    BY DEF SeatsInv
<1>1. UNCHANGED <<hub, sub, turns, kid>> /\ ask' \in [Callers -> Asks]
      /\ caller' \in [Callers -> {"live", "retired", "reaped"}]
    <2>1. \A k \in Kids : [op |-> "spawn", kid |-> k] \in Asks
        BY DEF Asks
    <2>2. \A s \in Subs, o \in {"message", "kill"} : [op |-> o, sub |-> s] \in Asks
        BY DEF Asks
    <2>3. ask \in [Callers -> Asks] /\ caller \in [Callers -> {"live", "retired", "reaped"}]
        BY <1>0, SubTypes
    <2>4. CASE Subagents!AskSpawn(c)
        BY <2>1, <2>3, <2>4 DEF Subagents!AskSpawn, Subagents!Request
    <2>5. CASE Subagents!AskAbout(c)
        <3>1. Subagents!OwnedBy(c) \subseteq Subs
            BY DEF Subagents!OwnedBy, Subagents!Known
        <3>2. PICK s \in Subs, o \in {"message", "kill"} :
                  Subagents!Request(c, [op |-> o, sub |-> s])
            BY <2>5, <3>1 DEF Subagents!AskAbout
        <3> QED BY <2>2, <2>3, <3>2 DEF Subagents!Request
    <2>6. CASE Subagents!Retire(c)
        BY <2>3, <2>6 DEF Subagents!Retire
    <2> QED BY <2>4, <2>5, <2>6
<1>2. Subagents!TypeOK'
    BY <1>0, <1>1, SubTypes, SubTypesAfter
<1>3. OpensNone /\ Subagents!Open' = Subagents!Open
    BY <1>0, <1>1, SubTypes, TableKept
<1> QED BY <1>1, <1>2, <1>3, SeatsKept DEF SeatsInv, FireHasTarget

(* A caller's request is taken from the inbox.                             *)
LEMMA Taken ==
    ASSUME Subagents!TypeOK, NEW c \in Callers, NEW o \in {"spawn", "message", "kill"},
           Subagents!Take(c, o)
    PROVE  /\ ask' \in [Callers -> Asks] /\ hub.pc = "recv"
           /\ o = "spawn" => ask[c].kid \in Kids
           /\ o # "spawn" => ask[c].sub \in Subs
<1>1. ask \in [Callers -> Asks] /\ Subagents!NoAsk \in Asks
    BY SubTypes DEF Asks
<1>2. ask[c].op = o /\ ask[c] \in Asks
    BY <1>1 DEF Subagents!Take
<1> QED BY <1>1, <1>2 DEF Subagents!Take, Subagents!NoAsk, Subagents!Recv, Asks

LEMMA Forgets ==
    ASSUME Subagents!TypeOK, ConstantsOK, NEW S, Subagents!Forget(S)
    PROVE  /\ OpensNone
           /\ turns' \in [Subs -> 0 .. MaxTurns]
           /\ \A s \in Subs : turns'[s] \in {turns[s], 0}
           /\ \A s \in Subs \ S : sub'[s] = sub[s]
<1>1. sub \in [Subs -> Entries] /\ turns \in [Subs -> 0 .. MaxTurns] /\ MaxTurns \in Nat
    BY SubTypes, ConstantsOK DEF Subagents!ConstantsOK
<1>2. /\ sub' \in [Subs -> Entries]
      /\ \A s \in Subs : sub'[s] = IF s \in S THEN Subagents!Forgotten ELSE sub[s]
    BY <1>1, EntryKinds DEF Subagents!Forget
<1>3. OpensNone
    BY <1>2, EntryKinds DEF OpensNone
<1>4. /\ turns' \in [Subs -> 0 .. MaxTurns]
      /\ \A s \in Subs : turns'[s] \in {turns[s], 0}
    BY <1>1 DEF Subagents!Forget
<1> QED BY <1>2, <1>3, <1>4

LEMMA NoticeSteps ==
    ASSUME SeatsInv, ConstantsOK,
           \/ \E c \in Callers : Subagents!TakeNotice(c)
           \/ Subagents!NoNotice \/ Subagents!NoRequest \/ Subagents!Reaped
           \/ \E s \in Subs : Subagents!Reap(s)
    PROVE  SeatsInv'
<1>0. Subagents!TypeOK /\ sub \in [Subs -> Entries] /\ hub \in Hubs
      /\ caller \in [Callers -> {"live", "retired", "reaped"}]
    BY SubTypes DEF SeatsInv
<1>1. ASSUME NEW h \in Hubs, hub' = h, h.pc \in {"drain", "recv", "reap"},
             UNCHANGED <<caller, ask, sub, turns, kid>>
      PROVE  SeatsInv'
    <2>1. Subagents!TypeOK'
        BY <1>0, <1>1, SubTypes, SubTypesAfter
    <2>2. OpensNone
        BY <1>0, <1>1, TableKept
    <2> QED BY <1>1, <2>1, <2>2, SeatsKept
<1>2. CASE \/ \E c \in Callers : Subagents!TakeNotice(c)
           \/ Subagents!NoNotice \/ Subagents!NoRequest
    BY <1>1, <1>2, HubKinds DEF Subagents!TakeNotice, Subagents!NoNotice, Subagents!NoRequest
<1>3. CASE Subagents!Reaped
    <2>1. hub.caller \in Callers /\ hub.pc = "reap"
        BY <1>0, <1>3, HubKinds DEF Subagents!Reaped
    <2>2. Subagents!Forget(Subagents!OwnedBy(hub.caller)) /\ hub' = Subagents!Drain
          /\ caller' = [caller EXCEPT ![hub.caller] = "reaped"] /\ UNCHANGED <<ask, kid>>
        BY <1>3 DEF Subagents!Reaped
    <2>3. /\ OpensNone /\ turns' \in [Subs -> 0 .. MaxTurns]
          /\ \A s \in Subs : turns'[s] \in {turns[s], 0}
        BY <1>0, <2>2, Forgets
    <2>4. caller' \in [Callers -> {"live", "retired", "reaped"}]
        BY <1>0, <2>1, <2>2
    <2>5. Subagents!TypeOK'
        BY <1>0, <2>2, <2>3, <2>4, HubKinds, SubTypes, SubTypesAfter DEF OpensNone
    <2> QED BY <2>2, <2>3, <2>5, HubKinds, SeatsKept
<1>4. ASSUME NEW s \in Subs, Subagents!Reap(s) PROVE SeatsInv'
    <2>1. sub[s] \in Lives /\ hub.pc = "reap" /\ UNCHANGED <<caller, ask, hub, turns, kid>>
          /\ sub' = [sub EXCEPT ![s].status = "Killed", ![s].open = FALSE]
        BY <1>0, <1>4, OpenIs DEF Subagents!Reap, Subagents!Kill
    <2>2. OpensNone
        BY <1>0, <2>1, NewStatus
    <2>3. Subagents!TypeOK'
        BY <1>0, <2>1, <2>2, SubTypes, SubTypesAfter DEF OpensNone
    <2> QED BY <2>1, <2>2, <2>3, SeatsKept
<1> QED BY <1>2, <1>3, <1>4

LEMMA TakeSpawnStep ==
    ASSUME SeatsInv, ConstantsOK, NEW c \in Callers, Subagents!TakeSpawn(c)
    PROVE  SeatsInv'
<1>0. Subagents!TypeOK /\ sub \in [Subs -> Entries]
    BY SubTypes DEF SeatsInv
<1>1. ask' \in [Callers -> Asks] /\ ask[c].kid \in Kids /\ UNCHANGED <<caller, kid>>
      /\ Subagents!Forget(Subagents!Tombstones)
    BY <1>0, Taken DEF Subagents!TakeSpawn
<1>2. /\ OpensNone /\ turns' \in [Subs -> 0 .. MaxTurns]
      /\ \A s \in Subs : turns'[s] \in {turns[s], 0}
      /\ \A s \in Subs \ Subagents!Tombstones : sub'[s] = sub[s]
    BY <1>0, <1>1, Forgets
<1>3. ASSUME hub' \in Hubs PROVE Subagents!TypeOK'
    BY <1>0, <1>1, <1>2, <1>3, SubTypes, SubTypesAfter DEF OpensNone
<1>4. CASE hub' = Subagents!Drain
    BY <1>2, <1>3, <1>4, HubKinds, SeatsKept
<1>5. CASE /\ ~(Subagents!Cardinality(Subagents!Seats) >= MaxLive)
           /\ \E s \in Subs :
                 /\ sub[s] = Subagents!NoEntry
                 /\ hub' = [pc |-> "new", caller |-> c, sub |-> s, kid |-> ask[c].kid]
    <2>1. PICK s \in Subs :
              /\ sub[s] = Subagents!NoEntry
              /\ hub' = [pc |-> "new", caller |-> c, sub |-> s, kid |-> ask[c].kid]
        BY <1>5
    <2>2. hub' \in Hubs /\ hub'.pc = "new" /\ hub'.sub = s
        BY <1>1, <2>1, HubKinds
    <2>3. sub'[s] = Subagents!NoEntry
        BY <1>2, <2>1 DEF Subagents!Tombstones, Subagents!NoEntry
    <2>4. /\ IsFiniteSet(Subagents!Open') /\ Subagents!CapHolds'
          /\ Cardinality(Subagents!Open') <= Cardinality(Subagents!Open)
          /\ Cardinality(Subagents!Open') \in Nat /\ Cardinality(Subagents!Open) \in Nat
          /\ MaxLive \in Nat
        BY <1>2, SeatsShrink
    <2>5. ~(Cardinality(Subagents!Open) >= MaxLive)
        BY <1>5, SubsCount DEF Subagents!Seats
    <2>6. SpawnHasSeat'
        BY <2>2, <2>3, <2>4, <2>5 DEF SpawnHasSeat
    <2>7. \A u \in Subs : sub'[u] = Subagents!NoEntry => turns'[u] = 0
        BY <1>2 DEF SeatsInv, OpensNone
    <2> QED BY <1>3, <2>2, <2>4, <2>6, <2>7 DEF SeatsInv, FireHasTarget
<1> QED BY <1>4, <1>5 DEF Subagents!TakeSpawn

LEMMA SpawnSteps ==
    ASSUME SeatsInv, ConstantsOK, Subagents!SpawnNew \/ Subagents!SpawnModel
    PROVE  SeatsInv'
<1>0. Subagents!TypeOK /\ sub \in [Subs -> Entries] /\ hub \in Hubs
    BY SubTypes DEF SeatsInv
<1>1. hub \in Spawns /\ hub.pc \in {"new", "model"} /\ hub.sub \in Subs /\ hub.kid \in Kids
      /\ hub.caller \in Callers /\ UNCHANGED <<caller, ask, turns, kid>>
    BY <1>0, HubKinds DEF Subagents!SpawnNew, Subagents!SpawnModel
<1>2. Cardinality(Subagents!Open) < MaxLive /\ sub[hub.sub] = Subagents!NoEntry
      /\ turns[hub.sub] = 0
    BY <1>1 DEF SeatsInv, SpawnHasSeat
<1>3. CASE Subagents!SpawnFails
    <2>1. hub' = Subagents!Drain
          /\ sub' = [sub EXCEPT ![hub.sub] = Subagents!Forgotten]
        BY <1>3 DEF Subagents!SpawnFails
    <2>2. OpensNone
        BY <1>0, <1>1, <2>1, EntryKinds DEF OpensNone
    <2>3. Subagents!TypeOK'
        BY <1>0, <1>1, <2>1, <2>2, HubKinds, SubTypes, SubTypesAfter DEF OpensNone
    <2> QED BY <1>1, <2>1, <2>2, <2>3, HubKinds, SeatsKept
<1>4. CASE hub' = [hub EXCEPT !.pc = "model"] /\ UNCHANGED sub
    <2>1. hub' \in Hubs /\ hub'.pc = "model" /\ hub'.sub = hub.sub
        BY <1>1, <1>4, HubKinds
    <2>2. Subagents!TypeOK' /\ OpensNone
        BY <1>0, <1>1, <1>4, <2>1, SubTypes, SubTypesAfter, TableKept
    <2> QED BY <1>1, <1>4, <2>1, <2>2, SeatsKept
<1>5. CASE /\ sub' = [sub EXCEPT ![hub.sub] = Subagents!Entry(hub.caller, hub.kid)]
           /\ hub' = [pc |-> "fire", sub |-> hub.sub]
    <2> DEFINE e == Subagents!Entry(hub.caller, hub.kid)
    <2>1. e \in Lives /\ e.open = TRUE
        BY <1>1, EntryKinds
    <2>2. sub' = [sub EXCEPT ![hub.sub] = e]
        BY <1>5
    <2> HIDE DEF e
    <2>3. hub' \in Hubs /\ hub'.pc = "fire" /\ hub'.sub = hub.sub
        BY <1>1, <1>5, HubKinds
    <2>4. sub' \in [Subs -> Entries] /\ sub'[hub.sub] = e
          /\ \A s \in Subs : s # hub.sub => sub'[s] = sub[s]
        BY <1>0, <1>1, <2>1, <2>2 DEF Entries
    <2>5. Subagents!TypeOK'
        BY <1>0, <1>1, <2>3, <2>4, SubTypes, SubTypesAfter
    <2>6. Subagents!Open' = Subagents!Open \cup {hub.sub} /\ hub.sub \notin Subagents!Open
        <3>1. \A s \in Subs : s \in Subagents!Open' <=> s \in Subagents!Open \/ s = hub.sub
            BY <1>0, <2>1, <2>4, OpenIs, OpenAfter
        <3>2. Subagents!Open' \subseteq Subs /\ Subagents!Open \subseteq Subs
            BY DEF Subagents!Open, Subagents!Known
        <3>3. hub.sub \notin Subagents!Open
            BY <1>0, <1>1, <1>2, OpenIs, EntryKinds
        <3> QED BY <1>1, <3>1, <3>2, <3>3
    <2>7. IsFiniteSet(Subagents!Open)
        BY DEF SeatsInv
    <2>8. IsFiniteSet(Subagents!Open')
          /\ Cardinality(Subagents!Open') = Cardinality(Subagents!Open) + 1
          /\ Cardinality(Subagents!Open) \in Nat
        BY <2>6, <2>7, FS_AddElement, FS_CardinalityType
    <2>9. MaxLive \in Nat /\ MaxTurns \in Nat \ {0}
        BY ConstantsOK DEF Subagents!ConstantsOK
    <2>10. Subagents!CapHolds'
        BY <1>2, <2>8, <2>9, CapIs
    <2>11. FireHasTarget'
        BY <1>1, <1>2, <2>3, <2>6, <2>9 DEF FireHasTarget
    <2>12. \A s \in Subs : sub'[s] = Subagents!NoEntry => turns'[s] = 0
        BY <1>1, <1>2, <2>4 DEF SeatsInv
    <2> QED BY <2>3, <2>5, <2>8, <2>10, <2>11, <2>12 DEF SeatsInv, SpawnHasSeat
<1> QED BY <1>3, <1>4, <1>5 DEF Subagents!SpawnNew, Subagents!SpawnModel

LEMMA MessageSteps ==
    ASSUME SeatsInv, ConstantsOK, NEW c \in Callers,
           Subagents!TakeMessage(c) \/ Subagents!TakeKill(c)
    PROVE  SeatsInv'
<1>0. Subagents!TypeOK /\ sub \in [Subs -> Entries]
    BY SubTypes DEF SeatsInv
<1> DEFINE s == ask[c].sub
<1>1. ask' \in [Callers -> Asks] /\ s \in Subs /\ UNCHANGED <<caller, turns, kid>>
    BY <1>0, Taken DEF Subagents!TakeMessage, Subagents!TakeKill
<1>2. ASSUME OpensNone, hub' \in Hubs, hub'.pc \notin {"new", "model"},
             hub'.pc = "fire" => hub'.sub \in Subagents!Open' /\ turns[hub'.sub] < MaxTurns
      PROVE  SeatsInv'
    <2>1. Subagents!TypeOK'
        BY <1>0, <1>1, <1>2, SubTypes, SubTypesAfter DEF OpensNone
    <2> QED BY <1>1, <1>2, <2>1, SeatsKept
<1>3. CASE hub' = Subagents!Drain /\ UNCHANGED sub
    BY <1>0, <1>2, <1>3, HubKinds, TableKept
<1>4. CASE /\ s \in Subagents!Open /\ turns[s] < MaxTurns
           /\ sub' = [sub EXCEPT ![s].status = "Running"]
           /\ hub' = [pc |-> "fire", sub |-> s]
    <2>1. sub[s] \in Lives /\ sub[s].open
        BY <1>0, <1>1, <1>4, OpenIs
    <2>2. OpensNone /\ (sub'[s].status # "Killed" => sub'[s] \in Lives
                                                     /\ sub'[s].open = sub[s].open)
        BY <1>0, <1>1, <1>4, <2>1, NewStatus
    <2>3. sub'[s].status = "Running"
        BY <1>0, <1>1, <1>4, <2>1 DEF Lives
    <2>4. s \in Subagents!Open'
        BY <1>1, <2>1, <2>2, <2>3, OpenAfter DEF OpensNone
    <2>5. hub' \in Hubs /\ hub'.pc = "fire" /\ hub'.sub = s
        BY <1>1, <1>4, HubKinds
    <2> QED BY <1>2, <1>4, <2>2, <2>4, <2>5
<1>5. CASE s \in Subagents!Known /\ Subagents!Kill(s) /\ hub' = Subagents!Drain
    <2>1. sub[s] \in Lives
        BY <1>0, <1>1, <1>5, OpenIs
    <2>2. OpensNone
        BY <1>0, <1>1, <1>5, <2>1, NewStatus DEF Subagents!Kill
    <2> QED BY <1>2, <1>5, <2>2, HubKinds
<1> QED BY <1>3, <1>4, <1>5 DEF Subagents!TakeMessage, Subagents!TakeKill

LEMMA FireStep ==
    ASSUME SeatsInv, ConstantsOK, Subagents!Fire
    PROVE  SeatsInv'
<1>0. /\ Subagents!TypeOK /\ sub \in [Subs -> Entries] /\ hub \in Hubs
      /\ turns \in [Subs -> 0 .. MaxTurns] /\ MaxTurns \in Nat
    BY SubTypes, ConstantsOK DEF SeatsInv, Subagents!ConstantsOK
<1>1. hub.sub \in Subs /\ hub.sub \in Subagents!Open /\ turns[hub.sub] < MaxTurns
      /\ hub' = Subagents!Drain /\ UNCHANGED <<caller, ask, kid>>
    BY <1>0, HubKinds DEF Subagents!Fire, SeatsInv, FireHasTarget
<1>2. sub[hub.sub] \in Lives
    BY <1>0, <1>1, OpenIs
<1>3. CASE turns' = [turns EXCEPT ![hub.sub] = @ + 1] /\ UNCHANGED sub
    <2>1. OpensNone
        BY <1>0, <1>3, TableKept
    <2>2. turns' \in [Subs -> 0 .. MaxTurns]
        BY <1>0, <1>1, <1>3
    <2>3. Subagents!TypeOK'
        BY <1>0, <1>1, <2>1, <2>2, HubKinds, SubTypes, SubTypesAfter DEF OpensNone
    <2>4. \A s \in Subs : sub'[s] = Subagents!NoEntry => turns'[s] \in {turns[s], 0}
        BY <1>0, <1>1, <1>2, <1>3, EntryKinds
    <2> QED BY <1>1, <2>1, <2>3, <2>4, HubKinds, SeatsKept
<1>4. CASE sub' = [sub EXCEPT ![hub.sub].status = "Error"] /\ UNCHANGED turns
    <2>1. OpensNone
        BY <1>0, <1>1, <1>2, <1>4, NewStatus
    <2>2. Subagents!TypeOK'
        BY <1>0, <1>1, <1>4, <2>1, HubKinds, SubTypes, SubTypesAfter DEF OpensNone
    <2> QED BY <1>1, <1>4, <2>1, <2>2, HubKinds, SeatsKept
<1> QED BY <1>3, <1>4 DEF Subagents!Fire

(* The readers and the clients change no seat: a status alone is theirs.   *)
LEMMA ReaderSteps ==
    ASSUME SeatsInv, ConstantsOK,
           \/ \E s \in Subs : Subagents!CompleteTurn(s)
           \/ \E k \in Kids : Subagents!KidDies(k) \/ Subagents!ReaderEnds(k)
    PROVE  SeatsInv'
<1>0. /\ Subagents!TypeOK /\ sub \in [Subs -> Entries] /\ hub \in Hubs
      /\ turns \in [Subs -> 0 .. MaxTurns] /\ MaxTurns \in Nat
      /\ kid \in [Kids -> {"up", "dead", "eof"}]
    BY SubTypes, ConstantsOK DEF SeatsInv, Subagents!ConstantsOK
<1>1. ASSUME UNCHANGED <<caller, ask, hub>>, kid' \in [Kids -> {"up", "dead", "eof"}],
             OpensNone, turns' \in [Subs -> 0 .. MaxTurns],
             \A s \in Subs : turns'[s] <= turns[s],
             \A s \in Subs : sub[s] \notin Lives => sub'[s] = sub[s],
             \A s \in Subs : s \in Subagents!Open => s \in Subagents!Open'
      PROVE  SeatsInv'
    <2>1. Subagents!TypeOK'
        BY <1>0, <1>1, SubTypes, SubTypesAfter DEF OpensNone
    <2>2. ASSUME hub.pc \in {"new", "model"} PROVE sub'[hub.sub] = sub[hub.sub]
        <3>1. sub[hub.sub] = Subagents!NoEntry /\ hub.sub \in Subs
            BY <1>0, <2>2, HubKinds DEF SeatsInv, SpawnHasSeat
        <3> QED BY <1>1, <3>1, EntryKinds
    <2>3. ASSUME hub.pc = "fire"
          PROVE  hub.sub \in Subagents!Open' /\ turns'[hub.sub] < MaxTurns
        <3>1. hub.sub \in Subagents!Open /\ turns[hub.sub] < MaxTurns /\ hub.sub \in Subs
            BY <1>0, <2>3, HubKinds DEF SeatsInv, FireHasTarget
        <3>2. turns'[hub.sub] <= turns[hub.sub] /\ turns'[hub.sub] \in Nat
              /\ turns[hub.sub] \in Nat
            BY <1>0, <1>1, <3>1
        <3> QED BY <1>0, <1>1, <3>1, <3>2
    <2>4. \A s \in Subs : sub'[s] = Subagents!NoEntry => turns'[s] \in {turns[s], 0}
        <3> SUFFICES ASSUME NEW s \in Subs, sub'[s] = Subagents!NoEntry PROVE turns'[s] = 0
            OBVIOUS
        <3>1. turns[s] = 0
            BY <1>1 DEF OpensNone, SeatsInv
        <3>2. turns'[s] <= 0 /\ turns'[s] \in Nat
            BY <1>1, <3>1
        <3> QED BY <3>2
    <2> QED BY <1>1, <2>1, <2>2, <2>3, <2>4, SeatsKept
<1>2. ASSUME NEW s \in Subs, Subagents!CompleteTurn(s) PROVE SeatsInv'
    <2>1. turns' \in [Subs -> 0 .. MaxTurns] /\ \A u \in Subs : turns'[u] <= turns[u]
        BY <1>0, <1>2 DEF Subagents!CompleteTurn
    <2>2. CASE UNCHANGED sub
        <3>1. OpensNone /\ Subagents!Open' = Subagents!Open
            BY <1>0, <2>2, TableKept
        <3> QED BY <1>0, <1>1, <1>2, <2>1, <2>2, <3>1 DEF Subagents!CompleteTurn
    <2>3. CASE s \in Subagents!Known /\ sub' = [sub EXCEPT ![s].status = "Done"]
        <3>1. sub[s] \in Lives
            BY <1>0, <2>3, OpenIs
        <3>2. sub'[s].status = "Done"
            BY <1>0, <2>3, <3>1 DEF Lives
        <3>3. OpensNone /\ sub'[s] \in Lives /\ sub'[s].open = sub[s].open
              /\ \A u \in Subs : u # s => sub'[u] = sub[u]
            BY <1>0, <2>3, <3>1, <3>2, NewStatus
        <3>4. \A u \in Subs : u \in Subagents!Open => u \in Subagents!Open'
            BY <1>0, <3>3, OpenIs, OpenAfter DEF OpensNone
        <3> QED BY <1>0, <1>1, <1>2, <2>1, <3>1, <3>3, <3>4 DEF Subagents!CompleteTurn
    <2> QED BY <1>2, <2>2, <2>3 DEF Subagents!CompleteTurn
<1>3. ASSUME NEW k \in Kids, Subagents!KidDies(k) PROVE SeatsInv'
    <2>1. UNCHANGED <<caller, ask, hub, sub, turns>>
          /\ kid' \in [Kids -> {"up", "dead", "eof"}]
        BY <1>0, <1>3 DEF Subagents!KidDies
    <2>2. OpensNone /\ Subagents!Open' = Subagents!Open
        BY <1>0, <2>1, TableKept
    <2>3. \A s \in Subs : turns'[s] <= turns[s]
        BY <1>0, <2>1
    <2> QED BY <1>0, <1>1, <2>1, <2>2, <2>3
<1>4. ASSUME NEW k \in Kids, Subagents!ReaderEnds(k) PROVE SeatsInv'
    <2>1. UNCHANGED <<caller, ask, hub>> /\ kid' \in [Kids -> {"up", "dead", "eof"}]
        BY <1>0, <1>4 DEF Subagents!ReaderEnds
    <2>2. ASSUME NEW s \in Subs
          PROVE  /\ sub[s] \in Lives => sub'[s] \in Lives /\ sub'[s].open = sub[s].open
                 /\ sub[s] \notin Lives => sub'[s] = sub[s]
        <3>1. sub'[s] = IF sub[s].status = "Running" THEN [sub[s] EXCEPT !.status = "Error"]
                        ELSE sub[s]
            BY <1>4 DEF Subagents!ReaderEnds
        <3>2. sub[s] \in Entries
            BY <1>0
        <3> QED BY <3>1, <3>2, EntryKinds
    <2>3. sub' \in [Subs -> Entries]
        <3>1. sub' = [s \in Subs |-> sub'[s]]
            BY <1>4 DEF Subagents!ReaderEnds
        <3>2. \A s \in Subs : sub'[s] \in Entries
            BY <1>0, <2>2 DEF Entries
        <3> QED BY <3>1, <3>2
    <2>4. OpensNone
        BY <1>0, <2>2, <2>3, EntryKinds DEF OpensNone
    <2>5. \A s \in Subs : s \in Subagents!Open => s \in Subagents!Open'
        BY <1>0, <2>2, <2>3, OpenIs, OpenAfter
    <2>6. turns' \in [Subs -> 0 .. MaxTurns] /\ \A s \in Subs : turns'[s] <= turns[s]
        BY <1>0, <1>4 DEF Subagents!ReaderEnds
    <2> QED BY <1>1, <2>1, <2>2, <2>4, <2>5, <2>6
<1> QED BY <1>2, <1>3, <1>4

LEMMA InitSeatsInv == ConstantsOK /\ Subagents!Init => SeatsInv
<1> SUFFICES ASSUME ConstantsOK, Subagents!Init PROVE SeatsInv
    OBVIOUS
<1>1. MaxLive \in Nat \ {0} /\ MaxTurns \in Nat \ {0}
    BY ConstantsOK DEF Subagents!ConstantsOK
<1>2. /\ caller \in [Callers -> {"live", "retired", "reaped"}]
      /\ ask \in [Callers -> Asks] /\ hub \in Hubs /\ hub.pc = "drain"
      /\ turns \in [Subs -> 0 .. MaxTurns] /\ kid \in [Kids -> {"up", "dead", "eof"}]
    BY <1>1, HubKinds DEF Subagents!Init, Asks
<1>3. sub \in [Subs -> Entries] /\ \A s \in Subs : sub[s] = Subagents!NoEntry
    BY EntryKinds DEF Subagents!Init
<1>4. Subagents!Open = {}
    <2>1. \A s \in Subs : s \notin Subagents!Open
        BY <1>3, OpenIs, EntryKinds
    <2>2. Subagents!Open \subseteq Subs
        BY DEF Subagents!Open, Subagents!Known
    <2> QED BY <2>1, <2>2
<1>5. IsFiniteSet(Subagents!Open) /\ Subagents!CapHolds
    BY <1>1, <1>4, CapIs, FS_EmptySet
<1>6. \A s \in Subs : turns[s] = 0
    BY DEF Subagents!Init
<1> QED BY <1>2, <1>3, <1>5, <1>6, SubTypes DEF SeatsInv, SpawnHasSeat, FireHasTarget

LEMMA NextSeatsInv ==
    ConstantsOK /\ SeatsInv /\ [Subagents!Next]_subagentsVars => SeatsInv'
<1>1. ASSUME SeatsInv, UNCHANGED subagentsVars PROVE SeatsInv'
    <2>1. UNCHANGED <<caller, ask, hub, sub, turns, kid>>
        BY <1>1 DEF subagentsVars
    <2>2. OpensNone /\ Subagents!Open' = Subagents!Open /\ Subagents!TypeOK'
        BY <1>1, <2>1, SubTypes, SubTypesAfter, TableKept DEF SeatsInv
    <2> QED BY <1>1, <2>1, <2>2, ConstantsOK, SeatsKept DEF SeatsInv, FireHasTarget
<1> QED BY <1>1, CallersSteps, NoticeSteps, TakeSpawnStep, SpawnSteps, MessageSteps, FireStep,
           ReaderSteps DEF Subagents!Next, Subagents!HubStep
-----------------------------------------------------------------------------
(* The background jobs.                                                    *)

(* What is proved of one number at a time is proved of all: a set of       *)
(* numbers has a least one.                                                *)
LEMMA Least == ASSUME NEW T \in SUBSET Nat, T # {} PROVE \E x \in T : \A y \in T : x <= y
<1> DEFINE R == OpToRel(<, Nat)
<1>1. IsWellFoundedOn(R, Nat)
    BY NatLessThanWellFounded
<1>2. \A x, y \in Nat : <<y, x>> \in R <=> y < x
    BY DEF OpToRel
<1> HIDE DEF R
<1>3. PICK x \in T : \A y \in T : ~(<<y, x>> \in R)
    BY <1>1, WFMin
<1>4. \A y \in T : x <= y
    <2> SUFFICES ASSUME NEW y \in T PROVE x <= y
        OBVIOUS
    <2>1. x \in Nat /\ y \in Nat /\ ~(y < x)
        BY <1>2, <1>3
    <2> QED BY <2>1
<1> QED BY <1>4

(* Of the elements of a totally ordered set, k at most have less than k    *)
(* behind them.                                                            *)
LEMMA FewAreLast ==
    ASSUME NEW R, NEW S, Jobs!Ordered(R, S), NEW D \in SUBSET S, IsFiniteSet(D), NEW k \in Nat
    PROVE  LET K == {j \in D : ~(Cardinality({i \in D : <<j, i>> \in R}) >= k)}
           IN IsFiniteSet(K) /\ Cardinality(K) <= k
<1> DEFINE Later(j) == {i \in D : <<j, i>> \in R}
           K == {j \in D : ~(Cardinality(Later(j)) >= k)}
<1> SUFFICES IsFiniteSet(K) /\ Cardinality(K) <= k
    OBVIOUS
<1>1. ASSUME NEW j \in D
      PROVE  IsFiniteSet(Later(j)) /\ Cardinality(Later(j)) \in Nat
    <2>1. Later(j) \in SUBSET D
        OBVIOUS
    <2> QED BY <2>1, FS_Subset, FS_CardinalityType
<1>2. K \in SUBSET D
    OBVIOUS
<1>3. IsFiniteSet(K)
    BY <1>2, FS_Subset
<1>4. CASE K = {}
    <2>1. Cardinality(K) = 0
        BY <1>4, FS_EmptySet
    <2> HIDE DEF K
    <2> QED BY <1>3, <2>1
<1>5. CASE K # {}
    <2> DEFINE T == {k - Cardinality(Later(j)) : j \in K}
    <2>1. T \in SUBSET Nat /\ T # {}
        <3>1. ASSUME NEW j \in K PROVE k - Cardinality(Later(j)) \in Nat
            <4>1. Cardinality(Later(j)) \in Nat /\ ~(Cardinality(Later(j)) >= k)
                BY <1>1
            <4> HIDE DEF Later
            <4> QED BY <4>1
        <3> QED BY <1>5, <3>1
    <2>2. PICK m \in T : \A n \in T : m <= n
        BY <2>1, Least
    <2>3. PICK j \in K : m = k - Cardinality(Later(j))
        OBVIOUS
    <2>4. \A i \in K : Cardinality(Later(i)) <= Cardinality(Later(j))
        <3> SUFFICES ASSUME NEW i \in K
                     PROVE  Cardinality(Later(i)) <= Cardinality(Later(j))
            OBVIOUS
        <3>1. k - Cardinality(Later(j)) <= k - Cardinality(Later(i))
            BY <2>2, <2>3
        <3>2. Cardinality(Later(i)) \in Nat /\ Cardinality(Later(j)) \in Nat
            BY <1>1
        <3> HIDE DEF Later
        <3> QED BY <3>1, <3>2
    <2>5. ASSUME NEW i \in K, i # j PROVE <<j, i>> \in R
        <3> SUFFICES ASSUME <<i, j>> \in R PROVE FALSE
            BY <2>5 DEF Jobs!Ordered
        <3>1. j \in D /\ i \in D
            OBVIOUS
        <3>2. Later(j) \cup {j} \in SUBSET Later(i)
            BY <3>1 DEF Jobs!Ordered
        <3>3. j \notin Later(j)
            BY <3>1 DEF Jobs!Ordered
        <3>4. IsFiniteSet(Later(j)) /\ IsFiniteSet(Later(i))
              /\ Cardinality(Later(j)) \in Nat /\ Cardinality(Later(i)) \in Nat
            BY <1>1, <3>1
        <3>5. Cardinality(Later(i)) <= Cardinality(Later(j))
            BY <2>4
        <3> HIDE DEF Later
        <3>6. Cardinality(Later(j) \cup {j}) = Cardinality(Later(j)) + 1
            BY <3>3, <3>4, FS_AddElement
        <3>7. Cardinality(Later(j) \cup {j}) <= Cardinality(Later(i))
            BY <3>2, <3>4, FS_Subset
        <3> QED BY <3>4, <3>5, <3>6, <3>7
    <2>6. K \in SUBSET (Later(j) \cup {j})
        BY <2>5
    <2>7. IsFiniteSet(Later(j)) /\ Cardinality(Later(j)) \in Nat
          /\ ~(Cardinality(Later(j)) >= k)
        BY <1>1
    <2> HIDE DEF Later, K
    <2>8. IsFiniteSet(Later(j) \cup {j})
          /\ Cardinality(Later(j) \cup {j}) <= Cardinality(Later(j)) + 1
        <3>1. Cardinality(Later(j) \cup {j}) \in {Cardinality(Later(j)), Cardinality(Later(j)) + 1}
              /\ IsFiniteSet(Later(j) \cup {j})
            BY <2>7, FS_AddElement
        <3> QED BY <2>7, <3>1
    <2>9. Cardinality(K) <= Cardinality(Later(j) \cup {j}) /\ Cardinality(K) \in Nat
          /\ Cardinality(Later(j) \cup {j}) \in Nat
        BY <1>3, <2>6, <2>8, FS_Subset, FS_CardinalityType
    <2> QED BY <1>3, <2>7, <2>8, <2>9
<1> QED BY <1>3, <1>4, <1>5
-----------------------------------------------------------------------------
JobEntries == [in : BOOLEAN, exit : BOOLEAN, killed : BOOLEAN]
JobCalls == {"insert", "relock", "report"} \X JobIds

(* A process that the table calls finished does not run.                   *)
FinishedIsOver ==
    /\ \A j \in JobIds : Jobs!Finished(table, j) => proc[j] \in {"exited", "signalled"}
    /\ \A j \in JobIds : table[j].in \/ call = <<"insert", j>> => proc[j] # "none"

RunningIsListed ==
    \A j \in JobIds : proc[j] = "run" /\ ~closed /\ call # <<"insert", j>> => table[j].in

(* Only the report that follows a kill may find a finished job too many.   *)
DoneIsCapped ==
    \/ Cardinality(Jobs!Done(table)) <= MaxFinished
    \/ \E j \in JobIds : call = <<"report", j>> /\ table[j].in

JobsInv ==
    /\ Jobs!TypeOK
    /\ IsFiniteSet(Jobs!Entries(table))
    /\ FinishedIsOver
    /\ RunningIsListed
    /\ DoneIsCapped

LEMMA JobsCount == \A S : Jobs!Cardinality(S) = Cardinality(S)
BY DEF Jobs!Cardinality, Cardinality

LEMMA JobTypes ==
    Jobs!TypeOK <=>
        /\ proc \in [JobIds -> {"none", "run", "exited", "signalled"}]
        /\ table \in [JobIds -> JobEntries]
        /\ Jobs!Ordered(older, Jobs!Entries(table))
        /\ holder \in {"none", "turn"}
        /\ call \in {Jobs!Ready, Jobs!Over} \cup JobCalls
        /\ closed \in BOOLEAN
        /\ told \in [JobIds -> {"nothing", "running", "exited", "killed"}]
BY DEF Jobs!TypeOK, JobEntries, JobCalls

LEMMA JobTypesAfter ==
    /\ proc' \in [JobIds -> {"none", "run", "exited", "signalled"}]
    /\ table' \in [JobIds -> JobEntries]
    /\ Jobs!Ordered(older', Jobs!Entries(table'))
    /\ holder' \in {"none", "turn"}
    /\ call' \in {Jobs!Ready, Jobs!Over} \cup JobCalls
    /\ closed' \in BOOLEAN
    /\ told' \in [JobIds -> {"nothing", "running", "exited", "killed"}]
    => Jobs!TypeOK'
BY DEF Jobs!TypeOK, JobEntries, JobCalls

LEMMA CallKindsDiffer ==
    /\ Jobs!Ready # Jobs!Over
    /\ \A x, j : Jobs!Ready # <<x, j>> /\ Jobs!Over # <<x, j>>
    /\ \A x, y, i, j : <<x, i>> = <<y, j>> <=> x = y /\ i = j
    /\ \A x \in {"insert", "relock", "report"}, j \in JobIds : <<x, j>> \in JobCalls
BY DEF Jobs!Ready, Jobs!Over, JobCalls

(* What is used last comes last in the order.                              *)
LEMMA TouchKeepsOrder ==
    ASSUME NEW t, NEW j \in JobIds, Jobs!Ordered(older, Jobs!Entries(table)), t[j].in,
           Jobs!Entries(t) = Jobs!Entries(table) \cup {j}
    PROVE  Jobs!Ordered(Jobs!Touched(t, j), Jobs!Entries(t))
<1> DEFINE S == Jobs!Entries(t)
           R == Jobs!Touched(t, j)
<1>1. j \in S /\ S = Jobs!Entries(table) \cup {j}
    OBVIOUS
<1>2. R \subseteq S \X S
    BY <1>1 DEF Jobs!Touched, Jobs!Ordered
<1>3. ASSUME NEW i \in S, NEW k \in S
      PROVE  <<i, k>> \in R <=> \/ i # j /\ k # j /\ <<i, k>> \in older
                                \/ i # j /\ k = j
    BY <1>3 DEF Jobs!Touched
<1>4. \A i, k \in S : i # j /\ k # j => /\ <<i, k>> \in older => <<k, i>> \notin older
                                        /\ i # k => <<i, k>> \in older \/ <<k, i>> \in older
    BY <1>1 DEF Jobs!Ordered
<1>5. \A i, k, l \in S : i # j /\ k # j /\ l # j /\ <<i, k>> \in older /\ <<k, l>> \in older
                            => <<i, l>> \in older
    BY <1>1 DEF Jobs!Ordered
<1> HIDE DEF S, R
<1>6. \A i, k \in S : <<i, k>> \in R => <<k, i>> \notin R
    BY <1>3, <1>4
<1>7. \A i, k \in S : i # k => <<i, k>> \in R \/ <<k, i>> \in R
    BY <1>3, <1>4
<1>8. \A i, k, l \in S : <<i, k>> \in R /\ <<k, l>> \in R => <<i, l>> \in R
    BY <1>3, <1>5
<1>9. Jobs!Ordered(R, S)
    BY <1>2, <1>6, <1>7, <1>8 DEF Jobs!Ordered
<1> QED BY <1>9 DEF R, S

LEMMA DropKeepsOrder ==
    ASSUME NEW R, NEW S, Jobs!Ordered(R, S), NEW G
    PROVE  Jobs!Ordered({p \in R : p[1] \notin G /\ p[2] \notin G}, S \ G)
BY DEF Jobs!Ordered

LEMMA DoneAre ==
    ASSUME NEW t, NEW j \in JobIds
    PROVE  /\ j \in Jobs!Done(t) <=> t[j].in /\ (t[j].exit \/ t[j].killed)
           /\ Jobs!Finished(t, j) <=> t[j].in /\ (t[j].exit \/ t[j].killed)
           /\ j \in Jobs!Entries(t) <=> t[j].in
           /\ Jobs!Done(t) \subseteq Jobs!Entries(t)
           /\ Jobs!NoEntry \in JobEntries /\ ~Jobs!NoEntry.in
BY DEF Jobs!Done, Jobs!Finished, Jobs!Entries, Jobs!NoEntry, JobEntries

(* A settled table: finished jobs alone were dropped, and no more than the *)
(* cap of them are left.                                                   *)
LEMMA SettledIsCapped ==
    ASSUME ConstantsOK, JobsInv, NEW t \in [JobIds -> JobEntries], NEW j \in JobIds, t[j].in,
           Jobs!Entries(t) = Jobs!Entries(table) \cup {j}, Jobs!Settle(t, j)
    PROVE  /\ table' \in [JobIds -> JobEntries]
           /\ Jobs!Ordered(older', Jobs!Entries(table'))
           /\ IsFiniteSet(Jobs!Entries(table'))
           /\ Cardinality(Jobs!Done(table')) <= MaxFinished
           /\ \A i \in JobIds : Jobs!Finished(t, i) \/ table'[i] = t[i]
           /\ \A i \in JobIds : table'[i].in => table'[i] = t[i]
<1> DEFINE R == Jobs!Touched(t, j)
           D == Jobs!Done(t)
<1>1. Jobs!Ordered(R, Jobs!Entries(t))
    BY JobTypes, TouchKeepsOrder DEF JobsInv
<1>2. D \subseteq Jobs!Entries(t) /\ D \subseteq JobIds
    BY DoneAre DEF Jobs!Done
<1>3. IsFiniteSet(Jobs!Entries(t)) /\ IsFiniteSet(D)
    <2>1. IsFiniteSet(Jobs!Entries(t))
        BY FS_AddElement DEF JobsInv
    <2> QED BY <1>2, <2>1, FS_Subset
<1>4. MaxFinished \in Nat
    BY ConstantsOK DEF Jobs!ConstantsOK
<1>5. PICK rest \in 0 .. MaxFinished :
          LET gone == Jobs!Pruned(t, R, rest)
          IN /\ table' = [i \in JobIds |-> IF i \in gone THEN Jobs!NoEntry ELSE t[i]]
             /\ older' = {p \in R : p[1] \notin gone /\ p[2] \notin gone}
    BY DEF Jobs!Settle
<1> DEFINE G == Jobs!Pruned(t, R, rest)
           K == {i \in D : ~(Cardinality({l \in D : <<i, l>> \in R}) >= rest)}
<1>6. G \subseteq D /\ D \ G = K
    BY JobsCount DEF Jobs!Pruned
<1>7. rest \in Nat /\ rest <= MaxFinished
    BY <1>4
<1>8. IsFiniteSet(K) /\ Cardinality(K) <= rest /\ Cardinality(K) \in Nat
    <2>1. D \in SUBSET Jobs!Entries(t)
        BY <1>2
    <2> HIDE DEF R, D
    <2>2. IsFiniteSet(K) /\ Cardinality(K) <= rest
        BY <1>1, <1>3, <1>7, <2>1, FewAreLast
    <2> QED BY <2>2, FS_CardinalityType
<1>9. table' = [i \in JobIds |-> IF i \in G THEN Jobs!NoEntry ELSE t[i]]
      /\ older' = {p \in R : p[1] \notin G /\ p[2] \notin G}
    BY <1>5
<1> HIDE DEF G, K, R, D
<1>10. table' \in [JobIds -> JobEntries]
    BY <1>9, DoneAre
<1>11. Jobs!Entries(table') = Jobs!Entries(t) \ G
    <2>1. \A i \in JobIds : i \in Jobs!Entries(table') <=> i \in Jobs!Entries(t) \ G
        BY <1>9, DoneAre
    <2>2. Jobs!Entries(table') \subseteq JobIds /\ Jobs!Entries(t) \subseteq JobIds
        BY DEF Jobs!Entries
    <2> QED BY <2>1, <2>2
<1>12. Jobs!Ordered(older', Jobs!Entries(table'))
    <2>1. Jobs!Ordered({p \in R : p[1] \notin G /\ p[2] \notin G}, Jobs!Entries(t) \ G)
        BY <1>1, DropKeepsOrder
    <2> QED BY <1>9, <1>11, <2>1
<1>13. IsFiniteSet(Jobs!Entries(table'))
    BY <1>3, <1>11, FS_Difference, ZenonT(40)
<1>14. Jobs!Done(table') = K
    <2>1. \A i \in JobIds : i \in Jobs!Done(table') <=> i \in D \ G
        BY <1>9, DoneAre DEF D
    <2>2. Jobs!Done(table') \subseteq JobIds
        BY DEF Jobs!Done
    <2> QED BY <1>2, <1>6, <2>1, <2>2
<1>15. Cardinality(Jobs!Done(table')) <= MaxFinished
    BY <1>4, <1>7, <1>8, <1>14
<1>16. \A i \in JobIds : (Jobs!Finished(t, i) \/ table'[i] = t[i])
                         /\ (table'[i].in => table'[i] = t[i])
    <2> SUFFICES ASSUME NEW i \in JobIds
                 PROVE  (Jobs!Finished(t, i) \/ table'[i] = t[i])
                            /\ (table'[i].in => table'[i] = t[i])
        OBVIOUS
    <2>1. i \in G => Jobs!Finished(t, i)
        BY <1>6, DoneAre DEF D
    <2> QED BY <1>9, <2>1, DoneAre
<1> QED BY <1>10, <1>12, <1>13, <1>15, <1>16
-----------------------------------------------------------------------------
(* A step that settles the table with j's entry e.                         *)
LEMMA SettleStep ==
    ASSUME ConstantsOK, JobsInv, NEW j \in JobIds, NEW e \in JobEntries, e.in,
           Jobs!Settle([table EXCEPT ![j] = e], j),
           e.exit \/ e.killed => proc[j] \in {"exited", "signalled"},
           proc[j] # "none", UNCHANGED <<proc, holder, closed>>,
           call' = Jobs!Ready,
           call = <<"insert", j>> \/ \A i \in JobIds : call # <<"insert", i>>,
           told' \in [JobIds -> {"nothing", "running", "exited", "killed"}]
    PROVE  JobsInv'
<1> DEFINE t == [table EXCEPT ![j] = e]
<1>1. t \in [JobIds -> JobEntries] /\ t[j] = e /\ \A i \in JobIds : i # j => t[i] = table[i]
    BY JobTypes DEF JobsInv
<1>2. Jobs!Entries(t) = Jobs!Entries(table) \cup {j}
    BY <1>1 DEF Jobs!Entries
<1>3. Jobs!Settle(t, j)
    OBVIOUS
<1> HIDE DEF t
<1>4. /\ table' \in [JobIds -> JobEntries]
      /\ Jobs!Ordered(older', Jobs!Entries(table'))
      /\ IsFiniteSet(Jobs!Entries(table'))
      /\ Cardinality(Jobs!Done(table')) <= MaxFinished
      /\ \A i \in JobIds : Jobs!Finished(t, i) \/ table'[i] = t[i]
      /\ \A i \in JobIds : table'[i].in => table'[i] = t[i]
    BY <1>1, <1>2, <1>3, SettledIsCapped
<1>5. Jobs!TypeOK'
    BY <1>4, JobTypes, JobTypesAfter DEF JobsInv
<1>6. \A i \in JobIds : Jobs!Finished(t, i) => proc[i] \in {"exited", "signalled"}
    BY <1>1, DoneAre DEF JobsInv, FinishedIsOver
<1>7. FinishedIsOver'
    <2>1. \A i \in JobIds : Jobs!Finished(table', i) => proc[i] \in {"exited", "signalled"}
        BY <1>4, <1>6, DoneAre
    <2>2. \A i \in JobIds : table'[i].in => proc[i] # "none"
        BY <1>1, <1>4 DEF JobsInv, FinishedIsOver
    <2> QED BY <2>1, <2>2, CallKindsDiffer DEF FinishedIsOver
<1>8. RunningIsListed'
    <2> SUFFICES ASSUME NEW i \in JobIds, proc[i] = "run", ~closed PROVE table'[i].in
        BY DEF RunningIsListed
    <2>1. ~Jobs!Finished(t, i)
        BY <1>6
    <2>2. t[i].in
        BY <1>1, CallKindsDiffer DEF JobsInv, RunningIsListed
    <2> QED BY <1>4, <2>1, <2>2
<1> QED BY <1>4, <1>5, <1>7, <1>8 DEF JobsInv, DoneIsCapped

LEMMA ReapedIs ==
    ASSUME JobsInv, NEW j \in JobIds, table[j].in
    PROVE  LET e == Jobs!Reaped(j)
           IN /\ e \in JobEntries /\ e.in /\ e.killed = table[j].killed
              /\ e.exit <=> table[j].exit \/ proc[j] = "exited"
              /\ [e EXCEPT !.killed = TRUE] \in JobEntries /\ [e EXCEPT !.killed = TRUE].in
              /\ [e EXCEPT !.killed = TRUE].killed
              /\ e.exit \/ e.killed => proc[j] \in {"exited", "signalled"}
<1>1. table[j] \in JobEntries
    BY JobTypes DEF JobsInv
<1>2. table[j].exit \/ table[j].killed => proc[j] \in {"exited", "signalled"}
    BY DoneAre DEF JobsInv, FinishedIsOver
<1> QED BY <1>1, <1>2 DEF Jobs!Reaped, JobEntries

LEMMA InsertStep ==
    ASSUME ConstantsOK, JobsInv, NEW j \in JobIds, Jobs!Insert(j) PROVE JobsInv'
<1>1. [Jobs!NoEntry EXCEPT !.in = TRUE] \in JobEntries
      /\ [Jobs!NoEntry EXCEPT !.in = TRUE].in /\ ~[Jobs!NoEntry EXCEPT !.in = TRUE].exit
      /\ ~[Jobs!NoEntry EXCEPT !.in = TRUE].killed
    BY DEF Jobs!NoEntry, JobEntries
<1>2. proc[j] # "none"
    BY DEF JobsInv, FinishedIsOver, Jobs!Insert
<1>3. told \in [JobIds -> {"nothing", "running", "exited", "killed"}]
    BY JobTypes DEF JobsInv
<1> DEFINE e == [Jobs!NoEntry EXCEPT !.in = TRUE]
<1>4. /\ Jobs!Settle([table EXCEPT ![j] = e], j)
      /\ UNCHANGED <<proc, holder, closed, told>> /\ call' = Jobs!Ready
      /\ call = <<"insert", j>>
    BY DEF Jobs!Insert
<1>5. e \in JobEntries /\ e.in /\ ~e.exit /\ ~e.killed
    BY <1>1
<1> HIDE DEF e
<1> QED BY <1>2, <1>3, <1>4, <1>5, SettleStep

(* The report on a job, in a poll or after a kill.                         *)
LEMMA ReportStep ==
    ASSUME ConstantsOK, JobsInv, NEW j \in JobIds, table[j].in, Jobs!Report(j),
           call' = Jobs!Ready, \A i \in JobIds : call # <<"insert", i>>,
           UNCHANGED <<proc, holder, closed>>
    PROVE  JobsInv'
<1> DEFINE e == Jobs!Reaped(j)
<1>1. /\ e \in JobEntries /\ e.in
      /\ e.exit \/ e.killed => proc[j] \in {"exited", "signalled"}
    BY ReapedIs
<1>2. Jobs!Settle([table EXCEPT ![j] = e], j)
    BY DEF Jobs!Report
<1>3. told' \in [JobIds -> {"nothing", "running", "exited", "killed"}]
    <2>1. told \in [JobIds -> {"nothing", "running", "exited", "killed"}]
        BY JobTypes DEF JobsInv
    <2>2. \E x \in {"running", "exited", "killed"} : told' = [told EXCEPT ![j] = x]
        BY DEF Jobs!Report
    <2> QED BY <2>1, <2>2
<1>4. proc[j] # "none"
    BY DEF JobsInv, FinishedIsOver
<1> HIDE DEF e
<1> QED BY <1>1, <1>2, <1>3, <1>4, SettleStep

(* A step that leaves the table alone.                                     *)
LEMMA TableIsLeft ==
    ASSUME JobsInv, UNCHANGED <<table, older>>,
           proc' \in [JobIds -> {"none", "run", "exited", "signalled"}],
           holder' \in {"none", "turn"}, call' \in {Jobs!Ready, Jobs!Over} \cup JobCalls,
           UNCHANGED <<closed, told>>
    PROVE  Jobs!TypeOK' /\ IsFiniteSet(Jobs!Entries(table'))
BY JobTypes, JobTypesAfter DEF JobsInv

LEMMA ProcessSteps ==
    ASSUME ConstantsOK, JobsInv, NEW j \in JobIds, Jobs!StartJob(j) \/ Jobs!ProcessEnds(j)
    PROVE  JobsInv'
<1>1. PICK x \in {"run", "exited", "signalled"} :
          /\ proc' = [proc EXCEPT ![j] = x]
          /\ \/ x = "run" /\ proc[j] = "none" /\ call = Jobs!Ready /\ call' = <<"insert", j>>
             \/ x # "run" /\ proc[j] = "run" /\ call' = call
    BY DEF Jobs!StartJob, Jobs!ProcessEnds
<1>2. UNCHANGED <<table, older, holder, closed, told>>
    BY DEF Jobs!StartJob, Jobs!ProcessEnds
<1>3. proc \in [JobIds -> {"none", "run", "exited", "signalled"}]
      /\ call \in {Jobs!Ready, Jobs!Over} \cup JobCalls /\ holder \in {"none", "turn"}
    BY JobTypes DEF JobsInv
<1>4. proc' \in [JobIds -> {"none", "run", "exited", "signalled"}] /\ proc'[j] = x
      /\ \A i \in JobIds : i # j => proc'[i] = proc[i]
    BY <1>1, <1>3
<1>5. Jobs!TypeOK' /\ IsFiniteSet(Jobs!Entries(table'))
    BY <1>1, <1>2, <1>3, <1>4, CallKindsDiffer, TableIsLeft
<1>6. ASSUME NEW i \in JobIds
      PROVE  /\ Jobs!Finished(table, i) => proc'[i] \in {"exited", "signalled"}
             /\ table[i].in \/ call' = <<"insert", i>> => proc'[i] # "none"
             /\ proc'[i] = "run" /\ ~closed /\ call' # <<"insert", i>> => table[i].in
    <2>1. /\ Jobs!Finished(table, i) => proc[i] \in {"exited", "signalled"}
          /\ table[i].in \/ call = <<"insert", i>> => proc[i] # "none"
          /\ proc[i] = "run" /\ ~closed /\ call # <<"insert", i>> => table[i].in
        BY DEF JobsInv, FinishedIsOver, RunningIsListed
    <2>2. Jobs!Finished(table, i) => table[i].in
        BY DoneAre
    <2> QED BY <1>1, <1>4, <2>1, <2>2, CallKindsDiffer
<1>7. FinishedIsOver' /\ RunningIsListed'
    BY <1>2, <1>6 DEF FinishedIsOver, RunningIsListed, Jobs!Finished
<1>8. DoneIsCapped'
    <2>1. \A i \in JobIds : call = <<"report", i>> => call' = <<"report", i>>
        BY <1>1, CallKindsDiffer
    <2> QED BY <1>2, <2>1 DEF JobsInv, DoneIsCapped, Jobs!Done, Jobs!Finished
<1> QED BY <1>5, <1>7, <1>8 DEF JobsInv

LEMMA TurnSteps ==
    ASSUME ConstantsOK, JobsInv,
           Jobs!TurnEnds \/ Jobs!TurnStarts \/ \E j \in JobIds : Jobs!KillExited(j)
    PROVE  JobsInv'
<1>1. /\ UNCHANGED <<proc, table, older, closed, told>>
      /\ holder' \in {holder, "turn"} /\ call \in {Jobs!Ready, Jobs!Over}
      /\ call' \in {Jobs!Ready, Jobs!Over} \/ \E j \in JobIds : call' = <<"relock", j>>
    BY DEF Jobs!TurnEnds, Jobs!TurnStarts, Jobs!KillExited
<1>2. Jobs!TypeOK' /\ IsFiniteSet(Jobs!Entries(table'))
    <2>1. holder' \in {"none", "turn"} /\ call' \in {Jobs!Ready, Jobs!Over} \cup JobCalls
        BY <1>1, JobTypes, CallKindsDiffer DEF JobsInv
    <2>2. proc' \in [JobIds -> {"none", "run", "exited", "signalled"}]
        BY <1>1, JobTypes DEF JobsInv
    <2> QED BY <1>1, <2>1, <2>2, TableIsLeft
<1>3. \A j \in JobIds : /\ call # <<"insert", j>> /\ call' # <<"insert", j>>
                        /\ call # <<"report", j>>
    BY <1>1, CallKindsDiffer
<1>4. FinishedIsOver' /\ RunningIsListed' /\ DoneIsCapped'
    BY <1>1, <1>3 DEF JobsInv, FinishedIsOver, RunningIsListed, DoneIsCapped, Jobs!Finished,
                      Jobs!Done
<1> QED BY <1>2, <1>4 DEF JobsInv

LEMMA KillRunningStep ==
    ASSUME ConstantsOK, JobsInv, NEW j \in JobIds, Jobs!KillRunning(j) PROVE JobsInv'
<1> DEFINE e == [Jobs!Reaped(j) EXCEPT !.killed = TRUE]
           x == IF proc[j] = "run" THEN "signalled" ELSE proc[j]
<1>1. table[j].in /\ e \in JobEntries /\ e.in
    BY ReapedIs DEF Jobs!KillRunning
<1>2. proc' = [proc EXCEPT ![j] = x] /\ table' = [table EXCEPT ![j] = e]
      /\ call = Jobs!Ready /\ call' = <<"report", j>>
      /\ UNCHANGED <<older, holder, closed, told>>
    BY DEF Jobs!KillRunning
<1>3. proc \in [JobIds -> {"none", "run", "exited", "signalled"}]
      /\ table \in [JobIds -> JobEntries] /\ proc[j] # "none"
    BY <1>1, JobTypes DEF JobsInv, FinishedIsOver
<1>4. x \in {"exited", "signalled"}
    BY <1>3
<1> HIDE DEF e, x
<1>5. /\ proc' \in [JobIds -> {"none", "run", "exited", "signalled"}] /\ proc'[j] = x
      /\ table' \in [JobIds -> JobEntries] /\ table'[j] = e
      /\ \A i \in JobIds : i # j => proc'[i] = proc[i] /\ table'[i] = table[i]
    BY <1>1, <1>2, <1>3, <1>4
<1>6. Jobs!Entries(table') = Jobs!Entries(table)
    BY <1>1, <1>5 DEF Jobs!Entries
<1>7. Jobs!TypeOK' /\ IsFiniteSet(Jobs!Entries(table'))
    BY <1>2, <1>5, <1>6, JobTypes, JobTypesAfter, CallKindsDiffer DEF JobsInv
<1>8. ASSUME NEW i \in JobIds
      PROVE  /\ Jobs!Finished(table', i) => proc'[i] \in {"exited", "signalled"}
             /\ table'[i].in => proc'[i] # "none"
             /\ proc'[i] = "run" /\ ~closed => table'[i].in
    <2>1. /\ Jobs!Finished(table, i) => proc[i] \in {"exited", "signalled"}
          /\ table[i].in => proc[i] # "none"
          /\ proc[i] = "run" /\ ~closed => table[i].in
        BY <1>2, CallKindsDiffer DEF JobsInv, FinishedIsOver, RunningIsListed
    <2>2. CASE i = j
        BY <1>1, <1>3, <1>4, <1>5, <2>2
    <2>3. CASE i # j
        BY <1>5, <2>1, <2>3 DEF Jobs!Finished
    <2> QED BY <2>2, <2>3
<1>9. FinishedIsOver' /\ RunningIsListed' /\ DoneIsCapped'
    BY <1>1, <1>2, <1>5, <1>8, CallKindsDiffer
       DEF FinishedIsOver, RunningIsListed, DoneIsCapped
<1> QED BY <1>7, <1>9 DEF JobsInv

LEMMA ClearStep == ASSUME ConstantsOK, JobsInv, Jobs!Clear PROVE JobsInv'
<1>1. /\ closed' = TRUE /\ older' = {} /\ UNCHANGED <<holder, call, told>>
      /\ table' = [j \in JobIds |-> Jobs!NoEntry]
      /\ proc' = [j \in JobIds |-> IF table[j].in /\ proc[j] = "run"
                                   THEN "signalled" ELSE proc[j]]
    BY DEF Jobs!Clear
<1>2. Jobs!NoEntry \in JobEntries /\ ~Jobs!NoEntry.in
    BY DEF Jobs!NoEntry, JobEntries
<1>3. proc \in [JobIds -> {"none", "run", "exited", "signalled"}]
    BY JobTypes DEF JobsInv
<1>4. table' \in [JobIds -> JobEntries] /\ \A j \in JobIds : ~table'[j].in
    BY <1>1, <1>2
<1>5. proc' \in [JobIds -> {"none", "run", "exited", "signalled"}]
      /\ \A j \in JobIds : proc'[j] = "none" => proc[j] = "none"
    BY <1>1, <1>3
<1>6. Jobs!Entries(table') = {} /\ Jobs!Done(table') = {}
    BY <1>4 DEF Jobs!Entries, Jobs!Done, Jobs!Finished
<1>7. IsFiniteSet(Jobs!Entries(table')) /\ Cardinality(Jobs!Done(table')) = 0
    BY <1>6, FS_EmptySet
<1>8. Jobs!Ordered(older', Jobs!Entries(table'))
    BY <1>1, <1>6 DEF Jobs!Ordered
<1>9. Jobs!TypeOK'
    BY <1>1, <1>4, <1>5, <1>8, JobTypes, JobTypesAfter DEF JobsInv
<1>10. MaxFinished \in Nat
    BY ConstantsOK DEF Jobs!ConstantsOK
<1>11. FinishedIsOver' /\ RunningIsListed' /\ DoneIsCapped'
    BY <1>1, <1>4, <1>5, <1>7, <1>10
       DEF JobsInv, FinishedIsOver, RunningIsListed, DoneIsCapped, Jobs!Finished
<1> QED BY <1>7, <1>9, <1>11 DEF JobsInv

LEMMA InitJobsInv == ConstantsOK /\ Jobs!Init => JobsInv
<1> SUFFICES ASSUME ConstantsOK, Jobs!Init PROVE JobsInv
    OBVIOUS
<1>1. Jobs!NoEntry \in JobEntries /\ ~Jobs!NoEntry.in
    BY DEF Jobs!NoEntry, JobEntries
<1>2. table \in [JobIds -> JobEntries] /\ \A j \in JobIds : ~table[j].in
    BY <1>1 DEF Jobs!Init
<1>3. Jobs!Entries(table) = {} /\ Jobs!Done(table) = {}
    BY <1>2 DEF Jobs!Entries, Jobs!Done, Jobs!Finished
<1>4. IsFiniteSet(Jobs!Entries(table)) /\ Cardinality(Jobs!Done(table)) = 0
    BY <1>3, FS_EmptySet
<1>5. Jobs!Ordered(older, Jobs!Entries(table))
    BY <1>3 DEF Jobs!Init, Jobs!Ordered
<1>6. /\ proc \in [JobIds -> {"none", "run", "exited", "signalled"}]
      /\ told \in [JobIds -> {"nothing", "running", "exited", "killed"}]
      /\ \A j \in JobIds : proc[j] = "none"
    BY DEF Jobs!Init
<1>7. holder = "none" /\ call = Jobs!Ready /\ closed = FALSE
    BY DEF Jobs!Init
<1>8. MaxFinished \in Nat
    BY ConstantsOK DEF Jobs!ConstantsOK
<1>9. Jobs!TypeOK
    BY <1>2, <1>5, <1>6, <1>7, JobTypes
<1>10. FinishedIsOver /\ RunningIsListed /\ DoneIsCapped
    BY <1>2, <1>4, <1>6, <1>7, <1>8, CallKindsDiffer
       DEF FinishedIsOver, RunningIsListed, DoneIsCapped, Jobs!Finished
<1> QED BY <1>4, <1>9, <1>10 DEF JobsInv

LEMMA NextJobsInv == ConstantsOK /\ JobsInv /\ [Jobs!Next]_jobsVars => JobsInv'
<1> SUFFICES ASSUME ConstantsOK, JobsInv, [Jobs!Next]_jobsVars PROVE JobsInv'
    OBVIOUS
<1>1. ASSUME NEW j \in JobIds, Jobs!Poll(j) PROVE JobsInv'
    <2>1. table[j].in /\ Jobs!Report(j) /\ call = Jobs!Ready /\ call' = Jobs!Ready
          /\ UNCHANGED <<proc, holder, closed>>
        BY <1>1 DEF Jobs!Poll
    <2> QED BY <2>1, CallKindsDiffer, ReportStep
<1>2. ASSUME NEW j \in JobIds, Jobs!KillReports(j) PROVE JobsInv'
    <2>1. Jobs!Report(j) /\ call = <<"report", j>> /\ call' = Jobs!Ready
          /\ UNCHANGED <<proc, holder, closed>>
        BY <1>2 DEF Jobs!KillReports
    <2>2. \A i \in JobIds : call # <<"insert", i>> /\ (call = <<"report", i>> => i = j)
        BY <2>1, CallKindsDiffer
    <2>3. CASE table[j].in
        BY <2>1, <2>2, <2>3, ReportStep
    <2>4. CASE ~table[j].in
        <3>1. UNCHANGED <<told, table, older>>
            BY <2>1, <2>4 DEF Jobs!Report
        <3>2. Jobs!TypeOK' /\ IsFiniteSet(Jobs!Entries(table'))
            BY <2>1, <3>1, JobTypes, TableIsLeft DEF JobsInv
        <3>3. FinishedIsOver' /\ RunningIsListed' /\ DoneIsCapped'
            BY <2>1, <2>2, <2>4, <3>1, CallKindsDiffer
               DEF JobsInv, FinishedIsOver, RunningIsListed, DoneIsCapped, Jobs!Finished,
                   Jobs!Done
        <3> QED BY <3>2, <3>3 DEF JobsInv
    <2> QED BY <2>3, <2>4
<1>3. CASE UNCHANGED jobsVars
    <2>1. UNCHANGED <<proc, table, older, holder, call, closed, told>>
        BY <1>3 DEF jobsVars
    <2>2. Jobs!TypeOK' /\ IsFiniteSet(Jobs!Entries(table'))
        BY <2>1, JobTypes, TableIsLeft DEF JobsInv
    <2> QED BY <2>1, <2>2 DEF JobsInv, FinishedIsOver, RunningIsListed, DoneIsCapped,
                              Jobs!Finished, Jobs!Done
<1> QED BY <1>1, <1>2, <1>3, InsertStep, ProcessSteps, TurnSteps, KillRunningStep, ClearStep
       DEF Jobs!Next, Jobs!TurnGoesOn
-----------------------------------------------------------------------------
(* The tables that outlive a call keep to their caps, for any number of    *)
(* subagents and of jobs and any caps: live subagents while answers, kills *)
(* and ends race, finished jobs without dropping a running one.            *)
THEOREM TablesStayCapped == Spec => []TablesAreCapped
<1>1. Init => SeatsInv /\ JobsInv
    BY ConstantsOK, InitSeatsInv, InitJobsInv DEF Init
<1>2. SeatsInv /\ JobsInv /\ [Next]_vars => SeatsInv' /\ JobsInv'
    BY ConstantsOK, StepsApart, NextSeatsInv, NextJobsInv
<1>3. JobsInv => Jobs!RunningIsKept
    BY CallKindsDiffer, JobsCount DEF JobsInv, RunningIsListed, DoneIsCapped, Jobs!RunningIsKept
<1>4. SeatsInv /\ JobsInv => TablesAreCapped
    BY <1>3 DEF SeatsInv, JobsInv, TablesAreCapped
<1> QED BY <1>1, <1>2, <1>4, PTL DEF Spec
-----------------------------------------------------------------------------
(* The context of the agent loop.                                          *)

(* How many elements of S come before i.                                   *)
Rank(S, i) == Cardinality({j \in S : j < i})

LEMMA Ranks ==
    ASSUME NEW n \in Nat, NEW S \in SUBSET (1 .. n)
    PROVE  /\ IsFiniteSet(S) /\ Cardinality(S) \in Nat
           /\ \A i \in Nat : Rank(S, i) \in Nat
           /\ \A i \in S : Rank(S, i) < Cardinality(S)
           /\ \A i, j \in S : i < j => Rank(S, i) < Rank(S, j)
<1>0. \A i \in S : i \in Nat
    OBVIOUS
<1>1. IsFiniteSet(S)
    <2>1. IsFiniteSet(1 .. n)
        BY FS_Interval
    <2> QED BY <2>1, FS_Subset
<1>2. ASSUME NEW i \in Nat
      PROVE  LET B == {j \in S : j < i} IN IsFiniteSet(B) /\ Cardinality(B) \in Nat
    <2>1. {j \in S : j < i} \in SUBSET S
        OBVIOUS
    <2> QED BY <1>1, <2>1, FS_Subset, FS_CardinalityType
<1>3. \A i \in Nat : Rank(S, i) \in Nat
    BY <1>2 DEF Rank
<1>4. ASSUME NEW i \in S, NEW T \in SUBSET S, {j \in S : j < i} \cup {i} \subseteq T
      PROVE  Rank(S, i) < Cardinality(T)
    <2> DEFINE B == {j \in S : j < i}
    <2>1. i \in Nat /\ i \notin B
        OBVIOUS
    <2>2. IsFiniteSet(B) /\ Cardinality(B) \in Nat
        BY <1>2, <2>1
    <2>3. IsFiniteSet(T) /\ Cardinality(T) \in Nat
        BY <1>1, FS_Subset, FS_CardinalityType
    <2>4. B \cup {i} \in SUBSET T
        BY <1>4
    <2> HIDE DEF B
    <2>5. Cardinality(B \cup {i}) = Cardinality(B) + 1
        BY <2>1, <2>2, FS_AddElement
    <2>6. Cardinality(B \cup {i}) <= Cardinality(T)
        BY <2>3, <2>4, FS_Subset
    <2>7. Cardinality(B) < Cardinality(T)
        BY <2>2, <2>3, <2>5, <2>6
    <2> QED BY <2>7 DEF Rank, B
<1>5. \A i \in S : Rank(S, i) < Cardinality(S)
    BY <1>4
<1>6. ASSUME NEW i \in S, NEW j \in S, i < j
      PROVE  Rank(S, i) < Rank(S, j)
    <2>1. {k \in S : k < i} \cup {i} \subseteq {k \in S : k < j}
        <3>1. \A k \in S : k < i => k < j
            BY <1>0, <1>6
        <3> QED BY <1>6, <3>1
    <2>2. {k \in S : k < j} \in SUBSET S
        OBVIOUS
    <2>3. Rank(S, i) < Cardinality({k \in S : k < j})
        BY <1>4, <2>1, <2>2
    <2> QED BY <2>3 DEF Rank
<1>7. Cardinality(S) \in Nat
    BY <1>1, FS_CardinalityType
<1> QED BY <1>1, <1>3, <1>5, <1>6, <1>7

(* Every rank below the size of the set is the rank of an element.         *)
LEMMA RanksReached ==
    ASSUME NEW n \in Nat, NEW S \in SUBSET (1 .. n), NEW k \in Nat, k < Cardinality(S)
    PROVE  \E i \in S : Rank(S, i) = k
<1> DEFINE T == {m \in Nat : m < Cardinality(S) /\ ~(\E i \in S : Rank(S, i) = m)}
<1> SUFFICES ASSUME T # {} PROVE FALSE
    OBVIOUS
<1>0. /\ IsFiniteSet(S) /\ Cardinality(S) \in Nat
      /\ \A i \in S : Rank(S, i) \in Nat /\ Rank(S, i) < Cardinality(S)
      /\ \A i \in S : i \in Nat
    <2>1. \A i \in S : i \in Nat
        OBVIOUS
    <2> QED BY <2>1, Ranks
<1>1. PICK m \in T : \A l \in T : m <= l
    <2>1. T \in SUBSET Nat
        OBVIOUS
    <2> QED BY <2>1, Least
<1>2. m \in Nat /\ m < Cardinality(S) /\ \A i \in S : Rank(S, i) # m
    OBVIOUS
<1>3. CASE m = 0
    <2>1. S # {}
        BY <1>0, <1>2, <1>3, FS_EmptySet
    <2>2. S \in SUBSET Nat
        BY <1>0
    <2>3. PICK i \in S : \A j \in S : i <= j
        BY <2>1, <2>2, Least
    <2>4. {j \in S : j < i} = {}
        <3>1. \A j \in S : ~(j < i)
            BY <1>0, <2>3
        <3> QED BY <3>1
    <2> QED BY <1>2, <1>3, <2>4, FS_EmptySet DEF Rank
<1>4. CASE m # 0
    <2>1. m - 1 \in Nat /\ m - 1 < m /\ m - 1 < Cardinality(S)
        BY <1>0, <1>2, <1>4
    <2>2. m - 1 \notin T
        BY <1>1, <2>1
    <2>3. PICK i \in S : Rank(S, i) = m - 1
        BY <2>1, <2>2
    <2> DEFINE B == {j \in S : j < i}
               A == {j \in S : j > i}
    <2>4. IsFiniteSet(B) /\ Cardinality(B) = m - 1 /\ i \notin B
        <3>1. B \in SUBSET S /\ i \notin B
            BY <1>0
        <3> QED BY <1>0, <2>3, <3>1, FS_Subset DEF Rank
    <2>5. Cardinality(B \cup {i}) = m
        <3> HIDE DEF B
        <3>1. Cardinality(B \cup {i}) = Cardinality(B) + 1
            BY <2>4, FS_AddElement
        <3> HIDE DEF T
        <3> QED BY <1>2, <2>4, <3>1
    <2>6. A # {}
        <3> SUFFICES ASSUME A = {} PROVE FALSE
            OBVIOUS
        <3>1. S = B \cup {i}
            <4>1. \A j \in S : j < i \/ j = i
                <5> SUFFICES ASSUME NEW j \in S PROVE ~(j > i) => j < i \/ j = i
                    OBVIOUS
                <5> QED BY <1>0
            <4> QED BY <4>1
        <3> QED BY <1>2, <2>5, <3>1
    <2>7. PICK j \in A : \A l \in A : j <= l
        <3>1. A \in SUBSET Nat
            BY <1>0
        <3> QED BY <2>6, <3>1, Least
    <2>8. {l \in S : l < j} = B \cup {i}
        <3>1. j \in S /\ j \in Nat /\ i \in Nat /\ i < j
            BY <1>0, <2>7
        <3>2. ASSUME NEW l \in S PROVE l < j <=> l < i \/ l = i
            <4>1. l \in Nat /\ (l > i => j <= l)
                BY <1>0, <2>7
            <4> QED BY <3>1, <4>1
        <3> QED BY <3>2
    <2>9. j \in S /\ Rank(S, j) = m
        BY <2>5, <2>7, <2>8 DEF Rank
    <2> QED BY <1>2, <2>9
<1> QED BY <1>3, <1>4

ContextEntries == [kind : AgentLoop!Kinds, id : Nat, thought : BOOLEAN]

LEMMA ContextCount == \A S : AgentLoop!Cardinality(S) = Cardinality(S)
BY DEF AgentLoop!Cardinality, Cardinality

LEMMA PickedIs ==
    ASSUME NEW c, NEW S
    PROVE  AgentLoop!Picked(c, S) =
             [k \in 1 .. AgentLoop!Cardinality(S) |->
                 c[CHOOSE i \in S : AgentLoop!Cardinality({j \in S : j < i}) = k - 1]]
BY DEF AgentLoop!Picked

(* What is picked from a sequence is a sequence of entries at increasing   *)
(* places, and none of the places is left out.                             *)
InOrder(d, c, S, f) ==
    /\ f \in [DOMAIN d -> S]
    /\ \A k \in DOMAIN d : d[k] = c[f[k]]
    /\ \A k, l \in DOMAIN d : k < l => f[k] < f[l]
    /\ \A i \in S : \E k \in DOMAIN d : f[k] = i

LEMMA PickedInOrder ==
    ASSUME NEW E, NEW c \in Seq(E), NEW S \in SUBSET DOMAIN c
    PROVE  /\ AgentLoop!Picked(c, S) \in Seq(E)
           /\ \E f : InOrder(AgentLoop!Picked(c, S), c, S, f)
<1> DEFINE n == AgentLoop!Cardinality(S)
           f == [k \in 1 .. n |-> CHOOSE i \in S : AgentLoop!Cardinality({j \in S : j < i}) = k - 1]
           d == AgentLoop!Picked(c, S)
<1>1. /\ Len(c) \in Nat /\ S \in SUBSET (1 .. Len(c)) /\ \A i \in S : i \in Nat /\ c[i] \in E
    BY LenProperties, ElementOfSeq
<1>2. /\ n \in Nat /\ n = Cardinality(S)
      /\ \A i \in S : Rank(S, i) \in Nat /\ Rank(S, i) < n
      /\ \A i, j \in S : i < j => Rank(S, i) < Rank(S, j)
    BY <1>1, Ranks, ContextCount
<1>3. d = [k \in 1 .. n |-> c[CHOOSE i \in S : AgentLoop!Cardinality({j \in S : j < i}) = k - 1]]
    BY PickedIs
<1>4. ASSUME NEW k \in 1 .. n PROVE f[k] \in S /\ Rank(S, f[k]) = k - 1 /\ d[k] = c[f[k]]
    <2>1. \E i \in S : AgentLoop!Cardinality({j \in S : j < i}) = k - 1
        <3>1. k - 1 \in Nat /\ k - 1 < n
            BY <1>2
        <3>2. PICK i \in S : Rank(S, i) = k - 1
            BY <1>1, <3>1, RanksReached, ContextCount
        <3>3. AgentLoop!Cardinality({j \in S : j < i}) = k - 1
            BY <3>2, ContextCount DEF Rank
        <3> QED BY <3>3
    <2>2. f[k] = CHOOSE i \in S : AgentLoop!Cardinality({j \in S : j < i}) = k - 1
        OBVIOUS
    <2>3. d[k] = c[f[k]]
        BY <1>3, <2>2
    <2> HIDE DEF f, d
    <2> QED BY <2>1, <2>2, <2>3, ContextCount DEF Rank
<1>5. DOMAIN d = 1 .. n /\ d \in [1 .. n -> E] /\ f \in [1 .. n -> S]
    BY <1>1, <1>3, <1>4
<1> HIDE DEF f, d, n
<1>6. d \in Seq(E)
    BY <1>2, <1>5, SeqDef
<1>7. ASSUME NEW k \in 1 .. n, NEW l \in 1 .. n, k < l PROVE f[k] < f[l]
    <2>1. /\ f[k] \in S /\ f[l] \in S /\ Rank(S, f[k]) = k - 1 /\ Rank(S, f[l]) = l - 1
        BY <1>4
    <2>2. f[k] \in Nat /\ f[l] \in Nat /\ f[k] # f[l] /\ ~(f[l] < f[k])
        BY <1>1, <1>2, <1>7, <2>1
    <2> QED BY <2>2
<1>8. ASSUME NEW i \in S PROVE \E k \in 1 .. n : f[k] = i
    <2>1. Rank(S, i) + 1 \in 1 .. n
        BY <1>2
    <2>2. PICK k \in 1 .. n : k = Rank(S, i) + 1
        BY <2>1
    <2>3. f[k] \in S /\ Rank(S, f[k]) = Rank(S, i)
        BY <1>2, <1>4, <2>2
    <2>4. ~(f[k] < i) /\ ~(i < f[k])
        BY <1>2, <2>3
    <2> QED BY <1>1, <2>3, <2>4
<1>9. InOrder(d, c, S, f)
    BY <1>4, <1>5, <1>7, <1>8 DEF InOrder
<1> QED BY <1>6, <1>9 DEF d

(* A result follows the call it answers, with no other call in between.    *)
Answered(c, i) ==
    \E j \in DOMAIN c :
        /\ j < i /\ c[j].kind = "call" /\ c[j].id = c[i].id
        /\ \A k \in DOMAIN c : j < k /\ k < i => c[k].kind # "call"

Results == {"result", "edit"}

Orderly(c) ==
    /\ c \in Seq(ContextEntries)
    /\ \A i \in DOMAIN c : c[i].kind = "call" => c[i].id # 0
    /\ \A i \in DOMAIN c : c[i].kind \in Results => Answered(c, i)

LEMMA SeqFacts ==
    ASSUME NEW E, NEW c \in Seq(E)
    PROVE  /\ Len(c) \in Nat /\ DOMAIN c = 1 .. Len(c)
           /\ \A i \in DOMAIN c : i \in Nat /\ c[i] \in E
BY LenProperties, ElementOfSeq

(* Retention and the snapshot change neither what is called nor what       *)
(* answers it.                                                             *)
LEMMA AlikeIsOrderly ==
    ASSUME NEW c, Orderly(c), NEW d \in Seq(ContextEntries), DOMAIN d = DOMAIN c,
           \A i \in DOMAIN c :
               /\ d[i].id = c[i].id
               /\ d[i].kind = c[i].kind \/ {d[i].kind, c[i].kind} \subseteq Results
    PROVE  Orderly(d)
<1>1. \A i \in DOMAIN c : /\ d[i].kind = "call" <=> c[i].kind = "call"
                          /\ d[i].kind \in Results <=> c[i].kind \in Results
    BY DEF Results
<1>2. ASSUME NEW i \in DOMAIN d, d[i].kind \in Results PROVE Answered(d, i)
    <2>1. Answered(c, i)
        BY <1>1, <1>2 DEF Orderly
    <2> QED BY <1>1, <2>1 DEF Answered
<1>3. \A i \in DOMAIN d : d[i].kind = "call" => d[i].id # 0
    BY <1>1 DEF Orderly
<1> QED BY <1>2, <1>3 DEF Orderly

(* What is appended must be in order itself.                               *)
LEMMA LongerIsOrderly ==
    ASSUME NEW c, Orderly(c), NEW d \in Seq(ContextEntries), Len(c) <= Len(d),
           \A i \in 1 .. Len(c) : d[i] = c[i],
           \A i \in Len(c) + 1 .. Len(d) :
               /\ d[i].kind = "call" => d[i].id # 0
               /\ d[i].kind \in Results => Answered(d, i)
    PROVE  Orderly(d)
<1>1. /\ Len(c) \in Nat /\ DOMAIN c = 1 .. Len(c) /\ Len(d) \in Nat /\ DOMAIN d = 1 .. Len(d)
    BY SeqFacts DEF Orderly
<1>2. ASSUME NEW i \in 1 .. Len(c), d[i].kind \in Results PROVE Answered(d, i)
    <2>1. Answered(c, i)
        BY <1>1, <1>2 DEF Orderly
    <2>2. PICK j \in 1 .. Len(c) :
              /\ j < i /\ c[j].kind = "call" /\ c[j].id = c[i].id
              /\ \A k \in 1 .. Len(c) : j < k /\ k < i => c[k].kind # "call"
        BY <1>1, <2>1 DEF Answered
    <2>3. j \in DOMAIN d /\ d[j] = c[j] /\ d[i] = c[i]
        BY <1>1
    <2>4. ASSUME NEW k \in DOMAIN d, j < k, k < i PROVE d[k].kind # "call"
        <3>1. k \in 1 .. Len(c)
            BY <1>1, <2>4
        <3> QED BY <2>2, <2>4, <3>1
    <2> QED BY <2>2, <2>3, <2>4 DEF Answered
<1>3. \A i \in 1 .. Len(c) : d[i].kind = "call" => d[i].id # 0
    BY <1>1 DEF Orderly
<1>4. \A i \in DOMAIN d : i \in 1 .. Len(c) \/ i \in Len(c) + 1 .. Len(d)
    BY <1>1
<1> QED BY <1>2, <1>3, <1>4 DEF Orderly

LEMMA AppendedIsOrderly ==
    ASSUME NEW c, Orderly(c), NEW e \in ContextEntries,
           e.kind \notin Results, e.kind = "call" => e.id # 0
    PROVE  Orderly(Append(c, e))
<1> DEFINE d == Append(c, e)
<1>1. c \in Seq(ContextEntries) /\ Len(c) \in Nat
    BY SeqFacts DEF Orderly
<1>2. /\ d \in Seq(ContextEntries) /\ Len(d) = Len(c) + 1 /\ d[Len(c) + 1] = e
      /\ \A i \in 1 .. Len(c) : d[i] = c[i]
    BY <1>1
<1> HIDE DEF d
<1>3. \A i \in Len(c) + 1 .. Len(d) : d[i] = e
    BY <1>1, <1>2
<1>4. Orderly(d)
    BY <1>1, <1>2, <1>3, LongerIsOrderly
<1> QED BY <1>4 DEF d

LEMMA AnswerIsOrderly ==
    ASSUME NEW c, Orderly(c), NEW e \in ContextEntries, e.kind \in Results,
           NEW j \in DOMAIN c, c[j].kind = "call", c[j].id = e.id,
           \A k \in DOMAIN c : j < k => c[k].kind # "call"
    PROVE  Orderly(Append(c, e))
<1> DEFINE d == Append(c, e)
<1>1. c \in Seq(ContextEntries) /\ Len(c) \in Nat /\ DOMAIN c = 1 .. Len(c)
    BY SeqFacts DEF Orderly
<1>2. /\ d \in Seq(ContextEntries) /\ Len(d) = Len(c) + 1 /\ d[Len(c) + 1] = e
      /\ \A i \in 1 .. Len(c) : d[i] = c[i]
      /\ DOMAIN d = 1 .. Len(c) + 1
    BY <1>1
<1> HIDE DEF d
<1>3. Answered(d, Len(c) + 1)
    BY <1>1, <1>2 DEF Answered
<1>4. \A i \in Len(c) + 1 .. Len(d) : i = Len(c) + 1
    BY <1>1, <1>2
<1>5. e.kind # "call"
    BY DEF Results
<1>6. Orderly(d)
    BY <1>1, <1>2, <1>3, <1>4, <1>5, LongerIsOrderly
<1> QED BY <1>6 DEF d

(* Messages that neither call nor answer.                                  *)
LEMMA PlainIsOrderly ==
    ASSUME NEW c, Orderly(c), NEW q \in Seq(ContextEntries),
           \A i \in DOMAIN q : q[i].kind \notin Results \cup {"call"}
    PROVE  Orderly(c \o q)
<1> DEFINE d == c \o q
<1>1. c \in Seq(ContextEntries) /\ Len(c) \in Nat /\ DOMAIN q = 1 .. Len(q) /\ Len(q) \in Nat
    BY SeqFacts DEF Orderly
<1>2. /\ d \in Seq(ContextEntries) /\ Len(d) = Len(c) + Len(q)
      /\ \A i \in 1 .. Len(c) : d[i] = c[i]
      /\ \A i \in Len(c) + 1 .. Len(d) : i - Len(c) \in DOMAIN q /\ d[i] = q[i - Len(c)]
    <2>1. /\ d \in Seq(ContextEntries) /\ Len(d) = Len(c) + Len(q)
          /\ \A i \in 1 .. Len(c) + Len(q) : d[i] = IF i <= Len(c) THEN c[i] ELSE q[i - Len(c)]
        BY <1>1, ConcatProperties
    <2> HIDE DEF d
    <2> QED BY <1>1, <2>1
<1> HIDE DEF d
<1>3. \A i \in Len(c) + 1 .. Len(d) : d[i].kind # "call" /\ d[i].kind \notin Results
    BY <1>2
<1>4. Len(c) <= Len(d)
    BY <1>1, <1>2
<1>5. Orderly(d)
    BY <1>2, <1>3, <1>4, LongerIsOrderly
<1> QED BY <1>5 DEF d

(* Eviction leaves the calls.                                              *)
LEMMA PickedIsOrderly ==
    ASSUME NEW c, Orderly(c), NEW S \in SUBSET DOMAIN c,
           \A i \in DOMAIN c : c[i].kind = "call" => i \in S
    PROVE  Orderly(AgentLoop!Picked(c, S))
<1> DEFINE d == AgentLoop!Picked(c, S)
<1>1. c \in Seq(ContextEntries)
    BY DEF Orderly
<1>2. d \in Seq(ContextEntries)
    BY <1>1, PickedInOrder
<1>0. PICK f : InOrder(d, c, S, f)
    BY <1>1, PickedInOrder
<1> HIDE DEF d
<1>3. /\ f \in [DOMAIN d -> S]
      /\ \A k \in DOMAIN d : d[k] = c[f[k]]
      /\ \A k, l \in DOMAIN d : k < l => f[k] < f[l]
      /\ \A i \in S : \E k \in DOMAIN d : f[k] = i
    BY <1>0 DEF InOrder
<1>4. /\ \A k \in DOMAIN d : k \in Nat /\ f[k] \in DOMAIN c
      /\ \A i \in DOMAIN c : i \in Nat
    BY <1>1, <1>2, <1>3, SeqFacts
<1>5. \A k, l \in DOMAIN d : f[k] < f[l] => k < l
    <2> SUFFICES ASSUME NEW k \in DOMAIN d, NEW l \in DOMAIN d, f[k] < f[l] PROVE k < l
        OBVIOUS
    <2>1. f[k] \in Nat /\ f[l] \in Nat /\ k \in Nat /\ l \in Nat
        BY <1>4
    <2>2. k # l /\ (l < k => f[l] < f[k])
        BY <1>3, <2>1
    <2> QED BY <2>1, <2>2
<1>6. ASSUME NEW i \in DOMAIN d, d[i].kind \in Results PROVE Answered(d, i)
    <2>1. Answered(c, f[i])
        BY <1>3, <1>4, <1>6 DEF Orderly
    <2>2. PICK j \in DOMAIN c :
              /\ j < f[i] /\ c[j].kind = "call" /\ c[j].id = c[f[i]].id
              /\ \A k \in DOMAIN c : j < k /\ k < f[i] => c[k].kind # "call"
        BY <2>1 DEF Answered
    <2>3. PICK l \in DOMAIN d : f[l] = j
        BY <1>3, <2>2
    <2>4. l < i /\ d[l].kind = "call" /\ d[l].id = d[i].id
        BY <1>3, <1>5, <2>2, <2>3
    <2>5. ASSUME NEW k \in DOMAIN d, l < k, k < i PROVE d[k].kind # "call"
        BY <1>3, <1>4, <2>2, <2>3, <2>5
    <2> QED BY <2>4, <2>5 DEF Answered
<1>7. \A i \in DOMAIN d : d[i].kind = "call" => d[i].id # 0
    BY <1>3, <1>4 DEF Orderly
<1>8. Orderly(d)
    BY <1>2, <1>6, <1>7 DEF Orderly
<1> QED BY <1>8 DEF d

HasPrompt(c) == \E i \in DOMAIN c : c[i].kind = "prompt"

LEMMA MappedSeq ==
    ASSUME NEW E, NEW c \in Seq(E), NEW d, DOMAIN d = DOMAIN c, d = [i \in DOMAIN d |-> d[i]],
           NEW F, \A i \in DOMAIN c : d[i] \in F
    PROVE  d \in Seq(F)
<1>1. Len(c) \in Nat /\ DOMAIN d = 1 .. Len(c)
    BY SeqFacts
<1>2. d \in [1 .. Len(c) -> F]
    BY <1>1
<1> QED BY <1>1, <1>2, SeqDef

LEMMA StrippedIsOrderly ==
    ASSUME NEW c, Orderly(c), HasPrompt(c)
    PROVE  Orderly(AgentLoop!Stripped(c)) /\ HasPrompt(AgentLoop!Stripped(c))
<1> DEFINE d == AgentLoop!Stripped(c)
<1>1. c \in Seq(ContextEntries) /\ \A i \in DOMAIN c : c[i] \in ContextEntries
    BY SeqFacts DEF Orderly
<1>2. DOMAIN d = DOMAIN c /\ d = [i \in DOMAIN d |-> d[i]]
    BY DEF AgentLoop!Stripped
<1>3. ASSUME NEW i \in DOMAIN c
      PROVE  d[i] \in ContextEntries /\ d[i].id = c[i].id /\ d[i].kind = c[i].kind
    <2>1. d[i] = c[i] \/ d[i] = [c[i] EXCEPT !.thought = FALSE]
        BY DEF AgentLoop!Stripped
    <2> HIDE DEF d
    <2> QED BY <1>1, <2>1 DEF ContextEntries
<1> HIDE DEF d
<1>4. d \in Seq(ContextEntries)
    BY <1>1, <1>2, <1>3, MappedSeq
<1>5. Orderly(d) /\ HasPrompt(d)
    BY <1>2, <1>3, <1>4, AlikeIsOrderly DEF HasPrompt
<1> QED BY <1>5 DEF d

LEMMA EvictedIsOrderly ==
    ASSUME NEW c, Orderly(c), HasPrompt(c), NEW n
    PROVE  Orderly(AgentLoop!Evicted(c, n)) /\ HasPrompt(AgentLoop!Evicted(c, n))
<1>1. PICK S \in SUBSET DOMAIN c :
          /\ AgentLoop!Evicted(c, n) = AgentLoop!Picked(c, S)
          /\ \A i \in DOMAIN c : c[i].kind \in {"call", "prompt"} => i \in S
    <2> DEFINE loose == {i \in DOMAIN c : ~AgentLoop!Protected(c, i)}
               gone == {i \in loose : AgentLoop!Cardinality({j \in loose : j < i}) < n}
               S == DOMAIN c \ gone
    <2>1. AgentLoop!Evicted(c, n) = AgentLoop!Picked(c, S)
        BY DEF AgentLoop!Evicted
    <2>2. \A i \in DOMAIN c : c[i].kind \in {"call", "prompt"} => i \notin loose
        BY DEF AgentLoop!Protected, AgentLoop!Evictable
    <2>3. \A i \in DOMAIN c : c[i].kind \in {"call", "prompt"} => i \in S
        BY <2>2
    <2>4. S \in SUBSET DOMAIN c
        OBVIOUS
    <2> QED BY <2>1, <2>3, <2>4
<1> DEFINE d == AgentLoop!Picked(c, S)
<1>2. Orderly(d)
    BY <1>1, PickedIsOrderly
<1>3. HasPrompt(d)
    <2>1. PICK i \in S : c[i].kind = "prompt"
        BY <1>1 DEF HasPrompt
    <2>2. c \in Seq(ContextEntries)
        BY DEF Orderly
    <2>3. PICK f : InOrder(d, c, S, f)
        BY <2>2, PickedInOrder
    <2> HIDE DEF d
    <2>4. PICK k \in DOMAIN d : f[k] = i
        BY <2>1, <2>3 DEF InOrder
    <2>5. d[k] = c[i]
        BY <2>3, <2>4 DEF InOrder
    <2> QED BY <2>1, <2>4, <2>5 DEF HasPrompt
<1> QED BY <1>1, <1>2, <1>3

LEMMA OfOneKind ==
    ASSUME NEW c \in Seq(ContextEntries), NEW kind
    PROVE  LET d == AgentLoop!OfKind(c, kind) IN
           /\ d \in Seq(ContextEntries)
           /\ \A k \in DOMAIN d : d[k].kind = kind
           /\ (\E i \in DOMAIN c : c[i].kind = kind) => 1 \in DOMAIN d
<1> DEFINE S == {i \in DOMAIN c : c[i].kind = kind}
           d == AgentLoop!OfKind(c, kind)
<1>1. d = AgentLoop!Picked(c, S) /\ S \in SUBSET DOMAIN c
    BY DEF AgentLoop!OfKind
<1>0. \A i \in DOMAIN c : i \in S <=> c[i].kind = kind
    OBVIOUS
<1> HIDE DEF d, S
<1>2. d \in Seq(ContextEntries)
    BY <1>1, PickedInOrder
<1>3. PICK f : InOrder(d, c, S, f)
    BY <1>1, PickedInOrder
<1>4. \A k \in DOMAIN d : d[k].kind = kind
    <2>1. \A k \in DOMAIN d : f[k] \in S /\ d[k] = c[f[k]]
        BY <1>3 DEF InOrder
    <2> QED BY <1>0, <1>1, <2>1
<1>5. ASSUME S # {} PROVE 1 \in DOMAIN d
    <2>1. PICK k \in DOMAIN d : TRUE
        BY <1>3, <1>5 DEF InOrder
    <2>2. Len(d) \in Nat /\ DOMAIN d = 1 .. Len(d)
        BY <1>2, SeqFacts
    <2> QED BY <2>1, <2>2
<1> QED BY <1>0, <1>2, <1>4, <1>5 DEF d

LEMMA CollapsedIsOrderly ==
    ASSUME NEW c, Orderly(c), HasPrompt(c)
    PROVE  Orderly(AgentLoop!Collapsed(c)) /\ HasPrompt(AgentLoop!Collapsed(c))
<1> DEFINE s == AgentLoop!OfKind(c, "system")
           p == AgentLoop!OfKind(c, "prompt")
           t == Append(s, AgentLoop!Summary)
           q == SubSeq(p, 1, 1)
<1>1. /\ s \in Seq(ContextEntries) /\ \A k \in DOMAIN s : s[k].kind = "system"
      /\ p \in Seq(ContextEntries) /\ \A k \in DOMAIN p : p[k].kind = "prompt"
      /\ 1 \in DOMAIN p
    BY OfOneKind DEF HasPrompt, Orderly
<1>2. AgentLoop!Collapsed(c) = t \o q
    BY DEF AgentLoop!Collapsed
<1>3. AgentLoop!Summary \in ContextEntries /\ AgentLoop!Summary.kind = "system"
    BY DEF AgentLoop!Summary, AgentLoop!Entry, ContextEntries, AgentLoop!Kinds
<1> HIDE DEF s, p
<1>4. Orderly(s)
    BY <1>1 DEF Orderly, Results
<1>5. Orderly(t)
    BY <1>3, <1>4, AppendedIsOrderly DEF Results
<1>6. /\ q \in Seq(ContextEntries) /\ DOMAIN q = {1} /\ q[1] = p[1]
    <2>1. \A i \in 1 .. 1 : p[i] \in ContextEntries
        BY <1>1, SeqFacts
    <2>2. q \in Seq(ContextEntries) /\ Len(q) = 1 /\ q[1] = p[1]
        BY <2>1, SubSeqProperties
    <2> HIDE DEF q
    <2>3. DOMAIN q = 1 .. 1
        BY <2>2, SeqFacts
    <2> QED BY <2>2, <2>3
<1> HIDE DEF t, q
<1>7. Orderly(t \o q)
    BY <1>1, <1>5, <1>6, PlainIsOrderly DEF Results
<1>8. HasPrompt(t \o q)
    <2>1. t \in Seq(ContextEntries) /\ Len(t) \in Nat /\ Len(q) = 1
        <3>1. t \in Seq(ContextEntries)
            BY <1>5 DEF Orderly
        <3>2. DOMAIN q = 1 .. Len(q) /\ Len(q) \in Nat /\ Len(t) \in Nat
            BY <1>6, <3>1, SeqFacts
        <3> QED BY <1>6, <3>1, <3>2
    <2>2. Len(t) + 1 \in DOMAIN (t \o q) /\ (t \o q)[Len(t) + 1] = q[1]
        BY <1>6, <2>1, ConcatProperties, LenProperties
    <2> QED BY <1>1, <1>6, <2>2 DEF HasPrompt
<1> QED BY <1>2, <1>7, <1>8

LEMMA BudgetIsOrderly ==
    ASSUME NEW c, Orderly(c), HasPrompt(c), NEW d \in AgentLoop!BudgetOutcomes(c)
    PROVE  Orderly(d) /\ HasPrompt(d)
<1>1. PICK s \in {c, AgentLoop!Stripped(c)} :
          d = s \/ d = AgentLoop!Collapsed(s) \/ \E n \in 1 .. 2 : d = AgentLoop!Evicted(s, n)
    BY DEF AgentLoop!BudgetOutcomes
<1>2. Orderly(s) /\ HasPrompt(s)
    BY StrippedIsOrderly
<1> QED BY <1>1, <1>2, CollapsedIsOrderly, EvictedIsOrderly

LEMMA SnapshotIsOrderly ==
    ASSUME NEW c, Orderly(c)
    PROVE  LET d == AgentLoop!Snapshot(c) IN
           /\ Orderly(d) /\ Len(d) = Len(c)
           /\ \A i \in DOMAIN d : d[i].kind # "edit"
           /\ AgentLoop!Snapshot(d) = d
<1> DEFINE d == AgentLoop!Snapshot(c)
<1>1. c \in Seq(ContextEntries) /\ \A i \in DOMAIN c : c[i] \in ContextEntries
    BY SeqFacts DEF Orderly
<1>2. DOMAIN d = DOMAIN c /\ d = [i \in DOMAIN d |-> d[i]]
    BY DEF AgentLoop!Snapshot
<1>3. ASSUME NEW i \in DOMAIN c
      PROVE  /\ d[i] \in ContextEntries /\ d[i].id = c[i].id /\ d[i].kind # "edit"
             /\ d[i].kind = c[i].kind \/ {d[i].kind, c[i].kind} \subseteq Results
    <2>1. d[i] = IF c[i].kind = "edit" THEN [c[i] EXCEPT !.kind = "result"] ELSE c[i]
        BY DEF AgentLoop!Snapshot
    <2> HIDE DEF d
    <2> QED BY <1>1, <2>1 DEF ContextEntries, Results, AgentLoop!Kinds
<1> HIDE DEF d
<1>4. d \in Seq(ContextEntries)
    BY <1>1, <1>2, <1>3, MappedSeq
<1>5. Orderly(d)
    BY <1>2, <1>3, <1>4, AlikeIsOrderly
<1>6. Len(d) = Len(c)
    BY <1>1, <1>2, <1>4, SeqFacts
<1>7. AgentLoop!Snapshot(d) = [i \in DOMAIN d |-> d[i]]
    BY <1>2, <1>3 DEF AgentLoop!Snapshot
<1> QED BY <1>2, <1>3, <1>5, <1>6, <1>7 DEF d

(* The request.  After n entries every call that is sent has its output    *)
(* next, but for a call that was entry n itself and is still open.         *)
Sendable == [kind : AgentLoop!Kinds \cup {"output"}, id : Nat]

AnswerIsNext(m, p) == p < Len(m) /\ m[p + 1] = AgentLoop!Output(m[p].id)

AllAnswered(m) ==
    /\ m \in Seq(Sendable)
    /\ \A p \in DOMAIN m : m[p].kind = "call" => AnswerIsNext(m, p)

AnsweredBut(m, id) ==
    /\ m \in Seq(Sendable)
    /\ \A p \in DOMAIN m : m[p].kind = "call" => AnswerIsNext(m, p) \/ (p = Len(m) /\ m[p].id = id)

SentSoFar(c, n, w) ==
    /\ w = [msgs |-> w.msgs, open |-> w.open] /\ w.open \in Nat
    /\ \/ AllAnswered(w.msgs)
       \/ /\ AnsweredBut(w.msgs, w.open) /\ w.open # 0 /\ n \in DOMAIN c
          /\ c[n].kind = "call" /\ c[n].id = w.open

LEMMA AppendedMessage ==
    ASSUME NEW m \in Seq(Sendable), NEW e \in Sendable
    PROVE  LET d == Append(m, e) IN
           /\ d \in Seq(Sendable) /\ Len(m) \in Nat /\ Len(d) = Len(m) + 1
           /\ DOMAIN m = 1 .. Len(m) /\ DOMAIN d = 1 .. Len(m) + 1
           /\ d[Len(m) + 1] = e /\ \A p \in 1 .. Len(m) : d[p] = m[p]
           /\ \A p \in 1 .. Len(m) : AnswerIsNext(m, p) => AnswerIsNext(d, p)
<1> DEFINE d == Append(m, e)
<1>1. /\ d \in Seq(Sendable) /\ Len(m) \in Nat /\ Len(d) = Len(m) + 1
      /\ DOMAIN m = 1 .. Len(m) /\ DOMAIN d = 1 .. Len(m) + 1
      /\ d[Len(m) + 1] = e /\ \A p \in 1 .. Len(m) : d[p] = m[p]
    BY LenProperties
<1> HIDE DEF d
<1>2. ASSUME NEW p \in 1 .. Len(m), AnswerIsNext(m, p) PROVE AnswerIsNext(d, p)
    <2>1. p < Len(m) /\ m[p + 1] = AgentLoop!Output(m[p].id)
        BY <1>2 DEF AnswerIsNext
    <2>2. p + 1 \in 1 .. Len(m) /\ p < Len(d)
        BY <1>1, <2>1
    <2> QED BY <1>1, <2>1, <2>2 DEF AnswerIsNext
<1> QED BY <1>1, <1>2 DEF d

LEMMA OutputFields ==
    ASSUME NEW id \in Nat
    PROVE  /\ AgentLoop!Output(id) \in Sendable /\ AgentLoop!Output(id).kind = "output"
           /\ AgentLoop!Output(id).id = id
BY DEF AgentLoop!Output, Sendable

LEMMA OutputAnswers ==
    ASSUME NEW m, NEW id \in Nat, AnsweredBut(m, id)
    PROVE  AllAnswered(Append(m, AgentLoop!Output(id)))
<1> DEFINE e == AgentLoop!Output(id)
           d == Append(m, e)
<1>1. m \in Seq(Sendable) /\ e \in Sendable /\ e.kind # "call"
    BY OutputFields DEF AnsweredBut
<1> HIDE DEF e
<1>2. /\ d \in Seq(Sendable) /\ Len(m) \in Nat /\ Len(d) = Len(m) + 1
      /\ DOMAIN m = 1 .. Len(m) /\ DOMAIN d = 1 .. Len(m) + 1
      /\ d[Len(m) + 1] = e /\ \A p \in 1 .. Len(m) : d[p] = m[p]
      /\ \A p \in 1 .. Len(m) : AnswerIsNext(m, p) => AnswerIsNext(d, p)
    BY <1>1, AppendedMessage
<1> HIDE DEF d
<1>3. ASSUME NEW p \in DOMAIN d, d[p].kind = "call" PROVE AnswerIsNext(d, p)
    <2>1. p \in 1 .. Len(m)
        BY <1>1, <1>2, <1>3
    <2>2. CASE AnswerIsNext(m, p)
        BY <1>2, <2>1, <2>2
    <2>3. CASE p = Len(m) /\ m[p].id = id
        BY <1>2, <2>1, <2>3 DEF AnswerIsNext, e
    <2> QED BY <1>2, <1>3, <2>1, <2>2, <2>3 DEF AnsweredBut
<1>4. AllAnswered(d)
    BY <1>2, <1>3 DEF AllAnswered
<1> QED BY <1>4 DEF d, e

LEMMA MessageFollows ==
    ASSUME NEW m, AllAnswered(m), NEW e \in Sendable
    PROVE  /\ e.kind # "call" => AllAnswered(Append(m, e))
           /\ AnsweredBut(Append(m, e), e.id)
<1> DEFINE d == Append(m, e)
<1>1. m \in Seq(Sendable)
    BY DEF AllAnswered
<1>2. /\ d \in Seq(Sendable) /\ Len(m) \in Nat /\ Len(d) = Len(m) + 1
      /\ DOMAIN m = 1 .. Len(m) /\ DOMAIN d = 1 .. Len(m) + 1
      /\ d[Len(m) + 1] = e /\ \A p \in 1 .. Len(m) : d[p] = m[p]
      /\ \A p \in 1 .. Len(m) : AnswerIsNext(m, p) => AnswerIsNext(d, p)
    BY <1>1, AppendedMessage
<1> HIDE DEF d
<1>3. \A p \in DOMAIN d : p \in 1 .. Len(m) \/ p = Len(m) + 1
    BY <1>2
<1>4. \A p \in 1 .. Len(m) : d[p].kind = "call" => AnswerIsNext(d, p)
    BY <1>2 DEF AllAnswered
<1>5. AnsweredBut(d, e.id) /\ (e.kind # "call" => AllAnswered(d))
    BY <1>2, <1>3, <1>4 DEF AnsweredBut, AllAnswered
<1> QED BY <1>5 DEF d

LEMMA SentStep ==
    ASSUME NEW c, Orderly(c), NEW n \in DOMAIN c, NEW w, SentSoFar(c, n - 1, w)
    PROVE  SentSoFar(c, n, AgentLoop!Sent(w, c[n]))
<1> DEFINE e == c[n]
           flushed == IF w.open # 0 /\ AgentLoop!FlushesBefore(e.kind)
                      THEN [msgs |-> Append(w.msgs, AgentLoop!Output(w.open)), open |-> 0] ELSE w
           v == AgentLoop!Sent(w, e)
<1>1. e \in ContextEntries /\ e.kind \in AgentLoop!Kinds /\ e.id \in Nat /\ n \in Nat
    <2>1. e \in ContextEntries /\ n \in Nat
        BY SeqFacts DEF Orderly
    <2> QED BY <2>1 DEF ContextEntries
<1>2. w.open \in Nat /\ AnsweredBut(w.msgs, w.open) /\ (w.open = 0 => AllAnswered(w.msgs))
    BY DEF SentSoFar, AnsweredBut, AllAnswered
<1>3. CASE e.kind \notin Results
    <2>1. AllAnswered(flushed.msgs)
        <3>1. CASE w.open # 0
            <4>1. flushed = [msgs |-> Append(w.msgs, AgentLoop!Output(w.open)), open |-> 0]
                BY <1>3, <3>1 DEF AgentLoop!FlushesBefore, Results
            <4> QED BY <1>2, <4>1, OutputAnswers
        <3>2. CASE w.open = 0
            <4>1. flushed = w
                BY <3>2
            <4> QED BY <1>2, <3>2, <4>1
        <3> QED BY <3>1, <3>2
    <2>2. flushed.open = 0
        BY <1>3 DEF AgentLoop!FlushesBefore, Results
    <2>6. flushed = [msgs |-> flushed.msgs, open |-> flushed.open]
        <3>1. CASE w.open # 0
            <4>1. flushed = [msgs |-> Append(w.msgs, AgentLoop!Output(w.open)), open |-> 0]
                BY <1>3, <3>1 DEF AgentLoop!FlushesBefore, Results
            <4> HIDE DEF flushed
            <4> QED BY <4>1
        <3>2. CASE w.open = 0
            <4>1. flushed = w
                BY <3>2
            <4> HIDE DEF flushed
            <4> QED BY <4>1 DEF SentSoFar
        <3> QED BY <1>2, <3>1, <3>2
    <2> DEFINE x == [kind |-> e.kind, id |-> e.id]
    <2>3. x \in Sendable /\ x.kind = e.kind /\ x.id = e.id
        BY <1>1 DEF Sendable
    <2>4. CASE e.kind = "call"
        <3>1. v = [msgs |-> Append(flushed.msgs, [kind |-> "call", id |-> e.id]), open |-> e.id]
            BY <2>4 DEF AgentLoop!Sent
        <3>2. v.msgs = Append(flushed.msgs, x) /\ v.open = e.id /\ v = [msgs |-> v.msgs, open |-> v.open]
            BY <2>4, <3>1
        <3>3. e.id # 0
            BY <2>4 DEF Orderly
        <3> HIDE DEF v, flushed, x
        <3>4. AnsweredBut(v.msgs, v.open)
            BY <2>1, <2>3, <3>2, MessageFollows
        <3>5. SentSoFar(c, n, v)
            BY <1>1, <2>4, <3>2, <3>3, <3>4 DEF SentSoFar
        <3> QED BY <3>5 DEF v
    <2>5. CASE e.kind # "call"
        <3>1. v = [flushed EXCEPT !.msgs = Append(@, x)]
            BY <1>3, <2>5 DEF AgentLoop!Sent, Results
        <3> HIDE DEF v, flushed, x
        <3>2. v = [msgs |-> Append(flushed.msgs, x), open |-> 0]
            BY <2>2, <2>6, <3>1
        <3>3. v.msgs = Append(flushed.msgs, x) /\ v.open = 0 /\ v = [msgs |-> v.msgs, open |-> v.open]
            BY <3>2
        <3>4. AllAnswered(v.msgs)
            BY <2>1, <2>3, <2>5, <3>3, MessageFollows
        <3>5. SentSoFar(c, n, v)
            BY <3>3, <3>4 DEF SentSoFar
        <3> QED BY <3>5 DEF v
    <2> QED BY <2>4, <2>5
<1>4. CASE e.kind \in Results
    <2>1. v = [msgs |-> Append(w.msgs, AgentLoop!Output(e.id)),
               open |-> IF w.open = e.id THEN 0 ELSE w.open]
        BY <1>4 DEF AgentLoop!Sent, AgentLoop!FlushesBefore, Results
    <2>2. /\ v.msgs = Append(w.msgs, AgentLoop!Output(e.id)) /\ v.open \in Nat
          /\ v = [msgs |-> v.msgs, open |-> v.open]
        BY <1>1, <1>2, <2>1
    <2> HIDE DEF v
    <2>3. AllAnswered(v.msgs)
        <3>1. CASE AllAnswered(w.msgs)
            BY <1>1, <2>2, <3>1, OutputFields, MessageFollows
        <3>2. CASE c[n - 1].kind = "call" /\ c[n - 1].id = w.open /\ n - 1 \in DOMAIN c
            <4>1. Answered(c, n)
                BY <1>4 DEF Orderly
            <4>2. PICK j \in DOMAIN c :
                      /\ j < n /\ c[j].kind = "call" /\ c[j].id = e.id
                      /\ \A k \in DOMAIN c : j < k /\ k < n => c[k].kind # "call"
                BY <4>1 DEF Answered
            <4>3. Len(c) \in Nat /\ DOMAIN c = 1 .. Len(c)
                BY SeqFacts DEF Orderly
            <4>4. j = n - 1
                BY <3>2, <4>2, <4>3
            <4> QED BY <1>1, <1>2, <2>2, <3>2, <4>2, <4>4, OutputAnswers
        <3> QED BY <3>1, <3>2 DEF SentSoFar
    <2>4. SentSoFar(c, n, v)
        BY <2>2, <2>3 DEF SentSoFar
    <2> QED BY <2>4 DEF v
<1> QED BY <1>3, <1>4

(* What the recursion of to_messages computes: it is defined up to the end *)
(* of the context, for a set of lengths up to which it were not would have *)
(* a least one.                                                            *)
Nothing == [msgs |-> <<>>, open |-> 0]

UpTo(c, m, f) ==
    f = [n \in 0 .. m |-> IF n = 0 THEN Nothing ELSE AgentLoop!Sent(f[n - 1], c[n])]

LEMMA MessagesExist ==
    ASSUME NEW c, Len(c) \in Nat
    PROVE  \E f : UpTo(c, Len(c), f)
<1> DEFINE T == {m \in Nat : ~(\E f : UpTo(c, m, f))}
<1> SUFFICES ASSUME T # {} PROVE FALSE
    OBVIOUS
<1>1. PICK m \in T : \A l \in T : m <= l
    <2>1. T \in SUBSET Nat
        OBVIOUS
    <2> QED BY <2>1, Least
<1>2. m \in Nat /\ ~(\E f : UpTo(c, m, f))
    OBVIOUS
<1>3. CASE m = 0
    <2> DEFINE f == [n \in 0 .. 0 |-> Nothing]
    <2>1. f = [n \in 0 .. 0 |-> IF n = 0 THEN Nothing ELSE AgentLoop!Sent(f[n - 1], c[n])]
        <3> HIDE DEF Nothing
        <3> QED OBVIOUS
    <2>2. UpTo(c, 0, f)
        BY <2>1 DEF UpTo
    <2> QED BY <1>2, <1>3, <2>2
<1>4. CASE m # 0
    <2>1. m - 1 \in Nat /\ m - 1 < m
        BY <1>2, <1>4
    <2>2. m - 1 \notin T
        BY <1>1, <1>2, <2>1
    <2>3. PICK f : UpTo(c, m - 1, f)
        BY <2>1, <2>2
    <2> DEFINE g == [n \in 0 .. m |-> IF n = m THEN AgentLoop!Sent(f[m - 1], c[m]) ELSE f[n]]
               At(n) == IF n = 0 THEN Nothing ELSE AgentLoop!Sent(g[n - 1], c[n])
    <2>4. ASSUME NEW n \in 0 .. m PROVE g[n] = At(n)
        <3>1. CASE n = m
            <4>1. g[n] = AgentLoop!Sent(f[m - 1], c[m])
                BY <3>1
            <4>2. g[n - 1] = f[m - 1]
                BY <1>2, <1>4, <3>1
            <4> HIDE DEF g
            <4> QED BY <1>4, <3>1, <4>1, <4>2
        <3>2. CASE n # m
            <4>1. n \in 0 .. m - 1
                BY <1>2, <3>2
            <4>2. g[n] = f[n]
                BY <3>2
            <4>3. f[n] = IF n = 0 THEN Nothing ELSE AgentLoop!Sent(f[n - 1], c[n])
                BY <2>3, <4>1 DEF UpTo
            <4>4. n # 0 => g[n - 1] = f[n - 1]
                BY <1>2, <4>1
            <4> HIDE DEF g
            <4> QED BY <4>2, <4>3, <4>4
        <3> QED BY <3>1, <3>2
    <2>5. g = [n \in 0 .. m |-> g[n]]
        OBVIOUS
    <2> HIDE DEF g
    <2>6. g = [n \in 0 .. m |-> At(n)]
        BY <2>4, <2>5
    <2>7. UpTo(c, m, g)
        BY <2>6 DEF UpTo
    <2> QED BY <1>2, <2>7
<1> QED BY <1>3, <1>4

LEMMA MessagesAre ==
    ASSUME NEW c, Len(c) \in Nat
    PROVE  UpTo(c, Len(c), AgentLoop!Messages(c))
<1>1. AgentLoop!Messages(c) = CHOOSE f : UpTo(c, Len(c), f)
    BY DEF AgentLoop!Messages, UpTo, Nothing
<1> QED BY <1>1, MessagesExist

(* Every call of a request has its output next.                            *)
LEMMA RequestIsAnswered ==
    ASSUME NEW c, Orderly(c)
    PROVE  AllAnswered(AgentLoop!Wire(c))
<1> DEFINE M == AgentLoop!Messages(c)
           all == M[Len(c)]
<1>1. Len(c) \in Nat /\ DOMAIN c = 1 .. Len(c)
    BY SeqFacts DEF Orderly
<1>2. \A n \in 0 .. Len(c) : M[n] = IF n = 0 THEN Nothing ELSE AgentLoop!Sent(M[n - 1], c[n])
    BY <1>1, MessagesAre DEF UpTo
<1>0. AgentLoop!Wire(c) = IF all.open = 0 THEN all.msgs
                          ELSE Append(all.msgs, AgentLoop!Output(all.open))
    BY DEF AgentLoop!Wire
<1> HIDE DEF M
<1> DEFINE T == {n \in 0 .. Len(c) : ~SentSoFar(c, n, M[n])}
<1>3. T = {}
    <2> SUFFICES ASSUME T # {} PROVE FALSE
        OBVIOUS
    <2>1. PICK n \in T : \A l \in T : n <= l
        <3>1. T \in SUBSET Nat
            BY <1>1
        <3> QED BY <3>1, Least
    <2>2. n \in 0 .. Len(c) /\ ~SentSoFar(c, n, M[n])
        OBVIOUS
    <2>3. CASE n = 0
        <3>1. M[n] = Nothing
            BY <1>2, <2>2, <2>3
        <3>2. AllAnswered(<<>>)
            BY EmptySeq DEF AllAnswered
        <3>3. SentSoFar(c, n, Nothing)
            BY <3>2 DEF SentSoFar, Nothing
        <3> QED BY <2>2, <3>1, <3>3
    <2>4. CASE n # 0
        <3>1. n - 1 \in 0 .. Len(c) /\ n - 1 < n /\ n \in DOMAIN c
            BY <1>1, <2>2, <2>4
        <3>2. SentSoFar(c, n - 1, M[n - 1])
            <4>1. n - 1 \notin T
                BY <1>1, <2>1, <3>1
            <4> QED BY <3>1, <4>1
        <3>3. M[n] = AgentLoop!Sent(M[n - 1], c[n])
            BY <1>2, <2>2, <2>4
        <3> QED BY <2>2, <3>1, <3>2, <3>3, SentStep
    <2> QED BY <2>3, <2>4
<1>4. SentSoFar(c, Len(c), all)
    BY <1>1, <1>3
<1>5. AllAnswered(all.msgs) \/ (AnsweredBut(all.msgs, all.open) /\ all.open # 0)
    BY <1>4 DEF SentSoFar
<1>6. all.open \in Nat /\ AnsweredBut(all.msgs, all.open)
    BY <1>4 DEF SentSoFar, AllAnswered, AnsweredBut
<1> HIDE DEF all
<1>7. CASE all.open = 0
    BY <1>5, <1>7, <1>0
<1>8. CASE all.open # 0
    BY <1>6, <1>8, <1>0, OutputAnswers
<1> QED BY <1>7, <1>8
-----------------------------------------------------------------------------
(* The loop.                                                               *)

ContextInv ==
    /\ AgentLoop!TypeOK
    /\ Orderly(ctx)
    /\ pc # "ready" => HasPrompt(ctx)
    /\ AgentLoop!SnapshotIsCurrent
    /\ queue <= count.injects

Counts == [prompts : 0 .. MaxPrompts + MaxInjects, calls : 0 .. MaxToolCalls,
           injects : 0 .. MaxInjects, budgets : 0 .. MaxBudgets]

(* What is left to check of a type, with the context in order.             *)
LoopTypes ==
    /\ pc \in {"ready", "loop", "chat"} /\ stuck \in 0 .. StuckLimit /\ queue \in 0 .. MaxInjects
    /\ stop \in BOOLEAN /\ signed \in BOOLEAN /\ keep \in BOOLEAN /\ count \in Counts

SnapKinds == [kind : AgentLoop!Kinds \ {"edit"}, id : Nat, thought : BOOLEAN]

LEMMA ContextTypes ==
    AgentLoop!TypeOK <=> ctx \in Seq(ContextEntries) /\ snap \in Seq(SnapKinds) /\ LoopTypes
BY DEF AgentLoop!TypeOK, ContextEntries, SnapKinds, LoopTypes, Counts

LEMMA ContextTypesAfter ==
    AgentLoop!TypeOK' <=> (ctx \in Seq(ContextEntries))' /\ (snap \in Seq(SnapKinds))' /\ LoopTypes'
BY DEF AgentLoop!TypeOK, ContextEntries, SnapKinds, LoopTypes, Counts

LEMMA SnapshotType ==
    ASSUME NEW c, Orderly(c)
    PROVE  AgentLoop!Snapshot(c) \in Seq(SnapKinds)
<1> DEFINE d == AgentLoop!Snapshot(c)
<1>1. Orderly(d) /\ \A i \in DOMAIN d : d[i].kind # "edit"
    BY SnapshotIsOrderly
<1> HIDE DEF d
<1>2. d \in Seq(ContextEntries) /\ Len(d) \in Nat /\ d \in [1 .. Len(d) -> ContextEntries]
    BY <1>1, LenProperties DEF Orderly
<1>3. \A i \in 1 .. Len(d) : d[i] \in SnapKinds
    BY <1>1, <1>2 DEF ContextEntries, SnapKinds
<1>4. d \in [1 .. Len(d) -> SnapKinds]
    BY <1>2, <1>3
<1>5. d \in Seq(SnapKinds)
    BY <1>2, <1>4, SeqDef
<1> QED BY <1>5 DEF d

(* A step that leaves the context in order and saves it.                   *)
LEMMA SavedKeeps ==
    ASSUME ContextInv, Orderly(ctx'), pc' # "ready" => HasPrompt(ctx'), AgentLoop!Persist,
           LoopTypes', queue' <= count'.injects
    PROVE  ContextInv'
<1>1. snap' = AgentLoop!Snapshot(ctx')
    BY DEF AgentLoop!Persist
<1>2. snap' \in Seq(SnapKinds) /\ Len(snap') = Len(ctx') /\ Orderly(snap')
    BY <1>1, SnapshotType, SnapshotIsOrderly
<1>3. ctx' \in Seq(ContextEntries)
    BY DEF Orderly
<1>4. Len(ctx') > 1 => snap' # <<>>
    BY <1>2, <1>3, EmptySeq
<1>5. AgentLoop!SnapshotIsCurrent'
    BY <1>1, <1>4 DEF AgentLoop!SnapshotIsCurrent
<1>6. (Orderly(ctx))' /\ (HasPrompt(ctx) <=> HasPrompt(ctx))'
    BY DEF Orderly, Answered
<1> QED BY <1>2, <1>3, <1>5, ContextTypesAfter DEF ContextInv, Orderly, Answered, HasPrompt

(* A step that leaves the context and its file alone.                      *)
LEMMA UnsavedKeeps ==
    ASSUME ContextInv, UNCHANGED <<ctx, snap>>, pc' # "ready" => pc # "ready",
           LoopTypes', queue' <= count'.injects
    PROVE  ContextInv'
<1>1. AgentLoop!TypeOK'
    BY ContextTypes, ContextTypesAfter DEF ContextInv
<1> QED BY <1>1 DEF ContextInv, Orderly, Answered, HasPrompt, AgentLoop!SnapshotIsCurrent

LEMMA NewEntry ==
    ASSUME NEW kind \in AgentLoop!Kinds, NEW id \in Nat
    PROVE  LET e == AgentLoop!Entry(kind, id) IN
           e \in ContextEntries /\ e.kind = kind /\ e.id = id
BY DEF AgentLoop!Entry, ContextEntries

LEMMA HasPromptStill ==
    ASSUME NEW c \in Seq(ContextEntries), NEW d \in Seq(ContextEntries)
    PROVE  HasPrompt(c) \/ HasPrompt(d) => HasPrompt(c \o d)
<1>1. /\ Len(c) \in Nat /\ DOMAIN c = 1 .. Len(c) /\ Len(d) \in Nat /\ DOMAIN d = 1 .. Len(d)
    BY LenProperties
<1> DEFINE q == c \o d
<1>2. /\ q \in Seq(ContextEntries) /\ Len(q) = Len(c) + Len(d)
      /\ \A i \in 1 .. Len(c) + Len(d) : q[i] = IF i <= Len(c) THEN c[i] ELSE d[i - Len(c)]
    BY ConcatProperties
<1> HIDE DEF q
<1>3. DOMAIN q = 1 .. Len(c) + Len(d)
    BY <1>2, LenProperties
<1>4. \A i \in DOMAIN c : i \in DOMAIN q /\ q[i] = c[i]
    BY <1>1, <1>2, <1>3
<1>5. \A i \in DOMAIN d : Len(c) + i \in DOMAIN q /\ q[Len(c) + i] = d[i]
    BY <1>1, <1>2, <1>3
<1>6. HasPrompt(c) \/ HasPrompt(d) => HasPrompt(q)
    BY <1>4, <1>5 DEF HasPrompt
<1> QED BY <1>6 DEF q

LEMMA HasPromptThen ==
    ASSUME NEW c \in Seq(ContextEntries), NEW e \in ContextEntries, HasPrompt(c) \/ e.kind = "prompt"
    PROVE  HasPrompt(Append(c, e))
<1> DEFINE d == Append(c, e)
<1>1. /\ Len(c) \in Nat /\ DOMAIN c = 1 .. Len(c) /\ DOMAIN d = 1 .. Len(c) + 1
      /\ d[Len(c) + 1] = e /\ \A i \in 1 .. Len(c) : d[i] = c[i]
    BY LenProperties
<1> HIDE DEF d
<1>2. Len(c) + 1 \in DOMAIN d /\ \A i \in DOMAIN c : i \in DOMAIN d
    BY <1>1
<1>3. HasPrompt(d)
    BY <1>1, <1>2 DEF HasPrompt
<1> QED BY <1>3 DEF d

LEMMA CountsMove ==
    ASSUME NEW k \in Counts, NEW x
    PROVE  /\ x \in 0 .. MaxPrompts + MaxInjects =>
                 /\ [k EXCEPT !.prompts = x] \in Counts
                 /\ [k EXCEPT !.prompts = x].injects = k.injects
           /\ x \in 0 .. MaxToolCalls =>
                 /\ [k EXCEPT !.calls = x] \in Counts
                 /\ [k EXCEPT !.calls = x].injects = k.injects
           /\ x \in 0 .. MaxBudgets =>
                 /\ [k EXCEPT !.budgets = x] \in Counts
                 /\ [k EXCEPT !.budgets = x].injects = k.injects
           /\ x \in 0 .. MaxInjects =>
                 /\ [k EXCEPT !.injects = x] \in Counts
                 /\ [k EXCEPT !.injects = x].injects = x
BY DEF Counts

LEMMA InitContextInv == ConstantsOK /\ AgentLoop!Init => ContextInv
<1> SUFFICES ASSUME ConstantsOK, AgentLoop!Init PROVE ContextInv
    OBVIOUS
<1> DEFINE e == AgentLoop!Entry("system", 0)
<1>1. e \in ContextEntries /\ e.kind = "system"
    BY NewEntry DEF AgentLoop!Kinds
<1> HIDE DEF e
<1>2. ctx = <<e>> /\ snap = <<>> /\ pc = "ready"
    BY DEF AgentLoop!Init, e
<1>3. Orderly(ctx)
    <2>1. ctx \in Seq(ContextEntries) /\ DOMAIN ctx = {1} /\ ctx[1] = e
        BY <1>1, <1>2
    <2> QED BY <1>1, <2>1 DEF Orderly, Results
<1>4. LoopTypes
    <2>1. StuckLimit \in Nat /\ MaxPrompts \in Nat /\ MaxInjects \in Nat
          /\ MaxToolCalls \in Nat /\ MaxBudgets \in Nat
        BY DEF ConstantsOK, AgentLoop!ConstantsOK
    <2>2. /\ 0 \in 0 .. StuckLimit /\ 0 \in 0 .. MaxPrompts + MaxInjects /\ 0 \in 0 .. MaxInjects
          /\ 0 \in 0 .. MaxToolCalls /\ 0 \in 0 .. MaxBudgets
        BY <2>1
    <2>3. count \in Counts
        BY <2>2, Zenon DEF AgentLoop!Init, Counts
    <2> QED BY <2>2, <2>3 DEF AgentLoop!Init, LoopTypes
<1>5. snap \in Seq(SnapKinds)
    BY <1>2, EmptySeq
<1>6. AgentLoop!SnapshotIsCurrent
    BY <1>2 DEF AgentLoop!SnapshotIsCurrent
<1>7. queue <= count.injects
    BY DEF AgentLoop!Init
<1> QED BY <1>2, <1>3, <1>4, <1>5, <1>6, <1>7, ContextTypes DEF ContextInv, Orderly

LEMMA LoopTypesFacts ==
    ASSUME ConstantsOK, ContextInv
    PROVE  /\ StuckLimit \in Nat /\ MaxPrompts \in Nat /\ MaxInjects \in Nat
           /\ MaxToolCalls \in Nat /\ MaxBudgets \in Nat
           /\ LoopTypes /\ ctx \in Seq(ContextEntries) /\ Orderly(ctx)
           /\ count.prompts \in Nat /\ count.calls \in Nat /\ count.injects \in Nat
           /\ count.budgets \in Nat
           /\ queue \in Nat /\ queue <= count.injects
BY ContextTypes DEF ConstantsOK, AgentLoop!ConstantsOK, ContextInv, LoopTypes, Counts

LEMMA PromptStep == ConstantsOK /\ ContextInv /\ AgentLoop!Prompt => ContextInv'
<1> SUFFICES ASSUME ConstantsOK, ContextInv, AgentLoop!Prompt PROVE ContextInv'
    OBVIOUS
<1> DEFINE e == AgentLoop!Entry("prompt", count.prompts + 1)
<1>1. e \in ContextEntries /\ e.kind = "prompt"
    BY LoopTypesFacts, NewEntry DEF AgentLoop!Kinds
<1> HIDE DEF e
<1>2. ctx' = Append(ctx, e) /\ AgentLoop!Persist
    BY DEF AgentLoop!Prompt, e
<1>3. Orderly(ctx')
    BY <1>1, <1>2, LoopTypesFacts, AppendedIsOrderly DEF Results
<1>4. HasPrompt(ctx')
    <2>1. HasPrompt(Append(ctx, e))
        BY <1>1, LoopTypesFacts, HasPromptThen
    <2> QED BY <1>2, <2>1
<1>5. LoopTypes' /\ queue' <= count'.injects
    <2>1. /\ count.prompts < MaxPrompts /\ count' = [count EXCEPT !.prompts = count.prompts + 1]
          /\ pc' = "loop" /\ stuck' = 0 /\ stop' = FALSE /\ UNCHANGED <<queue, signed, keep>>
        BY DEF AgentLoop!Prompt
    <2>2. count.prompts + 1 \in 0 .. MaxPrompts + MaxInjects /\ 0 \in 0 .. StuckLimit
        BY <2>1, LoopTypesFacts
    <2>3. count' \in Counts /\ count'.injects = count.injects
        BY <2>1, <2>2, LoopTypesFacts, CountsMove DEF LoopTypes
    <2> QED BY <2>1, <2>2, <2>3, LoopTypesFacts DEF LoopTypes
<1> QED BY <1>2, <1>3, <1>4, <1>5, SavedKeeps

LEMMA PrepareStep == ConstantsOK /\ ContextInv /\ AgentLoop!Prepare => ContextInv'
<1> SUFFICES ASSUME ConstantsOK, ContextInv, AgentLoop!Prepare PROVE ContextInv'
    OBVIOUS
<1> DEFINE q == [i \in 1 .. queue |-> AgentLoop!Entry("prompt", MaxPrompts + i)]
           drained == ctx \o q
<1>1. q \in Seq(ContextEntries) /\ \A i \in DOMAIN q : q[i].kind = "prompt"
    <2>1. \A i \in 1 .. queue : q[i] \in ContextEntries /\ q[i].kind = "prompt"
        BY LoopTypesFacts, NewEntry DEF AgentLoop!Kinds
    <2>2. q \in [1 .. queue -> ContextEntries] /\ queue \in Nat
        BY <2>1, LoopTypesFacts
    <2> HIDE DEF q
    <2> QED BY <2>1, <2>2, SeqDef
<1>2. /\ pc = "loop" /\ AgentLoop!Persist
      /\ ctx' = drained \/ ctx' \in AgentLoop!BudgetOutcomes(drained)
    BY DEF AgentLoop!Prepare
<1> HIDE DEF q
<1>3. Orderly(drained)
    BY <1>1, LoopTypesFacts, PlainIsOrderly DEF Results
<1>4. HasPrompt(drained)
    BY <1>1, <1>2, LoopTypesFacts, HasPromptStill DEF ContextInv
<1> HIDE DEF drained
<1>5. Orderly(ctx') /\ HasPrompt(ctx')
    BY <1>2, <1>3, <1>4, BudgetIsOrderly
<1>6. LoopTypes' /\ queue' <= count'.injects
    <2>1. /\ \/ count' = count
             \/ count.budgets < MaxBudgets /\ count' = [count EXCEPT !.budgets = count.budgets + 1]
          /\ queue' = 0 /\ pc' = "chat" /\ UNCHANGED <<stuck, stop, signed, keep>>
        BY DEF AgentLoop!Prepare
    <2>2. 0 \in 0 .. MaxInjects /\ (count.budgets < MaxBudgets => count.budgets + 1 \in 0 .. MaxBudgets)
        BY LoopTypesFacts
    <2>3. count' \in Counts /\ count'.injects = count.injects
        <3>1. CASE count' = count
            BY <3>1, LoopTypesFacts DEF LoopTypes
        <3>2. CASE /\ count.budgets < MaxBudgets
                   /\ count' = [count EXCEPT !.budgets = count.budgets + 1]
            BY <2>2, <3>2, LoopTypesFacts, CountsMove DEF LoopTypes
        <3> QED BY <2>1, <3>1, <3>2
    <2> QED BY <2>1, <2>2, <2>3, LoopTypesFacts DEF LoopTypes
<1> QED BY <1>2, <1>5, <1>6, SavedKeeps

LEMMA StopStep == ConstantsOK /\ ContextInv /\ AgentLoop!ChatStops => ContextInv'
<1> SUFFICES ASSUME ConstantsOK, ContextInv, AgentLoop!ChatStops PROVE ContextInv'
    OBVIOUS
<1> DEFINE e == AgentLoop!Entry("text", 0)
<1>1. e \in ContextEntries /\ e.kind = "text"
    BY NewEntry DEF AgentLoop!Kinds
<1> HIDE DEF e
<1>2. ctx' = Append(ctx, e) /\ AgentLoop!Persist /\ pc' = "ready"
    BY DEF AgentLoop!ChatStops, e
<1>3. Orderly(ctx')
    BY <1>1, <1>2, LoopTypesFacts, AppendedIsOrderly DEF Results
<1>4. LoopTypes' /\ queue' <= count'.injects
    BY LoopTypesFacts DEF AgentLoop!ChatStops, LoopTypes, Counts
<1> QED BY <1>2, <1>3, <1>4, SavedKeeps

(* The model's message with a call.                                        *)
LEMMA CalledIsOrderly ==
    ASSUME ConstantsOK, ContextInv, AgentLoop!NextCall
    PROVE  LET d == AgentLoop!Called(count'.calls) IN
           /\ count'.calls \in Nat /\ count'.calls # 0
           /\ Orderly(d) /\ (HasPrompt(ctx) => HasPrompt(d))
           /\ Len(d) \in DOMAIN d /\ d[Len(d)].kind = "call" /\ d[Len(d)].id = count'.calls
<1> DEFINE n == count'.calls
           e == AgentLoop!Entry("call", n)
           d == Append(ctx, e)
<1>1. n \in Nat /\ n # 0
    BY LoopTypesFacts DEF AgentLoop!NextCall, LoopTypes, Counts
<1> HIDE DEF n
<1>2. e \in ContextEntries /\ e.kind = "call" /\ e.id = n
    BY <1>1, NewEntry DEF AgentLoop!Kinds
<1>3. AgentLoop!Called(n) = d
    BY DEF AgentLoop!Called
<1> HIDE DEF e
<1>4. Orderly(d)
    BY <1>1, <1>2, LoopTypesFacts, AppendedIsOrderly DEF Results
<1>5. HasPrompt(ctx) => HasPrompt(d)
    BY <1>2, LoopTypesFacts, HasPromptThen
<1>6. Len(d) \in DOMAIN d /\ d[Len(d)] = e
    BY <1>2, LoopTypesFacts
<1> QED BY <1>1, <1>2, <1>3, <1>4, <1>5, <1>6 DEF n

LEMMA NextCallTypes ==
    ASSUME ConstantsOK, ContextInv, AgentLoop!NextCall,
           pc' \in {"ready", "loop"}, stuck' \in 0 .. StuckLimit
    PROVE  LoopTypes' /\ queue' <= count'.injects
<1>1. /\ count.calls < MaxToolCalls /\ count' = [count EXCEPT !.calls = count.calls + 1]
      /\ UNCHANGED <<queue, stop, signed, keep>>
    BY DEF AgentLoop!NextCall
<1>2. count.calls + 1 \in 0 .. MaxToolCalls
    BY <1>1, LoopTypesFacts
<1>3. count' \in Counts /\ count'.injects = count.injects
    BY <1>1, <1>2, LoopTypesFacts, CountsMove DEF LoopTypes
<1> QED BY <1>1, <1>3, LoopTypesFacts DEF LoopTypes

LEMMA StuckStep == ConstantsOK /\ ContextInv /\ AgentLoop!ChatStuck => ContextInv'
<1> SUFFICES ASSUME ConstantsOK, ContextInv, AgentLoop!ChatStuck PROVE ContextInv'
    OBVIOUS
<1>1. /\ AgentLoop!NextCall /\ AgentLoop!Persist /\ pc' = "ready"
      /\ ctx' = AgentLoop!Called(count'.calls)
    BY DEF AgentLoop!ChatStuck
<1>2. Orderly(ctx')
    BY <1>1, CalledIsOrderly
<1>3. LoopTypes' /\ queue' <= count'.injects
    <2>1. stuck' = StuckLimit /\ StuckLimit \in 0 .. StuckLimit
        BY LoopTypesFacts DEF AgentLoop!ChatStuck
    <2> QED BY <1>1, <2>1, NextCallTypes
<1> QED BY <1>1, <1>2, <1>3, SavedKeeps

LEMMA CallsStep == ConstantsOK /\ ContextInv /\ AgentLoop!ChatCalls => ContextInv'
<1> SUFFICES ASSUME ConstantsOK, ContextInv, AgentLoop!ChatCalls PROVE ContextInv'
    OBVIOUS
<1> DEFINE d == AgentLoop!Called(count'.calls)
           s == AgentLoop!Entry("system", 2)
           r(kind) == AgentLoop!Entry(kind, count'.calls)
<1>1. /\ AgentLoop!NextCall /\ AgentLoop!Persist /\ pc' = "loop" /\ pc = "chat"
      /\ \E kind \in {"result", "edit"} : \/ ctx' = d \o <<>> \o <<r(kind)>>
                                          \/ ctx' = d \o <<s>> \o <<r(kind)>>
    BY DEF AgentLoop!ChatCalls, AgentLoop!NextCall
<1>2. PICK kind \in Results : \/ ctx' = d \o <<>> \o <<r(kind)>>
                              \/ ctx' = d \o <<s>> \o <<r(kind)>>
    BY <1>1 DEF Results
<1>3. PICK n \in Nat : n = count'.calls /\ n # 0
    BY <1>1, CalledIsOrderly
<1>4. PICK e : e = r(kind) /\ e \in ContextEntries /\ e.kind \in Results /\ e.id = n
    BY <1>3, NewEntry DEF Results, AgentLoop!Kinds
<1>5. s \in ContextEntries /\ s.kind = "system"
    BY NewEntry DEF AgentLoop!Kinds
<1>6. /\ Orderly(d) /\ HasPrompt(d)
      /\ Len(d) \in DOMAIN d /\ d[Len(d)].kind = "call" /\ d[Len(d)].id = n
    BY <1>1, <1>3, CalledIsOrderly DEF ContextInv
<1>7. PICK f : f \in {d, Append(d, s)} /\ ctx' = Append(f, e)
    <2>1. d \in Seq(ContextEntries)
        BY <1>6 DEF Orderly
    <2> HIDE DEF d, s, r
    <2>2. d \o <<>> = d /\ d \o <<s>> = Append(d, s) /\ Append(d, s) \in Seq(ContextEntries)
        BY <1>5, <2>1
    <2>3. \A g \in Seq(ContextEntries) : g \o <<e>> = Append(g, e)
        BY <1>4
    <2> QED BY <1>2, <1>4, <2>1, <2>2, <2>3
<1> HIDE DEF d, s, r
<1>8. Orderly(f) /\ HasPrompt(f)
    <2>1. Orderly(Append(d, s))
        BY <1>5, <1>6, AppendedIsOrderly DEF Results
    <2>2. HasPrompt(Append(d, s))
        BY <1>5, <1>6, HasPromptThen DEF Orderly
    <2> QED BY <1>6, <1>7, <2>1, <2>2
<1>9. /\ Len(d) \in DOMAIN f /\ f[Len(d)].kind = "call" /\ f[Len(d)].id = n
      /\ \A k \in DOMAIN f : Len(d) < k => f[k].kind # "call"
    <2>1. d \in Seq(ContextEntries) /\ Len(d) \in Nat /\ DOMAIN d = 1 .. Len(d)
        BY <1>6, SeqFacts DEF Orderly
    <2>2. CASE f = d
        BY <1>6, <2>1, <2>2
    <2>3. CASE f = Append(d, s)
        <3>1. /\ DOMAIN f = 1 .. Len(d) + 1 /\ f[Len(d) + 1] = s
              /\ \A i \in 1 .. Len(d) : f[i] = d[i]
            BY <1>5, <2>1, <2>3
        <3> QED BY <1>5, <1>6, <2>1, <3>1
    <2> QED BY <1>7, <2>2, <2>3
<1>10. Orderly(ctx')
    BY <1>4, <1>7, <1>8, <1>9, AnswerIsOrderly
<1>11. HasPrompt(ctx')
    BY <1>4, <1>7, <1>8, HasPromptThen DEF Orderly
<1>12. LoopTypes' /\ queue' <= count'.injects
    <2>1. PICK repeats \in BOOLEAN : /\ repeats => stuck + 1 < StuckLimit
                                     /\ stuck' = IF repeats THEN stuck + 1 ELSE 0
        BY DEF AgentLoop!ChatCalls
    <2>2. stuck' \in 0 .. StuckLimit
        BY <2>1, LoopTypesFacts DEF LoopTypes
    <2> QED BY <1>1, <2>2, NextCallTypes
<1> QED BY <1>1, <1>10, <1>11, <1>12, SavedKeeps

(* The next child goes on with what the file holds.                        *)
LEMMA RestoreStep == ConstantsOK /\ ContextInv /\ AgentLoop!CrashAndRestore => ContextInv'
<1> SUFFICES ASSUME ConstantsOK, ContextInv, AgentLoop!CrashAndRestore PROVE ContextInv'
    OBVIOUS
<1>1. snap # <<>> /\ ctx' = snap /\ snap' = snap /\ pc' = "ready"
    BY DEF AgentLoop!CrashAndRestore
<1>2. snap = AgentLoop!Snapshot(ctx)
    BY <1>1 DEF ContextInv, AgentLoop!SnapshotIsCurrent
<1>3. Orderly(ctx') /\ snap' = AgentLoop!Snapshot(ctx')
    BY <1>1, <1>2, LoopTypesFacts, SnapshotIsOrderly
<1>4. LoopTypes' /\ queue' <= count'.injects
    <2>1. /\ pc' = "ready" /\ stuck' = 0 /\ queue' = 0 /\ stop' = FALSE /\ keep' = FALSE
          /\ UNCHANGED <<signed, count>>
        BY DEF AgentLoop!CrashAndRestore
    <2>2. 0 \in 0 .. StuckLimit /\ 0 \in 0 .. MaxInjects
        BY LoopTypesFacts
    <2>3. count' \in Counts /\ signed' \in BOOLEAN
        BY <2>1, LoopTypesFacts DEF LoopTypes
    <2>4. queue' <= count'.injects
        BY <2>1, LoopTypesFacts
    <2> QED BY <2>1, <2>2, <2>3, <2>4 DEF LoopTypes
<1> QED BY <1>1, <1>3, <1>4, SavedKeeps DEF AgentLoop!Persist

LEMMA NextContextInv == ConstantsOK /\ ContextInv /\ [AgentLoop!Next]_agentLoopVars => ContextInv'
<1> SUFFICES ASSUME ConstantsOK, ContextInv, [AgentLoop!Next]_agentLoopVars PROVE ContextInv'
    OBVIOUS
<1>1. CASE AgentLoop!Cancelled \/ AgentLoop!ChatFails \/ AgentLoop!Cancel
    <2>1. UNCHANGED <<ctx, snap, stuck, queue, signed, keep, count>> /\ pc # "ready"
          /\ pc' \in {"ready", pc} /\ stop' \in {TRUE, stop}
        BY <1>1 DEF AgentLoop!Cancelled, AgentLoop!ChatFails, AgentLoop!Cancel
    <2>2. LoopTypes' /\ queue' <= count'.injects
        BY <2>1, LoopTypesFacts DEF LoopTypes
    <2> QED BY <2>1, <2>2, UnsavedKeeps
<1>2. CASE AgentLoop!Inject
    <2>1. LoopTypes' /\ queue' <= count'.injects
        <3>1. PICK x :
                  /\ x = count.injects + 1 /\ count.injects < MaxInjects
                  /\ count' = [count EXCEPT !.injects = x]
                  /\ queue' = queue + 1 /\ UNCHANGED <<pc, stuck, stop, signed, keep>>
            BY <1>2 DEF AgentLoop!Inject
        <3>0. /\ count \in Counts /\ count.injects \in Nat /\ MaxInjects \in Nat
              /\ queue \in Nat /\ queue <= count.injects
            BY LoopTypesFacts DEF LoopTypes
        <3>2. x \in 0 .. MaxInjects /\ queue' \in 0 .. MaxInjects
            BY <3>0, <3>1
        <3>3. count' \in Counts /\ count'.injects = x
            <4>1. PICK k \in Counts : k = count
                BY <3>0
            <4>2. [k EXCEPT !.injects = x] \in Counts /\ [k EXCEPT !.injects = x].injects = x
                BY <3>2, CountsMove
            <4> QED BY <3>1, <4>1, <4>2
        <3>4. queue' <= count'.injects
            BY <3>0, <3>1, <3>3
        <3> QED BY <3>1, <3>2, <3>3, <3>4, LoopTypesFacts DEF LoopTypes
    <2> QED BY <1>2, <2>1, UnsavedKeeps DEF AgentLoop!Inject
<1>3. CASE UNCHANGED agentLoopVars
    <2>1. UNCHANGED <<ctx, snap, pc, stuck, queue, stop, signed, keep, count>>
        BY <1>3 DEF agentLoopVars
    <2>2. LoopTypes' /\ queue' <= count'.injects
        BY <2>1, LoopTypesFacts DEF LoopTypes
    <2> QED BY <2>1, <2>2, UnsavedKeeps
<1> QED BY <1>1, <1>2, <1>3, PromptStep, PrepareStep, StopStep, StuckStep, CallsStep, RestoreStep
       DEF AgentLoop!Next

(* In any request the loop may send, after any evictions, collapses, stuck *)
(* turns, crashes and restores, each call is followed by its output; and   *)
(* the file is what the context would be restored from (context.rs,        *)
(* agent_loop.rs), for any caps and any number of prompts and calls.       *)
THEOREM ContextStaysSound == Spec => []ContextIsSound
<1>1. Init => ContextInv
    BY ConstantsOK, InitContextInv DEF Init
<1>2. ContextInv /\ [Next]_vars => ContextInv'
    BY ConstantsOK, StepsApart, NextContextInv
<1>3. ContextInv => AgentLoop!CallsAreAnswered
    <2> SUFFICES ASSUME ContextInv PROVE AgentLoop!CallsAreAnswered
        OBVIOUS
    <2>1. AllAnswered(AgentLoop!Out)
        BY RequestIsAnswered DEF ContextInv, AgentLoop!Out
    <2> QED BY <2>1 DEF AllAnswered, AnswerIsNext, AgentLoop!CallsAreAnswered
<1>4. ContextInv => ContextIsSound
    BY <1>3 DEF ContextInv, ContextIsSound
<1> QED BY <1>1, <1>2, <1>4, PTL DEF Spec
=============================================================================
