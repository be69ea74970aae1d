------------------------------- MODULE Sandal -------------------------------
(***************************************************************************)
(* The session VM pool (src/agents/sandal.rs): the agent's run loop reaps  *)
(* idle VMs, then takes one call, boots its session's VM and hands the     *)
(* call to a thread of its own.                                            *)
(***************************************************************************)
EXTENDS FiniteSets

CONSTANTS
    Sessions,  \* calling task sessions
    Scopes,    \* file scopes (working directory and write roots)
    Calls,     \* calls outstanding at once
    Vms,       \* VM processes that exist at once; a boot without a free one fails
    NoVm

ConstantsOK == NoVm \notin Vms /\ Calls \cap {"reap", "recv", "stopped"} = {}

VARIABLES
    pool,   \* VmPool.entries: [Sessions -> Vms \cup {NoVm}]
    vm,     \* [Vms -> the process: up or dead; owner, scope; idle: last_used is old]
    call,   \* [Calls -> what the call's requester or thread is doing]
    turn    \* the run loop: "reap", "recv", the call it boots for, or "stopped"

vars == <<pool, vm, call, turn>>

NoCall == [pc |-> "none"]
Free == [st |-> "free"]
Fresh(s, f) == [st |-> "up", owner |-> s, scope |-> f, idle |-> FALSE]

Holding(v) == {c \in Calls : call[c].pc \in {"held", "run", "remove"} /\ call[c].vm = v}

(* VmEntry.running: the Busy guards alive.                                 *)
Busy(v) == {c \in Holding(v) : call[c].pc # "held"}

Pooled == {pool[s] : s \in Sessions} \ {NoVm}

TypeOK ==
    /\ pool \in [Sessions -> Vms \cup {NoVm}]
    /\ vm \in [Vms -> {Free} \cup
                [st : {"up", "dead"}, owner : Sessions, scope : Scopes, idle : BOOLEAN]]
    /\ call \in [Calls -> {NoCall} \cup
                  [pc : {"queued", "booted"}, session : Sessions, scope : Scopes] \cup
                  [pc : {"held", "run", "remove"}, session : Sessions,
                   scope : Scopes, vm : Vms]]
    /\ turn \in {"reap", "recv", "stopped"} \cup Calls

Init ==
    /\ pool = [s \in Sessions |-> NoVm]
    /\ vm = [v \in Vms |-> Free]
    /\ call = [c \in Calls |-> NoCall]
    /\ turn = "reap"
-----------------------------------------------------------------------------
(* A process nobody refers to any more is forgotten by the model.          *)
Forgetting(procs, entries, calls) ==
    [v \in Vms |-> IF /\ procs[v].st = "dead"
                      /\ \A s \in Sessions : entries[s] # v
                      /\ \A c \in Calls : "vm" \in DOMAIN calls[c] => calls[c].vm # v
                   THEN Free ELSE procs[v]]

Ask(c) ==
    /\ turn # "stopped" /\ call[c] = NoCall
    /\ \E s \in Sessions, f \in Scopes :
          call' = [call EXCEPT ![c] = [pc |-> "queued", session |-> s, scope |-> f]]
    /\ UNCHANGED <<pool, vm, turn>>

(* Mutant: a VM that exited by itself is not the reaper's business.        *)
ReapsLive(v) == vm[v].idle /\ Busy(v) = {} /\ vm[v].st = "up"

(* No command in flight, and the last one is long ago.                     *)
Reaps(v) == vm[v].idle /\ Busy(v) = {}

(* reap_idle, under the map lock.                                          *)
ReapIdle ==
    LET old == {v \in Pooled : Reaps(v)}
    IN /\ turn = "reap"
       /\ pool' = [s \in Sessions |-> IF pool[s] \in old THEN NoVm ELSE pool[s]]
       /\ vm' = Forgetting([v \in Vms |-> IF v \in old THEN [vm[v] EXCEPT !.st = "dead"]
                                          ELSE vm[v]], pool', call)
       /\ turn' = "recv"
       /\ UNCHANGED call

Receive ==
    /\ turn = "recv"
    /\ IF \E c \in Calls : call[c].pc = "queued"
       THEN turn' \in {c \in Calls : call[c].pc = "queued"}
       ELSE turn' = "reap"
    /\ UNCHANGED <<pool, vm, call>>

(* ensure: the session's VM is booted here if it has none.                 *)
Ensure ==
    /\ turn \in Calls
    /\ LET s == call[turn].session
           f == call[turn].scope
       IN \/ /\ pool[s] # NoVm
             /\ call' = [call EXCEPT ![turn].pc = "booted"]
             /\ UNCHANGED <<pool, vm>>
          \/ /\ pool[s] = NoVm
             /\ \E v \in Vms : /\ vm[v] = Free
                               /\ vm' = [vm EXCEPT ![v] = Fresh(s, f)]
                               /\ pool' = [pool EXCEPT ![s] = v]
             /\ call' = [call EXCEPT ![turn].pc = "booted"]
          \/ /\ pool[s] = NoVm
             /\ call' = [call EXCEPT ![turn] = NoCall]
             /\ UNCHANGED <<pool, vm>>
    /\ turn' = "reap"

(* Mutant: the call's scope is not compared with the VM's.                 *)
BindsAny(v, f) == v # NoVm

Binds(v, f) == v # NoVm /\ vm[v].scope = f

(* entry_for, on the call's thread.                                        *)
EntryFor(c) ==
    /\ call[c].pc = "booted"
    /\ LET v == pool[call[c].session]
       IN call' = [call EXCEPT ![c] =
                     IF Binds(v, @.scope)
                     THEN [pc |-> "held", session |-> @.session, scope |-> @.scope, vm |-> v]
                     ELSE NoCall]
    /\ UNCHANGED <<pool, vm, turn>>

(* run_command: the guard and the first stamp ...                          *)
RunCommand(c) ==
    /\ call[c].pc = "held"
    /\ call' = [call EXCEPT ![c].pc = "run"]
    /\ vm' = [vm EXCEPT ![call[c].vm].idle = FALSE]
    /\ UNCHANGED <<pool, turn>>

(* ... finished or timed out ...                                           *)
Finished(c) ==
    /\ call[c].pc = "run" /\ vm[call[c].vm].st = "up"
    /\ call' = [call EXCEPT ![c] = NoCall]
    /\ vm' = [vm EXCEPT ![call[c].vm].idle = FALSE]
    /\ UNCHANGED <<pool, turn>>

(* ... or the line broke, whether the VM lives or not: close_state ...     *)
Lost(c) ==
    /\ call[c].pc = "run"
    /\ call' = [call EXCEPT ![c].pc = "remove"]
    /\ vm' = [vm EXCEPT ![call[c].vm].idle = FALSE, ![call[c].vm].st = "dead"]
    /\ UNCHANGED <<pool, turn>>

(* ... and the session's entry is removed.                                 *)
Remove(c) ==
    /\ call[c].pc = "remove"
    /\ pool' = [pool EXCEPT ![call[c].session] = NoVm]
    /\ call' = [call EXCEPT ![c] = NoCall]
    /\ vm' = Forgetting(vm, pool', call')
    /\ UNCHANGED turn
-----------------------------------------------------------------------------
(* A guest powers off, or its process is killed.                           *)
Dies(v) ==
    /\ vm[v].st = "up"
    /\ vm' = Forgetting([vm EXCEPT ![v].st = "dead"], pool, call)
    /\ UNCHANGED <<pool, call, turn>>

(* The idle timeout passes.                                                *)
Idles(v) ==
    /\ vm[v].st # "free" /\ ~vm[v].idle
    /\ vm' = [vm EXCEPT ![v].idle = TRUE]
    /\ UNCHANGED <<pool, call, turn>>

(* Drop clears the pool; the VMs it skipped for a running command die with *)
(* the thread that spawned them (PR_SET_PDEATHSIG).                        *)
CloseAll ==
    /\ turn \in {"reap", "recv"}
    /\ turn' = "stopped"
    /\ pool' = [s \in Sessions |-> NoVm]
    /\ call' = [c \in Calls |-> IF call[c].pc = "queued" THEN NoCall ELSE call[c]]
    /\ vm' = Forgetting([v \in Vms |-> IF vm[v].st = "up" THEN [vm[v] EXCEPT !.st = "dead"]
                                       ELSE vm[v]], pool', call')

RunLoop == ReapIdle \/ Receive \/ Ensure
Thread(c) == EntryFor(c) \/ RunCommand(c) \/ Finished(c) \/ Lost(c) \/ Remove(c)

Next ==
    \/ RunLoop \/ CloseAll
    \/ \E c \in Calls : Ask(c) \/ Thread(c)
    \/ \E v \in Vms : Dies(v) \/ Idles(v)

(* Threads run, commands have a timeout, and time passes.                  *)
Fairness ==
    /\ WF_vars(RunLoop)
    /\ \A c \in Calls : WF_vars(Thread(c))
    /\ \A v \in Vms : WF_vars(Idles(v))

Spec == Init /\ [][Next]_vars
FairSpec == Spec /\ Fairness
-----------------------------------------------------------------------------
(* "Every later call lands in the same VM, so a session that somehow       *)
(* presents a different scope gets an error": a command runs only on a VM  *)
(* booted for its session and its scope, also while VMs of the session     *)
(* come and go between its steps.                                          *)
OwnScopeOnly ==
    \A v \in Vms, c \in Calls :
        c \in Busy(v) => vm[v].owner = call[c].session /\ vm[v].scope = call[c].scope

(* "The session's next call boots a fresh one instead of hitting a corpse":*)
(* a dead VM does not stay in the pool, whether a command met it or not.   *)
CorpsesLeave ==
    \A s \in Sessions, v \in Vms :
        pool[s] = v /\ vm[v].st = "dead" ~> pool[s] # v

(* "The session VM pool: at most one VM per calling session [...]          *)
(* reap_idle closes VMs whose last call is older than the configured idle  *)
(* timeout": a VM that lives is in the pool, where the reaper finds it.    *)
LiveVmsArePooled == \A v \in Vms : vm[v].st = "up" => v \in Pooled
=============================================================================
