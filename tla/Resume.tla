------------------------------- MODULE Resume -------------------------------
(***************************************************************************)
(* Which conversation a task of one agent is given: session/new and        *)
(* session/close of src/harness/acp.rs, the marker and the context files   *)
(* of src/harness/session_store.rs, and the runtime that rotates, respawns *)
(* and disposes of the child (src/core/model/acp/runtime.rs).              *)
(***************************************************************************)
EXTENDS Naturals

CONSTANTS
    Scopes,      \* task scopes, e.g. "issue-7"
    NoScope,     \* a task without one
    MaxTasks,    \* bound: tasks the agent is given
    MaxSessions  \* bound: session ids that are made

ConstantsOK == NoScope \notin Scopes /\ MaxTasks \in Nat /\ MaxSessions \in Nat

VARIABLES
    phase,   \* the runtime: "idle", "new" session wanted, "prompt", "turn"
    task,    \* number of the task in hand, or of the last one
    scope,   \* [task numbers -> its task_scope]
    over,    \* the tasks that came to their end
    reg,     \* session the child has registered; 0 if none, or no child
    up,      \* the child runs
    marker,  \* the agent's current-session marker
    minted,  \* session ids made so far
    talk,    \* [sessions -> the tasks its context file tells of]
    heard    \* session that heard the task in hand and was not rotated away

vars == <<phase, task, scope, over, reg, up, marker, minted, talk, heard>>

Tasks == 1 .. MaxTasks
SessionIds == 1 .. MaxSessions
NoMarker == [id |-> 0, scope |-> NoScope]

TypeOK ==
    /\ phase \in {"idle", "new", "prompt", "turn"}
    /\ task \in 0 .. MaxTasks
    /\ scope \in [Tasks -> Scopes \cup {NoScope}]
    /\ over \subseteq Tasks
    /\ reg \in 0 .. MaxSessions /\ up \in BOOLEAN
    /\ marker \in [id : 0 .. MaxSessions, scope : Scopes \cup {NoScope}]
    /\ minted \in 0 .. MaxSessions
    /\ talk \in [SessionIds -> SUBSET Tasks]
    /\ heard \in 0 .. MaxSessions

Init ==
    /\ phase = "idle" /\ task = 0
    /\ scope = [t \in Tasks |-> NoScope]
    /\ over = {}
    /\ reg = 0 /\ up = FALSE
    /\ marker = NoMarker
    /\ minted = 0
    /\ talk = [s \in SessionIds |-> {}]
    /\ heard = 0
-----------------------------------------------------------------------------
(* Files of the session layout. *)

(* close_registered_session empties the marker if it names the session.    *)
Cleared == IF reg # 0 /\ marker.id = reg THEN NoMarker ELSE marker

(* Mutant: the scope of the marker is not compared. *)
AdoptsAny(m, t) == m.id # 0 /\ talk[m.id] # {}

(* The marker's session is adopted when it is of the same scope and its    *)
(* context file exists; two tasks without a scope are of the same scope.   *)
Adopts(m, t) == m.id # 0 /\ m.scope = scope[t] /\ talk[m.id] # {}

(* The runtime. *)

Begin ==
    /\ phase = "idle" /\ task < MaxTasks
    /\ task' = task + 1
    /\ \E sc \in Scopes \cup {NoScope} : scope' = [scope EXCEPT ![task + 1] = sc]
    /\ phase' = "new"
    /\ UNCHANGED <<over, reg, up, marker, minted, talk, heard>>

(* rotate_acp_session_for_new_task and session/new: on the child that is   *)
(* up, which closes what it has registered, whether or not the runtime's   *)
(* own session/close arrived; or on a new child.                           *)
SessionNew ==
    /\ phase = "new" /\ minted < MaxSessions
    /\ minted' = minted + 1
    /\ LET m == IF up THEN Cleared ELSE marker
           id == IF Adopts(m, task) THEN m.id ELSE minted + 1
       IN reg' = id /\ marker' = [id |-> id, scope |-> scope[task]]
    /\ up' = TRUE
    /\ phase' = "prompt"
    /\ UNCHANGED <<task, scope, over, talk, heard>>

(* The child or its session does not start; the task fails.                *)
NoSession ==
    /\ phase = "new"
    /\ \/ up /\ marker' = Cleared /\ reg' = 0
       \/ ~up /\ UNCHANGED <<marker, reg>>
    /\ over' = over \cup {task}
    /\ phase' = "idle"
    /\ heard' = 0
    /\ UNCHANGED <<task, scope, up, minted, talk>>

(* The prompt reaches the agent loop, which saves its context.             *)
Prompt ==
    /\ phase = "prompt" /\ up
    /\ talk' = [talk EXCEPT ![reg] = @ \cup {task}]
    /\ heard' = reg
    /\ phase' = "turn"
    /\ UNCHANGED <<task, scope, over, reg, up, marker, minted>>

(* The task ends: done, given up, or failed with the child still up.  Its  *)
(* session stays registered until the next one replaces it.                *)
Finish ==
    /\ phase = "turn" /\ up
    /\ over' = over \cup {task}
    /\ phase' = "idle"
    /\ heard' = 0
    /\ UNCHANGED <<task, scope, reg, up, marker, minted, talk>>

(* An endpoint failure: the next attempt rotates the session.              *)
NextAttempt ==
    /\ phase = "turn" /\ up
    /\ phase' = "new"
    /\ heard' = 0
    /\ UNCHANGED <<task, scope, over, reg, up, marker, minted, talk>>

(* The child dies, or exits when its stdin closes (shutdown_all_sessions): *)
(* the marker stays.  A task that was in its turn is sent again.           *)
ChildExits ==
    /\ up
    /\ up' = FALSE /\ reg' = 0
    /\ phase' = IF phase \in {"prompt", "turn"} THEN "new" ELSE phase
    /\ UNCHANGED <<task, scope, over, marker, minted, talk, heard>>

(* The orchestrator stops or crashes, with or without a task in hand; its  *)
(* child goes with it.  A cancelled task ends in the same way: kill_child. *)
Stop ==
    /\ up' = FALSE /\ reg' = 0
    /\ phase' = "idle"
    /\ up \/ phase # "idle"
    /\ heard' = 0
    /\ UNCHANGED <<task, scope, over, marker, minted, talk>>

Next ==
    \/ Begin \/ SessionNew \/ NoSession \/ Prompt \/ Finish \/ NextAttempt
    \/ ChildExits \/ Stop

Spec == Init /\ [][Next]_vars
-----------------------------------------------------------------------------
(* No conversation tells of tasks of two scopes, whatever order of exits,  *)
(* failed starts, stops and rotations led to the session that is resumed.  *)
OneScopePerTalk ==
    \A s \in SessionIds : \A t, u \in talk[s] : scope[t] = scope[u]

(* A task whose child dies in its turn, once or again and again, goes on in*)
(* the conversation it had, until a rotation of its own ends that one.     *)
CrashKeepsTalk ==
    heard # 0 => /\ marker = [id |-> heard, scope |-> scope[task]]
                 /\ phase \in {"prompt", "turn"} => reg = heard

(* "a recovered process resumes only interrupted work, never finished work"*)
OnlyInterruptedResumes ==
    [][\A s \in SessionIds : talk[s] # {} /\ reg # s /\ reg' = s
          => ~(talk[s] \subseteq over)]_vars

(* "one agent's session never carries another task's conversation"         *)
OneTaskPerTalk ==
    \A s \in SessionIds : \A t, u \in talk[s] : t # u => scope[t] # NoScope
=============================================================================
