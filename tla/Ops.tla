-------------------------------- MODULE Ops --------------------------------
(***************************************************************************)
(* The ops agent's cycle (src/agents/ops.rs): the forge's open issues and  *)
(* the issue history are the context in which the model reads the logs of  *)
(* all sources; it proposes the errors that neither of them has.  Issues   *)
(* are created one by one, the history is saved once, after the last.      *)
(***************************************************************************)
EXTENDS Naturals

CONSTANTS
    Errors,      \* errors the logs show again and again
    MaxFaults,   \* bound on failing calls
    MaxKills     \* bound on stops

ConstantsOK == {MaxFaults, MaxKills} \subseteq Nat

VARIABLES
    open,      \* errors with an open issue
    times,     \* [Errors -> how often an issue was created]
    saved,     \* the history file: the errors it names
    cycle,     \* pc, the window (errors in the fetched logs), the context
               \*   the model sees, its proposals and the history in memory
    ofaults, okills

vars == <<open, times, saved, cycle, ofaults, okills>>

Idle == [pc |-> "idle", window |-> {}, context |-> {}, todo |-> {}, history |-> {}, made |-> 0]

TypeOK ==
    /\ {open, saved} \subseteq SUBSET Errors
    /\ times \in [Errors -> Nat]
    /\ cycle \in [pc : {"idle", "fetch", "analyse", "create"}, window : SUBSET Errors,
                  context : SUBSET Errors, todo : SUBSET Errors, history : SUBSET Errors,
                  made : Nat]
    /\ ofaults \in 0 .. MaxFaults /\ okills \in 0 .. MaxKills

Init ==
    /\ open = {} /\ saved = {}
    /\ times = [e \in Errors |-> 0]
    /\ cycle = Idle
    /\ ofaults = 0 /\ okills = 0
-----------------------------------------------------------------------------
Fault == ofaults < MaxFaults /\ ofaults' = ofaults + 1 /\ UNCHANGED okills
NoFault == UNCHANGED <<ofaults, okills>>

(* write_forge_context_file comes first: what is filed after it is not in  *)
(* the model's context.                                                    *)
Context ==
    /\ cycle.pc = "idle"
    /\ cycle' = [Idle EXCEPT !.pc = "fetch", !.context = open]
    /\ NoFault /\ UNCHANGED <<open, times, saved>>

(* fetch_logs of every source, any failure of which ends the cycle; then   *)
(* the history file, which no stop can leave half written (state.rs).      *)
Fetch ==
    /\ cycle.pc = "fetch"
    /\ \/ /\ \E w \in SUBSET Errors \ {{}} :
                cycle' = [cycle EXCEPT !.pc = "analyse", !.window = w, !.history = saved]
          /\ NoFault
       \/ cycle' = Idle /\ Fault
    /\ UNCHANGED <<open, times, saved>>

(* invoke_analysis_model.                                                  *)
Analyse ==
    LET new == cycle.window \ (cycle.context \cup cycle.history)
    IN /\ cycle.pc = "analyse"
       /\ \/ /\ cycle' = IF new = {} THEN Idle
                         ELSE [cycle EXCEPT !.pc = "create", !.todo = new,
                                            !.window = {}, !.context = {}]
             /\ NoFault
          \/ cycle' = Idle /\ Fault
       /\ UNCHANGED <<open, times, saved>>

(* create_issue; one that fails is skipped.                                *)
Create(e) ==
    /\ cycle.pc = "create" /\ e \in cycle.todo
    /\ \/ /\ open' = open \cup {e}
          /\ times' = [times EXCEPT ![e] = @ + 1]
          /\ cycle' = [cycle EXCEPT !.todo = @ \ {e}, !.history = @ \cup {e}, !.made = @ + 1]
          /\ NoFault
       \/ cycle' = [cycle EXCEPT !.todo = @ \ {e}] /\ Fault /\ UNCHANGED <<open, times>>
    /\ UNCHANGED <<saved>>

(* save_history, when an issue was created.                                *)
Save ==
    /\ cycle.pc = "create" /\ cycle.todo = {}
    /\ cycle' = Idle
    /\ \/ saved' = (IF cycle.made > 0 THEN cycle.history ELSE saved) /\ NoFault
       \/ cycle.made > 0 /\ UNCHANGED saved /\ Fault
    /\ UNCHANGED <<open, times>>

(* Somebody closes an issue.                                               *)
Close(e) ==
    /\ e \in open
    /\ open' = open \ {e}
    /\ UNCHANGED <<times, saved, cycle, ofaults, okills>>

(* A stop; the next start begins a new cycle.                              *)
Kill ==
    /\ cycle.pc # "idle" /\ okills < MaxKills
    /\ okills' = okills + 1
    /\ cycle' = Idle
    /\ UNCHANGED <<open, times, saved, ofaults>>

Next ==
    \/ Context \/ Fetch \/ Analyse \/ Save \/ Kill
    \/ \E e \in Errors : Create(e) \/ Close(e)

Spec == Init /\ [][Next]_vars
-----------------------------------------------------------------------------
(* An error whose issue was closed is filed again only when a save of the  *)
(* history failed or a stop lost it: the history remembers what the list   *)
(* of open issues no longer shows.                                         *)
FiledAgainOnlyAfterLoss == \A e \in Errors : times[e] <= 1 + ofaults + okills
=============================================================================
