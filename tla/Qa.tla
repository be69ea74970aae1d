--------------------------------- MODULE Qa ---------------------------------
(***************************************************************************)
(* The QA agent's cycle (src/agents/qa.rs): pick a branch, test its commit *)
(* with a model run, file what was found, and last of all record the       *)
(* commit as tested.  Commits are numbered, 0 is "no commit"; each but the *)
(* bugless has one bug, whose title the model reports the same every time. *)
(***************************************************************************)
EXTENDS Naturals, Sequences

CONSTANTS
    Branches,     \* the configured branches, in order
    MaxCommits,   \* bound on the commits of all branches
    Bugless,      \* the commits without a bug
    MaxFaults,    \* bound on failing calls
    MaxKills      \* bound on stops

ConstantsOK ==
    /\ Branches \in Seq(STRING) /\ Len(Branches) > 0
    /\ {MaxCommits, MaxFaults, MaxKills} \subseteq Nat
    /\ Bugless \subseteq 1 .. MaxCommits

Commits == 1 .. MaxCommits
B == DOMAIN Branches

VARIABLES
    tip,       \* [B -> the commit at the branch's tip]
    last,      \* the newest commit
    history,   \* [B -> the commit the SHA history file records, or 0]
    filed,     \* commits whose bug is an open issue with the qa label
    lostBug,   \* commits whose issue could not be created
    bare,      \* commits with an issue that the qa label never reached
    cycle,     \* pc, branch and commit under test, the qa issues as listed,
               \*   and the file as loaded
    qfaults, qkills

vars == <<tip, last, history, filed, lostBug, bare, cycle, qfaults, qkills>>

TypeOK ==
    /\ last \in 0 .. MaxCommits
    /\ tip \in [B -> 0 .. MaxCommits] /\ history \in [B -> 0 .. MaxCommits]
    /\ filed \subseteq Commits /\ lostBug \subseteq Commits /\ bare \subseteq Commits
    /\ cycle \in [pc : {"idle", "model", "file", "save"}, b : B, at : 0 .. MaxCommits,
                  known : SUBSET Commits, old : [B -> 0 .. MaxCommits], blocked : BOOLEAN]
    /\ qfaults \in 0 .. MaxFaults /\ qkills \in 0 .. MaxKills

Idle == [pc |-> "idle", b |-> 1, at |-> 0, known |-> {}, old |-> [x \in B |-> 0],
         blocked |-> FALSE]

Init ==
    /\ tip = [b \in B |-> 0] /\ last = 0
    /\ history = [b \in B |-> 0]
    /\ filed = {} /\ lostBug = {} /\ bare = {}
    /\ cycle = Idle
    /\ qfaults = 0 /\ qkills = 0
-----------------------------------------------------------------------------
Fault == qfaults < MaxFaults /\ qfaults' = qfaults + 1 /\ UNCHANGED qkills
NoFault == UNCHANGED <<qfaults, qkills>>
World == <<tip, last>>
Reported == <<filed, lostBug, bare>>

(* Somebody pushes to a branch.                                            *)
Push(b) ==
    /\ last < MaxCommits
    /\ last' = last + 1 /\ tip' = [tip EXCEPT ![b] = last + 1]
    /\ UNCHANGED <<history, Reported, cycle, qfaults, qkills>>

(* Every branch is observed, and the first observed is the selected one; a *)
(* commit recorded as tested is left alone.  Unread history is empty.      *)
Selected == 1

Begin ==
    LET b == Selected
    IN /\ cycle.pc = "idle" /\ tip[b] # 0 /\ history[b] # tip[b]
       /\ cycle' = [pc |-> "model", b |-> b, at |-> tip[b], known |-> filed, old |-> history,
                   blocked |-> FALSE]
       /\ NoFault /\ UNCHANGED <<World, history, Reported>>

(* Mutant of Tested: the commit is recorded as soon as the model reports.  *)
SavesFirst ==
    /\ cycle.pc = "model"
    /\ \/ /\ cycle' = [cycle EXCEPT !.pc = "file"] /\ NoFault
          /\ history' = [history EXCEPT ![cycle.b] = cycle.at]
       \/ cycle' = Idle /\ Fault /\ UNCHANGED history
    /\ UNCHANGED <<World, Reported>>

(* invoke_qa_model: a report, which may say that the run was blocked; or a *)
(* failure, which ends the cycle.                                          *)
Tested ==
    /\ cycle.pc = "model"
    /\ \/ cycle' = [cycle EXCEPT !.pc = "file"] /\ NoFault
       \/ cycle' = [cycle EXCEPT !.pc = "file", !.blocked = TRUE] /\ Fault
       \/ cycle' = Idle /\ Fault
    /\ UNCHANGED <<World, history, Reported>>

(* A finding is filed unless the qa issues listed before the run have it;  *)
(* an issue that cannot be created is skipped, a label that cannot be set  *)
(* is left out, and the cycle goes on.                                     *)
File ==
    LET c == cycle.at
    IN /\ cycle.pc = "file"
       /\ \/ /\ c \in Bugless \cup cycle.known
             /\ NoFault /\ UNCHANGED Reported
          \/ /\ c \notin Bugless \cup cycle.known
             /\ \/ filed' = filed \cup {c} /\ NoFault /\ UNCHANGED <<lostBug, bare>>
                \/ lostBug' = lostBug \cup {c} /\ Fault /\ UNCHANGED <<filed, bare>>
                \/ bare' = bare \cup {c} /\ Fault /\ UNCHANGED <<filed, lostBug>>
       /\ cycle' = [cycle EXCEPT !.pc = "save"]
       /\ UNCHANGED <<World, history>>

(* The commit is recorded with the file as it was loaded: last, and best   *)
(* effort; after a blocked run it is not.                                  *)
Save ==
    /\ cycle.pc = "save"
    /\ \/ ~cycle.blocked /\ history' = [cycle.old EXCEPT ![cycle.b] = cycle.at] /\ NoFault
       \/ ~cycle.blocked /\ UNCHANGED history /\ Fault
       \/ cycle.blocked /\ UNCHANGED history /\ NoFault
    /\ cycle' = Idle
    /\ UNCHANGED <<World, Reported>>

(* A stop ends the cycle where it is; a start has a new cycle.             *)
Kill ==
    /\ cycle.pc # "idle" /\ qkills < MaxKills
    /\ qkills' = qkills + 1
    /\ cycle' = Idle
    /\ UNCHANGED <<World, history, Reported, qfaults>>

Step == Begin \/ Tested \/ File \/ Save
Next == Step \/ Kill \/ (\E b \in B : Push(b))

Spec == Init /\ [][Next]_vars

FairSpec == Spec /\ WF_vars(Step)
-----------------------------------------------------------------------------
(* Every commit recorded as tested has its bug filed, unless the create    *)
(* call itself failed: a stop or a failed model run before the last line   *)
(* of the cycle tests it again ("Advancing the SHA is deliberately the     *)
(* final operation").                                                      *)
TestedIsFiled ==
    \A b \in B : history[b] \notin {0} \cup Bugless => history[b] \in filed \cup lostBug \cup bare

(* "A changed commit, a never-tested branch, or a previously blocked run   *)
(* all run here" (qa.rs): each branch's last commit is tested in the end.  *)
EveryBranchIsTested ==
    \A b \in B : (tip[b] # 0 /\ last = MaxCommits) ~> history[b] = tip[b]
=============================================================================
