------------------------------- MODULE Split -------------------------------
(***************************************************************************)
(* The PMO's split of an issue (src/agents/pmo.rs, resume_split): children *)
(* are created one after the other behind a checkpoint file, linked to     *)
(* their dependencies, and the parent is closed.  The forge's calls may    *)
(* fail, the process may be killed, and the workers take what they find.   *)
(***************************************************************************)
EXTENDS Naturals, Sequences

CONSTANTS
    Plans,      \* the splits the model proposes: sequences of depends_on
    MaxBreaks   \* bound on failing calls and kills

ConstantsOK ==
    /\ \A p \in Plans : p # <<>> /\ p \in Seq(0 .. Len(p))
    /\ MaxBreaks \in Nat

VARIABLES
    plan,      \* sub_issues: depends_on, 0 for none
    file,      \* the checkpoint: its created_issue_ids
    made,      \* the children on the forge, by iid
    parent,    \* [open, asks: action-required, processed, told: the comments]
    step,      \* where the process is: "off", "idle", ...
    ids,       \* pending.created_issue_ids in memory
    breaks

vars == <<plan, file, made, parent, step, ids, breaks>>

NoFile == [on |-> FALSE, ids |-> <<>>]
File(s) == [on |-> TRUE, ids |-> s]
Child(k) == [of |-> k, blocked |-> FALSE, waits |-> 0, state |-> "open"]
N == Len(plan)
Iids == DOMAIN made
ChildStates == {"open", "taken", "closed"}

TypeOK ==
    /\ plan \in Plans
    /\ file \in [on : BOOLEAN, ids : Seq(Iids)]
    /\ made \in Seq([of : 1 .. N, blocked : BOOLEAN, waits : 0 .. Len(made),
                     state : ChildStates])
    /\ parent \in [open : BOOLEAN, asks : BOOLEAN, processed : BOOLEAN]
    /\ step \in {"off", "idle", "create", "block", "save", "link", "label", "told", "asked",
                 "processed", "done"} \X (0 .. N)
    /\ ids \in Seq(Iids)
    /\ breaks \in 0 .. MaxBreaks

Idle == <<"idle", 0>>
Off == <<"off", 0>>

Init ==
    /\ plan \in Plans
    /\ file = NoFile /\ made = <<>> /\ ids = <<>>
    /\ parent = [open |-> TRUE, asks |-> TRUE, processed |-> FALSE]
    /\ step = Idle /\ breaks = 0
-----------------------------------------------------------------------------
At(s) == step[1] = s
Goto(s) == step' = <<s, 0>>
Break == breaks < MaxBreaks /\ breaks' = breaks + 1

(* A required call fails: the cycle ends with an error.                    *)
Fails ==
    /\ step[1] \in {"create", "save", "link", "told", "asked", "processed"}
    /\ Break /\ step' = Idle
    /\ UNCHANGED <<plan, file, made, parent, ids>>

(* The decision to split; the first checkpoint must be saved.              *)
Decide ==
    /\ step = Idle /\ ~file.on /\ parent.open /\ parent.asks
    /\ file' = File(<<>>) /\ ids' = <<>> /\ Goto("create")
    /\ UNCHANGED <<plan, made, parent, breaks>>

(* Mutant: only a parent that is still open is gone on with.               *)
ResumeOpen ==
    /\ step = Idle /\ file.on /\ parent.open
    /\ ids' = file.ids /\ Goto("create")
    /\ UNCHANGED <<plan, file, made, parent, breaks>>

(* A cycle that finds a checkpoint goes on with it, whatever became of the *)
(* parent.                                                                 *)
Resume ==
    /\ step = Idle /\ file.on
    /\ ids' = file.ids /\ Goto("create")
    /\ UNCHANGED <<plan, file, made, parent, breaks>>

Create ==
    /\ At("create") /\ Len(ids) < N
    /\ made' = Append(made, Child(Len(ids) + 1))
    /\ Goto(IF plan[Len(ids) + 1] # 0 THEN "block" ELSE "save")
    /\ UNCHANGED <<plan, file, parent, ids, breaks>>

(* do-not-implement goes on a child that exists.                           *)
Block ==
    /\ At("block")
    /\ \/ made' = [made EXCEPT ![Len(made)].blocked = TRUE] /\ UNCHANGED breaks
       \/ Break /\ UNCHANGED made
    /\ Goto("save")
    /\ UNCHANGED <<plan, file, parent, ids>>

(* Mutant: the checkpoint is written once, with the last child.            *)
SaveAtEnd ==
    /\ At("save")
    /\ ids' = Append(ids, Len(made))
    /\ file' = IF Len(ids') = N THEN File(ids') ELSE file
    /\ Goto("create")
    /\ UNCHANGED <<plan, made, parent, breaks>>

Save ==
    /\ At("save")
    /\ ids' = Append(ids, Len(made))
    /\ file' = File(ids')
    /\ Goto("create")
    /\ UNCHANGED <<plan, made, parent, breaks>>

Created ==
    /\ At("create") /\ Len(ids) = N
    /\ step' = <<"link", 1>>
    /\ UNCHANGED <<plan, file, made, parent, ids, breaks>>

(* The links, for each child that depends on another: first the block is   *)
(* taken off ...                                                           *)
Link ==
    LET k == step[2]
    IN /\ At("link") /\ k <= N
       /\ IF plan[k] = 0
          THEN step' = IF k < N THEN <<"link", k + 1>> ELSE <<"told", 0>>
          ELSE step' = <<"label", k>>
       /\ IF plan[k] = 0 THEN UNCHANGED <<made, breaks>>
          ELSE \/ made' = [made EXCEPT ![ids[k]].blocked = FALSE] /\ UNCHANGED breaks
               \/ Break /\ UNCHANGED made
       /\ UNCHANGED <<plan, file, parent, ids>>

(* ... then waiting-on-issue is put on.                                    *)
WaitLabel ==
    LET k == step[2]
    IN /\ At("label")
       /\ \/ made' = [made EXCEPT ![ids[k]].waits = ids[plan[k]]] /\ UNCHANGED breaks
          \/ Break /\ UNCHANGED made
       /\ step' = IF k < N THEN <<"link", k + 1>> ELSE <<"told", 0>>
       /\ UNCHANGED <<plan, file, parent, ids>>

(* The comment with the links, the parent's labels, the checkpoint's       *)
(* removal, and the close.                                                 *)
Tell ==
    /\ At("told") /\ Goto("asked")
    /\ UNCHANGED <<plan, file, made, parent, ids, breaks>>

Unask ==
    /\ At("asked") /\ Goto("processed")
    /\ parent' = [parent EXCEPT !.asks = FALSE]
    /\ UNCHANGED <<plan, file, made, ids, breaks>>

Processed ==
    /\ At("processed") /\ ~parent.processed
    /\ parent' = [parent EXCEPT !.processed = TRUE]
    /\ UNCHANGED <<plan, file, made, step, ids, breaks>>

DeleteFile ==
    /\ At("processed") /\ parent.processed
    /\ file' = NoFile /\ Goto("done")
    /\ UNCHANGED <<plan, made, parent, ids, breaks>>

Close ==
    /\ At("done") /\ step' = Idle
    /\ \/ parent' = [parent EXCEPT !.open = FALSE] /\ UNCHANGED breaks
       \/ Break /\ UNCHANGED parent
    /\ ids' = <<>>
    /\ UNCHANGED <<plan, file, made>>

(* run_pmo_maintenance: an hour later the processed parent is closed.      *)
Stale ==
    /\ step = Idle /\ ~file.on /\ parent.open /\ parent.processed
    /\ parent' = [parent EXCEPT !.open = FALSE]
    /\ UNCHANGED <<plan, file, made, step, ids, breaks>>

(* A human closes the parent.                                              *)
HumanCloses ==
    /\ parent.open
    /\ parent' = [parent EXCEPT !.open = FALSE]
    /\ UNCHANGED <<plan, file, made, step, ids, breaks>>

Kill ==
    /\ ~At("off") /\ Break
    /\ step' = Off /\ ids' = <<>>
    /\ UNCHANGED <<plan, file, made, parent>>

Restart ==
    /\ At("off") /\ step' = Idle
    /\ UNCHANGED <<plan, file, made, parent, ids, breaks>>
-----------------------------------------------------------------------------
(* The workers: an eligible child is claimed, then implemented.            *)

Eligible(c) ==
    /\ made[c].state = "open" /\ ~made[c].blocked
    /\ made[c].waits # 0 => made[made[c].waits].state = "closed"

Take(c) ==
    /\ Eligible(c)
    /\ made' = [made EXCEPT ![c].state = "taken"]
    /\ UNCHANGED <<plan, file, parent, step, ids, breaks>>

Implement(c) ==
    /\ made[c].state = "taken"
    /\ made' = [made EXCEPT ![c].state = "closed"]
    /\ UNCHANGED <<plan, file, parent, step, ids, breaks>>

Pmo ==
    \/ Decide \/ Resume \/ Create \/ Block \/ Save \/ Created \/ Link \/ WaitLabel
    \/ Tell \/ Unask \/ Processed \/ DeleteFile \/ Close \/ Stale \/ Restart

Next ==
    \/ Pmo \/ Fails \/ Kill \/ HumanCloses
    \/ \E c \in Iids : Take(c) \/ Implement(c)

(* The cycle runs again and again, also after a restart.                   *)
FairSpec == Init /\ [][Next]_vars /\ WF_vars(Pmo)
Spec == Init /\ [][Next]_vars
-----------------------------------------------------------------------------
(* "resume_split [...] never re-creates a sub-issue the checkpoint already *)
(* recorded": every interruption costs at most one child that is created   *)
(* twice.                                                                  *)
OneExtraPerBreak == Len(made) <= N + breaks

(* A parent is marked pmo-processed only when each of its sub-issues has   *)
(* become an issue.                                                        *)
ProcessedIsComplete ==
    parent.processed => {made[c].of : c \in Iids} = 1 .. N

(* Whatever breaks in between, a split that was begun is brought to its    *)
(* end, and the parent is closed.                                          *)
SplitsFinish == file.on ~> parent.processed /\ ~parent.open

(* "This sub-issue depends on #N and will become actionable after that     *)
(* issue is closed": no worker takes it before.                            *)
DependentsWait ==
    [][\A c \in Iids :
          made[c].state = "open" /\ made'[c].state = "taken" /\ plan[made[c].of] # 0
          => \E d \in Iids : made[d].of = plan[made[c].of] /\ made[d].state = "closed"]_vars
=============================================================================
