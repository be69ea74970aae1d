-------------------------------- MODULE Pmo --------------------------------
(***************************************************************************)
(* The PMO's triage cycle (src/agents/pmo.rs): a held issue first, else    *)
(* the next issue that asks for action; one model session for it, with a   *)
(* live poll of its comments and a cancel check; one decision.  A split's  *)
(* own steps are Split.tla; here it closes the issue.                      *)
(***************************************************************************)
EXTENDS Naturals

CONSTANTS
    Pmos, Nobody,
    Issues, NoIssue,
    MaxFaults,   \* bound on failing model sessions and forge calls
    MaxKills,    \* bound on processes that stop
    MaxMoves     \* bound on what humans and workers do to the issues

ConstantsOK ==
    /\ Nobody \notin Pmos /\ NoIssue \notin Issues
    /\ {MaxFaults, MaxKills, MaxMoves} \subseteq Nat

VARIABLES
    open, labels, claim,   \* the issues on the forge
    said,      \* the kinds of comments on them
    unread,    \* issues with a human's comment no finished session had in view
    proc,      \* [Pmos -> [pc, held, cand]]
    run,       \* [Pmos -> the model session]
    file,      \* [Pmos -> PersistedPmoState: the issue, and the kinds of
               \*   comments on it that are beyond the cursor]
    stray,     \* issues with a claim that its process failed to learn of
    faults, kills, moves

vars == <<open, labels, claim, said, unread, proc, run, file, stray, faults, kills, moves>>

Kinds == {"human", "plan"}   \* a human's, and the PMO's own plan comment
Decisions == {"clarify", "plan", "keep", "hand", "finish"}
NoRun == [issue |-> NoIssue]
NoFile == [issue |-> NoIssue, news |-> {}]

TypeOK ==
    /\ open \in [Issues -> BOOLEAN]
    /\ labels \in [Issues -> SUBSET {"action-required", "pmo-planning", "pmo-pending"}]
    /\ claim \in [Issues -> Pmos \cup {Nobody}]
    /\ said \in [Issues -> SUBSET Kinds]
    /\ unread \subseteq Issues
    /\ proc \in [Pmos -> [pc : {"off", "idle", "drop", "list", "pick", "won", "model", "ask", "apply", "release"},
                          held : Issues \cup {NoIssue}, cand : SUBSET Issues]]
    /\ run \in [Pmos -> {NoRun} \cup
                 [issue : Issues, planning : BOOLEAN, later : SUBSET Kinds,
                  does : Decisions \cup {"nothing"}]]
    /\ file \in [Pmos -> [issue : Issues \cup {NoIssue}, news : SUBSET Kinds]]
    /\ stray \subseteq Issues
    /\ <<faults, kills, moves>> \in (0 .. MaxFaults) \X (0 .. MaxKills) \X (0 .. MaxMoves)

Idle == [pc |-> "idle", held |-> NoIssue, cand |-> {}]
Off == [Idle EXCEPT !.pc = "off"]

Init ==
    /\ open = [i \in Issues |-> TRUE]
    /\ labels = [i \in Issues |-> {"action-required"}]
    /\ claim = [i \in Issues |-> Nobody]
    /\ said = [i \in Issues |-> {}] /\ unread = {}
    /\ proc = [p \in Pmos |-> Idle]
    /\ run = [p \in Pmos |-> NoRun]
    /\ file = [p \in Pmos |-> NoFile]
    /\ stray = {} /\ faults = 0 /\ kills = 0 /\ moves = 0
-----------------------------------------------------------------------------
Strays(new) ==
    /\ faults < MaxFaults /\ faults' = faults + 1
    /\ stray' = stray \cup new /\ UNCHANGED <<kills, moves>>
Fault == Strays({})
NoFault == UNCHANGED <<stray, faults, kills, moves>>
World == <<open, labels, claim, said, unread>>
At(p, pc) == proc[p].pc = pc
Now(p, pc) == proc' = [proc EXCEPT ![p].pc = pc]

(* The comments beyond last_seen_comment_id(i): 0 unless the file is i's.  *)
News(p, i) == IF file[p].issue = i THEN file[p].news ELSE said[i]

(* should_process_issue, and not claimed.                                  *)
Eligible(i) ==
    /\ open[i] /\ claim[i] = Nobody
    /\ "action-required" \in labels[i]
    /\ labels[i] \cap {"pmo-planning", "pmo-pending"} = {}

(* save_claim_state puts the cursor on the newest comment, and             *)
(* process_pmo_issue reads the comments into the session's context.        *)
Process(p, i, planning) ==
    /\ proc' = [proc EXCEPT ![p] = [pc |-> "model", held |-> i, cand |-> {}]]
    /\ file' = [file EXCEPT ![p] = [issue |-> i, news |-> {}]]
    /\ run' = [run EXCEPT ![p] =
                 [issue |-> i, planning |-> planning, later |-> {}, does |-> "nothing"]]

(* A held issue is looked at again when it is not in planning, or has new  *)
(* comments.                                                               *)
Held(p) ==
    LET i == proc[p].held
    IN /\ At(p, "idle") /\ i # NoIssue /\ open[i]
       /\ "pmo-planning" \in labels[i] => News(p, i) # {}
       /\ Process(p, i, "pmo-planning" \in labels[i])
       /\ NoFault /\ UNCHANGED World

(* The held issue is closed, or cannot be fetched ...                      *)
Unworkable(p) ==
    LET i == proc[p].held
    IN /\ At(p, "idle") /\ i # NoIssue
       /\ IF open[i] THEN Fault ELSE NoFault
       /\ Now(p, "drop")
       /\ UNCHANGED <<World, run, file>>

(* ... drop_unworkable_pmo_claim, and on to the list in any case.          *)
Drop(p) ==
    LET i == proc[p].held
    IN /\ At(p, "drop")
       /\ \/ /\ proc' = [proc EXCEPT ![p] = [Idle EXCEPT !.pc = "list"]]
             /\ claim' = [claim EXCEPT ![i] = IF @ = p THEN Nobody ELSE @]
             /\ file' = [file EXCEPT ![p] = NoFile]
             /\ NoFault
          \/ Now(p, "list") /\ Fault /\ UNCHANGED <<claim, file>>
       /\ UNCHANGED <<open, labels, said, unread, run>>

List(p) ==
    /\ At(p, "list") \/ (At(p, "idle") /\ proc[p].held = NoIssue)
    /\ \E i \in Issues : Eligible(i)
    /\ proc' = [proc EXCEPT ![p].pc = "pick", ![p].cand = {i \in Issues : Eligible(i)}]
    /\ NoFault /\ UNCHANGED <<World, run, file>>

ListNone(p) ==
    /\ At(p, "list") /\ \A i \in Issues : ~Eligible(i)
    /\ Now(p, "idle")
    /\ NoFault /\ UNCHANGED <<World, run, file>>

(* The candidates are the listed ones, whatever became of them since.      *)
Acquire(p, i) ==
    /\ At(p, "pick") /\ i \in proc[p].cand /\ claim[i] = Nobody
    /\ claim' = [claim EXCEPT ![i] = p]
    /\ proc' = [proc EXCEPT ![p] = [pc |-> "won", held |-> i, cand |-> {}]]
    /\ NoFault /\ UNCHANGED <<open, labels, said, unread, run, file>>

(* A contest that fails may leave the label behind, and ends the cycle.    *)
AcquireFails(p, i) ==
    /\ At(p, "pick") /\ i \in proc[p].cand /\ claim[i] = Nobody
    /\ proc' = [proc EXCEPT ![p] = Idle]
    /\ \/ claim' = [claim EXCEPT ![i] = p] /\ Strays({i})
       \/ Fault /\ UNCHANGED claim
    /\ UNCHANGED <<open, labels, said, unread, run, file>>

Lose(p, i) ==
    /\ At(p, "pick") /\ i \in proc[p].cand /\ claim[i] # Nobody
    /\ proc' = [proc EXCEPT ![p].cand = @ \ {i}]
    /\ NoFault /\ UNCHANGED <<World, run, file>>

PickedNone(p) ==
    /\ At(p, "pick") /\ proc[p].cand = {}
    /\ Now(p, "idle")
    /\ NoFault /\ UNCHANGED <<World, run, file>>

(* The listed labels had no pmo-planning.                                  *)
Won(p) ==
    /\ At(p, "won") /\ Process(p, proc[p].held, FALSE)
    /\ NoFault /\ UNCHANGED World
-----------------------------------------------------------------------------
(* The session: comments that arrive are injected, ...                     *)
Inject(p) ==
    /\ At(p, "model") /\ run[p].later # {}
    /\ run' = [run EXCEPT ![p].later = {}]
    /\ NoFault /\ UNCHANGED <<World, proc, file>>

(* ... the agent may ask: the handler labels the issue and blocks until a  *)
(* reply, the timeout, or the close of the issue, then takes the label off,*)
Ask(p) ==
    /\ At(p, "model") /\ Now(p, "ask")
    /\ labels' = [labels EXCEPT ![run[p].issue] = @ \cup {"pmo-pending"}]
    /\ NoFault /\ UNCHANGED <<open, claim, said, unread, run, file>>

AskEnds(p) ==
    /\ At(p, "ask") /\ Now(p, "model")
    /\ labels' = [labels EXCEPT ![run[p].issue] = @ \ {"pmo-pending"}]
    /\ NoFault /\ UNCHANGED <<open, claim, said, unread, run, file>>

(* ... the cancel check may end it, as may a failure, ...                  *)
Cancels(p) ==
    LET i == run[p].issue
    IN ~open[i] \/ claim[i] # p \/ (run[p].planning /\ "pmo-planning" \notin labels[i])

SessionEnds(p) ==
    /\ At(p, "model")
    /\ \/ Cancels(p) /\ NoFault
       \/ Fault
    /\ proc' = [proc EXCEPT ![p].pc = "release"]
    /\ run' = [run EXCEPT ![p] = NoRun]
    /\ UNCHANGED <<World, file>>

(* Mutant: the cursor is put on the newest comment when the session ends.  *)
DecideAtNewest(p, d) ==
    /\ At(p, "model") /\ run[p].does = "nothing"
    /\ d = "keep" => run[p].planning
    /\ proc' = [proc EXCEPT ![p].pc = "apply"]
    /\ run' = [run EXCEPT ![p].does = d]
    /\ file' = [file EXCEPT ![p].news = {}]
    /\ unread' = IF "human" \in run[p].later THEN unread ELSE unread \ {run[p].issue}
    /\ NoFault /\ UNCHANGED <<open, labels, claim, said>>

(* ... or it reports a decision; the live poll's cursor is saved.          *)
Decide(p, d) ==
    /\ At(p, "model") /\ run[p].does = "nothing"
    /\ d = "keep" => run[p].planning
    /\ proc' = [proc EXCEPT ![p].pc = "apply"]
    /\ run' = [run EXCEPT ![p].does = d]
    /\ file' = [file EXCEPT ![p].news = run[p].later]
    /\ unread' = IF "human" \in run[p].later THEN unread ELSE unread \ {run[p].issue}
    /\ NoFault /\ UNCHANGED <<open, labels, claim, said>>

Applies(p, d) == At(p, "apply") /\ run[p].does = d /\ run' = [run EXCEPT ![p] = NoRun]
(* A question: the claim is given up, whatever other labels there are.     *)
Clarify(p) ==
    /\ Applies(p, "clarify") /\ Now(p, "release")
    /\ labels' = [labels EXCEPT ![run[p].issue] = @ \cup {"pmo-pending"}]
    /\ NoFault /\ UNCHANGED <<open, claim, said, unread, file>>

(* The label goes on first; a failing post keeps the claim, too.  The post *)
(* is a comment or a rewrite of the description.                           *)
ProposePlan(p) ==
    LET i == run[p].issue
    IN /\ Applies(p, "plan") /\ Now(p, "idle")
       /\ labels' = [labels EXCEPT ![i] = @ \cup {"pmo-planning"}]
       /\ \/ /\ said' = [said EXCEPT ![i] = @ \cup {"plan"}]
             /\ file' = [file EXCEPT ![p].news = @ \cup {"plan"}]
             /\ NoFault
          \/ NoFault /\ UNCHANGED <<said, file>>
          \/ Fault /\ UNCHANGED <<said, file>>
       /\ UNCHANGED <<open, claim, unread>>

KeepPlan(p) ==
    /\ Applies(p, "keep") /\ Now(p, "idle")
    /\ NoFault /\ UNCHANGED <<World, file>>

(* guide_worker and wait_for_dependency, already_done and split.           *)
HandOver(p) ==
    /\ \/ Applies(p, "hand") /\ UNCHANGED open
       \/ Applies(p, "finish") /\ open' = [open EXCEPT ![run[p].issue] = FALSE]
    /\ Now(p, "release")
    /\ labels' = [labels EXCEPT ![run[p].issue] = @ \ {"action-required"}]
    /\ NoFault /\ UNCHANGED <<claim, said, unread, file>>

(* A required call of a decision fails; how a split goes on is Split.tla.  *)
ApplyFails(p) ==
    /\ At(p, "apply") /\ run' = [run EXCEPT ![p] = NoRun]
    /\ Now(p, "release") /\ Fault /\ UNCHANGED <<World, file>>

(* release_claim and clear_claim_state; a failed release leaves both.      *)
Release(p) ==
    LET i == proc[p].held
    IN /\ At(p, "release")
       /\ \/ /\ proc' = [proc EXCEPT ![p] = Idle]
             /\ claim' = [claim EXCEPT ![i] = IF @ = p THEN Nobody ELSE @]
             /\ file' = [file EXCEPT ![p] = NoFile]
             /\ NoFault
          \/ Now(p, "idle") /\ Fault /\ UNCHANGED <<claim, file>>
       /\ UNCHANGED <<open, labels, said, unread, run>>
-----------------------------------------------------------------------------
(* Processes stop: killed, or shut down with the held issue in the file.   *)
Stop(p) ==
    /\ ~At(p, "off") /\ kills < MaxKills /\ kills' = kills + 1
    /\ proc' = [proc EXCEPT ![p] = Off]
    /\ run' = [run EXCEPT ![p] = NoRun]
    /\ UNCHANGED <<World, file, stray, faults, moves>>

Mine(p) == {i \in Issues : open[i] /\ claim[i] = p}

(* Mutant: a claim is taken up again only when the state file names it.    *)
FromFile(p) == Mine(p) \cap {file[p].issue}

(* try_resume_pmo_state, or else find_claimed_pmo_issue.                   *)
Recovered(p) == IF file[p].issue \in Mine(p) THEN {file[p].issue} ELSE Mine(p)

Resumes(p, i) ==
    /\ proc' = [proc EXCEPT ![p] = [Idle EXCEPT !.held = i]]
    /\ file' = [file EXCEPT ![p] = [issue |-> i, news |-> News(p, i)]]

(* The scan lets go of every claim but the one that is taken up.           *)
LetGo(p, i) ==
    claim' = [q \in Issues |-> IF q \in Mine(p) \ {i} THEN Nobody ELSE claim[q]]

(* PmoAgent::build.  A start meets at most one failing call: the look-up   *)
(* of the file's issue, which is followed by the scan, the release of a    *)
(* claim too many, or the scan, after which the claims are left as they    *)
(* are.                                                                    *)
Restart(p) ==
    /\ At(p, "off")
    /\ \/ /\ Recovered(p) = {}
          /\ proc' = [proc EXCEPT ![p] = Idle]
          /\ file' = [file EXCEPT ![p] = NoFile]
          /\ NoFault /\ UNCHANGED claim
       \/ /\ \E i \in Recovered(p) :
                /\ Resumes(p, i)
                /\ IF file[p].issue = i THEN UNCHANGED claim ELSE LetGo(p, i)
          /\ NoFault
       \/ /\ \E i \in Mine(p) : Resumes(p, i) /\ (LetGo(p, i) \/ UNCHANGED claim)
          /\ Fault
       \/ /\ file[p].issue \notin Mine(p)
          /\ proc' = [proc EXCEPT ![p] = Idle]
          /\ file' = [file EXCEPT ![p] = NoFile]
          /\ Strays(Mine(p)) /\ UNCHANGED claim
    /\ UNCHANGED <<open, labels, said, unread, run>>

Move == moves < MaxMoves /\ moves' = moves + 1 /\ UNCHANGED <<stray, faults, kills, proc>>

(* A human writes a comment; running sessions and files see it later.      *)
Comment(i) ==
    /\ Move /\ open[i]
    /\ said' = [said EXCEPT ![i] = @ \cup {"human"}]
    /\ unread' = unread \cup {i}
    /\ file' = [p \in Pmos |-> IF file[p].issue = i
                               THEN [file[p] EXCEPT !.news = @ \cup {"human"}] ELSE file[p]]
    /\ run' = [p \in Pmos |-> IF run[p].issue = i /\ ~At(p, "apply")
                              THEN [run[p] EXCEPT !.later = @ \cup {"human"}] ELSE run[p]]
    /\ UNCHANGED <<open, labels, claim>>

(* The plan is approved, or the question answered; also a human's removal  *)
(* of the claim label, a close, and a worker that gives up again.          *)
Approve(i) ==
    /\ "pmo-planning" \in labels[i]
    /\ labels' = [labels EXCEPT ![i] = @ \ {"pmo-planning"}]
    /\ NoFault /\ UNCHANGED <<open, claim, said, unread, proc, run, file>>

Answer(i) ==
    /\ "pmo-pending" \in labels[i]
    /\ labels' = [labels EXCEPT ![i] = @ \ {"pmo-pending"}]
    /\ NoFault /\ UNCHANGED <<open, claim, said, unread, proc, run, file>>

TakeOver(i) ==
    /\ Move /\ claim[i] # Nobody
    /\ claim' = [claim EXCEPT ![i] = Nobody]
    /\ UNCHANGED <<open, labels, said, unread, run, file>>

Close(i) ==
    /\ Move /\ open[i]
    /\ open' = [open EXCEPT ![i] = FALSE]
    /\ UNCHANGED <<labels, claim, said, unread, run, file>>

WorkerAsks(i) ==
    /\ Move /\ open[i] /\ claim[i] = Nobody
    /\ "action-required" \notin labels[i]
    /\ labels' = [labels EXCEPT ![i] = @ \cup {"action-required"}]
    /\ UNCHANGED <<open, claim, said, unread, run, file>>

Step(p) ==
    \/ Held(p) \/ Unworkable(p) \/ Drop(p) \/ Won(p) \/ List(p) \/ ListNone(p) \/ PickedNone(p)
    \/ \E i \in Issues : Acquire(p, i) \/ AcquireFails(p, i) \/ Lose(p, i)
    \/ SessionEnds(p) \/ AskEnds(p) \/ (\E d \in Decisions : Decide(p, d))
    \/ Clarify(p) \/ ProposePlan(p) \/ KeepPlan(p) \/ HandOver(p) \/ ApplyFails(p)
    \/ Release(p) \/ Restart(p)

Next ==
    \/ \E p \in Pmos : Step(p) \/ Inject(p) \/ Ask(p) \/ Stop(p)
    \/ \E i \in Issues : \/ Comment(i) \/ Approve(i) \/ Answer(i) \/ TakeOver(i)
                         \/ Close(i) \/ WorkerAsks(i)

Spec == Init /\ [][Next]_vars

(* The cycles run; humans approve plans and answer questions in the end.   *)
FairSpec ==
    /\ Spec
    /\ \A p \in Pmos : WF_vars(Step(p))
    /\ \A i \in Issues : WF_vars(Approve(i)) /\ WF_vars(Answer(i))
-----------------------------------------------------------------------------
(* "Persist the cursor advanced by the live poll so the next cycle does    *)
(* not re-detect comments already injected": a human's comment that the    *)
(* finished session did not have in view is beyond the saved cursor, so    *)
(* that the next cycle meets it.                                           *)
NothingSlipsPast ==
    [][\A p \in Pmos : At(p, "apply") /\ proc'[p].pc = "idle" /\ run[p].issue \in unread
                       => "human" \in file'[p].news]_vars

(* "GitLab's claim label plus the persisted state file are the source of   *)
(* truth across restarts": a claimed issue is not left to a process that   *)
(* does not know of it, but for a failed contest or scan.                  *)
ClaimsAreHeld ==
    \A i \in Issues :
        open[i] /\ claim[i] # Nobody
        ~> ~open[i] \/ claim[i] = Nobody \/ i \in stray \/ proc[claim[i]].held = i

(* "While present the PMO keeps the issue claimed": an issue in planning   *)
(* is some PMO's.                                                          *)
PlanningIsHeld ==
    \A i \in Issues : "pmo-planning" \in labels[i] /\ open[i] => claim[i] # Nobody
=============================================================================
