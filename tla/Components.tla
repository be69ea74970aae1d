----------------------------- MODULE Components -----------------------------
(***************************************************************************)
(* The components that meet only through the forge, the file system or a   *)
(* channel, one after another in one run: part names the component, which  *)
(* alone moves; the others stay as their Init has them.  What is checked   *)
(* of each is said in its own module.                                      *)
(***************************************************************************)
EXTENDS Naturals, Sequences

CONSTANTS
    MaxFaults, MaxKills, MaxMoves,                \* bounds that several share
    Nobody, Scopes, NoScope,
    Runners, MaxRetries, MaxTransport, MaxNudges,              \* ModelRun
    MaxRequests, MaxCalls, Wedges, Garbles,                    \* AcpClient
    Harnesses,                                                 \* AuthFlight
    JobIds, MaxFinished,                                       \* Jobs
    MaxTasks, MaxSessions,                                     \* Resume
    KeepTexts, KeepReasons, StuckLimit,                        \* AgentLoop
    MaxPrompts, MaxInjects, MaxToolCalls, MaxBudgets,
    Callers, Subs, Kids, MaxLive, MaxTurns,                    \* Subagents
    Sessions, Calls, Vms, NoVm,                                \* Sandal
    Plans, MaxBreaks,                                          \* Split
    Pmos, Issues, NoIssue,                                     \* Pmo
    Reviewers, Mrs, NoMr, Mergers,                             \* Reviewer
    Branches, MaxCommits, Bugless,                             \* Qa
    Errors                                                     \* Ops

VARIABLES
    part,
    failures, gaveUp, run, link, quit, cancel,                   \* ModelRun
    at, prompt, waits, refs, conn, pending, got, child,          \* AcpClient
    auth, cache, lock, published, runs, outcome, akills,         \* AuthFlight
    proc, table, older, holder, call, closed, told,              \* Jobs
    phase, task, scope, over, reg, up, marker, minted, talk, heard,  \* Resume
    ctx, snap, pc, stuck, queue, stop, signed, keep, count,      \* AgentLoop
    caller, ask, hub, sub, turns, kid,                           \* Subagents
    pool, vm, req, turn,                                         \* Sandal
    plan, file, made, parent, step, ids, breaks,                 \* Split
    open, labels, claim, said, unread, triage, model, state,
    stray, faults, kills, moves,                                 \* Pmo
    mr, rev, posted, givenUp, rfaults, rkills, rmoves,           \* Reviewer
    tip, last, history, filed, lostBug, bare, cycle, qfaults, qkills,  \* Qa
    issue, times, saved, scrape, ofaults, okills                 \* Ops

ModelRun == INSTANCE ModelRun
AcpClient == INSTANCE AcpClient
AuthFlight == INSTANCE AuthFlight WITH at <- auth, file <- published, kills <- akills
Jobs == INSTANCE Jobs
Resume == INSTANCE Resume
AgentLoop == INSTANCE AgentLoop WITH MaxCalls <- MaxToolCalls, cancel <- stop
Subagents == INSTANCE Subagents WITH task <- caller
Sandal == INSTANCE Sandal WITH call <- req
Split == INSTANCE Split
Pmo == INSTANCE Pmo WITH proc <- triage, run <- model, file <- state
Reviewer == INSTANCE Reviewer
Qa == INSTANCE Qa
Ops == INSTANCE Ops WITH open <- issue, cycle <- scrape

ASSUME ConstantsOK ==
    /\ ModelRun!ConstantsOK /\ AcpClient!ConstantsOK /\ AuthFlight!ConstantsOK
    /\ Jobs!ConstantsOK /\ Resume!ConstantsOK
    /\ AgentLoop!ConstantsOK /\ Subagents!ConstantsOK /\ Sandal!ConstantsOK
    /\ Split!ConstantsOK /\ Pmo!ConstantsOK /\ Reviewer!ConstantsOK
    /\ Qa!ConstantsOK /\ Ops!ConstantsOK

(* The variables of each component.                                        *)
modelRunVars == <<failures, gaveUp, run, link, quit, cancel>>
acpClientVars == <<at, prompt, waits, refs, conn, pending, got, child>>
authVars == <<auth, cache, lock, published, runs, outcome, akills>>
jobsVars == <<proc, table, older, holder, call, closed, told>>
resumeVars == <<phase, task, scope, over, reg, up, marker, minted, talk, heard>>
agentLoopVars == <<ctx, snap, pc, stuck, queue, stop, signed, keep, count>>
subagentsVars == <<caller, ask, hub, sub, turns, kid>>
sandalVars == <<pool, vm, req, turn>>
splitVars == <<plan, file, made, parent, step, ids, breaks>>
pmoVars == <<open, labels, claim, said, unread, triage, model, state,
             stray, faults, kills, moves>>
reviewerVars == <<mr, rev, posted, givenUp, rfaults, rkills, rmoves>>
qaVars == <<tip, last, history, filed, lostBug, bare, cycle, qfaults, qkills>>
opsVars == <<issue, times, saved, scrape, ofaults, okills>>

vars == <<part, modelRunVars, acpClientVars, authVars, jobsVars, resumeVars, agentLoopVars, subagentsVars,
          sandalVars, splitVars, pmoVars, reviewerVars, qaVars, opsVars>>

Init ==
    /\ part \in {"ModelRun", "AcpClient", "AuthFlight", "Jobs", "Resume", "AgentLoop", "Subagents", "Sandal",
                 "Split", "Pmo", "Reviewer", "Qa", "Ops"}
    /\ ModelRun!Init /\ AcpClient!Init /\ AuthFlight!Init /\ Jobs!Init /\ Resume!Init /\ AgentLoop!Init /\ Subagents!Init
    /\ Sandal!Init /\ Split!Init /\ Pmo!Init /\ Reviewer!Init /\ Qa!Init /\ Ops!Init
    /\ signed = (part = "AgentLoop")
    /\ part # "Split" => plan = CHOOSE p \in Plans : TRUE
-----------------------------------------------------------------------------
(* A step of one component leaves the others alone.                        *)
InModelRun(A) ==
    /\ part = "ModelRun" /\ A
    /\ UNCHANGED <<part, acpClientVars, authVars, jobsVars, resumeVars, agentLoopVars,
                   subagentsVars, sandalVars,
                   splitVars, pmoVars, reviewerVars, qaVars, opsVars>>
InAcpClient(A) ==
    /\ part = "AcpClient" /\ A
    /\ UNCHANGED <<part, modelRunVars, authVars, jobsVars, resumeVars, agentLoopVars,
                   subagentsVars, sandalVars, splitVars, pmoVars, reviewerVars, qaVars,
                   opsVars>>
InAuthFlight(A) ==
    /\ part = "AuthFlight" /\ A
    /\ UNCHANGED <<part, modelRunVars, acpClientVars, jobsVars, resumeVars, agentLoopVars,
                   subagentsVars, sandalVars, splitVars, pmoVars, reviewerVars, qaVars,
                   opsVars>>
InJobs(A) ==
    /\ part = "Jobs" /\ A
    /\ UNCHANGED <<part, modelRunVars, acpClientVars, authVars, resumeVars, agentLoopVars, subagentsVars, sandalVars,
                   splitVars, pmoVars, reviewerVars, qaVars, opsVars>>
InResume(A) ==
    /\ part = "Resume" /\ A
    /\ UNCHANGED <<part, modelRunVars, acpClientVars, authVars, jobsVars, agentLoopVars, subagentsVars, sandalVars,
                   splitVars, pmoVars, reviewerVars, qaVars, opsVars>>
InAgentLoop(A) ==
    /\ part = "AgentLoop" /\ A
    /\ UNCHANGED <<part, modelRunVars, acpClientVars, authVars, jobsVars, resumeVars, subagentsVars, sandalVars,
                   splitVars, pmoVars, reviewerVars, qaVars, opsVars>>
InSubagents(A) ==
    /\ part = "Subagents" /\ A
    /\ UNCHANGED <<part, modelRunVars, acpClientVars, authVars, jobsVars, resumeVars, agentLoopVars, sandalVars,
                   splitVars, pmoVars, reviewerVars, qaVars, opsVars>>
InSandal(A) ==
    /\ part = "Sandal" /\ A
    /\ UNCHANGED <<part, modelRunVars, acpClientVars, authVars, jobsVars, resumeVars, agentLoopVars, subagentsVars,
                   splitVars, pmoVars, reviewerVars, qaVars, opsVars>>
InSplit(A) ==
    /\ part = "Split" /\ A
    /\ UNCHANGED <<part, modelRunVars, acpClientVars, authVars, jobsVars, resumeVars, agentLoopVars, subagentsVars,
                   sandalVars, pmoVars, reviewerVars, qaVars, opsVars>>
InPmo(A) ==
    /\ part = "Pmo" /\ A
    /\ UNCHANGED <<part, modelRunVars, acpClientVars, authVars, jobsVars, resumeVars, agentLoopVars, subagentsVars,
                   sandalVars, splitVars, reviewerVars, qaVars, opsVars>>
InReviewer(A) ==
    /\ part = "Reviewer" /\ A
    /\ UNCHANGED <<part, modelRunVars, acpClientVars, authVars, jobsVars, resumeVars, agentLoopVars, subagentsVars,
                   sandalVars, splitVars, pmoVars, qaVars, opsVars>>
InQa(A) ==
    /\ part = "Qa" /\ A
    /\ UNCHANGED <<part, modelRunVars, acpClientVars, authVars, jobsVars, resumeVars, agentLoopVars, subagentsVars,
                   sandalVars, splitVars, pmoVars, reviewerVars, opsVars>>
InOps(A) ==
    /\ part = "Ops" /\ A
    /\ UNCHANGED <<part, modelRunVars, acpClientVars, authVars, jobsVars, resumeVars, agentLoopVars, subagentsVars,
                   sandalVars, splitVars, pmoVars, reviewerVars, qaVars>>

Next ==
    \/ InModelRun(ModelRun!Next)
    \/ InAcpClient(AcpClient!Next)
    \/ InAuthFlight(AuthFlight!Next)
    \/ InJobs(Jobs!Next)
    \/ InResume(Resume!Next)
    \/ InAgentLoop(AgentLoop!Next)
    \/ InSubagents(Subagents!Next)
    \/ InSandal(Sandal!Next)
    \/ InSplit(Split!Next)
    \/ InPmo(Pmo!Next)
    \/ InReviewer(Reviewer!Next)
    \/ InQa(Qa!Next)
    \/ InOps(Ops!Next)

Spec == Init /\ [][Next]_vars

(* Each component's own fairness, which its liveness property is under.    *)
FairModelRun ==
    \A a \in Runners : WF_modelRunVars(InModelRun(ModelRun!Progress(a)))
FairAcpClient ==
    /\ WF_acpClientVars(InAcpClient(AcpClient!Agent))
    /\ WF_acpClientVars(InAcpClient(AcpClient!PromptThread))
    /\ WF_acpClientVars(InAcpClient(AcpClient!WriterEnds))
    /\ WF_acpClientVars(InAcpClient(AcpClient!ReaderStep))
    /\ WF_acpClientVars(InAcpClient(AcpClient!ChildExits))
FairSubagents ==
    /\ WF_subagentsVars(InSubagents(Subagents!HubStep))
    /\ \A s \in Subs : WF_subagentsVars(InSubagents(Subagents!CompleteTurn(s)))
    /\ \A k \in Kids : WF_subagentsVars(InSubagents(Subagents!ReaderEnds(k)))
FairSandal ==
    /\ WF_sandalVars(InSandal(Sandal!RunLoop))
    /\ \A c \in Calls : WF_sandalVars(InSandal(Sandal!Thread(c)))
    /\ \A v \in Vms : WF_sandalVars(InSandal(Sandal!Idles(v)))
FairSplit == WF_splitVars(InSplit(Split!Pmo))
FairPmo ==
    /\ \A p \in Pmos : WF_pmoVars(InPmo(Pmo!Step(p)))
    /\ \A i \in Issues :
          WF_pmoVars(InPmo(Pmo!Approve(i))) /\ WF_pmoVars(InPmo(Pmo!Answer(i)))
FairReviewer ==
    \A r \in Reviewers : WF_reviewerVars(InReviewer(Reviewer!Step(r)))
-----------------------------------------------------------------------------
(* Once the endpoint is given up on, a run under way begins at most one    *)
(* more attempt or repair, however many agents share the counter; and a    *)
(* repair prompt goes only to a session that was told the task.            *)
RepairsAreSound ==
    part = "ModelRun" =>
        ModelRun!TypeOK /\ ModelRun!NoChurnAfterGiveUp /\ ModelRun!RepairHasContext

(* Every model run ends, also when others' successes reset the breaker.    *)
RunsEnd == part = "ModelRun" /\ FairModelRun => ModelRun!RunsEnd

(* An answer reaches its own waiter only, and an idle child is killed only *)
(* after its stdin was closed; no two living harnesses run the provider.   *)
ClientIsSound ==
    /\ part = "AcpClient" =>
        AcpClient!TypeOK /\ AcpClient!AnswersMatch /\ AcpClient!IdleExitsItself
    /\ part = "AuthFlight" => AuthFlight!TypeOK /\ AuthFlight!OneLeader

(* Disposing of a session ends, whichever thread closes its client.        *)
DisposeEnds == part = "AcpClient" /\ FairAcpClient => AcpClient!DisposeEnds

(* The auth provider runs again only when the last result no longer counts.*)
RunsAreNeeded == AuthFlight!RunsAreNeeded

(* A session goes on with its own task after its child died, and never     *)
(* with a task of another scope.                                           *)
TalksKeepToTheirTask ==
    part = "Resume" => Resume!TypeOK /\ Resume!OneScopePerTalk /\ Resume!CrashKeepsTalk

(* Each request answers the calls it holds, and the file has the context   *)
(* that a crash would have to restore.                                     *)
ContextIsSound ==
    part = "AgentLoop" =>
        AgentLoop!TypeOK /\ AgentLoop!CallsAreAnswered /\ AgentLoop!SnapshotIsCurrent

(* The tables that outlive a call keep to their caps: live subagents while *)
(* answers, kills and ends race, finished jobs without dropping a running  *)
(* one.                                                                    *)
TablesAreCapped ==
    /\ part = "Subagents" => Subagents!TypeOK /\ Subagents!CapHolds
    /\ part = "Jobs" => Jobs!TypeOK /\ Jobs!RunningIsKept

(* A command runs only on a VM of its session and its scope.               *)
OwnScopeOnly == part = "Sandal" => Sandal!TypeOK /\ Sandal!OwnScopeOnly

(* What died does not linger: no subagent stays running after its turn or  *)
(* its client has ended, no dead VM stays in the pool.                     *)
NothingLingers ==
    /\ part = "Subagents" /\ FairSubagents => Subagents!NoRunningForever
    /\ part = "Sandal" /\ FairSandal => Sandal!CorpsesLeave

(* An interruption of a split costs at most one doubled child, and the     *)
(* parent is marked only when each part has become an issue.               *)
EachPartOnce ==
    /\ part = "Pmo" => Pmo!TypeOK
    /\ part = "Split" => Split!TypeOK /\ Split!OneExtraPerBreak /\ Split!ProcessedIsComplete

(* A split that was begun is brought to its end.                           *)
SplitsFinish == part = "Split" /\ FairSplit => Split!SplitsFinish

(* A human's comment that a finished session did not see stays beyond the  *)
(* PMO's saved cursor.                                                     *)
NothingSlipsPast == Pmo!NothingSlipsPast

(* An issue the PMO has claimed is held or let go in the end.              *)
ClaimsAreHeld == part = "Pmo" /\ FairPmo => Pmo!ClaimsAreHeld

(* One reviewer at a time works on a merge request, and not again before   *)
(* its own discussion is resolved.                                         *)
OneReviewAtATime ==
    part = "Reviewer" => Reviewer!OneReviewAtATime

(* A claim on a reviewable merge request is released in the end, unless it *)
(* is that of a reviewer whose model endpoint was given up on.             *)
LeftoversGo == part = "Reviewer" /\ FairReviewer => Reviewer!LeftoversGo

(* What QA recorded as tested has its bugs filed; what ops filed is filed  *)
(* again only after its history was lost.                                  *)
FindingsAreFiled ==
    /\ part = "Qa" => Qa!TypeOK /\ Qa!TestedIsFiled
    /\ part = "Ops" => Ops!TypeOK /\ Ops!FiledAgainOnlyAfterLoss
=============================================================================
