------------------------------- MODULE Worker -------------------------------
(***************************************************************************)
(* The routing cycle of the workers (src/agents/worker.rs): several worker *)
(* processes share the issues of one forge, hold them through claim        *)
(* labels, remember them in session files, implement them, watch the merge *)
(* requests, and give them back.  A worker's process may be stopped or     *)
(* killed between any two of its forge calls and file writes, humans close *)
(* and relabel issues meanwhile, and forge calls may fail.                 *)
(*                                                                         *)
(* The claim protocol itself is Claim.tla; here an attempt is one label    *)
(* added, one verdict (the earliest label wins, a contested one may also   *)
(* lose) and one label removed.                                            *)
(***************************************************************************)
EXTENDS Naturals, Sequences

CONSTANTS
    Workers,        \* agent ids: one process each
    Issues,         \* issue iids, positive numbers
    HumanLabels,    \* the labels humans put on issues and take off
    MaxFaults,      \* bound on failing forge calls, file writes, git commands
    MaxStops,       \* bound on orderly shutdowns
    MaxKills,       \* bound on killed processes
    MaxMoves,       \* bound on what humans do to issues
    ContestKills    \* may a process be killed while its claim label is contested?

ASSUME ConstantsOK ==
    /\ Issues \subseteq Nat \ {0}
    /\ {MaxFaults, MaxStops, MaxKills, MaxMoves} \subseteq Nat
    /\ HumanLabels \subseteq {"scope", "pending", "review-only", "do-not-implement"}
    /\ ContestKills \in BOOLEAN

VARIABLES
    open,      \* the forge: is the issue open?
    labels,    \* its labels but for the claims; "scope" is the scope_label
    claims,    \* the workers whose claim label is on the issue
    older,     \* the claim labels that are older than a worker's own
    mr,        \* state of the merge request of branch issue-N
    session,   \* is there a session file of the worker for the issue?
    shutdown,  \* the worker's shutdown flag
    pc,        \* where the worker's cycle stands
    active,    \* WorkerAgent.active
    again,     \* finish_implementation's reattempt flag
    loop,      \* the loop over sessions, listed issues or candidates
    job,       \* the rest of a release routine, and where it returns to
    faults, stops, kills, moves

forge == <<open, labels, claims, older, mr>>
vars == <<open, labels, claims, older, mr, session, shutdown, pc, active,
          again, loop, job, faults, stops, kills, moves>>

Labels == {"scope", "in-progress", "pending", "review-only", "do-not-implement",
           "action-required", "waiting-on-issue"}
Steps == {"release", "tryRelease", "closeMr", "unprogress", "mustUnprogress",
          "unsession", "closeIssue", "askHuman", "park"}
ClaimPCs == {"labelling", "settling", "won"}
RunPCs == {"start", "prepare", "model", "publish", "feedback"}
PCs == ClaimPCs \union RunPCs \union
       {"off", "idle", "sessions", "sweep", "resume", "poll", "candidates",
        "job", "unmade", "failed", "track", "mr", "rotate"}

NoIssue == [issue |-> 0, mr |-> FALSE]
Tracked(i) == [issue |-> i, mr |-> mr[i] = "open"]
NoLoop == [todo |-> {}, held |-> {}, taken |-> {}, found |-> {}, why |-> "none", at |-> 0]
NoJob == [issue |-> 0, do |-> <<>>, forget |-> FALSE, next |-> "idle", else |-> "idle"]

-----------------------------------------------------------------------------
(* What a worker reads off an issue.                                       *)

HasAny(i, S) == labels[i] \intersect S # {}

Hold(i) ==
    IF ~open[i] THEN "abandon"
    ELSE IF "scope" \notin labels[i] \/ HasAny(i, {"do-not-implement", "pending", "review-only"})
    THEN "clear" ELSE "keep"

Eligible(i) ==
    /\ open[i] /\ "scope" \in labels[i]
    /\ ~HasAny(i, {"do-not-implement", "pending", "review-only", "in-progress", "action-required"})

ShouldCancel(i) == ~open[i] \/ HasAny(i, {"do-not-implement", "review-only", "pending"})

-----------------------------------------------------------------------------
(* Steps of one worker.  A forge call, file write or git command may fail, *)
(* MaxFaults times in all.                                                 *)

Succeeds == UNCHANGED <<faults, stops, kills, moves>>
Fails == /\ faults < MaxFaults
         /\ faults' = faults + 1
         /\ UNCHANGED <<stops, kills, moves>>

Goto(w, label) == pc' = [pc EXCEPT ![w] = label]

(* The routines that give an issue up, as the calls they make in order;    *)
(* git commands on the worker's own clone are left out.                    *)
ForgetfulClear == <<"release", "unsession">>    \* mutant: in-progress stays
ClearSteps == <<"release", "unprogress", "unsession">>
HastyAbandon == <<"release", "unsession", "closeMr", "unprogress">>   \* mutant: session first
AbandonSteps == <<"release", "closeMr", "unprogress", "unsession">>
HoldSteps(i) == IF Hold(i) = "abandon" THEN AbandonSteps ELSE ClearSteps
MergedSteps == <<"closeIssue", "tryRelease", "unprogress", "unsession">>

(* handle_worker_issue_processing_cancelled, after it has read the issue.  *)
CancelSteps(i) ==
    IF "pending" \in labels[i] THEN <<"tryRelease", "unprogress", "unsession">>
    ELSE IF "review-only" \in labels[i] THEN ClearSteps
    ELSE IF ~open[i] THEN AbandonSteps
    ELSE <<"tryRelease", "unprogress", "unsession">>

(* Start a routine; it returns to next, or to else when it breaks off.     *)
Do(w, i, steps, forget, next, else) ==
    /\ Goto(w, "job")
    /\ job' = [job EXCEPT ![w] = [issue |-> i, do |-> steps, forget |-> forget,
                                  next |-> next, else |-> else]]

(* The same, and the worker lets go of its active issue once it is through. *)
KeepTracking(w, i, steps, next, else) == Do(w, i, steps, FALSE, next, else)   \* mutant
LetGo(w, i, steps, next, else) == Do(w, i, steps, TRUE, next, else)

-----------------------------------------------------------------------------
Init ==
    /\ open = [i \in Issues |-> TRUE]
    /\ labels = [i \in Issues |-> {"scope"}]
    /\ claims = [i \in Issues |-> {}]
    /\ older = [i \in Issues |-> [w \in Workers |-> {}]]
    /\ mr = [i \in Issues |-> "none"]
    /\ session = [w \in Workers |-> [i \in Issues |-> FALSE]]
    /\ shutdown = [w \in Workers |-> FALSE]
    /\ pc = [w \in Workers |-> "off"]
    /\ active = [w \in Workers |-> NoIssue]
    /\ again = [w \in Workers |-> FALSE]
    /\ loop = [w \in Workers |-> NoLoop]
    /\ job = [w \in Workers |-> NoJob]
    /\ faults = 0 /\ stops = 0 /\ kills = 0 /\ moves = 0

-----------------------------------------------------------------------------
(* Labels, and the claim labels in the order they were added.              *)

Label(i, l) == labels' = [labels EXCEPT ![i] = @ \union {l}]
Unlabel(i, l) == labels' = [labels EXCEPT ![i] = @ \ {l}]

AddClaim(w, i) ==
    /\ claims' = [claims EXCEPT ![i] = @ \union {w}]
    /\ older' = [older EXCEPT ![i][w] = IF w \in claims[i] THEN @ ELSE claims[i]]

DropClaim(w, i) ==
    /\ claims' = [claims EXCEPT ![i] = @ \ {w}]
    /\ older' = [older EXCEPT ![i] = [v \in Workers |-> IF v = w THEN {} ELSE @[v] \ {w}]]

-----------------------------------------------------------------------------
(* One step of a release routine.  Removing the own claim label is         *)
(* verified when it fails, so an error may or may not leave the label; a   *)
(* routine that "must" release breaks off there.  The other calls are best *)
(* effort except where the code propagates their error with `?`.           *)

StepDone(w) ==
    LET j == job[w] IN
    IF Len(j.do) > 1
    THEN /\ job' = [job EXCEPT ![w].do = Tail(@)]
         /\ UNCHANGED <<pc, active, loop>>
    ELSE /\ job' = [job EXCEPT ![w] = NoJob]
         /\ Goto(w, j.next)
         /\ loop' = IF j.next = "idle" THEN [loop EXCEPT ![w] = NoLoop] ELSE loop
         /\ active' = IF j.forget THEN [active EXCEPT ![w] = NoIssue] ELSE active

StepBroke(w) ==
    /\ job' = [job EXCEPT ![w] = NoJob]
    /\ Goto(w, job[w].else)
    /\ loop' = IF job[w].else = "idle" THEN [loop EXCEPT ![w] = NoLoop] ELSE loop
    /\ UNCHANGED active

StepEffect(w, i, step) ==
    CASE step \in {"release", "tryRelease"} ->
             DropClaim(w, i) /\ UNCHANGED <<open, labels, mr, session>>
      [] step = "closeMr" ->
             /\ mr' = [mr EXCEPT ![i] = IF @ = "open" THEN "closed" ELSE @]
             /\ UNCHANGED <<open, labels, claims, older, session>>
      [] step \in {"unprogress", "mustUnprogress"} ->
             Unlabel(i, "in-progress") /\ UNCHANGED <<open, claims, older, mr, session>>
      [] step = "unsession" ->
             /\ session' = [session EXCEPT ![w][i] = FALSE]
             /\ UNCHANGED forge
      [] step = "closeIssue" ->
             /\ open' = [open EXCEPT ![i] = FALSE]
             /\ UNCHANGED <<labels, claims, older, mr, session>>
      [] step = "askHuman" ->
             Label(i, "action-required") /\ UNCHANGED <<open, claims, older, mr, session>>
      [] step = "park" ->
             Label(i, "waiting-on-issue") /\ UNCHANGED <<open, claims, older, mr, session>>

JobStep(w) ==
    LET i == job[w].issue
        step == Head(job[w].do)
    IN
    /\ pc[w] = "job"
    /\ UNCHANGED <<shutdown, again>>
    /\ \/ StepEffect(w, i, step) /\ StepDone(w) /\ Succeeds
       \/ /\ step \in {"release", "tryRelease"}
          /\ StepEffect(w, i, step) \/ UNCHANGED <<forge, session>>
          /\ IF step = "release" THEN StepBroke(w) ELSE StepDone(w)
          /\ Fails
       \/ /\ step \in {"mustUnprogress", "askHuman"}
          /\ UNCHANGED <<forge, session>> /\ StepBroke(w) /\ Fails
       \/ /\ step \in {"closeMr", "unprogress", "unsession", "closeIssue", "park"}
          /\ UNCHANGED <<forge, session>> /\ StepDone(w) /\ Fails

-----------------------------------------------------------------------------
(* collect_resumable_sessions: the worker's session files, then the listed *)
(* issues with its claim label.  It runs at startup, when a cycle begins   *)
(* with no active issue, and to rotate the watch past the active one.      *)

Collect(w, why) ==
    /\ Goto(w, "sessions")
    /\ loop' = [loop EXCEPT ![w] = [NoLoop EXCEPT !.todo = {i \in Issues : session[w][i]},
                                                  !.why = why]]

Visited(w, i) ==
    loop' = [loop EXCEPT ![w].todo = @ \ {i}, ![w].held = @ \ {i}, ![w].taken = @ \ {i}]
Found(w, i) ==
    loop' = [loop EXCEPT ![w].todo = @ \ {i}, ![w].held = @ \ {i},
                         ![w].found = @ \union {Tracked(i)}]

(* The issue is open, in scope and carries the worker's claim; it is held  *)
(* when it was read as pending or review-only.                             *)
Resume(w, i, held, here) ==
    IF held
    THEN Visited(w, i) /\ Do(w, i, ClearSteps, FALSE, here, here)
    ELSE IF mr[i] = "merged"
    THEN Visited(w, i) /\ Do(w, i, MergedSteps, FALSE, here, here)
    ELSE Found(w, i) /\ UNCHANGED <<pc, job>>

CheckSession(w) ==
    /\ pc[w] = "sessions"
    /\ UNCHANGED <<forge, shutdown, active, again>>
    /\ \E i \in loop[w].todo :
          \/ /\ Succeeds
             /\ IF ~open[i]
                THEN /\ Visited(w, i) /\ UNCHANGED session
                     /\ Do(w, i, AbandonSteps, FALSE, "sessions", "sessions")
                ELSE IF claims[i] # {w}
                THEN /\ session' = [session EXCEPT ![w][i] = FALSE]
                     /\ Visited(w, i) /\ UNCHANGED <<pc, job>>
                ELSE IF "scope" \notin labels[i]
                THEN Visited(w, i) /\ UNCHANGED <<pc, job, session>>
                ELSE /\ Resume(w, i, HasAny(i, {"pending", "review-only"}), "sessions")
                     /\ UNCHANGED session
          \/ Fails /\ Visited(w, i) /\ UNCHANGED <<pc, job, session>>

(* What the collected issues are for: the first one at startup, the lowest *)
(* when the worker had none, the next one when the watch rotates.          *)
ParkedOn(w) ==                                   \* mutant: > becomes >=
    LET found == loop[w].found
        later == {a \in found : loop[w].why = "rotate" /\ a.issue >= active[w].issue}
        pool == IF later # {} THEN later ELSE found
    IN {a \in pool : loop[w].why = "startup" \/ \A b \in pool : a.issue <= b.issue}

NextWatched(w) ==
    LET found == loop[w].found
        later == {a \in found : loop[w].why = "rotate" /\ a.issue > active[w].issue}
        pool == IF later # {} THEN later ELSE found
    IN {a \in pool : loop[w].why = "startup" \/ \A b \in pool : a.issue <= b.issue}

Collected(w) ==
    /\ loop' = [loop EXCEPT ![w] = NoLoop]
    /\ IF NextWatched(w) = {}
       THEN /\ active' = [active EXCEPT ![w] = NoIssue]
            /\ Goto(w, IF loop[w].why = "startup" THEN "idle" ELSE "poll")
       ELSE \E a \in NextWatched(w) :
            /\ active' = [active EXCEPT ![w] = a]
            /\ Goto(w, CASE loop[w].why = "startup" -> "resume"
                         [] loop[w].why = "recover" -> "idle"
                         [] loop[w].why = "rotate" -> "poll")

NoOrphans(w) == {}                               \* mutant: no sweep
Orphans(w) ==
    {i \in Issues : /\ open[i] /\ w \in claims[i] /\ "scope" \in labels[i]
                    /\ \A a \in loop[w].found : a.issue # i}

ListClaims(w) ==
    /\ pc[w] = "sessions" /\ loop[w].todo = {}
    /\ UNCHANGED <<forge, session, shutdown, again, job>>
    /\ \/ /\ Succeeds /\ Goto(w, "sweep") /\ UNCHANGED active
          /\ loop' = [loop EXCEPT ![w].todo = Orphans(w),
                                  ![w].held = {i \in Orphans(w) : HasAny(i, {"pending", "review-only"})}]
       \/ Fails /\ Collected(w)

(* The sweep adopts a listed issue because it listed the worker's claim.   *)
CheckClaim(w) ==
    /\ pc[w] = "sweep"
    /\ Succeeds
    /\ UNCHANGED <<forge, session, shutdown, active, again>>
    /\ \E i \in loop[w].todo : Resume(w, i, i \in loop[w].held, "sweep")

EndSweep(w) ==
    /\ pc[w] = "sweep" /\ loop[w].todo = {}
    /\ Succeeds /\ Collected(w)
    /\ UNCHANGED <<forge, session, shutdown, again, job>>

(* clear_resumed_issue_if_ignored: the startup check of the resumed issue. *)
ResumeCheck(w) ==
    LET i == active[w].issue
        blocked == HasAny(i, {"action-required"})
    IN
    /\ pc[w] = "resume"
    /\ UNCHANGED <<forge, session, shutdown, again, loop>>
    /\ \/ /\ Succeeds
          /\ IF Hold(i) # "keep" \/ blocked
             THEN /\ active' = [active EXCEPT ![w] = NoIssue]
                  /\ Do(w, i, IF ~open[i] /\ "scope" \in labels[i] THEN AbandonSteps ELSE ClearSteps,
                        FALSE, "idle", "idle")
             ELSE Goto(w, "idle") /\ UNCHANGED <<active, job>>
       \/ Fails /\ Goto(w, "idle") /\ UNCHANGED <<active, job>>

-----------------------------------------------------------------------------
(* The cycle: the hold check of the active issue, or recovery.             *)

BeginCycle(w) ==
    /\ pc[w] = "idle" /\ ~shutdown[w] /\ active[w] = NoIssue
    /\ Succeeds /\ Collect(w, "recover")
    /\ UNCHANGED <<forge, session, shutdown, active, again, job>>

(* apply_active_issue_hold, in handle_active_mr and handle_active_reattempt. *)
CheckHold(w) ==
    LET i == active[w].issue IN
    /\ pc[w] = "idle" /\ ~shutdown[w] /\ active[w] # NoIssue
    /\ UNCHANGED <<forge, session, shutdown, active, loop>>
    /\ \/ /\ Succeeds
          /\ IF Hold(i) # "keep"
             THEN LetGo(w, i, HoldSteps(i), "poll", "poll") /\ UNCHANGED again
             ELSE /\ Goto(w, IF active[w].mr THEN "mr" ELSE "start")
                  /\ again' = [again EXCEPT ![w] = ~active[w].mr]
                  /\ UNCHANGED job
       \/ Fails /\ Goto(w, "poll") /\ UNCHANGED <<again, job>>

(* The re-attempt reads the issue once more; a failure retains it.         *)
ReattemptUnread(w) ==
    /\ pc[w] = "start" /\ again[w] /\ Fails
    /\ Goto(w, "idle") /\ again' = [again EXCEPT ![w] = FALSE]
    /\ UNCHANGED <<forge, session, shutdown, active, loop, job>>

(* handle_active_mr after the hold check.                                  *)
WatchMr(w) ==
    LET i == active[w].issue IN
    /\ pc[w] = "mr"
    /\ UNCHANGED <<forge, session, shutdown, active, again, loop>>
    /\ \/ /\ Succeeds
          /\ IF mr[i] = "open"
             THEN Goto(w, "feedback") /\ UNCHANGED job
             ELSE LetGo(w, i, IF mr[i] = "merged" THEN ClearSteps \o <<"closeIssue">> ELSE ClearSteps,
                        "poll", "idle")
       \/ Fails /\ Goto(w, "idle") /\ UNCHANGED job

(* handle_mr_comments: nothing to do or done, retry, error, cancelled, or  *)
(* the feedback cannot be resolved and the merge request is abandoned.     *)
Feedback(w) ==
    LET i == active[w].issue IN
    /\ pc[w] = "feedback"
    /\ UNCHANGED <<forge, session, shutdown, active, again, loop>>
    /\ \/ Succeeds /\ Goto(w, "rotate") /\ UNCHANGED job
       \/ Succeeds /\ Goto(w, "idle") /\ UNCHANGED job
       \/ "review-only" \in labels[i] /\ Succeeds /\ Do(w, i, ClearSteps, FALSE, "rotate", "rotate")
       \/ ShouldCancel(i) /\ Succeeds /\ Do(w, i, CancelSteps(i), FALSE, "rotate", "rotate")
       \/ /\ ShouldCancel(i) /\ Fails
          /\ Do(w, i, <<"tryRelease", "unsession">>, FALSE, "rotate", "rotate")
       \/ Succeeds /\ LetGo(w, i, <<"closeMr", "unprogress", "askHuman", "unsession", "release">>,
                            "poll", "idle")

Rotate(w) ==
    /\ pc[w] = "rotate"
    /\ Succeeds /\ Collect(w, "rotate")
    /\ UNCHANGED <<forge, session, shutdown, active, again, job>>

-----------------------------------------------------------------------------
(* poll_for_work: list the issues, screen them as listed, claim the first  *)
(* that can be.  The listed issues may be parked, or also taken.           *)

Poll(w) ==
    /\ pc[w] = "poll"
    /\ UNCHANGED <<forge, session, shutdown, active, again, job>>
    /\ \/ shutdown[w] /\ Succeeds /\ Goto(w, "idle") /\ UNCHANGED loop
       \/ ~shutdown[w] /\ Fails /\ Goto(w, "idle") /\ UNCHANGED loop
       \/ /\ ~shutdown[w] /\ Succeeds /\ Goto(w, "candidates")
          /\ LET parked == {i \in Issues : Eligible(i) /\ "waiting-on-issue" \in labels[i]}
                 free == {i \in Issues : Eligible(i) /\ claims[i] = {}}
             IN loop' = [loop EXCEPT ![w].todo = parked \union free, ![w].held = parked,
                                     ![w].taken = parked \ free]

EndPoll(w) ==
    /\ pc[w] = "candidates"
    /\ shutdown[w] \/ loop[w].todo = {}
    /\ Succeeds /\ Goto(w, "idle") /\ loop' = [loop EXCEPT ![w] = NoLoop]
    /\ UNCHANGED <<forge, session, shutdown, active, again, job>>

(* The dependency of a parked issue is not known to be closed; or it is,   *)
(* and the label goes if it can be removed.                                *)
CheckDependency(w) ==
    /\ pc[w] = "candidates" /\ ~shutdown[w]
    /\ UNCHANGED <<open, claims, older, mr, session, shutdown, active, again, job, pc>>
    /\ \E i \in loop[w].todo \intersect loop[w].held :
          \/ UNCHANGED labels /\ Succeeds /\ Visited(w, i)
          \/ /\ \/ Unlabel(i, "waiting-on-issue") /\ Succeeds
                \/ UNCHANGED labels /\ Fails
             /\ IF i \in loop[w].taken THEN Visited(w, i)
                ELSE loop' = [loop EXCEPT ![w].held = @ \ {i}]

(* Reserve the session, then the claim attempt's first look at the labels. *)
BeginClaim(w) ==
    /\ pc[w] = "candidates" /\ ~shutdown[w]
    /\ UNCHANGED <<forge, shutdown, active, again>>
    /\ \E i \in loop[w].todo \ loop[w].held :
          /\ \/ /\ Succeeds /\ session' = [session EXCEPT ![w][i] = TRUE]
                /\ IF claims[i] = {}
                   THEN /\ Goto(w, "labelling") /\ UNCHANGED job
                        /\ loop' = [loop EXCEPT ![w].todo = @ \ {i}, ![w].at = i]
                   ELSE Visited(w, i) /\ Do(w, i, <<"unsession">>, FALSE, "candidates", "candidates")
             \/ /\ Fails /\ Goto(w, "idle") /\ UNCHANGED job   \* the labels could not be read
                /\ session' = [session EXCEPT ![w][i] = TRUE]
                /\ loop' = [loop EXCEPT ![w] = NoLoop]
             \/ /\ Fails /\ UNCHANGED <<session, job>>          \* save_session failed: ignored
                /\ claims[i] = {} /\ Goto(w, "labelling")
                /\ loop' = [loop EXCEPT ![w].todo = @ \ {i}, ![w].at = i]

AddLabel(w) ==
    LET i == loop[w].at IN
    /\ pc[w] = "labelling"
    /\ UNCHANGED <<open, labels, mr, session, shutdown, active, again, job>>
    /\ \/ Succeeds /\ AddClaim(w, i) /\ Goto(w, "settling") /\ UNCHANGED loop
       \/ /\ Fails
          /\ AddClaim(w, i) \/ UNCHANGED <<claims, older>>
          /\ Goto(w, "idle") /\ loop' = [loop EXCEPT ![w] = NoLoop]

Visible(w, i) == w \in claims[i]                 \* mutant: any visible label wins
Wins(w, i) == older[i][w] = {}

(* The verdict: only the earliest label wins; with another label there the *)
(* attempt may always lose (Claim.tla, EarliestWins); errors and shutdown. *)
Settle(w) ==
    LET i == loop[w].at
        leave == loop' = [loop EXCEPT ![w] = NoLoop]
    IN
    /\ pc[w] = "settling"
    /\ UNCHANGED <<forge, session, shutdown, active, again>>
    /\ \/ Wins(w, i) /\ Succeeds /\ Goto(w, "won") /\ UNCHANGED <<loop, job>>
       \/ /\ claims[i] # {w} /\ Succeeds /\ UNCHANGED loop
          /\ Do(w, i, <<"release", "unsession">>, FALSE, "candidates", "idle")
       \/ /\ shutdown[w] /\ Succeeds /\ leave
          /\ Do(w, i, <<"release", "unsession">>, FALSE, "idle", "idle")
       \/ Fails /\ leave /\ Do(w, i, <<"release">>, FALSE, "idle", "idle")

Pinned(w, i) == active' = [active EXCEPT ![w] = [issue |-> i, mr |-> FALSE]]

(* Shutdown, revalidation, and preserve_issue_claim before the run starts. *)
Won(w) ==
    LET i == loop[w].at
        giveUp(next) == Do(w, i, <<"tryRelease", "unsession">>, FALSE, next, next)
    IN
    /\ pc[w] = "won"
    /\ UNCHANGED <<forge, session, shutdown>>
    /\ \/ /\ shutdown[w] /\ Succeeds /\ giveUp("idle")
          /\ loop' = [loop EXCEPT ![w] = NoLoop] /\ UNCHANGED <<active, again>>
       \/ /\ ~shutdown[w]
          /\ Fails \/ (~Eligible(i) /\ Succeeds)
          /\ giveUp("candidates") /\ UNCHANGED <<loop, active, again>>
       \/ /\ ~shutdown[w] /\ Eligible(i) /\ Succeeds /\ Goto(w, "start")
          /\ Pinned(w, i) /\ again' = [again EXCEPT ![w] = FALSE]
          /\ loop' = [loop EXCEPT ![w] = NoLoop] /\ UNCHANGED job

-----------------------------------------------------------------------------
(* run_implementation_cycle and finish_implementation.  The issue of the   *)
(* run is active from the start: nothing reads `active` before it ends.    *)

MakesMr(w) == active' = [active EXCEPT ![w].mr = TRUE]

(* stop_worker_issue_if_review_only ends the run without a merge request.  *)
StopForReview(w, i) ==
    /\ "review-only" \in labels[i] /\ Succeeds
    /\ Do(w, i, ClearSteps, FALSE, "unmade", "unmade")

StartRun(w) ==
    LET i == active[w].issue IN
    /\ pc[w] = "start"
    /\ UNCHANGED <<open, claims, older, mr, shutdown, again, loop>>
    /\ \/ StopForReview(w, i) /\ UNCHANGED <<labels, session, active>>
       \/ /\ "review-only" \notin labels[i] /\ mr[i] = "open"
          /\ MakesMr(w) /\ UNCHANGED job
          /\ \/ /\ Succeeds /\ Goto(w, "track")
                /\ Label(i, "in-progress") /\ session' = [session EXCEPT ![w][i] = TRUE]
             \/ /\ Fails /\ Goto(w, "track")
                /\ UNCHANGED labels /\ session' = [session EXCEPT ![w][i] = TRUE]
             \/ /\ Fails /\ pc' \in {[pc EXCEPT ![w] = "track"], [pc EXCEPT ![w] = "failed"]}
                /\ Label(i, "in-progress") /\ UNCHANGED session
       \/ /\ "review-only" \notin labels[i] /\ mr[i] = "merged" /\ Succeeds
          /\ Do(w, i, <<"closeIssue", "unsession">>, FALSE, "unmade", "unmade")
          /\ UNCHANGED <<labels, session, active>>
       \/ /\ mr[i] \in {"none", "closed"} /\ "review-only" \notin labels[i] /\ Succeeds
          /\ Goto(w, "prepare") /\ UNCHANGED <<labels, session, active, job>>
       \/ /\ Fails                    \* the lookups fail: no merge request known
          /\ Goto(w, "prepare") /\ UNCHANGED <<labels, session, active, job>>

(* The branch is prepared and `in-progress` added, both required.          *)
Prepare(w) ==
    LET i == active[w].issue IN
    /\ pc[w] = "prepare"
    /\ UNCHANGED <<open, claims, older, mr, session, shutdown, active, again, loop>>
    /\ \/ StopForReview(w, i) /\ UNCHANGED labels
       \/ /\ "review-only" \notin labels[i] /\ Succeeds
          /\ Label(i, "in-progress") /\ Goto(w, "model") /\ UNCHANGED job
       \/ Fails /\ Goto(w, "failed") /\ UNCHANGED <<labels, job>>

(* The model run ends: implemented, an existing merge request, handed back *)
(* to humans, parked on a dependency, cancelled, or an error.              *)
Model(w) ==
    LET i == active[w].issue IN
    /\ pc[w] = "model"
    /\ UNCHANGED <<open, claims, older, mr, shutdown, again, loop>>
    /\ \/ /\ Succeeds /\ Goto(w, "publish")
          /\ UNCHANGED <<labels, session, active, job>>
       \/ /\ mr[i] = "open" /\ MakesMr(w) /\ UNCHANGED job
          /\ \/ /\ Succeeds /\ Goto(w, "track") /\ Label(i, "in-progress")
                /\ session' = [session EXCEPT ![w][i] = TRUE]
             \/ Fails /\ Goto(w, "failed") /\ UNCHANGED <<labels, session>>
       \/ /\ Succeeds /\ UNCHANGED <<labels, session, active>>
          /\ Do(w, i, <<"closeMr", "mustUnprogress", "askHuman">>, FALSE, "unmade", "failed")
       \/ /\ Succeeds /\ UNCHANGED <<labels, session, active>>
          /\ Do(w, i, <<"park", "unprogress", "release", "unsession">>, FALSE, "unmade", "failed")
       \/ /\ ShouldCancel(i) /\ Succeeds /\ UNCHANGED <<labels, session, active>>
          /\ Do(w, i, CancelSteps(i), FALSE, "unmade", "unmade")
       \/ /\ ShouldCancel(i) /\ Fails /\ UNCHANGED <<labels, session, active>>
          /\ Do(w, i, <<"tryRelease", "unsession">>, FALSE, "unmade", "unmade")
       \/ /\ Succeeds /\ Goto(w, "failed") /\ UNCHANGED <<labels, session, active, job>>

(* Push and create the merge request, then record it; all required.        *)
Publish(w) ==
    LET i == active[w].issue IN
    /\ pc[w] = "publish"
    /\ UNCHANGED <<open, labels, claims, older, shutdown, again, loop, job>>
    /\ \/ /\ mr[i] # "open" /\ mr' = [mr EXCEPT ![i] = "open"] /\ MakesMr(w)
          /\ \/ Succeeds /\ Goto(w, "track") /\ session' = [session EXCEPT ![w][i] = TRUE]
             \/ Fails /\ Goto(w, "failed") /\ UNCHANGED session
       \/ mr[i] = "open" /\ Succeeds /\ Goto(w, "failed") /\ UNCHANGED <<mr, session, active>>
       \/ Fails /\ Goto(w, "failed") /\ UNCHANGED <<mr, session, active>>

(* The merge request exists: track it unless the issue is review-only.     *)
Track(w) ==
    LET i == active[w].issue IN
    /\ pc[w] = "track"
    /\ UNCHANGED <<forge, session, shutdown, again, loop>>
    /\ \/ /\ "review-only" \in labels[i] /\ Succeeds
          /\ active' = [active EXCEPT ![w] = NoIssue]
          /\ Do(w, i, ClearSteps, FALSE, "idle", "idle")
       \/ /\ Fails \/ ("review-only" \notin labels[i] /\ Succeeds)
          /\ Goto(w, "idle") /\ UNCHANGED <<active, job>>

(* The run ended without a merge request: give the claim back.             *)
Unmade(w) ==
    /\ pc[w] = "unmade"
    /\ Succeeds /\ UNCHANGED <<forge, session, shutdown, active, again, loop>>
    /\ LetGo(w, active[w].issue, IF again[w] THEN <<"release", "unsession">> ELSE <<"release">>,
             "idle", "idle")

(* The run failed: keep everything for the restart, or give the claim back. *)
Failed(w) ==
    /\ pc[w] = "failed"
    /\ Succeeds /\ UNCHANGED <<forge, session, shutdown, active, again, loop>>
    /\ IF shutdown[w]
       THEN Goto(w, "idle") /\ UNCHANGED job
       ELSE LetGo(w, active[w].issue,
                  IF again[w] THEN ClearSteps ELSE <<"release", "unprogress">>, "idle", "idle")

-----------------------------------------------------------------------------
(* Processes and humans.                                                   *)

Forget(w) ==
    /\ Goto(w, "off")
    /\ active' = [active EXCEPT ![w] = NoIssue]
    /\ again' = [again EXCEPT ![w] = FALSE]
    /\ loop' = [loop EXCEPT ![w] = NoLoop]
    /\ job' = [job EXCEPT ![w] = NoJob]
    /\ shutdown' = [shutdown EXCEPT ![w] = FALSE]

(* AgentBuild: the session files and labels are resumed.                   *)
Start(w) ==
    /\ pc[w] = "off"
    /\ Succeeds /\ Collect(w, "startup")
    /\ UNCHANGED <<forge, session, shutdown, active, again, job>>

RequestShutdown(w) ==
    /\ pc[w] # "off" /\ ~shutdown[w] /\ stops < MaxStops
    /\ shutdown' = [shutdown EXCEPT ![w] = TRUE]
    /\ stops' = stops + 1 /\ UNCHANGED <<faults, kills, moves>>
    /\ UNCHANGED <<forge, session, pc, active, again, loop, job>>

(* cleanup_on_shutdown: the cycle is over, the session outlives the process. *)
ShutDown(w) ==
    /\ pc[w] = "idle" /\ shutdown[w] /\ Succeeds /\ UNCHANGED forge
    /\ session' = IF active[w] = NoIssue THEN session
                  ELSE [session EXCEPT ![w][active[w].issue] = TRUE]
    /\ Forget(w)

Kill(w) ==
    /\ pc[w] # "off" /\ kills < MaxKills
    /\ ContestKills \/ (\A i \in Issues : w \in claims[i] => claims[i] = {w})
    /\ kills' = kills + 1 /\ UNCHANGED <<forge, session, faults, stops, moves>>
    /\ Forget(w)

HumanMove == moves < MaxMoves /\ moves' = moves + 1 /\ UNCHANGED <<faults, stops, kills>>

Local == <<session, shutdown, pc, active, again, loop, job>>

Close(i) ==
    /\ open[i] /\ HumanMove
    /\ open' = [open EXCEPT ![i] = FALSE]
    /\ UNCHANGED <<labels, claims, older, mr, Local>>

Relabel(i, l) ==
    /\ HumanMove
    /\ IF l \in labels[i] THEN Unlabel(i, l) ELSE Label(i, l)
    /\ UNCHANGED <<open, claims, older, mr, Local>>

(* Another human, or the reviewer agent, merges or closes the request.     *)
EndMr(i, s) ==
    /\ mr[i] = "open" /\ HumanMove
    /\ mr' = [mr EXCEPT ![i] = s]
    /\ UNCHANGED <<open, labels, claims, older, Local>>

-----------------------------------------------------------------------------
Cycle(w) ==
    \/ BeginCycle(w) \/ CheckHold(w) \/ ReattemptUnread(w) \/ WatchMr(w)
    \/ Feedback(w) \/ Rotate(w) \/ Poll(w) \/ EndPoll(w) \/ CheckDependency(w)
    \/ BeginClaim(w) \/ AddLabel(w) \/ Settle(w) \/ Won(w)
    \/ StartRun(w) \/ Prepare(w) \/ Model(w) \/ Publish(w) \/ Track(w)
    \/ Unmade(w) \/ Failed(w) \/ JobStep(w)
    \/ CheckSession(w) \/ ListClaims(w) \/ CheckClaim(w) \/ EndSweep(w) \/ ResumeCheck(w)
    \/ Start(w) \/ ShutDown(w)

Humans ==
    \E i \in Issues :
        \/ Close(i)
        \/ \E l \in HumanLabels : Relabel(i, l)
        \/ \E s \in {"merged", "closed"} : EndMr(i, s)

Next ==
    \/ \E w \in Workers : Cycle(w) \/ RequestShutdown(w) \/ Kill(w)
    \/ Humans

Spec == Init /\ [][Next]_vars
FairSpec == Spec /\ \A w \in Workers : WF_vars(Cycle(w))

-----------------------------------------------------------------------------
TypeOK ==
    /\ open \in [Issues -> BOOLEAN]
    /\ labels \in [Issues -> SUBSET Labels]
    /\ claims \in [Issues -> SUBSET Workers]
    /\ older \in [Issues -> [Workers -> SUBSET Workers]]
    /\ mr \in [Issues -> {"none", "open", "merged", "closed"}]
    /\ session \in [Workers -> [Issues -> BOOLEAN]]
    /\ shutdown \in [Workers -> BOOLEAN]
    /\ pc \in [Workers -> PCs]
    /\ active \in [Workers -> [issue : Issues \union {0}, mr : BOOLEAN]]
    /\ again \in [Workers -> BOOLEAN]
    /\ loop \in [Workers -> [todo : SUBSET Issues, held : SUBSET Issues, taken : SUBSET Issues,
                             found : SUBSET [issue : Issues, mr : BOOLEAN],
                             why : {"none", "startup", "recover", "rotate"},
                             at : Issues \union {0}]]
    /\ job \in [Workers -> [issue : Issues \union {0}, do : Seq(Steps), forget : BOOLEAN,
                            next : PCs, else : PCs]]
    /\ \A w \in Workers :
          /\ pc[w] \in RunPCs \union {"mr", "track", "resume", "rotate", "unmade", "failed"}
                => active[w].issue \in Issues
          /\ pc[w] \in ClaimPCs => loop[w].at \in Issues
          /\ pc[w] = "job" => job[w].issue \in Issues /\ job[w].do # <<>>
    /\ faults \in 0..MaxFaults /\ stops \in 0..MaxStops
    /\ kills \in 0..MaxKills /\ moves \in 0..MaxMoves

WorksOn(w, i) == pc[w] \in RunPCs /\ active[w].issue = i

(* Two workers never run a model on the same issue, in an implementation   *)
(* or in the feedback of its merge request, while no call fails and nobody *)
(* is killed with a contested label: the labels of claim.rs keep them      *)
(* apart through releases, restarts and recovered sessions.                *)
OneWorker ==
    \A i \in Issues, v, w \in Workers : WorksOn(v, i) /\ WorksOn(w, i) => v = w

(* Without failing calls, what a worker tracks and works on carries its    *)
(* claim label, though nothing re-reads the label once `active` is set.    *)
ActiveIsClaimed ==
    /\ TypeOK
    /\ \A w \in Workers, i \in Issues :
        active[w].issue = i /\ pc[w] \in RunPCs \union {"idle", "poll", "mr", "track"}
            => w \in claims[i]

(* Without failing calls and kills, an open issue marked in-progress (which *)
(* every worker skips) is claimed, or a routine is about to unmark it.     *)
InProgressIsHeld ==
    kills = 0 /\ faults = 0 => \A i \in Issues :
        open[i] /\ "in-progress" \in labels[i] /\ claims[i] = {}
            => \E w \in Workers :
                  /\ pc[w] = "job" /\ job[w].issue = i
                  /\ \E k \in DOMAIN job[w].do : job[w].do[k] \in {"unprogress", "mustUnprogress"}

(* A claim is never orphaned: a worker's label on an open issue ends up    *)
(* with the worker tracking the issue again, or with the label removed,    *)
(* whatever failed or was killed in between (the per-cycle sweep).         *)
ClaimsAreRecovered ==
    \A w \in Workers, i \in Issues :
        (open[i] /\ w \in claims[i])
            ~> (~open[i] \/ w \notin claims[i] \/ active[w].issue = i)

(* No issue freezes: one that all workers skip because of in-progress, with *)
(* no claim on it that anybody could recover, does not stay that way.      *)
NothingFreezes ==
    \A i \in Issues :
        (open[i] /\ "in-progress" \in labels[i] /\ claims[i] = {})
            ~> ~(open[i] /\ "in-progress" \in labels[i] /\ claims[i] = {})

(* A worker that gets to look at its sessions takes the merge request of a *)
(* closed issue down with it, however often it is killed on the way.       *)
ClosedTakesMrDown ==
    \A w \in Workers, i \in Issues :
        []<>(pc[w] = "sessions")
            => ((session[w][i] /\ ~open[i] /\ mr[i] = "open") ~> mr[i] # "open")

(* "Every own session is gate-checked in turn" (rotate_watch_past): once    *)
(* the worker claims no further issues, rotation wraps and skips no claimed *)
(* merge request, whatever is merged or closed meanwhile.                  *)
WatchGoesRound ==
    \A w \in Workers, i \in Issues :
        ([]<>(pc[w] = "rotate") /\ <>[](w \in claims[i] /\ mr[i] = "open")
           /\ <>[](pc[w] # "labelling"))
            => []<>(pc[w] = "feedback" /\ active[w].issue = i)
=============================================================================
