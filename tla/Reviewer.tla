------------------------------ MODULE Reviewer ------------------------------
(***************************************************************************)
(* The reviewer's cycle (src/agents/reviewer.rs): recover or release a     *)
(* held claim, list the merge requests, claim the first that may be        *)
(* reviewed, run the review, act on its decision, release the claim.  The  *)
(* contest for a claim is Claim.tla; here it is one step, which may leave  *)
(* a label behind.  The order of the candidates is left open.              *)
(***************************************************************************)
EXTENDS Naturals

CONSTANTS
    Reviewers,
    Mrs, NoMr,
    Mergers,             \* those with merge_when_approved in their section
    MaxFaults,           \* bound on failing forge calls and model runs
    MaxKills,            \* bound on processes that stop
    MaxMoves             \* bound on what humans and workers do

ConstantsOK ==
    /\ NoMr \notin Mrs
    /\ Mergers \subseteq Reviewers
    /\ {MaxFaults, MaxKills, MaxMoves} \subseteq Nat

VARIABLES
    mr,       \* [Mrs -> the merge request on the forge]
    rev,      \* [Reviewers -> the process: pc, lease, origin of the lease,
              \*  cand: the listed merge requests left to screen, subject]
    posted,   \* [Reviewers -> merge requests with a discussion of this
              \*  process that is still unresolved]
    givenUp,  \* reviewers whose model endpoint was given up on
    rfaults, rkills, rmoves

vars == <<mr, rev, posted, givenUp, rfaults, rkills, rmoves>>

Working == {"review", "link", "model", "post", "approve", "merge", "label"}

TypeOK ==
    /\ mr \in [Mrs -> [state : {"opened", "merged", "closed"}, claims : SUBSET Reviewers,
                       labels : SUBSET {"reviewer-approved", "not-for-ai"},
                       threads : BOOLEAN, linked : BOOLEAN, issues : 0 .. 2]]   \* 2: two or more
    /\ rev \in [Reviewers ->
                 [pc : {"off", "idle", "resume", "drop", "pick", "acquire", "release"} \cup Working,
                  lease : Mrs \cup {NoMr}, origin : {"none", "build", "scan", "won"},
                  cand : SUBSET Mrs, ours : SUBSET Mrs, subject : Mrs \cup {NoMr},
                  linked : BOOLEAN]]
    /\ posted \in [Reviewers -> SUBSET Mrs]
    /\ givenUp \subseteq Reviewers
    /\ <<rfaults, rkills, rmoves>> \in (0 .. MaxFaults) \X (0 .. MaxKills) \X (0 .. MaxMoves)

Idle == [pc |-> "idle", lease |-> NoMr, origin |-> "none", cand |-> {}, ours |-> {},
         subject |-> NoMr, linked |-> FALSE]

Init ==
    /\ mr = [m \in Mrs |-> [state |-> "opened", claims |-> {}, labels |-> {},
                            threads |-> FALSE, linked |-> FALSE, issues |-> 0]]
    /\ rev = [r \in Reviewers |-> Idle]
    /\ posted = [r \in Reviewers |-> {}]
    /\ givenUp = {}
    /\ rfaults = 0 /\ rkills = 0 /\ rmoves = 0
-----------------------------------------------------------------------------
Fault == rfaults < MaxFaults /\ rfaults' = rfaults + 1 /\ UNCHANGED <<givenUp, rkills, rmoves>>
NoFault == UNCHANGED <<givenUp, rfaults, rkills, rmoves>>
At(r, pc) == rev[r].pc = pc
Now(r, pc) == rev' = [rev EXCEPT ![r].pc = pc]
Holds(r) == rev[r].lease

(* Mutant: a claim is taken up again although another one is beside it.    *)
RecoversAny(r, m) == mr[m].state = "opened" /\ r \in mr[m].claims

(* find_claimed_mr and ClaimLease::recover: the open merge requests whose  *)
(* one claim label is r's.                                                 *)
Recovers(r, m) == mr[m].state = "opened" /\ mr[m].claims = {r}
Found(r) == {m \in Mrs : Recovers(r, m)}

(* A lease found on the forge, or none when there is none or the listing   *)
(* fails.                                                                  *)
Scan(r, origin, found, none) ==
    \/ /\ \E m \in Found(r) :
            rev' = [rev EXCEPT ![r] = [Idle EXCEPT !.pc = found, !.lease = m, !.origin = origin]]
       /\ NoFault
    \/ /\ rev' = [rev EXCEPT ![r] = [Idle EXCEPT !.pc = none]]
       /\ IF Found(r) = {} THEN NoFault ELSE Fault

(* ReviewerAgent::build.                                                   *)
Start(r) ==
    /\ At(r, "off")
    /\ Scan(r, "build", "idle", "idle")
    /\ UNCHANGED <<mr, posted>>

(* The cycle starts only with a working endpoint.  recover_claim: only a   *)
(* process without a lease looks for one, and only what it finds here is   *)
(* resumable.                                                              *)
Recover(r) ==
    /\ At(r, "idle") /\ r \notin givenUp
    /\ \/ Holds(r) = NoMr /\ Scan(r, "scan", "resume", "drop")
       \/ Holds(r) # NoMr /\ Now(r, "drop") /\ NoFault
    /\ UNCHANGED <<mr, posted>>

(* resume_held_claim; a merge request that cannot be observed, or is not   *)
(* for review any more, has its claim released.                            *)
ResumeHeld(r) ==
    LET m == Holds(r)
    IN /\ At(r, "resume")
       /\ \/ /\ mr[m].state = "opened" /\ "not-for-ai" \notin mr[m].labels
             /\ rev' = [rev EXCEPT ![r].pc = "review", ![r].subject = m,
                                   ![r].linked = mr[m].linked]
             /\ NoFault
          \/ /\ mr[m].state # "opened" \/ "not-for-ai" \in mr[m].labels
             /\ Now(r, "drop") /\ NoFault
          \/ Now(r, "drop") /\ Fault
       /\ UNCHANGED <<mr, posted>>

Skipped(m) == mr[m].state # "opened" \/ mr[m].labels # {}

(* Mutant: a merge request with any claim is somebody's.                   *)
NeverOurs(r) == {}

(* decide_candidate, on every merge request of the listing.                *)
Ours(r) == {m \in Mrs : r \in mr[m].claims}
Listed(r) ==
    LET cand == {m \in Mrs : ~Skipped(m) /\ (m \in Ours(r) \/ mr[m].claims = {})}
    IN [Idle EXCEPT !.pc = IF cand = {} THEN "idle" ELSE "pick",
                    !.cand = cand, !.ours = cand \cap Ours(r)]

(* try_release_held_claim, then the list of merge requests; a release that *)
(* fails keeps the lease and ends the cycle.                               *)
DropAndList(r) ==
    /\ At(r, "drop")
    /\ \/ Holds(r) = NoMr /\ rev' = [rev EXCEPT ![r] = Listed(r)] /\ NoFault /\ UNCHANGED mr
       \/ /\ Holds(r) # NoMr
          /\ mr' = [mr EXCEPT ![Holds(r)].claims = @ \ {r}]
          /\ rev' = [rev EXCEPT ![r] = [Idle EXCEPT !.pc = "drop"]]
          /\ NoFault
       \/ Holds(r) # NoMr /\ Now(r, "idle") /\ Fault /\ UNCHANGED mr
    /\ UNCHANGED posted

(* The next candidate, or the end of the cycle.                            *)
Pass(r, m) ==
    rev' = [rev EXCEPT ![r].cand = @ \ {m}, ![r].subject = NoMr,
                       ![r].pc = IF rev[r].cand = {m} THEN "idle" ELSE "pick",
                       ![r].ours = IF rev[r].cand = {m} THEN {} ELSE @]

(* The label of ours that the listing showed is released first; it stays   *)
(* when that fails.  Unresolved discussions, or none readable: next one.   *)
Screen(r, m) ==
    /\ At(r, "pick") /\ m \in rev[r].cand
    /\ \/ /\ m \in rev[r].ours
          /\ rev' = [rev EXCEPT ![r].ours = @ \ {m}]
          /\ \/ mr' = [mr EXCEPT ![m].claims = @ \ {r}] /\ NoFault
             \/ Fault /\ UNCHANGED mr
       \/ /\ m \notin rev[r].ours
          /\ \/ /\ ~mr[m].threads
                /\ rev' = [rev EXCEPT ![r].pc = "acquire", ![r].subject = m,
                                      ![r].linked = mr[m].linked]
                /\ NoFault
             \/ mr[m].threads /\ Pass(r, m) /\ NoFault
             \/ ~mr[m].threads /\ Pass(r, m) /\ Fault
          /\ UNCHANGED mr
    /\ UNCHANGED posted

(* claim::acquire: won, lost, or given up with the label left behind.  The *)
(* claim is taken on what the listing showed: nothing asks again whether   *)
(* the merge request is open.                                              *)
Acquire(r) ==
    LET m == rev[r].subject
    IN /\ At(r, "acquire")
       /\ \/ /\ mr[m].claims \subseteq {r}
             /\ mr' = [mr EXCEPT ![m].claims = {r}]
             /\ rev' = [rev EXCEPT ![r] = [Idle EXCEPT !.pc = "review", !.lease = m,
                            !.origin = "won", !.subject = m, !.linked = rev[r].linked]]
             /\ NoFault
          \/ ~(mr[m].claims \subseteq {r}) /\ Pass(r, m) /\ NoFault /\ UNCHANGED mr
          \/ mr' = [mr EXCEPT ![m].claims = @ \cup {r}] /\ Pass(r, m) /\ Fault
       /\ UNCHANGED posted
-----------------------------------------------------------------------------
(* review_claimed_merge_request up to the model: an unfit title or a       *)
(* conflict is handed back; without a linked issue one is created, or the  *)
(* author is asked for it.                                                 *)
Review(r) ==
    /\ At(r, "review")
    /\ \/ Now(r, "post") /\ NoFault /\ UNCHANGED mr
       \/ rev[r].linked /\ Now(r, "model") /\ NoFault /\ UNCHANGED mr
       \/ /\ ~rev[r].linked
          /\ mr' = [mr EXCEPT ![rev[r].subject].issues = IF @ = 2 THEN 2 ELSE @ + 1]
          /\ Now(r, "link") /\ NoFault
       \/ Now(r, "release") /\ Fault /\ UNCHANGED mr
    /\ UNCHANGED posted

(* link_created_issue: best effort.                                        *)
Link(r) ==
    /\ At(r, "link")
    /\ Now(r, "model")
    /\ \/ mr' = [mr EXCEPT ![rev[r].subject].linked = TRUE] /\ NoFault
       \/ Fault /\ UNCHANGED mr
    /\ UNCHANGED posted

(* A run fails fast once the endpoint was given up on.                     *)
Model(r) ==
    /\ At(r, "model")
    /\ \/ Now(r, "post") /\ NoFault
       \/ Now(r, "approve") /\ NoFault
       \/ Now(r, "release") /\ Fault
       \/ r \in givenUp /\ Now(r, "release") /\ NoFault
    /\ UNCHANGED <<mr, posted>>

Post(r) ==
    /\ At(r, "post")
    /\ Now(r, "release")
    /\ \/ /\ mr' = [mr EXCEPT ![rev[r].subject].threads = TRUE]
          /\ posted' = [posted EXCEPT ![r] = @ \cup {rev[r].subject}]
          /\ NoFault
       \/ Fault /\ UNCHANGED <<mr, posted>>

(* plan_approval on the discussions as they are now.                       *)
Approve(r) ==
    /\ At(r, "approve")
    /\ \/ mr[rev[r].subject].threads /\ Now(r, "release") /\ NoFault
       \/ /\ ~mr[rev[r].subject].threads
          /\ Now(r, IF r \in Mergers THEN "merge" ELSE "label") /\ NoFault
       \/ ~mr[rev[r].subject].threads /\ Now(r, "release") /\ Fault
    /\ UNCHANGED <<mr, posted>>

Merge(r) ==
    /\ At(r, "merge")
    /\ \/ /\ mr[rev[r].subject].state = "opened"
          /\ mr' = [mr EXCEPT ![rev[r].subject].state = "merged"]
          /\ Now(r, "release") /\ NoFault
       \/ mr[rev[r].subject].state # "opened" /\ Now(r, "post") /\ NoFault /\ UNCHANGED mr
       \/ Now(r, "post") /\ Fault /\ UNCHANGED mr
    /\ UNCHANGED posted

Label(r) ==
    /\ At(r, "label")
    /\ Now(r, "release")
    /\ \/ mr' = [mr EXCEPT ![rev[r].subject].labels = @ \cup {"reviewer-approved"}] /\ NoFault
       \/ Fault /\ UNCHANGED mr
    /\ UNCHANGED posted

(* release_claimed_mr: a release that fails keeps the lease.               *)
Unreleased(r) == [Idle EXCEPT !.lease = Holds(r), !.origin = rev[r].origin]

Release(r) ==
    /\ At(r, "release")
    /\ \/ /\ mr' = [mr EXCEPT ![Holds(r)].claims = @ \ {r}]
          /\ rev' = [rev EXCEPT ![r] = Idle]
          /\ NoFault
       \/ rev' = [rev EXCEPT ![r] = Unreleased(r)] /\ Fault /\ UNCHANGED mr
    /\ UNCHANGED posted

(* The retries of some agent on r's endpoint ran out.                      *)
GivesUp(r) ==
    /\ rev[r].pc # "off" /\ r \notin givenUp
    /\ givenUp' = givenUp \cup {r}
    /\ UNCHANGED <<mr, rev, posted, rfaults, rkills, rmoves>>

(* A crash, which may leave the label of an open contest, or on_shutdown,  *)
(* which preserves the claim.  A new process tries the endpoint again; one *)
(* that only restarts the agent does not.                                  *)
Kill(r) ==
    /\ rkills < MaxKills /\ rev[r].pc # "off"
    /\ rev' = [rev EXCEPT ![r] = [Idle EXCEPT !.pc = "off"]]
    /\ posted' = [posted EXCEPT ![r] = {}]
    /\ rkills' = rkills + 1
    /\ givenUp' \in {givenUp, givenUp \ {r}}
    /\ UNCHANGED mr \/ (At(r, "acquire") /\ mr' = [mr EXCEPT ![rev[r].subject].claims = @ \cup {r}])
    /\ UNCHANGED <<rfaults, rmoves>>

(* Humans and workers: open a discussion, resolve them all, take the merge *)
(* request from the reviewers, close it.                                   *)
Move(m) ==
    /\ rmoves < MaxMoves /\ mr[m].state = "opened"
    /\ \/ ~mr[m].threads /\ mr' = [mr EXCEPT ![m].threads = TRUE] /\ UNCHANGED posted
       \/ /\ mr[m].threads /\ mr' = [mr EXCEPT ![m].threads = FALSE]
          /\ posted' = [r \in Reviewers |-> posted[r] \ {m}]
       \/ mr' = [mr EXCEPT ![m].labels = @ \cup {"not-for-ai"}] /\ UNCHANGED posted
       \/ mr' = [mr EXCEPT ![m].state = "closed"] /\ UNCHANGED posted
    /\ rmoves' = rmoves + 1
    /\ UNCHANGED <<rev, givenUp, rfaults, rkills>>

Step(r) ==
    \/ Start(r) \/ Recover(r) \/ ResumeHeld(r) \/ DropAndList(r)
    \/ (\E m \in Mrs : Screen(r, m))
    \/ Acquire(r) \/ Review(r) \/ Link(r) \/ Model(r) \/ Post(r) \/ Approve(r)
    \/ Merge(r) \/ Label(r) \/ Release(r)

Next == (\E r \in Reviewers : Step(r) \/ GivesUp(r) \/ Kill(r)) \/ (\E m \in Mrs : Move(m))

Spec == Init /\ [][Next]_vars

(* The poll comes again and a stopped process is started again.            *)
FairSpec == Spec /\ \A r \in Reviewers : WF_vars(Step(r))
-----------------------------------------------------------------------------
(* Two reviewers never work on one merge request, whatever labels failed   *)
(* contests and stopped processes have left on it (ClaimLease::recover     *)
(* takes only a sole claim).                                               *)
OneReviewer ==
    \A m \in Mrs, r, q \in Reviewers :
        rev[r].pc \in Working /\ rev[q].pc \in Working
            /\ rev[r].subject = m /\ rev[q].subject = m => r = q

(* A process does not review a merge request again while its own           *)
(* discussion there is unresolved: a claim kept because its release failed *)
(* is released, never resumed.                                             *)
NoSecondOpinion == \A r \in Reviewers : rev[r].pc = "model" => rev[r].subject \notin posted[r]

(* Both, in one invariant: reviews exclude each other and are not repeated *)
(* over the heads of open discussions, whichever claims are left behind.   *)
OneReviewAtATime == TypeOK /\ OneReviewer /\ NoSecondOpinion

(* The created issue is linked "so the next review round finds this issue  *)
(* instead of creating a duplicate" (reviewer.rs): a merge request gets    *)
(* one.  A reviewer that listed before the link still creates another.     *)
OneIssuePerMr == \A m \in Mrs : mr[m].issues <= 1

(* A claim on a merge request that may be reviewed is released in the end, *)
(* also one that a failed contest, a failed release or a stop left; only a *)
(* reviewer that idles because its endpoint was given up on may keep it.   *)
LeftoversGo ==
    \A m \in Mrs : mr[m].claims # {} ~>
        (mr[m].claims \subseteq givenUp \/ Skipped(m))

(* "A claim recovered after a restart is resumed in place - never released *)
(* just to re-enter the candidate race - unless the MR can no longer be    *)
(* reviewed" (reviewer.rs).  The one that build found is not resumable.    *)
ResumesInPlace ==
    [][\A r \in Reviewers :
        rev[r].origin = "build" /\ At(r, "drop") /\ rev'[r].lease = NoMr
            => rev'[r].pc = "off" \/ mr[Holds(r)].state # "opened"
               \/ "not-for-ai" \in mr[Holds(r)].labels]_vars
=============================================================================
