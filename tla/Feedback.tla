------------------------------ MODULE Feedback ------------------------------
(***************************************************************************)
(* The feedback flow of a worker on one merge request (handle_mr_comments  *)
(* and run_feedback_tail, src/agents/worker.rs): it reads the discussions, *)
(* decides whether a run is warranted, lets the model work while it        *)
(* injects new replies, finishes the git work, answers, and records the    *)
(* newest comment id it has seen.  Reviewers comment and the target branch *)
(* moves between any two of its calls; calls fail, and it may be killed.   *)
(***************************************************************************)
EXTENDS Naturals, Sequences, FiniteSets

CONSTANTS
    MaxComments,   \* bound on the reviewers' comments
    MaxNotes,      \* bound on all comments, the worker's replies included
    MaxMoves,      \* bound on conflicting commits on the target branch
    MaxFaults,     \* bound on failing calls and failing model runs
    MaxKills       \* bound on killed processes

ASSUME FeedbackConstants ==
    {MaxComments, MaxNotes, MaxMoves, MaxFaults, MaxKills} \subseteq Nat

VARIABLES
    notes,     \* the comments of the merge request, a note's id its index
    open,      \* the unresolved discussions, each known by its first note
    moves,     \* conflicting commits on the target branch
    clash,     \* does the pushed source branch conflict with the target?
    reported,  \* has_conflicts, which the forge computes some time later
    saved,     \* MrFeedbackState.last_comment_id on disk
    pc,        \* where handle_mr_comments stands
    run,       \* what the run has read, done and still has to do
    shown,     \* the notes the latest run put before the model
    handled,   \* the notes a run was shown that went on to answer
    missed,    \* the notes such a run was begun without and never shown
    record,    \* what the latest run recorded: what it read, a stale id or none
    faults, kills

mrVars == <<notes, open, moves, clash, reported>>
history == <<shown, handled, missed, record>>
vars == <<notes, open, moves, clash, reported, saved, pc, run, shown, handled,
          missed, record, faults, kills>>

Ids == 1..MaxNotes
NoRun == [ids |-> {}, conflict |-> FALSE, unread |-> {}, cursor |-> 0,
          requires |-> FALSE, base |-> 0, stuck |-> FALSE, changed |-> FALSE,
          pushed |-> FALSE, todo |-> {}, resolvable |-> {}]

TypeOK ==
    /\ notes \in Seq([root: Ids, plain: BOOLEAN, human: BOOLEAN, early: BOOLEAN])
    /\ Len(notes) <= MaxNotes
    /\ \A i \in DOMAIN notes : LET r == notes[i].root
         IN r <= i /\ notes[r].root = r /\ notes[r].plain = notes[i].plain
    /\ open \subseteq {notes[i].root : i \in {j \in DOMAIN notes : ~notes[j].plain}}
    /\ moves \in 0..MaxMoves
    /\ {clash, reported} \subseteq BOOLEAN
    /\ saved \in 0..Len(notes)
    /\ pc \in {"idle", "threads", "comments", "prepare", "model", "tail", "surface",
               "reply", "record", "gone"}
    /\ run \in [ids: SUBSET Ids, conflict: BOOLEAN, unread: SUBSET Ids,
                cursor: 0..MaxNotes, requires: BOOLEAN, base: 0..MaxMoves,
                stuck: BOOLEAN, changed: BOOLEAN, pushed: BOOLEAN,
                todo: SUBSET Ids, resolvable: SUBSET Ids]
    /\ {shown, handled} \subseteq SUBSET DOMAIN notes
    /\ missed \subseteq Ids
    /\ record \in {"done", "stale", "none"}

Init ==
    /\ notes = <<>>
    /\ open = {}
    /\ moves = 0
    /\ clash = FALSE /\ reported = FALSE
    /\ saved = 0
    /\ pc = "idle"
    /\ run = NoRun
    /\ shown = {} /\ handled = {} /\ missed = {}
    /\ record = "done"
    /\ faults = 0
    /\ kills = 0

Fault == faults < MaxFaults /\ faults' = faults + 1

(* The run is over without a record: by `?`, an early return or a kill. *)
GiveUp ==
    /\ pc' = "idle"
    /\ run' = NoRun
    /\ UNCHANGED <<mrVars, saved, history>>
----------------------------------------------------------------------------
(* Reviewers, the target branch and the forge. *)
Humans == {i \in DOMAIN notes : notes[i].human}
Post(root, plain) ==
    /\ Cardinality(Humans) < MaxComments
    /\ Len(notes) + Cardinality(run.todo) < MaxNotes
    /\ notes' = Append(notes, [root |-> root, plain |-> plain, human |-> TRUE,
                               early |-> pc = "idle"])

CommentPlainly ==
    /\ Post(Len(notes) + 1, TRUE)
    /\ UNCHANGED open

OpenThread ==
    /\ Post(Len(notes) + 1, FALSE)
    /\ open' = open \union {Len(notes) + 1}

ReplyInThread ==
    /\ \E r \in open : Post(r, FALSE)
    /\ UNCHANGED open

Review ==
    /\ pc # "gone"
    /\ CommentPlainly \/ OpenThread \/ ReplyInThread
    /\ UNCHANGED <<moves, clash, reported, saved, pc, run, history, faults, kills>>

TargetMoves ==
    /\ moves < MaxMoves
    /\ moves' = moves + 1
    /\ clash' = TRUE
    /\ UNCHANGED <<notes, open, reported, saved, pc, run, history, faults, kills>>

Report ==
    /\ reported # clash
    /\ reported' = clash
    /\ UNCHANGED <<notes, open, moves, clash, saved, pc, run, history, faults, kills>>
----------------------------------------------------------------------------
(* The merge request, then its unresolved discussions, then its comments.  *)
ReadMr ==
    /\ pc = "idle"
    /\ run' = [NoRun EXCEPT !.conflict = reported]
    /\ pc' = "threads"
    /\ UNCHANGED <<mrVars, saved, history, faults, kills>>

ReadThreads ==
    /\ pc = "threads"
    /\ run' = [run EXCEPT !.ids = open]
    /\ pc' = "comments"
    /\ UNCHANGED <<mrVars, saved, history, faults, kills>>

(* get_mr_comments turns a failing fetch into an empty list. *)
Fetch(seen) ==
    \/ seen = DOMAIN notes /\ UNCHANGED faults
    \/ seen = {} /\ Fault

(* Mutant: comments are not looked at. *)
NoCommentCounts(seen) == run.conflict \/ run.ids # {}

(* feedback_run_needed, after the early return that wants something to do. *)
Needed(seen) ==
    \/ run.conflict
    \/ run.ids # {}
    \/ /\ \E i \in seen : notes[i].plain
       /\ \E i \in seen : i > saved

BeginRun ==
    /\ pc = "comments"
    /\ \E seen \in {DOMAIN notes, {}} :
        /\ Fetch(seen)
        /\ Needed(seen)
        /\ run' = [run EXCEPT !.cursor = Cardinality(seen),
                              !.unread = DOMAIN notes \ seen]
        /\ shown' = seen
    /\ record' = "none"
    /\ pc' = "prepare"
    /\ UNCHANGED <<mrVars, saved, handled, missed, kills>>

Skip ==
    /\ pc = "comments"
    /\ \E seen \in {DOMAIN notes, {}} : Fetch(seen) /\ ~Needed(seen)
    /\ GiveUp
    /\ UNCHANGED kills

(* fetch, checkout and the local merge of the target *)
Prepare ==
    /\ pc = "prepare"
    /\ run' = [run EXCEPT !.requires = run.conflict \/ clash, !.base = moves]
    /\ pc' = "model"
    /\ UNCHANGED <<mrVars, saved, history, faults, kills>>

(* follow_up_poll: replies in the discussions being handled are injected,  *)
(* everything else only moves the cursor.                                  *)
PollFollowUps ==
    /\ pc = "model"
    /\ run.cursor < Len(notes)
    /\ shown' = shown \union {i \in run.cursor + 1..Len(notes) : notes[i].root \in run.ids}
    /\ run' = [run EXCEPT !.cursor = Len(notes)]
    /\ UNCHANGED <<mrVars, saved, pc, handled, missed, record, faults, kills>>

(* The model answers some of the discussions it was shown, and it may      *)
(* leave conflict markers in any run.  A run that merged a conflicting     *)
(* target has something to commit.                                         *)
ModelAddresses ==
    /\ pc = "model"
    /\ \E edits, stuck \in BOOLEAN,
          answers \in SUBSET {notes[i].root : i \in shown} :
        /\ Len(notes) + Cardinality(answers) <= MaxNotes
        /\ run' = [run EXCEPT !.stuck = stuck, !.todo = answers, !.cursor = 0,
                      !.changed = edits \/ (clash /\ run.requires /\ ~stuck)]
    /\ pc' = "tail"
    /\ UNCHANGED <<mrVars, saved, history, faults, kills>>

(* It cannot resolve the feedback: the merge request is closed. *)
CannotResolve ==
    /\ pc = "model"
    /\ pc' = "gone"
    /\ run' = NoRun
    /\ UNCHANGED <<mrVars, saved, history, faults, kills>>

(* Some call, git command or the model fails, or the run is cancelled. *)
RunFails ==
    /\ pc \notin {"idle", "gone", "reply"}
    /\ Fault
    /\ GiveUp
    /\ UNCHANGED kills

Kill ==
    /\ pc \notin {"idle", "gone"}
    /\ kills < MaxKills
    /\ kills' = kills + 1
    /\ GiveUp
    /\ UNCHANGED faults
----------------------------------------------------------------------------
(* The git half of run_feedback_tail, up to the push: a run that set out   *)
(* to resolve a conflict merges the target again if it has moved.          *)
StillConflicts == run.stuck \/ (run.requires /\ moves > run.base)

FinishGit ==
    /\ pc = "tail"
    /\ LET pushes == run.changed /\ ~StillConflicts
       IN /\ run' = [run EXCEPT !.pushed = pushes, !.stuck = StillConflicts]
          /\ clash' = IF pushes THEN moves > run.base ELSE clash
    /\ pc' = "surface"
    /\ UNCHANGED <<notes, open, moves, reported, saved, history, faults, kills>>

Withheld == run.requires /\ (run.stuck \/ reported)

(* Mutant: the replies are posted whatever became of the branch. *)
AnswerAnyway ==
    /\ pc = "surface"
    /\ run' = [NoRun EXCEPT !.resolvable = IF run.ids = {} THEN open ELSE run.ids,
                  !.todo = run.todo, !.changed = run.changed, !.pushed = run.pushed,
                  !.requires = run.requires, !.stuck = run.stuck]
    /\ handled' = handled \union shown
    /\ missed' = missed \union (run.unread \ shown)
    /\ pc' = "reply"
    /\ UNCHANGED <<mrVars, saved, shown, record, faults, kills>>

StartReplies ==
    /\ pc = "surface"
    /\ ~Withheld
    /\ run' = [NoRun EXCEPT !.resolvable = IF run.ids = {} THEN open ELSE run.ids,
                  !.todo = run.todo, !.changed = run.changed, !.pushed = run.pushed,
                  !.requires = run.requires, !.stuck = run.stuck]
    /\ handled' = handled \union shown
    /\ missed' = missed \union (run.unread \ shown)
    /\ pc' = "reply"
    /\ UNCHANGED <<mrVars, saved, shown, record, faults, kills>>

(* Mutant: a run that withheld its replies is recorded like any other. *)
RecordWithheld ==
    /\ pc = "surface"
    /\ Withheld
    /\ pc' = "record"
    /\ UNCHANGED <<run, mrVars, saved, history, faults, kills>>

HoldForRetry ==
    /\ pc = "surface"
    /\ Withheld
    /\ GiveUp
    /\ UNCHANGED <<faults, kills>>

PostReply(r) ==
    LET reply == [root |-> r, human |-> FALSE, early |-> FALSE,
                  plain |-> notes[r].plain]
    IN notes' = Append(notes, reply)

(* One reply, and with it the resolution if the model asked for it; both   *)
(* calls are best effort.                                                  *)
Answer ==
    /\ pc = "reply"
    /\ \E r \in run.todo :
        /\ \/ PostReply(r) /\ UNCHANGED faults
           \/ Fault /\ UNCHANGED notes
        /\ open' \in {open} \union {open \ {x} : x \in {r} \intersect run.resolvable}
        /\ run' = [run EXCEPT !.todo = @ \ {r}]
    /\ UNCHANGED <<moves, clash, reported, saved, pc, history, kills>>

RepliesDone ==
    /\ pc = "reply"
    /\ run.todo = {}
    /\ pc' = "record"
    /\ run' = NoRun
    /\ UNCHANGED <<mrVars, saved, history, faults, kills>>

(* Mutant: the newest comment the model was shown is recorded. *)
RecordShown ==
    /\ pc = "record"
    /\ saved' = CHOOSE m \in shown \union {0} : \A i \in shown : i <= m
    /\ record' = "done"
    /\ pc' = "idle"
    /\ run' = NoRun
    /\ UNCHANGED <<mrVars, shown, handled, missed, faults, kills>>

(* The comments are fetched again: the newest id includes the replies.  If *)
(* the fetch fails, the id of the record before is written once more.      *)
Record ==
    /\ pc = "record"
    /\ \E seen \in {DOMAIN notes, {}} :
        /\ Fetch(seen)
        /\ saved' = IF seen = {} THEN saved ELSE Len(notes)
        /\ record' = IF seen = DOMAIN notes THEN "done" ELSE "stale"
    /\ pc' = "idle"
    /\ run' = NoRun
    /\ UNCHANGED <<mrVars, shown, handled, missed, kills>>
----------------------------------------------------------------------------
WorkerStep ==
    \/ ReadMr
    \/ ReadThreads
    \/ BeginRun
    \/ Skip
    \/ Prepare
    \/ PollFollowUps
    \/ ModelAddresses
    \/ CannotResolve
    \/ FinishGit
    \/ StartReplies
    \/ HoldForRetry
    \/ Answer
    \/ RepliesDone
    \/ Record

Next ==
    \/ WorkerStep
    \/ Review
    \/ TargetMoves
    \/ Report
    \/ RunFails
    \/ Kill

Spec == Init /\ [][Next]_vars
FairSpec == Spec /\ WF_vars(WorkerStep)
----------------------------------------------------------------------------
(* What the record silences was handled: a comment that was there before a *)
(* run began is never below the saved id unless a run that answered was    *)
(* shown it, its discussion is still open and triggers anyway, or the      *)
(* fetch a run began with had failed.                                      *)
NothingEarlyIsLost ==
    /\ TypeOK
    /\ \A i \in Humans : notes[i].early /\ i <= saved =>
        i \in handled \/ notes[i].root \in open \/ i \in missed

(* The same without the failed fetch: "Only handled plain comments are     *)
(* gated".                                                                 *)
OnlyHandledIsGated ==
    \A i \in Humans : notes[i].early /\ i <= saved =>
        i \in handled \/ notes[i].root \in open

(* The same for every comment, whenever it was written: "a plain comment   *)
(* is handled once".                                                       *)
NothingIsLost ==
    \A i \in Humans : i <= saved => i \in handled \/ notes[i].root \in open

(* What a run changed has reached the source branch while replies are      *)
(* posted, unless conflict markers kept back a run that set out to resolve *)
(* no conflict.                                                            *)
RepliesFollowPush ==
    pc = "reply" /\ run.todo # {} /\ run.changed /\ ~run.pushed =>
        run.stuck /\ ~run.requires

(* No replies while the changes are not pushed: "answering the reviews now *)
(* would describe code that is not pushed".                                *)
RepliesDescribePushedCode ==
    pc = "reply" /\ run.todo # {} /\ run.changed => run.pushed

(* A run begins for somebody's comment, an open discussion, a conflict, or *)
(* because the latest run recorded nothing or could not read what to       *)
(* record: otherwise never for the worker's replies.                       *)
NoSelfTrigger ==
    [][BeginRun =>
        \/ record # "done"
        \/ run.ids # {}
        \/ run.conflict
        \/ \E i \in Humans : i > saved]_vars

(* After any run that answered, a run begins only for an open discussion,  *)
(* a conflict or an unhandled comment: "the run's own replies re-fetch     *)
(* into last_comment_id so they cannot re-trigger it".                     *)
HandledDoesNotTrigger ==
    [][BeginRun =>
        \/ record = "none"
        \/ run.ids # {}
        \/ run.conflict
        \/ \E i \in Humans \ handled : i > saved]_vars

(* A comment written between runs reaches the model, whatever else fails   *)
(* or is killed on the way, unless the merge request is abandoned first or *)
(* a run that could not fetch the comments went on to answer.              *)
EarlyIsShown ==
    \A i \in 1..MaxComments :
        (i \in Humans /\ notes[i].early) ~>
            (i \in shown \union handled \union missed \/ pc = "gone")
=============================================================================
