--------------------------- MODULE FeedbackProofs ---------------------------
(***************************************************************************)
(* Proofs about the feedback flow, for any number of comments, moves of    *)
(* the target branch, failures and kills.                                  *)
(***************************************************************************)
EXTENDS Feedback, FiniteSetTheorems, TLAPS

Note == [root: Ids, plain: BOOLEAN, human: BOOLEAN, early: BOOLEAN]
Runs == [ids: SUBSET Ids, conflict: BOOLEAN, unread: SUBSET Ids,
         cursor: 0..MaxNotes, requires: BOOLEAN, base: 0..MaxMoves,
         stuck: BOOLEAN, changed: BOOLEAN, pushed: BOOLEAN,
         todo: SUBSET Ids, resolvable: SUBSET Ids]

(* What TypeOK says of the merge request, and of the rest. *)
ThreadsOK ==
    /\ notes \in Seq(Note)
    /\ Len(notes) <= MaxNotes
    /\ \A i \in DOMAIN notes : LET r == notes[i].root
         IN r <= i /\ notes[r].root = r /\ notes[r].plain = notes[i].plain
    /\ open \subseteq {notes[i].root : i \in {j \in DOMAIN notes : ~notes[j].plain}}

RestOK ==
    /\ moves \in 0..MaxMoves
    /\ {clash, reported} \subseteq BOOLEAN
    /\ saved \in 0..Len(notes)
    /\ pc \in {"idle", "threads", "comments", "prepare", "model", "tail", "surface",
               "reply", "record", "gone"}
    /\ run \in Runs
    /\ {shown, handled} \subseteq SUBSET DOMAIN notes
    /\ missed \subseteq Ids
    /\ record \in {"done", "stale", "none"}

(* The replies that are still to be posted have a thread, and room.        *)
RoomForReplies ==
    /\ \A r \in run.todo : r \in DOMAIN notes /\ notes[r].root = r
    /\ Len(notes) + Cardinality(run.todo) <= MaxNotes

IInv == TypeOK /\ RoomForReplies

(* A comment that was there before the run began has been shown to the     *)
(* model by the time it works, and is handled when it goes on to answer,   *)
(* unless the fetch that the run began with had failed.                    *)
Early(i) == notes[i].human /\ notes[i].early
EarlyIsCarried ==
    /\ pc \in {"prepare", "model", "tail", "surface"} =>
         \A i \in DOMAIN notes : Early(i) => i \in shown \union run.unread
    /\ pc \in {"reply", "record"} =>
         \A i \in DOMAIN notes : Early(i) => i \in handled \union missed
    /\ \A i \in DOMAIN notes : Early(i) /\ i <= saved => i \in handled \union missed

(* Replies are posted before anything is recorded, and a record that could *)
(* be read covers all of them.                                             *)
RepliesAreRecorded ==
    /\ pc \in {"prepare", "model", "tail", "surface", "reply", "record"} => record = "none"
    /\ record = "done" => \A i \in DOMAIN notes : ~notes[i].human => i <= saved

(* What the worker changed is pushed unless the branch is stuck, and a run *)
(* that set out to resolve a conflict and is stuck does not answer.        *)
UnpushedIsStuck ==
    /\ pc = "surface" => (run.changed /\ ~run.pushed => run.stuck)
    /\ pc = "reply" => (run.changed /\ ~run.pushed => run.stuck /\ ~run.requires)
----------------------------------------------------------------------------
LEMMA Domains ==
  ASSUME ThreadsOK
  PROVE  /\ DOMAIN notes = 1..Len(notes)
         /\ Len(notes) \in Nat
         /\ \A i \in DOMAIN notes : notes[i] \in Note /\ notes[i].root \in DOMAIN notes
  <1>1. DOMAIN notes = 1..Len(notes) /\ Len(notes) \in Nat
    BY DEF ThreadsOK
  <1>2. ASSUME NEW i \in DOMAIN notes
        PROVE  notes[i] \in Note /\ notes[i].root \in DOMAIN notes
    <2>1. notes[i] \in Note
      BY <1>2 DEF ThreadsOK
    <2>2. notes[i].root \in 1..MaxNotes /\ MaxNotes \in Nat
      BY <2>1, FeedbackConstants DEF Note, Ids
    <2>3. notes[i].root <= i /\ i \in 1..Len(notes)
      BY <1>1, <1>2 DEF ThreadsOK
    <2> QED BY <1>1, <2>1, <2>2, <2>3
  <1> QED BY <1>1, <1>2

(* A new note starts a thread or joins one of its kind.                    *)
LEMMA Appending ==
  ASSUME ThreadsOK, NEW n \in Note, notes' = Append(notes, n), Len(notes) < MaxNotes,
         \/ n.root = Len(notes) + 1
         \/ n.root \in DOMAIN notes /\ notes[n.root].root = n.root
                                    /\ notes[n.root].plain = n.plain
  PROVE  /\ notes' \in Seq(Note)
         /\ Len(notes') = Len(notes) + 1
         /\ \A i \in DOMAIN notes : notes'[i] = notes[i]
         /\ notes'[Len(notes) + 1] = n
         /\ \A i \in DOMAIN notes' : LET r == notes'[i].root
              IN r <= i /\ notes'[r].root = r /\ notes'[r].plain = notes'[i].plain
  <1> USE FeedbackConstants
  <1>1. /\ notes' \in Seq(Note)
        /\ Len(notes') = Len(notes) + 1
        /\ \A i \in DOMAIN notes : notes'[i] = notes[i]
        /\ notes'[Len(notes) + 1] = n
    BY DEF ThreadsOK
  <1>2. DOMAIN notes = 1..Len(notes) /\ DOMAIN notes' = 1..Len(notes) + 1 /\ Len(notes) \in Nat
    BY <1>1 DEF ThreadsOK
  <1>3. ASSUME NEW i \in DOMAIN notes'
        PROVE  LET r == notes'[i].root
               IN r <= i /\ notes'[r].root = r /\ notes'[r].plain = notes'[i].plain
    <2>1. CASE i \in DOMAIN notes
      <3>1. notes[i].root \in DOMAIN notes
        BY <2>1, Domains
      <3> QED BY <2>1, <3>1, <1>1 DEF ThreadsOK
    <2>2. CASE i = Len(notes) + 1
      <3>1. CASE n.root = i
        BY <2>2, <3>1, <1>1, <1>2
      <3>2. CASE n.root \in DOMAIN notes
        BY <2>2, <3>2, <1>1, <1>2
      <3> QED BY <2>2, <3>1, <3>2
    <2>3. i \in DOMAIN notes \/ i = Len(notes) + 1
      BY <1>2
    <2> QED BY <2>1, <2>2, <2>3
  <1> QED BY <1>1, <1>3
----------------------------------------------------------------------------
LEMMA InitIInv == Init => IInv
  <1> SUFFICES ASSUME Init PROVE IInv
    OBVIOUS
  <1> USE FeedbackConstants
  <1>1. Len(notes) = 0 /\ DOMAIN notes = {} /\ notes \in Seq(Note)
    BY DEF Init
  <1>2. NoRun \in Runs /\ NoRun.todo = {}
    BY DEF NoRun, Runs
  <1>3. ThreadsOK
    BY <1>1 DEF Init, ThreadsOK
  <1>4. RestOK
    <2>1. moves \in 0..MaxMoves /\ saved \in 0..Len(notes)
      BY <1>1 DEF Init, FeedbackConstants
    <2>2. {clash, reported} \subseteq BOOLEAN
      BY DEF Init
    <2>3. run \in Runs
      BY <1>2 DEF Init
    <2>4. /\ {shown, handled} \subseteq SUBSET DOMAIN notes
          /\ missed \subseteq Ids
          /\ record \in {"done", "stale", "none"}
      BY DEF Init
    <2>5. pc = "idle"
      BY DEF Init
    <2> QED BY <2>1, <2>2, <2>3, <2>4, <2>5 DEF RestOK
  <1>5. Cardinality(run.todo) = 0
    BY <1>2, FS_EmptySet DEF Init
  <1>6. RoomForReplies
    BY <1>1, <1>2, <1>5 DEF Init, RoomForReplies
  <1> QED BY <1>3, <1>4, <1>6 DEF IInv, TypeOK, ThreadsOK, RestOK, Note, Runs

LEMMA TypeParts == TypeOK <=> ThreadsOK /\ RestOK
  BY DEF TypeOK, ThreadsOK, RestOK, Note, Runs

(* The number of replies to post is a number, and none without a run.      *)
LEMMA Pending ==
  ASSUME IInv
  PROVE  /\ IsFiniteSet(run.todo)
         /\ Cardinality(run.todo) \in Nat
         /\ NoRun \in Runs
         /\ NoRun.todo = {}
         /\ Cardinality({}) = 0
         /\ Len(notes) <= MaxNotes
  <1> USE FeedbackConstants
  <1>1. IsFiniteSet(Ids)
    BY FS_Interval DEF Ids
  <1>2. IsFiniteSet(run.todo)
    BY <1>1, FS_Subset, TypeParts DEF IInv, RestOK, Runs
  <1> QED BY <1>2, FS_CardinalityType, FS_EmptySet, TypeParts DEF IInv, ThreadsOK, NoRun, Runs

(* A step that leaves the comments alone and drops or keeps the replies.   *)
LEMMA QuietStep ==
  ASSUME IInv, UNCHANGED notes, open' \subseteq open, RestOK',
         run'.todo = run.todo \/ run'.todo = {}
  PROVE  IInv'
  <1>1. ThreadsOK'
    BY TypeParts DEF IInv, ThreadsOK
  <1>2. CASE run'.todo = run.todo
    <2>1. RoomForReplies'
      BY <1>2 DEF IInv, RoomForReplies
    <2> QED BY <1>1, <2>1 DEF IInv, TypeOK, ThreadsOK, RestOK, Note, Runs
  <1>3. CASE run'.todo = {}
    <2>1. RoomForReplies'
      BY <1>3, Pending DEF RoomForReplies, IInv, TypeOK
    <2> QED BY <1>1, <2>1 DEF IInv, TypeOK, ThreadsOK, RestOK, Note, Runs
  <1> QED BY <1>2, <1>3

(* A comment of a reviewer.                                                *)
LEMMA ReviewStep == IInv /\ Review => IInv'
  <1> SUFFICES ASSUME IInv, Review PROVE IInv'
    OBVIOUS
  <1> USE FeedbackConstants
  <1>1. ThreadsOK /\ RestOK
    BY TypeParts DEF IInv
  <1>2. /\ DOMAIN notes = 1..Len(notes)
        /\ Len(notes) \in Nat
        /\ Cardinality(run.todo) \in Nat
    BY <1>1, Domains, Pending
  <1>3. PICK root, plain :
           /\ Post(root, plain)
           /\ \/ root = Len(notes) + 1 /\ plain = TRUE /\ open' = open
              \/ root = Len(notes) + 1 /\ plain = FALSE /\ open' = open \union {root}
              \/ root \in open /\ plain = FALSE /\ open' = open
    BY DEF Review, CommentPlainly, OpenThread, ReplyInThread
  <1> DEFINE n == [root |-> root, plain |-> plain, human |-> TRUE, early |-> pc = "idle"]
  <1>4. Len(notes) + Cardinality(run.todo) < MaxNotes /\ notes' = Append(notes, n)
    BY <1>3 DEF Post
  <1>5. UNCHANGED <<moves, clash, reported, saved, pc, run, history, faults, kills>>
    BY DEF Review
  <1>6. root \in open => root \in DOMAIN notes /\ notes[root].root = root /\ ~notes[root].plain
    <2> SUFFICES ASSUME root \in open
                 PROVE  root \in DOMAIN notes /\ notes[root].root = root /\ ~notes[root].plain
      OBVIOUS
    <2>1. PICK i \in DOMAIN notes : ~notes[i].plain /\ root = notes[i].root
      BY <1>1 DEF ThreadsOK
    <2>2. root \in DOMAIN notes
      BY <2>1, <1>1, Domains
    <2> QED BY <1>1, <2>1, <2>2 DEF ThreadsOK
  <1>7. root \in Ids /\ plain \in BOOLEAN
    <2>1. root = Len(notes) + 1 \/ root \in 1..Len(notes)
      BY <1>2, <1>3, <1>6
    <2>2. root \in Ids
      BY <2>1, <1>2, <1>4 DEF Ids
    <2>3. plain \in BOOLEAN
      BY <1>3
    <2> QED BY <2>2, <2>3
  <1>8. n \in Note
    BY <1>7 DEF Note
  <1>9. Len(notes) < MaxNotes
    BY <1>2, <1>4
  <1>10. \/ n.root = Len(notes) + 1
         \/ n.root \in DOMAIN notes /\ notes[n.root].root = n.root /\ notes[n.root].plain = n.plain
    <2>1. CASE root \in open
      <3>1. notes[root] \in Note
        BY <2>1, <1>1, <1>6, Domains
      <3>2. notes[root].plain = FALSE
        BY <2>1, <3>1, <1>6 DEF Note
      <3>3. plain = FALSE
        BY <2>1, <1>2, <1>3, <1>6
      <3> QED BY <2>1, <3>2, <3>3, <1>6
    <2> QED BY <1>3, <2>1
  <1> HIDE DEF n
  <1>11. /\ notes' \in Seq(Note)
         /\ Len(notes') = Len(notes) + 1
         /\ \A i \in DOMAIN notes : notes'[i] = notes[i]
         /\ notes'[Len(notes) + 1] = n
         /\ \A i \in DOMAIN notes' : LET r == notes'[i].root
              IN r <= i /\ notes'[r].root = r /\ notes'[r].plain = notes'[i].plain
    BY <1>1, <1>4, <1>8, <1>9, <1>10, Appending
  <1>12. DOMAIN notes' = 1..Len(notes) + 1
    BY <1>11
  <1>13. open' \subseteq {notes'[i].root : i \in {j \in DOMAIN notes' : ~notes'[j].plain}}
    <2> SUFFICES ASSUME NEW r \in open'
                 PROVE  \E i \in DOMAIN notes' : ~notes'[i].plain /\ r = notes'[i].root
      OBVIOUS
    <2>1. CASE r \in open
      BY <2>1, <1>1, <1>2, <1>11, <1>12 DEF ThreadsOK
    <2>2. CASE r = root /\ root = Len(notes) + 1 /\ plain = FALSE
      BY <2>2, <1>2, <1>11, <1>12 DEF n
    <2> QED BY <1>3, <2>1, <2>2
  <1>14. ThreadsOK'
    BY <1>2, <1>9, <1>11, <1>13 DEF ThreadsOK
  <1>15. RestOK'
    <2>1. DOMAIN notes \subseteq DOMAIN notes'
      BY <1>2, <1>12
    <2>2. {shown, handled}' \subseteq SUBSET DOMAIN notes'
      BY <1>1, <1>5, <2>1 DEF RestOK, history
    <2>3. saved' \in 0..Len(notes')
      BY <1>1, <1>2, <1>5, <1>11 DEF RestOK
    <2> QED BY <1>1, <1>5, <2>2, <2>3 DEF RestOK, history
  <1>16. RoomForReplies'
    <2>1. \A r \in run.todo : r \in DOMAIN notes' /\ notes'[r].root = r
      BY <1>2, <1>11, <1>12 DEF IInv, RoomForReplies
    <2> QED BY <2>1, <1>2, <1>4, <1>5, <1>11 DEF RoomForReplies
  <1> QED BY <1>14, <1>15, <1>16 DEF IInv, TypeOK, ThreadsOK, RestOK, Note, Runs

(* A reply: one note more, and one less to be posted.                      *)
LEMMA AnswerStep == IInv /\ Answer => IInv'
  <1> SUFFICES ASSUME IInv, Answer PROVE IInv'
    OBVIOUS
  <1> USE FeedbackConstants
  <1>1. ThreadsOK /\ RestOK
    BY TypeParts DEF IInv
  <1>2. /\ DOMAIN notes = 1..Len(notes)
        /\ Len(notes) \in Nat
        /\ IsFiniteSet(run.todo)
        /\ Cardinality(run.todo) \in Nat
    BY <1>1, Domains, Pending
  <1>3. PICK r \in run.todo :
           /\ PostReply(r) \/ UNCHANGED notes
           /\ open' \subseteq open
           /\ run' = [run EXCEPT !.todo = run.todo \ {r}]
    BY DEF Answer
  <1>4. UNCHANGED <<moves, clash, reported, saved, pc, history, kills>>
    BY DEF Answer
  <1>5. run' \in Runs /\ run'.todo = run.todo \ {r}
    BY <1>1, <1>3 DEF RestOK, Runs
  <1>6. /\ r \in DOMAIN notes /\ notes[r].root = r
        /\ Len(notes) + Cardinality(run.todo) <= MaxNotes
        /\ \A x \in run.todo : x \in DOMAIN notes /\ notes[x].root = x
    BY <1>3 DEF IInv, RoomForReplies
  <1>7. Cardinality(run'.todo) = Cardinality(run.todo) - 1 /\ Cardinality(run'.todo) \in Nat
    <2>1. IsFiniteSet(run.todo \ {r})
      BY <1>2, FS_Subset
    <2> QED BY <2>1, <1>2, <1>3, <1>5, FS_RemoveElement, FS_CardinalityType
  <1>8. Len(notes) < MaxNotes
    BY <1>2, <1>6, <1>7
  <1> DEFINE n == [root |-> r, human |-> FALSE, early |-> FALSE, plain |-> notes[r].plain]
  <1>9. CASE PostReply(r)
    <2>1. notes' = Append(notes, n)
      BY <1>9 DEF PostReply
    <2>2. n \in Note
      <3>1. notes[r] \in Note
        BY <1>1, <1>6, Domains
      <3> QED BY <3>1, <1>6 DEF Note
    <2>3. n.root \in DOMAIN notes /\ notes[n.root].root = n.root /\ notes[n.root].plain = n.plain
      BY <1>6
    <2> HIDE DEF n
    <2>4. /\ notes' \in Seq(Note)
          /\ Len(notes') = Len(notes) + 1
          /\ \A i \in DOMAIN notes : notes'[i] = notes[i]
          /\ \A i \in DOMAIN notes' : LET x == notes'[i].root
               IN x <= i /\ notes'[x].root = x /\ notes'[x].plain = notes'[i].plain
      BY <1>1, <1>8, <2>1, <2>2, <2>3, Appending
    <2>5. DOMAIN notes' = 1..Len(notes) + 1
      BY <2>4
    <2>6. open' \subseteq {notes'[i].root : i \in {j \in DOMAIN notes' : ~notes'[j].plain}}
      <3> SUFFICES ASSUME NEW x \in open'
                   PROVE  \E i \in DOMAIN notes' : ~notes'[i].plain /\ x = notes'[i].root
        OBVIOUS
      <3>1. PICK i \in DOMAIN notes : ~notes[i].plain /\ x = notes[i].root
        BY <1>1, <1>3 DEF ThreadsOK
      <3> QED BY <3>1, <1>2, <2>4, <2>5
    <2>7. ThreadsOK'
      BY <1>2, <1>8, <2>4, <2>6 DEF ThreadsOK
    <2>8. RestOK'
      <3>1. DOMAIN notes \subseteq DOMAIN notes'
        BY <1>2, <2>5
      <3>2. {shown, handled}' \subseteq SUBSET DOMAIN notes'
        BY <1>1, <1>4, <3>1 DEF RestOK, history
      <3>3. saved' \in 0..Len(notes')
        BY <1>1, <1>2, <1>4, <2>4 DEF RestOK
      <3> QED BY <1>1, <1>4, <1>5, <3>2, <3>3 DEF RestOK, history
    <2>9. RoomForReplies'
      <3>1. \A x \in run'.todo : x \in DOMAIN notes' /\ notes'[x].root = x
        BY <1>2, <1>5, <1>6, <2>4, <2>5
      <3> QED BY <3>1, <1>2, <1>6, <1>7, <2>4 DEF RoomForReplies
    <2> QED BY <2>7, <2>8, <2>9 DEF IInv, TypeOK, ThreadsOK, RestOK, Note, Runs
  <1>10. CASE UNCHANGED notes
    <2>1. ThreadsOK'
      BY <1>1, <1>3, <1>10 DEF ThreadsOK
    <2>2. RestOK'
      BY <1>1, <1>4, <1>5, <1>10 DEF RestOK, history
    <2>3. RoomForReplies'
      BY <1>2, <1>5, <1>6, <1>7, <1>10 DEF RoomForReplies
    <2> QED BY <2>1, <2>2, <2>3 DEF IInv, TypeOK, ThreadsOK, RestOK, Note, Runs
  <1> QED BY <1>3, <1>9, <1>10

LEMMA GiveUpStep == IInv /\ GiveUp => IInv'
  <1> SUFFICES ASSUME IInv, GiveUp PROVE IInv'
    OBVIOUS
  <1>1. RestOK /\ NoRun \in Runs /\ NoRun.todo = {}
    BY TypeParts, Pending DEF IInv
  <1>2. RestOK'
    BY <1>1 DEF GiveUp, RestOK, mrVars, history
  <1>3. open' \subseteq open
    BY DEF GiveUp, mrVars
  <1> QED BY <1>1, <1>2, <1>3, QuietStep DEF GiveUp, mrVars

(* The discussions that are open are known by ids.                         *)
LEMMA OpenAreIds == ThreadsOK => open \subseteq Ids /\ DOMAIN notes \subseteq Ids
  <1> SUFFICES ASSUME ThreadsOK PROVE open \subseteq Ids /\ DOMAIN notes \subseteq Ids
    OBVIOUS
  <1>1. DOMAIN notes \subseteq Ids
    BY Domains, FeedbackConstants DEF ThreadsOK, Ids
  <1> QED BY <1>1, Domains DEF ThreadsOK

LEMMA NextIInv == IInv /\ [Next]_vars => IInv'
  <1> SUFFICES ASSUME IInv, [Next]_vars PROVE IInv'
    OBVIOUS
  <1> USE FeedbackConstants
  <1>1. /\ ThreadsOK /\ RestOK
        /\ NoRun \in Runs /\ NoRun.todo = {} /\ run \in Runs
        /\ open \subseteq Ids /\ DOMAIN notes \subseteq Ids
        /\ DOMAIN notes = 1..Len(notes) /\ Len(notes) \in 0..MaxNotes
        /\ reported \in BOOLEAN /\ clash \in BOOLEAN /\ moves \in 0..MaxMoves
    BY TypeParts, Pending, OpenAreIds, Domains DEF IInv, RestOK, ThreadsOK
  <1>2. CASE ReadMr
    <2>1. run' \in Runs /\ run'.todo = {}
      BY <1>1, <1>2 DEF ReadMr, Runs
    <2>2. RestOK'
      BY <1>1, <1>2, <2>1 DEF ReadMr, RestOK, mrVars, history
    <2> QED BY <1>2, <2>1, <2>2, QuietStep DEF ReadMr, mrVars
  <1>3. CASE ReadThreads
    <2>1. run' \in Runs /\ run'.todo = run.todo
      BY <1>1, <1>3 DEF ReadThreads, Runs
    <2>2. RestOK'
      BY <1>1, <1>3, <2>1 DEF ReadThreads, RestOK, mrVars, history
    <2> QED BY <1>3, <2>1, <2>2, QuietStep DEF ReadThreads, mrVars
  <1>4. CASE BeginRun
    <2>1. PICK seen \in {DOMAIN notes, {}} :
             /\ run' = [run EXCEPT !.cursor = Cardinality(seen), !.unread = DOMAIN notes \ seen]
             /\ shown' = seen
      BY <1>4 DEF BeginRun
    <2>2. Cardinality(seen) \in 0..MaxNotes /\ seen \subseteq DOMAIN notes
      <3>1. Len(notes) \in Nat
        BY <1>1
      <3>2. Cardinality(1..Len(notes)) = Len(notes)
        <4>1. 1 \in Int /\ Len(notes) \in Int
          BY <3>1
        <4>2. Cardinality(1..Len(notes)) = IF 1 > Len(notes) THEN 0 ELSE Len(notes) - 1 + 1
          BY <4>1, FS_Interval, Zenon
        <4> QED BY <3>1, <4>2
      <3>3. Cardinality(DOMAIN notes) \in 0..MaxNotes
        BY <1>1, <3>1, <3>2
      <3>4. Cardinality({}) = 0
        BY FS_EmptySet
      <3>5. seen = DOMAIN notes \/ seen = {}
        OBVIOUS
      <3> QED BY <3>3, <3>4, <3>5
    <2>3. run' \in Runs /\ run'.todo = run.todo
      <3>1. DOMAIN notes \ seen \in SUBSET Ids
        BY <1>1
      <3> QED BY <1>1, <2>1, <2>2, <3>1 DEF Runs
    <2>4. RestOK'
      <3>1. {shown, handled}' \subseteq SUBSET DOMAIN notes'
        BY <1>1, <1>4, <2>1, <2>2 DEF BeginRun, RestOK, mrVars
      <3>2. {clash, reported}' \subseteq BOOLEAN /\ record' = "none"
        BY <1>1, <1>4 DEF BeginRun, mrVars
      <3> QED BY <1>1, <1>4, <2>3, <3>1, <3>2 DEF BeginRun, RestOK, mrVars
    <2> QED BY <1>4, <2>3, <2>4, QuietStep DEF BeginRun, mrVars
  <1>5. CASE Prepare
    <2>1. run' \in Runs /\ run'.todo = run.todo
      BY <1>1, <1>5 DEF Prepare, Runs
    <2>2. RestOK'
      BY <1>1, <1>5, <2>1 DEF Prepare, RestOK, mrVars, history
    <2> QED BY <1>5, <2>1, <2>2, QuietStep DEF Prepare, mrVars
  <1>6. CASE PollFollowUps
    <2>1. run' \in Runs /\ run'.todo = run.todo
      BY <1>1, <1>6 DEF PollFollowUps, Runs
    <2>2. shown' \subseteq DOMAIN notes
      <3>1. run.cursor \in Nat
        BY <1>1 DEF Runs
      <3>2. run.cursor + 1..Len(notes) \subseteq 1..Len(notes)
        BY <1>1, <3>1
      <3>3. shown \subseteq DOMAIN notes
        BY <1>1 DEF RestOK
      <3> QED BY <1>1, <1>6, <3>2, <3>3 DEF PollFollowUps
    <2>3. RestOK'
      BY <1>1, <1>6, <2>1, <2>2 DEF PollFollowUps, RestOK, mrVars
    <2> QED BY <1>6, <2>1, <2>3, QuietStep DEF PollFollowUps, mrVars
  <1>7. CASE ModelAddresses
    <2>1. PICK edits \in BOOLEAN, stuck \in BOOLEAN, answers \in SUBSET {notes[i].root : i \in shown} :
             /\ Len(notes) + Cardinality(answers) <= MaxNotes
             /\ run' = [run EXCEPT !.stuck = stuck, !.todo = answers, !.cursor = 0,
                           !.changed = edits \/ (clash /\ run.requires /\ ~stuck)]
      BY <1>7 DEF ModelAddresses
    <2>2. \A r \in answers : r \in DOMAIN notes /\ notes[r].root = r
      BY <1>1, <2>1, Domains DEF RestOK, ThreadsOK
    <2>3. run' \in Runs /\ run'.todo = answers
      <3>1. answers \in SUBSET Ids
        BY <1>1, <2>2
      <3>2. (edits \/ (clash /\ run.requires /\ ~stuck)) \in BOOLEAN
        OBVIOUS
      <3>3. 0 \in 0..MaxNotes
        OBVIOUS
      <3> QED BY <1>1, <2>1, <3>1, <3>2, <3>3 DEF Runs
    <2>4. RestOK'
      BY <1>1, <1>7, <2>3 DEF ModelAddresses, RestOK, mrVars, history
    <2>5. ThreadsOK'
      BY <1>1, <1>7 DEF ModelAddresses, ThreadsOK, mrVars
    <2>6. RoomForReplies'
      BY <1>7, <2>1, <2>2, <2>3 DEF ModelAddresses, RoomForReplies, mrVars
    <2> QED BY <2>4, <2>5, <2>6 DEF IInv, TypeOK, ThreadsOK, RestOK, Note, Runs
  <1>8. CASE CannotResolve
    <2>1. RestOK'
      BY <1>1, <1>8 DEF CannotResolve, RestOK, mrVars, history
    <2> QED BY <1>1, <1>8, <2>1, QuietStep DEF CannotResolve, mrVars
  <1>9. CASE FinishGit
    <2>1. run.changed \in BOOLEAN /\ run.stuck \in BOOLEAN /\ run.requires \in BOOLEAN
      BY <1>1 DEF Runs
    <2>2. PICK p, q \in BOOLEAN : run' = [run EXCEPT !.pushed = p, !.stuck = q]
      BY <2>1, <1>9 DEF FinishGit, StillConflicts
    <2>3. run' \in Runs /\ run'.todo = run.todo
      BY <1>1, <2>2 DEF Runs
    <2>4. clash' \in BOOLEAN
      <3>1. CASE run.changed /\ ~StillConflicts
        <4>1. clash' = (moves > run.base)
          BY <1>9, <3>1 DEF FinishGit
        <4>2. (moves > run.base) \in BOOLEAN
          OBVIOUS
        <4> QED BY <4>1, <4>2, Zenon
      <3>2. CASE ~(run.changed /\ ~StillConflicts)
        <4>1. clash' = clash
          BY <1>9, <3>2 DEF FinishGit
        <4> QED BY <1>1, <4>1, Zenon
      <3> QED BY <3>1, <3>2
    <2>5. RestOK'
      <3>1. {clash, reported}' \subseteq BOOLEAN
        BY <1>1, <1>9, <2>4 DEF FinishGit, RestOK, history
      <3> QED BY <1>1, <1>9, <2>3, <3>1 DEF FinishGit, RestOK, history
    <2> QED BY <1>9, <2>3, <2>5, QuietStep DEF FinishGit
  <1>10. CASE StartReplies
    <2>1. run' \in Runs /\ run'.todo = run.todo
      <3>1. (IF run.ids = {} THEN open ELSE run.ids) \in SUBSET Ids
        BY <1>1 DEF Runs
      <3>2. /\ run.todo \in SUBSET Ids
            /\ {run.changed, run.pushed, run.requires, run.stuck} \subseteq BOOLEAN
        BY <1>1 DEF Runs
      <3> QED BY <1>1, <1>10, <3>1, <3>2 DEF StartReplies, Runs
    <2>2. missed' \subseteq Ids
      <3>1. run.unread \in SUBSET Ids /\ missed \subseteq Ids
        BY <1>1 DEF Runs, RestOK
      <3> QED BY <1>10, <3>1 DEF StartReplies
    <2>3. RestOK'
      BY <1>1, <1>10, <2>1, <2>2 DEF StartReplies, RestOK, mrVars
    <2> QED BY <1>10, <2>1, <2>3, QuietStep DEF StartReplies, mrVars
  <1>11. CASE RepliesDone
    <2>1. RestOK'
      BY <1>1, <1>11 DEF RepliesDone, RestOK, mrVars, history
    <2> QED BY <1>1, <1>11, <2>1, QuietStep DEF RepliesDone, mrVars
  <1>12. CASE Record
    <2>1. saved' \in 0..Len(notes)
      BY <1>1, <1>12 DEF Record, RestOK
    <2>2. {clash, reported}' \subseteq BOOLEAN /\ record' \in {"done", "stale", "none"}
      BY <1>1, <1>12 DEF Record, mrVars
    <2>3. RestOK'
      BY <1>1, <1>12, <2>1, <2>2 DEF Record, RestOK, mrVars
    <2> QED BY <1>1, <1>12, <2>3, QuietStep DEF Record, mrVars
  <1>13. CASE TargetMoves
    <2>1. moves' \in 0..MaxMoves
      BY <1>1, <1>13 DEF TargetMoves
    <2>2. {clash, reported}' \subseteq BOOLEAN
      BY <1>1, <1>13 DEF TargetMoves, RestOK, history
    <2>3. RestOK'
      BY <1>1, <1>13, <2>1, <2>2 DEF TargetMoves, RestOK, history
    <2> QED BY <1>13, <2>3, QuietStep DEF TargetMoves
  <1>14. CASE Report
    <2>1. {clash, reported}' \subseteq BOOLEAN
      BY <1>1, <1>14 DEF Report, RestOK, history
    <2>2. RestOK'
      BY <1>1, <1>14, <2>1 DEF Report, RestOK, history
    <2> QED BY <1>14, <2>2, QuietStep DEF Report
  <1>15. CASE Skip \/ HoldForRetry \/ RunFails \/ Kill
    BY <1>15, GiveUpStep DEF Skip, HoldForRetry, RunFails, Kill
  <1>16. CASE UNCHANGED vars
    <2>1. RestOK'
      BY <1>1, <1>16 DEF vars, RestOK
    <2> QED BY <1>16, <2>1, QuietStep DEF vars
  <1> QED BY <1>2, <1>3, <1>4, <1>5, <1>6, <1>7, <1>8, <1>9, <1>10, <1>11, <1>12, <1>13,
             <1>14, <1>15, <1>16, ReviewStep, AnswerStep DEF Next, WorkerStep

LEMMA Invariance == Spec => []IInv
  BY InitIInv, NextIInv, PTL DEF Spec
----------------------------------------------------------------------------
LEMMA NextUnpushed == IInv /\ UnpushedIsStuck /\ [Next]_vars => UnpushedIsStuck'
  <1> SUFFICES ASSUME IInv, UnpushedIsStuck, [Next]_vars
               PROVE  UnpushedIsStuck'
    OBVIOUS
  <1>1. run \in Runs
    BY TypeParts DEF IInv, RestOK
  <1>2. CASE ModelAddresses
    BY <1>2 DEF ModelAddresses, UnpushedIsStuck
  <1>3. CASE FinishGit
    <2> DEFINE pushes == run.changed /\ ~StillConflicts
    <2>1. run' = [run EXCEPT !.pushed = pushes, !.stuck = StillConflicts] /\ pc' = "surface"
      BY <1>3 DEF FinishGit
    <2>2. run'.pushed = pushes /\ run'.stuck = StillConflicts /\ run'.changed = run.changed
      BY <1>1, <2>1 DEF Runs
    <2> QED BY <2>1, <2>2 DEF UnpushedIsStuck
  <1>4. CASE StartReplies
    <2>1. /\ run'.changed = run.changed /\ run'.pushed = run.pushed
          /\ run'.stuck = run.stuck /\ run'.requires = run.requires
          /\ pc = "surface" /\ pc' = "reply"
      BY <1>4 DEF StartReplies
    <2>2. ~(run.requires /\ run.stuck)
      BY <1>4 DEF StartReplies, Withheld
    <2> QED BY <2>1, <2>2 DEF UnpushedIsStuck
  <1>5. CASE Answer
    <2>1. /\ run'.changed = run.changed /\ run'.pushed = run.pushed
          /\ run'.stuck = run.stuck /\ run'.requires = run.requires
          /\ pc = "reply" /\ pc' = "reply"
      BY <1>1, <1>5 DEF Answer, Runs
    <2> QED BY <2>1 DEF UnpushedIsStuck
  <1>6. CASE Review \/ TargetMoves \/ Report \/ UNCHANGED vars
    BY <1>6 DEF Review, TargetMoves, Report, vars, UnpushedIsStuck
  <1>7. CASE ReadMr \/ ReadThreads \/ BeginRun \/ Prepare \/ PollFollowUps \/ CannotResolve
             \/ RepliesDone \/ Record
    BY <1>7 DEF ReadMr, ReadThreads, BeginRun, Prepare, PollFollowUps, CannotResolve,
                RepliesDone, Record, UnpushedIsStuck
  <1>8. CASE Skip \/ HoldForRetry \/ RunFails \/ Kill
    BY <1>8 DEF Skip, HoldForRetry, RunFails, Kill, GiveUp, UnpushedIsStuck
  <1> QED BY <1>2, <1>3, <1>4, <1>5, <1>6, <1>7, <1>8 DEF Next, WorkerStep

(* Replies are posted about code that reached the source branch, however   *)
(* the target moves and whatever the forge reports meanwhile: the one      *)
(* exception of run_feedback_tail is a run that set out to resolve no      *)
(* conflict and was kept from pushing by conflict markers.                 *)
THEOREM AnswersAreBacked == Spec => []RepliesFollowPush
  <1>1. Init => UnpushedIsStuck
    BY DEF Init, UnpushedIsStuck
  <1>2. IInv /\ UnpushedIsStuck /\ [Next]_vars => UnpushedIsStuck'
    BY NextUnpushed
  <1>3. UnpushedIsStuck => RepliesFollowPush
    BY DEF UnpushedIsStuck, RepliesFollowPush
  <1> QED BY <1>1, <1>2, <1>3, Invariance, PTL DEF Spec
----------------------------------------------------------------------------
(* Comments are never edited: a step adds at most one, of the worker while *)
(* it replies, or of a reviewer and then early only between runs.          *)
Added(i) == i = Len(notes) + 1 /\ i \in DOMAIN notes'
LEMMA NotesGrow ==
  ASSUME IInv, [Next]_vars
  PROVE  /\ DOMAIN notes' \subseteq DOMAIN notes \union {Len(notes) + 1}
         /\ DOMAIN notes \subseteq DOMAIN notes'
         /\ \A i \in DOMAIN notes : notes'[i] = notes[i]
         /\ \A i : Added(i) =>
              \/ notes'[i].human /\ (notes'[i].early => pc = "idle") /\ Review
              \/ ~notes'[i].human /\ Answer
  <1>1. /\ notes \in Seq(Note) /\ DOMAIN notes = 1..Len(notes) /\ Len(notes) \in Nat
    BY TypeParts, Domains DEF IInv, ThreadsOK
  <1>2. CASE UNCHANGED notes
    BY <1>1, <1>2 DEF Added
  <1>3. CASE Review
    <2>1. PICK root, plain :
             notes' = Append(notes, [root |-> root, plain |-> plain, human |-> TRUE,
                                     early |-> pc = "idle"])
      BY <1>3 DEF Review, CommentPlainly, OpenThread, ReplyInThread, Post
    <2>2. /\ DOMAIN notes' = 1..Len(notes) + 1
          /\ \A i \in DOMAIN notes : notes'[i] = notes[i]
          /\ notes'[Len(notes) + 1] = [root |-> root, plain |-> plain, human |-> TRUE,
                                       early |-> pc = "idle"]
      BY <1>1, <2>1
    <2>3. notes'[Len(notes) + 1].human /\ (notes'[Len(notes) + 1].early => pc = "idle")
      <3> DEFINE n == [root |-> root, plain |-> plain, human |-> TRUE, early |-> pc = "idle"]
      <3>1. n.human /\ (n.early => pc = "idle")
        OBVIOUS
      <3>2. notes'[Len(notes) + 1] = n
        BY <2>2
      <3> QED BY <3>1, <3>2, Zenon
    <2>4. /\ DOMAIN notes' \subseteq DOMAIN notes \union {Len(notes) + 1}
          /\ DOMAIN notes \subseteq DOMAIN notes'
      BY <1>1, <2>2
    <2> QED BY <1>3, <2>2, <2>3, <2>4 DEF Added
  <1>4. CASE Answer
    <2>1. CASE UNCHANGED notes
      BY <1>2, <2>1
    <2>2. CASE \E r \in run.todo : PostReply(r)
      <3>1. PICK r \in run.todo : PostReply(r)
        BY <2>2
      <3>2. /\ DOMAIN notes' = 1..Len(notes) + 1
            /\ \A i \in DOMAIN notes : notes'[i] = notes[i]
            /\ notes'[Len(notes) + 1] = [root |-> r, human |-> FALSE, early |-> FALSE,
                                         plain |-> notes[r].plain]
        BY <1>1, <3>1 DEF PostReply
      <3> QED BY <1>1, <1>4, <3>2 DEF Added
    <2> QED BY <1>4, <2>1, <2>2 DEF Answer
  <1>5. CASE TargetMoves \/ Report \/ UNCHANGED vars \/ FinishGit \/ Record \/ BeginRun
             \/ PollFollowUps \/ StartReplies
    BY <1>2, <1>5 DEF TargetMoves, Report, vars, FinishGit, Record, BeginRun, PollFollowUps,
                      StartReplies, mrVars
  <1>6. CASE ReadMr \/ ReadThreads \/ Prepare \/ ModelAddresses \/ CannotResolve \/ RepliesDone
    BY <1>2, <1>6 DEF ReadMr, ReadThreads, Prepare, ModelAddresses, CannotResolve, RepliesDone,
                      mrVars
  <1>7. CASE Skip \/ HoldForRetry \/ RunFails \/ Kill
    BY <1>2, <1>7 DEF Skip, HoldForRetry, RunFails, Kill, GiveUp, mrVars
  <1> QED BY <1>3, <1>4, <1>5, <1>6, <1>7 DEF Next, WorkerStep

LEMMA NextEarly == IInv /\ EarlyIsCarried /\ [Next]_vars => EarlyIsCarried'
  <1> SUFFICES ASSUME IInv, EarlyIsCarried, [Next]_vars
               PROVE  EarlyIsCarried'
    OBVIOUS
  <1>1. /\ DOMAIN notes = 1..Len(notes) /\ Len(notes) \in Nat /\ saved \in 0..Len(notes)
        /\ run \in Runs
    BY TypeParts, Domains DEF IInv, ThreadsOK, RestOK
  <1>2. CASE Review
    <2>1. UNCHANGED <<pc, run, saved, shown, handled, missed>>
      BY <1>2 DEF Review, history
    <2> QED BY <1>1, <2>1, NotesGrow DEF EarlyIsCarried, Early, Added
  <1>3. CASE Answer
    <2>1. UNCHANGED <<pc, saved, shown, handled, missed>>
      BY <1>3 DEF Answer, history
    <2>2. pc = "reply"
      BY <1>3 DEF Answer
    <2> QED BY <1>1, <2>1, <2>2, NotesGrow DEF EarlyIsCarried, Early, Added
  <1>4. CASE UNCHANGED <<notes, pc, run, saved, shown, handled, missed>>
    BY <1>4 DEF EarlyIsCarried, Early
  <1>5. CASE BeginRun
    <2>1. /\ UNCHANGED <<notes, saved, handled, missed>>
          /\ pc' = "prepare" /\ run'.unread = DOMAIN notes \ shown'
      BY <1>1, <1>5 DEF BeginRun, mrVars, Runs
    <2> QED BY <2>1 DEF EarlyIsCarried, Early
  <1>6. CASE PollFollowUps
    <2>1. /\ UNCHANGED <<notes, pc, saved, handled, missed>>
          /\ shown \subseteq shown' /\ pc = "model" /\ run'.unread = run.unread
      BY <1>1, <1>6 DEF PollFollowUps, mrVars, Runs
    <2> QED BY <2>1 DEF EarlyIsCarried, Early
  <1>7. CASE ReadMr \/ ReadThreads \/ CannotResolve
    <2>1. UNCHANGED <<notes, saved, shown, handled, missed>> /\ pc' \in {"threads", "comments", "gone"}
      BY <1>7 DEF ReadMr, ReadThreads, CannotResolve, mrVars, history
    <2> QED BY <2>1 DEF EarlyIsCarried, Early
  <1>8. CASE Prepare \/ ModelAddresses \/ FinishGit
    <2>1. /\ UNCHANGED <<notes, saved, shown, handled, missed>>
          /\ pc \in {"prepare", "model", "tail"} /\ pc' \in {"model", "tail", "surface"}
      BY <1>8 DEF Prepare, ModelAddresses, FinishGit, mrVars, history
    <2>2. run'.unread = run.unread
      BY <1>1, <1>8 DEF Prepare, ModelAddresses, FinishGit, Runs
    <2> QED BY <2>1, <2>2 DEF EarlyIsCarried, Early
  <1>9. CASE StartReplies
    <2>1. /\ UNCHANGED <<notes, saved, shown>> /\ handled' = handled \union shown
          /\ missed' = missed \union (run.unread \ shown)
          /\ pc = "surface" /\ pc' = "reply"
      BY <1>9 DEF StartReplies, mrVars
    <2> QED BY <2>1 DEF EarlyIsCarried, Early
  <1>10. CASE RepliesDone
    <2>1. UNCHANGED <<notes, saved, shown, handled, missed>> /\ pc = "reply" /\ pc' = "record"
      BY <1>10 DEF RepliesDone, mrVars, history
    <2> QED BY <2>1 DEF EarlyIsCarried, Early
  <1>11. CASE Record
    <2>1. UNCHANGED <<notes, shown, handled, missed>> /\ pc = "record" /\ pc' = "idle"
      BY <1>11 DEF Record, mrVars
    <2> QED BY <2>1 DEF EarlyIsCarried, Early
  <1>12. CASE Skip \/ HoldForRetry \/ RunFails \/ Kill
    <2>1. UNCHANGED <<notes, saved, shown, handled, missed>> /\ pc' = "idle"
      BY <1>12 DEF Skip, HoldForRetry, RunFails, Kill, GiveUp, mrVars, history
    <2> QED BY <2>1 DEF EarlyIsCarried, Early
  <1>13. TargetMoves \/ Report \/ UNCHANGED vars =>
            UNCHANGED <<notes, pc, run, saved, shown, handled, missed>>
    BY DEF TargetMoves, Report, vars, history
  <1> QED BY <1>2, <1>3, <1>4, <1>5, <1>6, <1>7, <1>8, <1>9, <1>10, <1>11, <1>12, <1>13
          DEF Next, WorkerStep

LEMMA NextRecorded ==
    IInv /\ RepliesAreRecorded /\ [Next]_vars => RepliesAreRecorded'
  <1> SUFFICES ASSUME IInv, RepliesAreRecorded, [Next]_vars
               PROVE  RepliesAreRecorded'
    OBVIOUS
  <1>1. /\ DOMAIN notes = 1..Len(notes) /\ Len(notes) \in Nat /\ saved \in 0..Len(notes)
    BY TypeParts, Domains DEF IInv, ThreadsOK, RestOK
  <1>2. CASE Review
    <2>1. UNCHANGED <<pc, saved, record>>
      BY <1>2 DEF Review, history
    <2>2. pc # "reply" \/ record = "none"
      BY DEF RepliesAreRecorded
    <2>3. Answer => pc = "reply"
      BY DEF Answer
    <2> QED BY <1>1, <2>1, <2>2, <2>3, NotesGrow DEF RepliesAreRecorded, Added
  <1>3. CASE Answer
    <2>1. UNCHANGED <<pc, saved, record>> /\ pc = "reply"
      BY <1>3 DEF Answer, history
    <2> QED BY <2>1 DEF RepliesAreRecorded
  <1>4. CASE UNCHANGED <<notes, pc, saved, record>>
    BY <1>4 DEF RepliesAreRecorded
  <1>5. CASE BeginRun
    <2>1. UNCHANGED <<notes, saved>> /\ pc' = "prepare" /\ record' = "none"
      BY <1>5 DEF BeginRun, mrVars
    <2> QED BY <2>1 DEF RepliesAreRecorded
  <1>6. CASE Prepare \/ PollFollowUps \/ ModelAddresses \/ FinishGit \/ StartReplies \/ RepliesDone
    <2>1. /\ UNCHANGED <<notes, saved, record>>
          /\ pc \in {"prepare", "model", "tail", "surface", "reply"}
      BY <1>6 DEF Prepare, PollFollowUps, ModelAddresses, FinishGit, StartReplies, RepliesDone,
                  mrVars, history
    <2> QED BY <2>1 DEF RepliesAreRecorded
  <1>7. CASE ReadMr \/ ReadThreads \/ CannotResolve
    <2>1. UNCHANGED <<notes, saved, record>> /\ pc' \in {"threads", "comments", "gone"}
      BY <1>7 DEF ReadMr, ReadThreads, CannotResolve, mrVars, history
    <2> QED BY <2>1 DEF RepliesAreRecorded
  <1>8. CASE Record
    <2>1. notes' = notes /\ pc' = "idle"
      BY <1>8 DEF Record, mrVars
    <2>2. record' = "done" => saved' = Len(notes) \/ DOMAIN notes = {}
      BY <1>1, <1>8 DEF Record
    <2> QED BY <1>1, <2>1, <2>2 DEF RepliesAreRecorded
  <1>9. CASE Skip \/ HoldForRetry \/ RunFails \/ Kill
    <2>1. UNCHANGED <<notes, saved, record>> /\ pc' = "idle"
      BY <1>9 DEF Skip, HoldForRetry, RunFails, Kill, GiveUp, mrVars, history
    <2> QED BY <2>1 DEF RepliesAreRecorded
  <1>10. TargetMoves \/ Report \/ UNCHANGED vars => UNCHANGED <<notes, pc, saved, record>>
    BY DEF TargetMoves, Report, vars, history
  <1> QED BY <1>2, <1>3, <1>4, <1>5, <1>6, <1>7, <1>8, <1>9, <1>10 DEF Next, WorkerStep
----------------------------------------------------------------------------
(* No comment written between two runs is silenced by last_comment_id      *)
(* before a run that answered was shown it, whatever fails or is killed on *)
(* the way; the exception is a comment that get_mr_comments failed to      *)
(* fetch for a run that answered all the same.                             *)
THEOREM EarlyIsHandled == Spec => []NothingEarlyIsLost
  <1>1. Init => EarlyIsCarried
    BY DEF Init, EarlyIsCarried
  <1>2. IInv /\ EarlyIsCarried /\ [Next]_vars => EarlyIsCarried'
    BY NextEarly
  <1>3. IInv /\ EarlyIsCarried => NothingEarlyIsLost
    BY DEF IInv, EarlyIsCarried, Early, NothingEarlyIsLost, Humans
  <1> QED BY <1>1, <1>2, <1>3, Invariance, PTL DEF Spec

(* The worker never starts a run because of what it posted itself once its *)
(* latest run has recorded what it read: that record covers all replies    *)
(* (feedback_run_needed).  A run that recorded nothing, or whose fetch for *)
(* the record failed, is the exception.                                    *)
THEOREM RunsHaveACause == Spec => NoSelfTrigger
  <1> DEFINE Cause == \/ record # "done"
                      \/ run.ids # {}
                      \/ run.conflict
                      \/ \E i \in Humans : i > saved
  <1>1. Init => RepliesAreRecorded
    BY DEF Init, RepliesAreRecorded
  <1>2. IInv /\ RepliesAreRecorded /\ [Next]_vars => RepliesAreRecorded'
    BY NextRecorded
  <1>3. IInv /\ RepliesAreRecorded /\ BeginRun => Cause
    <2> SUFFICES ASSUME IInv, RepliesAreRecorded, BeginRun, record = "done",
                        ~run.conflict, run.ids = {}
                 PROVE  \E i \in Humans : i > saved
      OBVIOUS
    <2>1. PICK i \in DOMAIN notes : i > saved
      BY DEF BeginRun, Needed
    <2>2. saved \in Nat /\ i \in Nat
      BY TypeParts, Domains DEF IInv, RestOK
    <2>3. notes[i].human
      BY <2>1, <2>2 DEF RepliesAreRecorded
    <2> QED BY <2>1, <2>3 DEF Humans
  <1>4. IInv /\ RepliesAreRecorded /\ [Next]_vars => [BeginRun => Cause]_vars
    BY <1>3
  <1> QED BY <1>1, <1>2, <1>4, Invariance, PTL DEF Spec, NoSelfTrigger
=============================================================================
