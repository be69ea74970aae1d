---------------------------- MODULE WorkerProofs ----------------------------
(***************************************************************************)
(* Proofs about the workers' routing cycle.  Two workers never work on one *)
(* issue, because a worker that tracks an issue has the earliest claim     *)
(* label on it; that takes an account of where a label can be that is not  *)
(* the earliest, and of what a routine leaves behind when it returns.      *)
(***************************************************************************)
EXTENDS Worker, TLAPS, SequenceTheorems

(* No call fails, and nobody is killed while its label is contested.       *)
SafeSetting == MaxFaults = 0 /\ ~ContestKills

Actives == [issue : Issues \union {0}, mr : BOOLEAN]
Loops == [todo : SUBSET Issues, held : SUBSET Issues, taken : SUBSET Issues,
          found : SUBSET [issue : Issues, mr : BOOLEAN],
          why : {"none", "startup", "recover", "rotate"}, at : Issues \union {0}]
Routines == [issue : Issues \union {0}, do : Seq(Steps), forget : BOOLEAN,
             next : PCs, else : PCs]

(* Where a worker relies on the claim of what it tracks.                   *)
Tracking == RunPCs \union ClaimPCs \union
            {"idle", "poll", "candidates", "mr", "track", "failed", "resume"}

(* Where routines return to.                                               *)
Returns == {"idle", "poll", "candidates", "sessions", "sweep", "rotate", "unmade"}

(* A worker that is in one of the loops S, or in a routine of it.          *)
In(w, S) == pc[w] \in S \/ (pc[w] = "job" /\ job[w].next \in S)
Releasing(w, i) == pc[w] = "job" /\ job[w].issue = i

(* What a worker tracks carries its label.                                 *)
ActiveOK(w) ==
    /\ active[w] = NoIssue \/ active[w].issue \in Issues
    /\ pc[w] \in Tracking /\ active[w].issue \in Issues => w \in claims[active[w].issue]

(* A routine that returns to where the worker goes on with what it tracks  *)
(* is about another issue, or lets go of it.                               *)
RoutineOK(w) ==
    pc[w] = "job" =>
        /\ job[w].next \in Returns
        /\ job[w].next = "poll" => job[w].forget
        /\ job[w].next \in {"rotate", "unmade"} => ~job[w].forget /\ active[w].issue \in Issues
        /\ job[w].next \in {"idle", "candidates"} /\ ~job[w].forget /\ active[w].issue \in Issues
             => active[w].issue # job[w].issue /\ w \in claims[active[w].issue]

(* The loops: what a collection has found is claimed and is not visited    *)
(* again; what the sweep has yet to visit is claimed; a candidate is not.  *)
LoopOK(w) ==
    /\ In(w, {"sessions", "sweep"}) =>
         /\ loop[w].why # "none"
         /\ \A a \in loop[w].found : /\ w \in claims[a.issue] /\ a.issue \notin loop[w].todo
                                     /\ ~Releasing(w, a.issue)
    /\ In(w, {"sweep"}) => \A i \in loop[w].todo : w \in claims[i] /\ ~Releasing(w, i)
    /\ In(w, {"candidates"} \union ClaimPCs) =>
         \A i \in loop[w].todo : w \in claims[i] => i \in loop[w].held \intersect loop[w].taken
    /\ pc[w] \in ClaimPCs =>
         /\ loop[w].at \notin loop[w].todo
         /\ loop[w].at # active[w].issue
         /\ pc[w] = "labelling" <=> w \notin claims[loop[w].at]

(* A label that is not the earliest is in a contest, or being removed.     *)
ContestOK(w) ==
    \A i \in Issues : w \in claims[i] =>
        \/ older[i][w] = {}
        \/ pc[w] = "settling" /\ loop[w].at = i
        \/ Releasing(w, i) /\ Head(job[w].do) = "release"

(* Labels are ordered.                                                     *)
Ordered ==
    \A i \in Issues :
        /\ \A w \in claims[i] : older[i][w] \subseteq claims[i] \ {w}
        /\ \A v, w \in claims[i] : v = w \/ v \in older[i][w] \/ w \in older[i][v]

Sound(w) == ActiveOK(w) /\ RoutineOK(w) /\ LoopOK(w) /\ ContestOK(w)

IInv == TypeOK /\ Ordered /\ \A w \in Workers : Sound(w)
-----------------------------------------------------------------------------
(* The routines are sequences of steps.                                    *)
LEMMA Tuples ==
    /\ \A a \in Steps : <<a>> \in Seq(Steps) /\ <<a>> # <<>>
    /\ \A a, b \in Steps : <<a, b>> \in Seq(Steps) /\ <<a, b>> # <<>>
    /\ \A a, b, c \in Steps : <<a, b, c>> \in Seq(Steps) /\ <<a, b, c>> # <<>>
    /\ \A a, b, c, d \in Steps : <<a, b, c, d>> \in Seq(Steps) /\ <<a, b, c, d>> # <<>>
    /\ \A a, b, c, d, e \in Steps : <<a, b, c, d, e>> \in Seq(Steps) /\ <<a, b, c, d, e>> # <<>>
  <1>1. \A a \in Steps : <<a>> \in Seq(Steps) /\ <<a>> # <<>>
    OBVIOUS
  <1>2. \A a, b \in Steps : <<a, b>> \in Seq(Steps) /\ <<a, b>> # <<>>
    OBVIOUS
  <1>3. \A a, b, c \in Steps : <<a, b, c>> \in Seq(Steps) /\ <<a, b, c>> # <<>>
    OBVIOUS
  <1>4. \A a, b, c, d \in Steps : <<a, b, c, d>> \in Seq(Steps) /\ <<a, b, c, d>> # <<>>
    OBVIOUS
  <1>5. \A a, b, c, d, e \in Steps : <<a, b, c, d, e>> \in Seq(Steps) /\ <<a, b, c, d, e>> # <<>>
    OBVIOUS
  <1> QED BY <1>1, <1>2, <1>3, <1>4, <1>5

IsRoutine(s) == s \in Seq(Steps) /\ s # <<>>

LEMMA StepLists ==
    /\ IsRoutine(<<"release">>)
    /\ IsRoutine(<<"release", "unsession">>)
    /\ IsRoutine(<<"release", "unprogress">>)
    /\ IsRoutine(<<"unsession">>)
    /\ IsRoutine(<<"tryRelease", "unsession">>)
    /\ IsRoutine(<<"closeIssue", "unsession">>)
    /\ IsRoutine(<<"closeMr", "mustUnprogress", "askHuman">>)
    /\ IsRoutine(<<"park", "unprogress", "release", "unsession">>)
    /\ IsRoutine(<<"closeMr", "unprogress", "askHuman", "unsession", "release">>)
    /\ IsRoutine(<<"tryRelease", "unprogress", "unsession">>)
    /\ IsRoutine(ClearSteps) /\ IsRoutine(AbandonSteps) /\ IsRoutine(MergedSteps)
    /\ IsRoutine(ClearSteps \o <<"closeIssue">>)
    /\ \A i \in Issues : IsRoutine(CancelSteps(i)) /\ IsRoutine(HoldSteps(i))
  <1>0. /\ "release" \in Steps /\ "tryRelease" \in Steps /\ "closeMr" \in Steps
        /\ "unprogress" \in Steps /\ "mustUnprogress" \in Steps /\ "unsession" \in Steps
        /\ "closeIssue" \in Steps /\ "askHuman" \in Steps /\ "park" \in Steps
    BY DEF Steps
  <1>1. IsRoutine(<<"release">>)
    BY <1>0, Tuples DEF IsRoutine
  <1>2. IsRoutine(<<"release", "unsession">>)
    BY <1>0, Tuples DEF IsRoutine
  <1>3. IsRoutine(<<"release", "unprogress">>)
    BY <1>0, Tuples DEF IsRoutine
  <1>4. IsRoutine(<<"unsession">>)
    BY <1>0, Tuples DEF IsRoutine
  <1>5. IsRoutine(<<"tryRelease", "unsession">>)
    BY <1>0, Tuples DEF IsRoutine
  <1>6. IsRoutine(<<"closeIssue", "unsession">>)
    BY <1>0, Tuples DEF IsRoutine
  <1>7. IsRoutine(<<"closeMr", "mustUnprogress", "askHuman">>)
    BY <1>0, Tuples DEF IsRoutine
  <1>8. IsRoutine(<<"park", "unprogress", "release", "unsession">>)
    BY <1>0, Tuples DEF IsRoutine
  <1>9. IsRoutine(<<"closeMr", "unprogress", "askHuman", "unsession", "release">>)
    BY <1>0, Tuples DEF IsRoutine
  <1>10. IsRoutine(<<"tryRelease", "unprogress", "unsession">>)
    BY <1>0, Tuples DEF IsRoutine
  <1>11. IsRoutine(ClearSteps)
    BY <1>0, Tuples DEF IsRoutine, ClearSteps
  <1>12. IsRoutine(AbandonSteps)
    BY <1>0, Tuples DEF IsRoutine, AbandonSteps
  <1>13. IsRoutine(MergedSteps)
    BY <1>0, Tuples DEF IsRoutine, MergedSteps
  <1>14. IsRoutine(<<"closeIssue">>)
    BY <1>0, Tuples DEF IsRoutine
  <1>15. IsRoutine(ClearSteps \o <<"closeIssue">>)
    BY <1>11, <1>14, ConcatProperties, EmptySeq DEF IsRoutine
  <1>16. \A i \in Issues : IsRoutine(CancelSteps(i)) /\ IsRoutine(HoldSteps(i))
    BY <1>10, <1>11, <1>12 DEF CancelSteps, HoldSteps
  <1> QED BY <1>1, <1>2, <1>3, <1>4, <1>5, <1>6, <1>7, <1>8, <1>9, <1>10, <1>11, <1>12, <1>13, <1>15, <1>16

LEMMA NothingFails == SafeSetting /\ TypeOK => ~Fails
BY DEF SafeSetting, TypeOK, Fails
-----------------------------------------------------------------------------
(* The type invariant, one worker at a time.                               *)
LocalType(w) ==
    /\ pc[w] \in PCs /\ active[w] \in Actives /\ loop[w] \in Loops /\ job[w] \in Routines
    /\ pc[w] \in RunPCs \union {"mr", "track", "resume", "rotate", "unmade", "failed"}
         => active[w].issue \in Issues
    /\ pc[w] \in ClaimPCs => loop[w].at \in Issues
    /\ pc[w] = "job" => job[w].issue \in Issues /\ job[w].do # <<>>

Maps ==
    /\ pc \in [Workers -> PCs] /\ active \in [Workers -> Actives]
    /\ loop \in [Workers -> Loops] /\ job \in [Workers -> Routines]

ForgeType ==
    /\ open \in [Issues -> BOOLEAN]
    /\ labels \in [Issues -> SUBSET Labels]
    /\ claims \in [Issues -> SUBSET Workers]
    /\ older \in [Issues -> [Workers -> SUBSET Workers]]
    /\ mr \in [Issues -> {"none", "open", "merged", "closed"}]
    /\ session \in [Workers -> [Issues -> BOOLEAN]]
    /\ shutdown \in [Workers -> BOOLEAN]
    /\ again \in [Workers -> BOOLEAN]
    /\ faults \in 0..MaxFaults /\ stops \in 0..MaxStops
    /\ kills \in 0..MaxKills /\ moves \in 0..MaxMoves

LEMMA Types == TypeOK <=> ForgeType /\ Maps /\ \A w \in Workers : LocalType(w)
  <1>1. TypeOK => ForgeType
    BY DEF TypeOK, ForgeType
  <1>2. TypeOK => Maps
    BY DEF TypeOK, Maps, Actives, Loops, Routines
  <1>3. TypeOK => \A w \in Workers : LocalType(w)
    BY DEF TypeOK, LocalType, Actives, Loops, Routines
  <1>4. ForgeType /\ Maps /\ (\A w \in Workers : LocalType(w)) => TypeOK
    BY DEF TypeOK, LocalType, ForgeType, Maps, Actives, Loops, Routines
  <1> QED BY <1>1, <1>2, <1>3, <1>4

(* What a step of w leaves alone: the other workers, and their labels.     *)
ClaimStep(w) ==
    UNCHANGED <<claims, older>> \/ \E i \in Issues : AddClaim(w, i) \/ DropClaim(w, i)

StepOf(w) ==
    /\ \A v \in Workers \ {w} : /\ pc'[v] = pc[v] /\ active'[v] = active[v]
                                /\ loop'[v] = loop[v] /\ job'[v] = job[v]
    /\ ClaimStep(w)

LEMMA LabelsOfOthers ==
    ASSUME NEW w \in Workers, ForgeType, Ordered, ClaimStep(w)
    PROVE  /\ Ordered'
           /\ \A v \in Workers \ {w}, i \in Issues :
                 /\ v \in claims'[i] <=> v \in claims[i]
                 /\ older'[i][v] \subseteq older[i][v]
  <1>1. CASE UNCHANGED <<claims, older>>
    BY <1>1 DEF Ordered
  <1>2. ASSUME NEW i \in Issues, AddClaim(w, i)
        PROVE  /\ Ordered'
               /\ \A v \in Workers \ {w}, k \in Issues :
                     /\ v \in claims'[k] <=> v \in claims[k]
                     /\ older'[k][v] \subseteq older[k][v]
    BY <1>2 DEF AddClaim, Ordered, ForgeType
  <1>3. ASSUME NEW i \in Issues, DropClaim(w, i)
        PROVE  /\ Ordered'
               /\ \A v \in Workers \ {w}, k \in Issues :
                     /\ v \in claims'[k] <=> v \in claims[k]
                     /\ older'[k][v] \subseteq older[k][v]
    BY <1>3 DEF DropClaim, Ordered, ForgeType
  <1> QED BY <1>1, <1>2, <1>3 DEF ClaimStep

LEMMA Others ==
    ASSUME NEW w \in Workers, TypeOK, Ordered, StepOf(w),
           NEW v \in Workers \ {w}, Sound(v)
    PROVE  Sound(v)'
  <1>1. \A i \in Issues : /\ v \in claims'[i] <=> v \in claims[i]
                          /\ older'[i][v] \subseteq older[i][v]
    BY LabelsOfOthers, Types DEF StepOf
  <1>2. pc'[v] = pc[v] /\ active'[v] = active[v] /\ loop'[v] = loop[v] /\ job'[v] = job[v]
    BY DEF StepOf
  <1>3. LocalType(v)
    BY Types
  <1>4. ActiveOK(v)'
    BY <1>1, <1>2, <1>3 DEF Sound, ActiveOK, LocalType, Actives
  <1>5. RoutineOK(v)'
    BY <1>1, <1>2, <1>3 DEF Sound, RoutineOK, LocalType, Actives
  <1>6. LoopOK(v)'
    BY <1>1, <1>2, <1>3 DEF Sound, LoopOK, In, Releasing, LocalType, Loops
  <1>7. ContestOK(v)'
    BY <1>1, <1>2, <1>3 DEF Sound, ContestOK, Releasing
  <1> QED BY <1>4, <1>5, <1>6, <1>7 DEF Sound
-----------------------------------------------------------------------------
(* What a step does to the worker's own state.                             *)
Shape(w) ==
    /\ pc' = [pc EXCEPT ![w] = pc'[w]] /\ active' = [active EXCEPT ![w] = active'[w]]
    /\ loop' = [loop EXCEPT ![w] = loop'[w]] /\ job' = [job EXCEPT ![w] = job'[w]]
    /\ ClaimStep(w)

Ready(w) == TypeOK /\ ForgeType /\ Maps /\ LocalType(w) /\ Sound(w) /\ ~Fails

LEMMA DoFacts ==
    ASSUME Maps, NEW w \in Workers, NEW i \in Issues, NEW s, IsRoutine(s), NEW f \in BOOLEAN,
           NEW n \in PCs, NEW e \in PCs, Do(w, i, s, f, n, e)
    PROVE  /\ pc'[w] = "job" /\ job'[w] \in Routines
           /\ job'[w].issue = i /\ job'[w].do = s /\ job'[w].do # <<>>
           /\ job'[w].forget = f /\ job'[w].next = n
BY DEF Do, Goto, Maps, IsRoutine, Routines

LEMMA NoLoopFacts ==
    /\ NoLoop \in Loops
    /\ NoLoop.todo = {} /\ NoLoop.found = {}
BY DEF NoLoop, Loops

LEMMA CollectFacts ==
    ASSUME Maps, NEW w \in Workers, NEW why \in {"startup", "recover", "rotate"}, Collect(w, why)
    PROVE  /\ pc'[w] = "sessions" /\ loop'[w] \in Loops
           /\ loop'[w].found = {} /\ loop'[w].why = why
  <1>1. loop'[w] = [NoLoop EXCEPT !.todo = {i \in Issues : session[w][i]}, !.why = why]
    BY DEF Collect, Maps
  <1>2. pc'[w] = "sessions"
    BY DEF Collect, Goto, Maps
  <1> QED BY <1>1, <1>2 DEF NoLoop, Loops

(* A loop record with some fields replaced, kept folded where it is used.  *)
WithVisited(l, T, H, K) == [l EXCEPT !.todo = T, !.held = H, !.taken = K]
WithFound(l, T, H, F) == [l EXCEPT !.todo = T, !.held = H, !.found = F]

LEMMA VisitedLoop ==
    ASSUME NEW l \in Loops, NEW T \in SUBSET Issues, NEW H \in SUBSET Issues,
           NEW K \in SUBSET Issues
    PROVE  WithVisited(l, T, H, K) \in Loops
BY DEF WithVisited, Loops

LEMMA VisitedFields ==
    ASSUME NEW l \in Loops, NEW T, NEW H, NEW K, NEW m, m = WithVisited(l, T, H, K)
    PROVE  /\ m.todo = T /\ m.held = H /\ m.taken = K
           /\ m.found = l.found /\ m.why = l.why /\ m.at = l.at
BY DEF WithVisited, Loops

LEMMA FoundLoop ==
    ASSUME NEW l \in Loops, NEW T \in SUBSET l.todo, NEW H \in SUBSET l.held,
           NEW F \in SUBSET [issue : Issues, mr : BOOLEAN]
    PROVE  WithFound(l, T, H, F) \in Loops
BY DEF WithFound, Loops

LEMMA FoundFields ==
    ASSUME NEW l \in Loops, NEW T, NEW H, NEW F, NEW m, m = WithFound(l, T, H, F)
    PROVE  /\ m.todo = T /\ m.found = F /\ m.why = l.why /\ m.at = l.at
           /\ m.taken = l.taken
BY DEF WithFound, Loops

LEMMA VisitedFacts ==
    ASSUME Maps, NEW w \in Workers, NEW i \in Issues, Visited(w, i)
    PROVE  /\ loop'[w] \in Loops
           /\ loop'[w].todo = loop[w].todo \ {i} /\ loop'[w].held = loop[w].held \ {i}
           /\ loop'[w].taken = loop[w].taken \ {i} /\ loop'[w].found = loop[w].found
           /\ loop'[w].why = loop[w].why /\ loop'[w].at = loop[w].at
  <1>1. loop[w] \in Loops
    BY DEF Maps
  <1>2. loop'[w] = WithVisited(loop[w], loop[w].todo \ {i}, loop[w].held \ {i}, loop[w].taken \ {i})
    BY DEF Visited, Maps, WithVisited
  <1>3. loop'[w] \in Loops
    <2>1. loop[w].todo \subseteq Issues /\ loop[w].held \subseteq Issues /\ loop[w].taken \subseteq Issues
      BY <1>1 DEF Loops
    <2> QED BY <1>1, <1>2, <2>1, VisitedLoop
  <1>4. /\ loop'[w].todo = loop[w].todo \ {i}
        /\ loop'[w].held = loop[w].held \ {i}
        /\ loop'[w].taken = loop[w].taken \ {i}
        /\ loop'[w].found = loop[w].found
        /\ loop'[w].why = loop[w].why
        /\ loop'[w].at = loop[w].at
    <2> DEFINE T == loop[w].todo \ {i}
               H == loop[w].held \ {i}
               K == loop[w].taken \ {i}
    <2> DEFINE m == loop'[w]
    <2>1. m = WithVisited(loop[w], T, H, K)
      BY <1>2
    <2> HIDE DEF T, H, K, m
    <2>2. /\ m.todo = T /\ m.held = H /\ m.taken = K
          /\ m.found = loop[w].found /\ m.why = loop[w].why /\ m.at = loop[w].at
      BY <1>1, <2>1, VisitedFields
    <2> QED BY <2>2 DEF T, H, K, m
  <1> QED BY <1>3, <1>4

LEMMA FoundFacts ==
    ASSUME Maps, NEW w \in Workers, NEW i \in Issues, Found(w, i)
    PROVE  /\ loop'[w] \in Loops
           /\ loop'[w].todo = loop[w].todo \ {i} /\ loop'[w].found = loop[w].found \union {Tracked(i)}
           /\ loop'[w].why = loop[w].why /\ loop'[w].at = loop[w].at
           /\ loop'[w].taken = loop[w].taken
           /\ Tracked(i).issue = i
  <1>1. loop[w] \in Loops
    BY DEF Maps
  <1>2. loop'[w] = WithFound(loop[w], loop[w].todo \ {i}, loop[w].held \ {i},
                             loop[w].found \union {Tracked(i)})
    BY DEF Found, Maps, WithFound
  <1>3. Tracked(i) \in [issue : Issues, mr : BOOLEAN] /\ Tracked(i).issue = i
    BY DEF Tracked
  <1>4. loop[w].found \subseteq [issue : Issues, mr : BOOLEAN]
    BY <1>1 DEF Loops
  <1>5. loop'[w] \in Loops
    BY <1>1, <1>2, <1>3, <1>4, FoundLoop
  <1>6. /\ loop'[w].todo = loop[w].todo \ {i}
        /\ loop'[w].found = loop[w].found \union {Tracked(i)}
        /\ loop'[w].why = loop[w].why
        /\ loop'[w].at = loop[w].at
        /\ loop'[w].taken = loop[w].taken
    <2> DEFINE T == loop[w].todo \ {i}
               H == loop[w].held \ {i}
               F == loop[w].found \union {Tracked(i)}
    <2> DEFINE m == loop'[w]
    <2>1. m = WithFound(loop[w], T, H, F)
      BY <1>2
    <2> HIDE DEF T, H, F, m
    <2>2. /\ m.todo = T /\ m.found = F /\ m.why = loop[w].why /\ m.at = loop[w].at
          /\ m.taken = loop[w].taken
      BY <1>1, <2>1, FoundFields
    <2> QED BY <2>2 DEF T, H, F, m
  <1> QED BY <1>3, <1>5, <1>6

LEMMA LabelTypes ==
    ASSUME ForgeType, NEW i \in Issues, NEW l \in Labels, Label(i, l) \/ Unlabel(i, l)
    PROVE  labels' \in [Issues -> SUBSET Labels]
  <1>1. CASE Label(i, l)
    BY <1>1 DEF Label, ForgeType
  <1>2. CASE Unlabel(i, l)
    BY <1>2 DEF Unlabel, ForgeType
  <1> QED BY <1>1, <1>2

LEMMA ClaimTypes ==
    ASSUME ForgeType, NEW w \in Workers, ClaimStep(w)
    PROVE  claims' \in [Issues -> SUBSET Workers] /\ older' \in [Issues -> [Workers -> SUBSET Workers]]
  <1>1. ASSUME NEW i \in Issues, AddClaim(w, i)
        PROVE  claims' \in [Issues -> SUBSET Workers] /\ older' \in [Issues -> [Workers -> SUBSET Workers]]
    <2> DEFINE O == [older[i] EXCEPT ![w] = IF w \in claims[i] THEN @ ELSE claims[i]]
    <2>1. O \in [Workers -> SUBSET Workers]
      BY DEF ForgeType
    <2>2. older' = [older EXCEPT ![i] = O]
      BY <1>1 DEF AddClaim
    <2>3. older' \in [Issues -> [Workers -> SUBSET Workers]]
      <3> HIDE DEF O
      <3> QED BY <2>1, <2>2 DEF ForgeType
    <2> QED BY <1>1, <2>3 DEF AddClaim, ForgeType
  <1>2. ASSUME NEW i \in Issues, DropClaim(w, i)
        PROVE  claims' \in [Issues -> SUBSET Workers] /\ older' \in [Issues -> [Workers -> SUBSET Workers]]
    BY <1>2 DEF DropClaim, ForgeType
  <1> QED BY <1>1, <1>2 DEF ClaimStep, ForgeType

LEMMA SessionTypes ==
    ASSUME ForgeType, NEW w \in Workers, NEW i \in Issues, NEW b \in BOOLEAN,
           session' = [session EXCEPT ![w][i] = b]
    PROVE  session' \in [Workers -> [Issues -> BOOLEAN]]
  <1>1. [session[w] EXCEPT ![i] = b] \in [Issues -> BOOLEAN]
    BY DEF ForgeType
  <1> QED BY <1>1 DEF ForgeType


-----------------------------------------------------------------------------
(* What a step must establish for the worker that takes it.                *)
Good(w) == LocalType(w) /\ Sound(w)

LEMMA Now ==
    ASSUME NEW w \in Workers, Ready(w)
    PROVE  /\ ~Fails /\ Maps /\ ForgeType /\ TypeOK
           /\ active[w] \in Actives /\ loop[w] \in Loops /\ job[w] \in Routines
           /\ active[w] = NoIssue \/ active[w].issue \in Issues
           /\ pc[w] \in RunPCs \union {"mr", "track", "resume", "rotate", "unmade", "failed"}
                => active[w].issue \in Issues
           /\ pc[w] \in Tracking /\ active[w].issue \in Issues => w \in claims[active[w].issue]
           /\ pc[w] \notin {"settling", "job"} =>
                \A i \in Issues : w \in claims[i] => older[i][w] = {}
BY DEF Ready, Sound, ActiveOK, ContestOK, Releasing, LocalType

LEMMA NoneTracked == NoIssue.issue \notin Issues /\ NoIssue \in Actives
BY ConstantsOK DEF NoIssue, Actives

(* The worker goes on elsewhere than in a loop or a routine.               *)
LEMMA GotoGood ==
    ASSUME NEW w \in Workers, Ready(w), pc[w] \notin {"settling", "job"},
           UNCHANGED <<claims, older, job>>,
           NEW p \in PCs \ ({"job", "sessions", "sweep", "candidates"} \union ClaimPCs), Goto(w, p),
           active'[w] \in Actives, loop'[w] \in Loops,
           active'[w] = NoIssue \/ active'[w].issue \in Issues,
           p \in RunPCs \union {"mr", "track", "resume", "rotate", "unmade", "failed"}
                => active'[w].issue \in Issues,
           p \in Tracking /\ active'[w].issue \in Issues => w \in claims[active'[w].issue]
    PROVE  Good(w)'
  <1>1. pc'[w] = p
    BY DEF Ready, Maps, Goto
  <1>2. LocalType(w)'
    BY <1>1, Now DEF LocalType, ClaimPCs
  <1>3. ActiveOK(w)'
    BY <1>1 DEF ActiveOK
  <1>4. RoutineOK(w)' /\ LoopOK(w)'
    BY <1>1 DEF RoutineOK, LoopOK, In, ClaimPCs
  <1>5. ContestOK(w)'
    BY <1>1, Now DEF ContestOK
  <1> QED BY <1>2, <1>3, <1>4, <1>5 DEF Good, Sound

(* The worker starts a routine outside the loops.                          *)
LEMMA DoGood ==
    ASSUME NEW w \in Workers, Ready(w), pc[w] # "job",
           UNCHANGED <<claims, older>>,
           NEW i \in Issues, NEW s, IsRoutine(s), NEW f \in BOOLEAN,
           NEW n \in {"idle", "poll", "rotate", "unmade"}, NEW e \in PCs, Do(w, i, s, f, n, e),
           active'[w] \in Actives, loop'[w] \in Loops,
           active'[w] = NoIssue \/ active'[w].issue \in Issues,
           pc[w] = "settling" => i = loop[w].at /\ Head(s) = "release",
           n = "poll" => f,
           n \in {"rotate", "unmade"} => ~f /\ active'[w].issue \in Issues,
           n = "idle" /\ ~f /\ active'[w].issue \in Issues
             => active'[w].issue # i /\ w \in claims[active'[w].issue]
    PROVE  Good(w)'
  <1>0. n \in PCs
    BY DEF PCs
  <1>1. /\ pc'[w] = "job" /\ job'[w] \in Routines
        /\ job'[w].issue = i /\ job'[w].do = s /\ job'[w].do # <<>>
        /\ job'[w].forget = f /\ job'[w].next = n
    BY <1>0, DoFacts DEF Ready
  <1>2. LocalType(w)'
    BY <1>1 DEF LocalType, PCs, RunPCs, ClaimPCs
  <1>3. ActiveOK(w)'
    BY <1>1 DEF ActiveOK, Tracking, RunPCs, ClaimPCs
  <1>4. RoutineOK(w)'
    BY <1>1 DEF RoutineOK, Returns
  <1>5. LoopOK(w)'
    BY <1>1 DEF LoopOK, In, ClaimPCs
  <1>6. ContestOK(w)'
    <2>1. \A k \in Issues : w \in claims[k] => older[k][w] = {} \/ (pc[w] = "settling" /\ loop[w].at = k)
      BY DEF Ready, Sound, ContestOK, Releasing
    <2>2. UNCHANGED <<claims, older>>
      OBVIOUS
    <2> QED BY <1>1, <2>1, <2>2 DEF ContestOK, Releasing
  <1> QED BY <1>2, <1>3, <1>4, <1>5, <1>6 DEF Good, Sound

(* A collection begins.                                                    *)
LEMMA CollectGood ==
    ASSUME NEW w \in Workers, Ready(w), pc[w] \notin {"settling", "job"},
           UNCHANGED <<claims, older, active, job>>,
           NEW why \in {"startup", "recover", "rotate"}, Collect(w, why)
    PROVE  Good(w)'
  <1>1. /\ pc'[w] = "sessions" /\ loop'[w] \in Loops
        /\ loop'[w].found = {} /\ loop'[w].why = why
    BY CollectFacts DEF Ready
  <1>2. LocalType(w)'
    BY <1>1, Now DEF LocalType, PCs, RunPCs, ClaimPCs
  <1>3. ActiveOK(w)'
    BY <1>1, Now DEF ActiveOK, Tracking, RunPCs, ClaimPCs
  <1>4. RoutineOK(w)' /\ LoopOK(w)'
    BY <1>1 DEF RoutineOK, LoopOK, In, ClaimPCs
  <1>5. ContestOK(w)'
    BY <1>1, Now DEF ContestOK
  <1> QED BY <1>2, <1>3, <1>4, <1>5 DEF Good, Sound

(* What is known inside a collection.                                      *)
LEMMA Collecting ==
    ASSUME NEW w \in Workers, Ready(w), NEW h \in {"sessions", "sweep"}, pc[w] = h
    PROVE  /\ loop[w].why # "none"
           /\ \A a \in loop[w].found : w \in claims[a.issue] /\ a.issue \notin loop[w].todo
           /\ h = "sweep" => \A i \in loop[w].todo : w \in claims[i]
           /\ loop[w].todo \subseteq Issues
           /\ \A a \in loop[w].found : a \in Actives /\ a.issue \in Issues
  <1>1. loop[w].todo \subseteq Issues /\ \A a \in loop[w].found : a \in Actives /\ a.issue \in Issues
    <2>1. loop[w] \in Loops
      BY DEF Ready, LocalType
    <2>2. loop[w].todo \subseteq Issues /\ loop[w].found \subseteq [issue : Issues, mr : BOOLEAN]
      BY <2>1 DEF Loops
    <2> QED BY <2>2 DEF Actives
  <1> QED BY <1>1 DEF Ready, Sound, LoopOK, In

(* An issue of the collection is dealt with and the collection goes on.    *)
LEMMA VisitedGood ==
    ASSUME NEW w \in Workers, Ready(w), NEW h \in {"sessions", "sweep"}, pc[w] = h,
           UNCHANGED <<claims, older, active, pc, job>>,
           NEW i \in Issues, Visited(w, i)
    PROVE  Good(w)'
  <1>1. /\ loop'[w] \in Loops /\ loop'[w].todo = loop[w].todo \ {i}
        /\ loop'[w].found = loop[w].found /\ loop'[w].why = loop[w].why
    BY VisitedFacts DEF Ready
  <1>2. LocalType(w)'
    BY <1>1, Now DEF LocalType, PCs, RunPCs, ClaimPCs
  <1>3. ActiveOK(w)' /\ RoutineOK(w)'
    BY Now DEF ActiveOK, RoutineOK, Tracking, RunPCs, ClaimPCs
  <1>4. LoopOK(w)'
    BY <1>1, Collecting DEF LoopOK, In, Releasing, ClaimPCs
  <1>5. ContestOK(w)'
    BY Now DEF ContestOK
  <1> QED BY <1>2, <1>3, <1>4, <1>5 DEF Good, Sound

(* It is dealt with by a routine.                                          *)
LEMMA VisitedDoGood ==
    ASSUME NEW w \in Workers, Ready(w), NEW h \in {"sessions", "sweep"}, pc[w] = h,
           UNCHANGED <<claims, older, active>>,
           NEW i \in loop[w].todo, Visited(w, i),
           NEW s, IsRoutine(s), Do(w, i, s, FALSE, h, h)
    PROVE  Good(w)'
  <1>0. h \in PCs /\ i \in Issues /\ FALSE \in BOOLEAN
    BY Collecting DEF PCs
  <1>1. /\ loop'[w] \in Loops /\ loop'[w].todo = loop[w].todo \ {i}
        /\ loop'[w].found = loop[w].found /\ loop'[w].why = loop[w].why
    BY <1>0, VisitedFacts DEF Ready
  <1>2. /\ pc'[w] = "job" /\ job'[w] \in Routines
        /\ job'[w].issue = i /\ job'[w].do # <<>>
        /\ ~job'[w].forget /\ job'[w].next = h
    <2>1. Maps
      BY DEF Ready
    <2> DEFINE f == FALSE
    <2>2. f \in BOOLEAN /\ Do(w, i, s, f, h, h) /\ ~f
      OBVIOUS
    <2> HIDE DEF f
    <2>3. /\ pc'[w] = "job" /\ job'[w] \in Routines
          /\ job'[w].issue = i /\ job'[w].do # <<>>
          /\ job'[w].forget = f /\ job'[w].next = h
      BY <1>0, <2>1, <2>2, DoFacts
    <2> QED BY <2>2, <2>3
  <1>3. LocalType(w)'
    BY <1>0, <1>1, <1>2, Now DEF LocalType, PCs, RunPCs, ClaimPCs
  <1>4. ActiveOK(w)' /\ RoutineOK(w)'
    BY <1>2, Now DEF ActiveOK, RoutineOK, Tracking, RunPCs, ClaimPCs, Returns
  <1>5. LoopOK(w)'
    <2>1. \A a \in loop'[w].found : /\ w \in claims[a.issue] /\ a.issue \notin loop'[w].todo
                                    /\ a.issue # i
      BY <1>1, Collecting
    <2>2. \A k \in loop'[w].todo : k # i /\ (h = "sweep" => w \in claims[k])
      BY <1>1, Collecting
    <2>3. loop'[w].why # "none"
      BY <1>1, Collecting
    <2> QED BY <1>2, <2>1, <2>2, <2>3 DEF LoopOK, In, Releasing, ClaimPCs
  <1>6. ContestOK(w)'
    BY Now DEF ContestOK
  <1> QED BY <1>3, <1>4, <1>5, <1>6 DEF Good, Sound

(* It is one to watch.                                                     *)
LEMMA FoundGood ==
    ASSUME NEW w \in Workers, Ready(w), NEW h \in {"sessions", "sweep"}, pc[w] = h,
           UNCHANGED <<claims, older, active, pc, job>>,
           NEW i \in loop[w].todo, w \in claims[i], Found(w, i)
    PROVE  Good(w)'
  <1>0. i \in Issues
    BY Collecting
  <1>1. /\ loop'[w] \in Loops /\ loop'[w].todo = loop[w].todo \ {i}
        /\ loop'[w].found = loop[w].found \union {Tracked(i)}
        /\ loop'[w].why = loop[w].why /\ Tracked(i).issue = i
    BY <1>0, FoundFacts DEF Ready
  <1>2. LocalType(w)'
    BY <1>1, Now DEF LocalType, PCs, RunPCs, ClaimPCs
  <1>3. ActiveOK(w)' /\ RoutineOK(w)'
    BY Now DEF ActiveOK, RoutineOK, Tracking, RunPCs, ClaimPCs
  <1>4. LoopOK(w)'
    <2>1. \A a \in loop'[w].found : w \in claims[a.issue] /\ a.issue \notin loop'[w].todo
      <3>1. \A a \in loop[w].found : w \in claims[a.issue] /\ a.issue \notin loop'[w].todo
        BY <1>1, Collecting
      <3>2. w \in claims[Tracked(i).issue] /\ Tracked(i).issue \notin loop'[w].todo
        BY <1>1
      <3>3. loop'[w].found = loop[w].found \union {Tracked(i)}
        BY <1>1
      <3> QED BY <3>1, <3>2, <3>3
    <2>2. h = "sweep" => \A k \in loop'[w].todo : w \in claims[k]
      BY <1>1, Collecting
    <2>3. loop'[w].why # "none"
      BY <1>1, Collecting
    <2>4. pc'[w] = h
      OBVIOUS
    <2> QED BY <2>1, <2>2, <2>3, <2>4 DEF LoopOK, In, Releasing, ClaimPCs
  <1>5. ContestOK(w)'
    BY Now DEF ContestOK
  <1> QED BY <1>2, <1>3, <1>4, <1>5 DEF Good, Sound

LEMMA ResumeGood ==
    ASSUME NEW w \in Workers, Ready(w), NEW h \in {"sessions", "sweep"}, pc[w] = h,
           UNCHANGED <<claims, older, active>>, NEW held \in BOOLEAN,
           NEW i \in loop[w].todo, w \in claims[i], Resume(w, i, held, h)
    PROVE  Good(w)'
  <1>1. CASE Visited(w, i) /\ Do(w, i, ClearSteps, FALSE, h, h)
    BY <1>1, VisitedDoGood, StepLists
  <1>2. CASE Visited(w, i) /\ Do(w, i, MergedSteps, FALSE, h, h)
    BY <1>2, VisitedDoGood, StepLists
  <1>3. CASE Found(w, i) /\ UNCHANGED <<pc, job>>
    BY <1>3, FoundGood
  <1> QED BY <1>1, <1>2, <1>3 DEF Resume

(* The collection is over.                                                 *)
LEMMA CollectedGood ==
    ASSUME NEW w \in Workers, Ready(w), NEW h \in {"sessions", "sweep"}, pc[w] = h,
           UNCHANGED <<claims, older, job>>, Collected(w)
    PROVE  Good(w)'
  <1>1. loop'[w] \in Loops
    BY NoLoopFacts DEF Collected, Ready, Maps
  <1>2. CASE NextWatched(w) = {}
    <2>1. active'[w] = NoIssue
      BY <1>2 DEF Collected, Ready, Maps
    <2>2. Goto(w, "idle") \/ Goto(w, "poll")
      BY <1>2 DEF Collected
    <2>3. /\ "idle" \in PCs \ ({"job", "sessions", "sweep", "candidates"} \union ClaimPCs)
          /\ "poll" \in PCs \ ({"job", "sessions", "sweep", "candidates"} \union ClaimPCs)
      BY DEF PCs, ClaimPCs
    <2> QED BY <1>1, <2>1, <2>2, <2>3, GotoGood, NoneTracked DEF RunPCs
  <1>3. ASSUME NEW a \in NextWatched(w), active' = [active EXCEPT ![w] = a],
               NextWatched(w) # {}
        PROVE  /\ active'[w] = a /\ a \in Actives /\ a.issue \in Issues /\ w \in claims[a.issue]
    <2>1. a \in loop[w].found
      BY <1>3 DEF NextWatched
    <2>2. active'[w] = a
      BY <1>3 DEF Ready, Maps
    <2> QED BY <2>1, <2>2, Collecting
  <1>4. ASSUME NEW a \in NextWatched(w), active' = [active EXCEPT ![w] = a],
               NextWatched(w) # {},
               Goto(w, CASE loop[w].why = "startup" -> "resume"
                         [] loop[w].why = "recover" -> "idle"
                         [] loop[w].why = "rotate" -> "poll")
        PROVE  Good(w)'
    <2>1. loop[w].why \in {"startup", "recover", "rotate"}
      <3>1. loop[w].why \in {"none", "startup", "recover", "rotate"}
        BY Now DEF Loops
      <3> QED BY <3>1, Collecting
    <2>2. Goto(w, "resume") \/ Goto(w, "idle") \/ Goto(w, "poll")
      BY <1>4, <2>1
    <2>3. \A p \in {"resume", "idle", "poll"} :
             p \in PCs \ ({"job", "sessions", "sweep", "candidates"} \union ClaimPCs)
      BY DEF PCs, ClaimPCs
    <2>4. pc[w] \notin {"settling", "job"}
      OBVIOUS
    <2>5. /\ active'[w] \in Actives /\ active'[w].issue \in Issues /\ w \in claims[active'[w].issue]
      BY <1>3, <1>4
    <2> QED BY <1>1, <2>2, <2>3, <2>4, <2>5, GotoGood
  <1> QED BY <1>2, <1>4 DEF Collected


(* The routine of a worker that keeps what it tracks, or lets go of it.    *)
LEMMA KeepGood ==
    ASSUME NEW w \in Workers, Ready(w), pc[w] # "job",
           UNCHANGED <<claims, older>>,
           NEW i \in Issues, NEW s, IsRoutine(s),
           NEW n \in {"idle", "rotate", "unmade"}, NEW e \in PCs, Do(w, i, s, FALSE, n, e),
           active'[w] \in Actives, loop'[w] \in Loops,
           active'[w] = NoIssue \/ active'[w].issue \in Issues,
           pc[w] = "settling" => i = loop[w].at /\ Head(s) = "release",
           n \in {"rotate", "unmade"} => active'[w].issue \in Issues,
           n = "idle" /\ active'[w].issue \in Issues
             => active'[w].issue # i /\ w \in claims[active'[w].issue]
    PROVE  Good(w)'
  <1> DEFINE f == FALSE
  <1>1. f \in BOOLEAN /\ Do(w, i, s, f, n, e) /\ ~f
    OBVIOUS
  <1> HIDE DEF f
  <1> QED BY <1>1, DoGood

LEMMA LetGoGood ==
    ASSUME NEW w \in Workers, Ready(w), pc[w] \notin {"settling", "job"},
           UNCHANGED <<claims, older, active, loop>>,
           NEW i \in Issues, NEW s, IsRoutine(s),
           NEW n \in {"idle", "poll"}, NEW e \in PCs, LetGo(w, i, s, n, e)
    PROVE  Good(w)'
  <1> DEFINE f == TRUE
  <1>1. f \in BOOLEAN /\ Do(w, i, s, f, n, e) /\ f
    BY DEF LetGo
  <1> HIDE DEF f
  <1>2. active'[w] \in Actives /\ loop'[w] \in Loops
        /\ (active'[w] = NoIssue \/ active'[w].issue \in Issues)
    BY Now
  <1> QED BY <1>1, <1>2, DoGood

(* The candidates: the worker turns to the next one, or first has a        *)
(* routine undo an attempt.                                                *)
Listed(w) ==
    /\ loop'[w] \in Loops
    /\ \A k \in loop'[w].todo : w \in claims[k] => k \in loop'[w].held \intersect loop'[w].taken

LEMMA ListedGood ==
    ASSUME NEW w \in Workers, Ready(w), pc[w] \in Tracking \ {"settling", "job"},
           UNCHANGED <<claims, older, active, job>>, pc'[w] = "candidates", Listed(w)
    PROVE  Good(w)'
  <1>1. LocalType(w)'
    BY Now DEF LocalType, PCs, RunPCs, ClaimPCs, Listed
  <1>2. ActiveOK(w)' /\ RoutineOK(w)'
    BY Now DEF ActiveOK, RoutineOK
  <1>3. LoopOK(w)'
    BY DEF LoopOK, In, ClaimPCs, Listed
  <1>4. ContestOK(w)'
    BY Now DEF ContestOK
  <1> QED BY <1>1, <1>2, <1>3, <1>4 DEF Good, Sound

LEMMA ListedDoGood ==
    ASSUME NEW w \in Workers, Ready(w), pc[w] \in Tracking \ {"job"},
           UNCHANGED <<claims, older, active>>, Listed(w),
           NEW i \in Issues, NEW s, IsRoutine(s), NEW e \in PCs, Do(w, i, s, FALSE, "candidates", e),
           active[w].issue \in Issues => active[w].issue # i,
           pc[w] = "settling" => i = loop[w].at /\ Head(s) = "release"
    PROVE  Good(w)'
  <1>1. /\ pc'[w] = "job" /\ job'[w] \in Routines
        /\ job'[w].issue = i /\ job'[w].do = s /\ job'[w].do # <<>>
        /\ ~job'[w].forget /\ job'[w].next = "candidates"
    <2> DEFINE f == FALSE
               n == "candidates"
    <2>1. f \in BOOLEAN /\ n \in PCs /\ Do(w, i, s, f, n, e) /\ ~f
      BY DEF PCs
    <2> HIDE DEF f, n
    <2>2. /\ pc'[w] = "job" /\ job'[w] \in Routines
          /\ job'[w].issue = i /\ job'[w].do = s /\ job'[w].do # <<>>
          /\ job'[w].forget = f /\ job'[w].next = n
      BY <2>1, DoFacts DEF Ready
    <2> QED BY <2>1, <2>2 DEF n
  <1>2. LocalType(w)'
    BY <1>1, Now DEF LocalType, PCs, RunPCs, ClaimPCs, Listed
  <1>3. ActiveOK(w)'
    BY <1>1, Now DEF ActiveOK, Tracking, RunPCs, ClaimPCs
  <1>4. RoutineOK(w)'
    BY <1>1, Now DEF RoutineOK, Returns
  <1>5. LoopOK(w)'
    BY <1>1 DEF LoopOK, In, ClaimPCs, Listed
  <1>6. ContestOK(w)'
    <2>1. \A k \in Issues : w \in claims[k] => older[k][w] = {} \/ (pc[w] = "settling" /\ loop[w].at = k)
      BY DEF Ready, Sound, ContestOK, Releasing
    <2> QED BY <1>1, <2>1 DEF ContestOK, Releasing
  <1> QED BY <1>2, <1>3, <1>4, <1>5, <1>6 DEF Good, Sound

(* What is known of the candidates and of the one being claimed.           *)
LEMMA Claiming ==
    ASSUME NEW w \in Workers, Ready(w), pc[w] \in {"candidates"} \union ClaimPCs
    PROVE  /\ loop[w] \in Loops /\ loop[w].todo \subseteq Issues
           /\ \A i \in loop[w].todo : w \in claims[i] => i \in loop[w].held \intersect loop[w].taken
           /\ active[w].issue \in Issues => w \in claims[active[w].issue]
           /\ pc[w] \in ClaimPCs => /\ loop[w].at \in Issues
                                    /\ loop[w].at \notin loop[w].todo
                                    /\ loop[w].at # active[w].issue
                                    /\ pc[w] = "labelling" <=> w \notin claims[loop[w].at]
  <1>1. loop[w] \in Loops
    BY Now
  <1>2. loop[w].todo \subseteq Issues
    BY <1>1 DEF Loops
  <1>3. \A i \in loop[w].todo : w \in claims[i] => i \in loop[w].held \intersect loop[w].taken
    BY DEF Ready, Sound, LoopOK, In
  <1>4. active[w].issue \in Issues => w \in claims[active[w].issue]
    BY Now DEF Tracking
  <1>5. pc[w] \in ClaimPCs => /\ loop[w].at \in Issues
                              /\ loop[w].at \notin loop[w].todo
                              /\ loop[w].at # active[w].issue
                              /\ pc[w] = "labelling" <=> w \notin claims[loop[w].at]
    BY DEF Ready, Sound, LoopOK, LocalType
  <1> QED BY <1>1, <1>2, <1>3, <1>4, <1>5


-----------------------------------------------------------------------------
(* Every action of the cycle leaves its worker in a sound state.           *)
Elsewhere == PCs \ ({"job", "sessions", "sweep", "candidates"} \union ClaimPCs)

LEMMA Places ==
    /\ \A p \in {"idle", "poll", "mr", "feedback", "rotate", "track", "failed", "start",
                 "prepare", "model", "publish", "unmade", "resume", "off"} : p \in Elsewhere
    /\ \A p \in {"idle", "poll", "mr", "feedback", "rotate", "track", "failed", "start",
                 "prepare", "model", "publish", "unmade", "resume", "off"} : p \in PCs
    /\ RunPCs = {"start", "prepare", "model", "publish", "feedback"}
    /\ \A p \in RunPCs \union {"idle", "poll", "mr", "track", "failed", "resume"} : p \in Tracking
    /\ {"off", "rotate", "unmade"} \intersect Tracking = {}
BY DEF Elsewhere, PCs, RunPCs, ClaimPCs, Tracking

(* The worker goes on with what it tracks.                                 *)
LEMMA OnGood ==
    ASSUME NEW w \in Workers, Ready(w), pc[w] \in Tracking \ {"settling", "job"},
           UNCHANGED <<claims, older, loop, job>>,
           NEW p \in Elsewhere, Goto(w, p),
           active'[w] \in Actives, active'[w].issue = active[w].issue,
           active'[w] = NoIssue \/ active'[w].issue \in Issues,
           p \in RunPCs \union {"mr", "track", "resume", "rotate", "unmade", "failed"}
                => active[w].issue \in Issues
    PROVE  Good(w)'
BY Now, GotoGood DEF Elsewhere

LEMMA BeginCycleGood ==
    ASSUME NEW w \in Workers, Ready(w), BeginCycle(w)
    PROVE  Good(w)'
BY CollectGood DEF BeginCycle, forge

LEMMA RotateGood ==
    ASSUME NEW w \in Workers, Ready(w), Rotate(w)
    PROVE  Good(w)'
BY CollectGood DEF Rotate, forge

LEMMA StartGood ==
    ASSUME NEW w \in Workers, Ready(w), Start(w)
    PROVE  Good(w)'
BY CollectGood DEF Start, forge

LEMMA CheckHoldGood ==
    ASSUME NEW w \in Workers, Ready(w), CheckHold(w)
    PROVE  Good(w)'
  <1>1. pc[w] = "idle" /\ active[w].issue \in Issues /\ UNCHANGED <<claims, older, active, loop>>
    BY Now DEF CheckHold, forge
  <1>2. CASE LetGo(w, active[w].issue, HoldSteps(active[w].issue), "poll", "poll")
    BY <1>1, <1>2, LetGoGood, StepLists, Places
  <1>3. CASE Goto(w, IF active[w].mr THEN "mr" ELSE "start") /\ UNCHANGED job
    <2>1. Goto(w, "mr") \/ Goto(w, "start")
      BY <1>3
    <2> QED BY <1>1, <1>3, <2>1, OnGood, Places, Now
  <1> QED BY <1>2, <1>3, Now DEF CheckHold

LEMMA WatchMrGood ==
    ASSUME NEW w \in Workers, Ready(w), WatchMr(w)
    PROVE  Good(w)'
  <1>1. pc[w] = "mr" /\ active[w].issue \in Issues /\ UNCHANGED <<claims, older, active, loop>>
    BY Now DEF WatchMr, forge
  <1>2. CASE Goto(w, "feedback") /\ UNCHANGED job
    BY <1>1, <1>2, OnGood, Places, Now
  <1>3. ASSUME NEW s, IsRoutine(s), LetGo(w, active[w].issue, s, "poll", "idle")
        PROVE  Good(w)'
    BY <1>1, <1>3, LetGoGood, Places
  <1>4. CASE LetGo(w, active[w].issue, IF mr[active[w].issue] = "merged"
                   THEN ClearSteps \o <<"closeIssue">> ELSE ClearSteps, "poll", "idle")
    BY <1>3, <1>4, StepLists
  <1> QED BY <1>2, <1>4, Now DEF WatchMr

LEMMA FeedbackGood ==
    ASSUME NEW w \in Workers, Ready(w), Feedback(w)
    PROVE  Good(w)'
  <1>1. pc[w] = "feedback" /\ active[w].issue \in Issues /\ UNCHANGED <<claims, older, active, loop>>
    BY Now, Places DEF Feedback, forge
  <1>2. CASE (Goto(w, "rotate") \/ Goto(w, "idle")) /\ UNCHANGED job
    BY <1>1, <1>2, OnGood, Places, Now
  <1>3. ASSUME NEW s, IsRoutine(s), Do(w, active[w].issue, s, FALSE, "rotate", "rotate")
        PROVE  Good(w)'
    BY <1>1, <1>3, KeepGood, Places, Now
  <1>4. CASE LetGo(w, active[w].issue, <<"closeMr", "unprogress", "askHuman", "unsession", "release">>,
                   "poll", "idle")
    BY <1>1, <1>4, LetGoGood, StepLists, Places
  <1> QED BY <1>1, <1>2, <1>3, <1>4, Now, StepLists DEF Feedback

LEMMA PollGood ==
    ASSUME NEW w \in Workers, Ready(w), Poll(w)
    PROVE  Good(w)'
  <1>1. pc[w] = "poll" /\ UNCHANGED <<claims, older, active, job>>
    BY DEF Poll, forge
  <1>2. CASE Goto(w, "idle") /\ UNCHANGED loop
    BY <1>1, <1>2, OnGood, Places, Now
  <1>3. ASSUME NEW T \in SUBSET Issues, NEW H \in SUBSET Issues, NEW K \in SUBSET Issues,
               Goto(w, "candidates"),
               loop'[w] = WithVisited(loop[w], T, H, K),
               \A k \in T : w \in claims[k] => k \in H \intersect K
        PROVE  Good(w)'
    <2>1. loop'[w] = WithVisited(loop[w], T, H, K)
      BY <1>3
    <2>2. loop'[w].todo = T /\ loop'[w].held = H /\ loop'[w].taken = K
      BY <2>1, Now, VisitedFields
    <2>3. loop'[w] \in Loops
      BY <2>1, Now, VisitedLoop
    <2>4. Listed(w)
      BY <1>3, <2>2, <2>3 DEF Listed
    <2>5. pc'[w] = "candidates"
      BY <1>3, Now DEF Goto, Maps
    <2> QED BY <1>1, <2>4, <2>5, ListedGood, Places
  <1>4. CASE ~shutdown[w] /\ Succeeds /\ Goto(w, "candidates")
             /\ LET parked == {i \in Issues : Eligible(i) /\ "waiting-on-issue" \in labels[i]}
                    free == {i \in Issues : Eligible(i) /\ claims[i] = {}}
                IN loop' = [loop EXCEPT ![w].todo = parked \union free, ![w].held = parked,
                                        ![w].taken = parked \ free]
    <2> DEFINE parked == {i \in Issues : Eligible(i) /\ "waiting-on-issue" \in labels[i]}
               free == {i \in Issues : Eligible(i) /\ claims[i] = {}}
    <2>1. /\ parked \union free \in SUBSET Issues /\ parked \in SUBSET Issues
          /\ parked \ free \in SUBSET Issues
      OBVIOUS
    <2>2. \A k \in parked \union free : w \in claims[k] => k \in parked \intersect (parked \ free)
      OBVIOUS
    <2>3. /\ Goto(w, "candidates")
          /\ loop' = [loop EXCEPT ![w].todo = parked \union free, ![w].held = parked,
                                  ![w].taken = parked \ free]
      BY <1>4
    <2>4. Maps
      BY Now
    <2> HIDE DEF parked, free
    <2>5. loop'[w] = WithVisited(loop[w], parked \union free, parked, parked \ free)
      BY <2>3, <2>4 DEF Maps, WithVisited
    <2> QED BY <1>3, <2>1, <2>2, <2>3, <2>5
  <1> QED BY <1>2, <1>4, Now DEF Poll

LEMMA EndPollGood ==
    ASSUME NEW w \in Workers, Ready(w), EndPoll(w)
    PROVE  Good(w)'
  <1>1. /\ pc[w] = "candidates" /\ UNCHANGED <<claims, older, active, job>> /\ Goto(w, "idle")
        /\ loop' = [loop EXCEPT ![w] = NoLoop]
    BY DEF EndPoll, forge
  <1>2. loop'[w] \in Loops
    BY <1>1, NoLoopFacts, Now DEF Maps
  <1>3. active[w].issue \in Issues => w \in claims[active[w].issue]
    BY <1>1, Claiming
  <1> QED BY <1>1, <1>2, <1>3, GotoGood, Places, Now DEF Elsewhere


WithHeld(l, H) == [l EXCEPT !.held = H]
WithAt(l, T, i) == [l EXCEPT !.todo = T, !.at = i]

LEMMA HeldLoop ==
    ASSUME NEW l \in Loops, NEW H \in SUBSET Issues
    PROVE  WithHeld(l, H) \in Loops
BY DEF WithHeld, Loops

LEMMA HeldFields ==
    ASSUME NEW l \in Loops, NEW H, NEW m, m = WithHeld(l, H)
    PROVE  m.todo = l.todo /\ m.held = H /\ m.taken = l.taken
BY DEF WithHeld, Loops

LEMMA AtLoop ==
    ASSUME NEW l \in Loops, NEW T \in SUBSET Issues, NEW i \in Issues
    PROVE  WithAt(l, T, i) \in Loops
BY DEF WithAt, Loops

LEMMA AtFields ==
    ASSUME NEW l \in Loops, NEW T, NEW i, NEW m, m = WithAt(l, T, i)
    PROVE  m.todo = T /\ m.at = i /\ m.held = l.held /\ m.taken = l.taken
BY DEF WithAt, Loops

WithSweep(l, T, H) == [l EXCEPT !.todo = T, !.held = H]

LEMMA SweepLoop ==
    ASSUME NEW l \in Loops, NEW T \in SUBSET Issues, NEW H \in SUBSET Issues
    PROVE  WithSweep(l, T, H) \in Loops
BY DEF WithSweep, Loops

LEMMA SweepFields ==
    ASSUME NEW l \in Loops, NEW T, NEW H, NEW m, m = WithSweep(l, T, H)
    PROVE  m.todo = T /\ m.found = l.found /\ m.why = l.why
BY DEF WithSweep, Loops

(* A candidate dealt with stays off the list.                              *)
LEMMA VisitedListed ==
    ASSUME NEW w \in Workers, Ready(w), pc[w] = "candidates", NEW i \in Issues, Visited(w, i)
    PROVE  Listed(w)
  <1>1. /\ loop'[w] \in Loops
        /\ loop'[w].todo = loop[w].todo \ {i} /\ loop'[w].held = loop[w].held \ {i}
        /\ loop'[w].taken = loop[w].taken \ {i}
    BY VisitedFacts, Now
  <1> QED BY <1>1, Claiming DEF Listed

LEMMA CheckDependencyGood ==
    ASSUME NEW w \in Workers, Ready(w), CheckDependency(w)
    PROVE  Good(w)'
  <1>1. pc[w] = "candidates" /\ UNCHANGED <<claims, older, active, job, pc>>
    BY DEF CheckDependency
  <1>2. ASSUME NEW i \in loop[w].todo \intersect loop[w].held, Visited(w, i)
        PROVE  Good(w)'
    BY <1>1, <1>2, VisitedListed, ListedGood, Claiming DEF Tracking, ClaimPCs
  <1>3. ASSUME NEW i \in loop[w].todo \intersect loop[w].held, i \notin loop[w].taken,
               loop' = [loop EXCEPT ![w].held = @ \ {i}]
        PROVE  Good(w)'
    <2>0. Maps
      BY Now
    <2>1. loop'[w] = WithHeld(loop[w], loop[w].held \ {i})
      BY <1>3, <2>0 DEF Maps, WithHeld
    <2>2. loop[w] \in Loops /\ loop[w].held \ {i} \in SUBSET Issues
      BY Now DEF Loops
    <2>3. loop'[w] \in Loops
      BY <2>1, <2>2, HeldLoop
    <2>4. /\ loop'[w].todo = loop[w].todo /\ loop'[w].held = loop[w].held \ {i}
          /\ loop'[w].taken = loop[w].taken
      <3> DEFINE H == loop[w].held \ {i}
      <3>1. loop'[w] = WithHeld(loop[w], H)
        BY <2>1
      <3> HIDE DEF H
      <3>2. loop'[w].todo = loop[w].todo /\ loop'[w].held = H /\ loop'[w].taken = loop[w].taken
        BY <2>2, <3>1, HeldFields
      <3> QED BY <3>2 DEF H
    <2>5. Listed(w)
      BY <1>1, <1>3, <2>3, <2>4, Claiming DEF Listed
    <2> QED BY <1>1, <2>5, ListedGood DEF Tracking, ClaimPCs
  <1> QED BY <1>2, <1>3 DEF CheckDependency

LEMMA BeginClaimGood ==
    ASSUME NEW w \in Workers, Ready(w), BeginClaim(w)
    PROVE  Good(w)'
  <1>1. pc[w] = "candidates" /\ UNCHANGED <<claims, older, active>>
    BY DEF BeginClaim, forge
  <1>2. ASSUME NEW i \in loop[w].todo \ loop[w].held
        PROVE  /\ i \in Issues /\ w \notin claims[i]
               /\ active[w].issue \in Issues => active[w].issue # i
    BY <1>1, Claiming
  <1>3. ASSUME NEW i \in loop[w].todo \ loop[w].held, Goto(w, "labelling"), UNCHANGED job,
               loop' = [loop EXCEPT ![w].todo = @ \ {i}, ![w].at = i]
        PROVE  Good(w)'
    <2>0. Maps
      BY Now
    <2>1. loop'[w] = WithAt(loop[w], loop[w].todo \ {i}, i)
      BY <1>3, <2>0 DEF Maps, WithAt
    <2>2. loop[w] \in Loops /\ loop[w].todo \ {i} \in SUBSET Issues /\ i \in Issues
      BY <1>2, Now DEF Loops
    <2>3. loop'[w] \in Loops
      BY <2>1, <2>2, AtLoop
    <2>4. /\ loop'[w].todo = loop[w].todo \ {i} /\ loop'[w].at = i
          /\ loop'[w].held = loop[w].held /\ loop'[w].taken = loop[w].taken
      <3> DEFINE T == loop[w].todo \ {i}
      <3>1. loop'[w] = WithAt(loop[w], T, i)
        BY <2>1
      <3> HIDE DEF T
      <3>2. /\ loop'[w].todo = T /\ loop'[w].at = i
            /\ loop'[w].held = loop[w].held /\ loop'[w].taken = loop[w].taken
        BY <2>2, <3>1, AtFields
      <3> QED BY <3>2 DEF T
    <2>5. pc'[w] = "labelling"
      BY <1>3, <2>0 DEF Goto, Maps
    <2>6. LocalType(w)'
      <3>1. active'[w] \in Actives /\ job'[w] \in Routines
        <4>1. active' = active /\ job' = job
          BY <1>1, <1>3
        <4> QED BY <2>2, <4>1, Now
      <3>2. loop'[w].at \in Issues
        BY <2>2, <2>4
      <3> QED BY <2>3, <2>5, <3>1, <3>2, ZenonT(40) DEF LocalType, PCs, RunPCs, ClaimPCs
    <2>7. ActiveOK(w)' /\ RoutineOK(w)'
      BY <1>1, <2>5, Now, Claiming DEF ActiveOK, RoutineOK
    <2>8. LoopOK(w)'
      <3>1. \A k \in loop'[w].todo : w \in claims[k] => k \in loop'[w].held \intersect loop'[w].taken
        BY <1>1, <2>4, Claiming
      <3>2. i # active[w].issue
        BY <1>2, Now, NoneTracked
      <3> QED BY <1>1, <1>2, <2>4, <2>5, <3>1, <3>2 DEF LoopOK, In, ClaimPCs
    <2>9. ContestOK(w)'
      BY <1>1, Now DEF ContestOK
    <2> QED BY <2>6, <2>7, <2>8, <2>9 DEF Good, Sound
  <1>4. ASSUME NEW i \in loop[w].todo \ loop[w].held, Visited(w, i),
               Do(w, i, <<"unsession">>, FALSE, "candidates", "candidates")
        PROVE  Good(w)'
    <2>1. Listed(w)
      BY <1>1, <1>2, <1>4, VisitedListed
    <2>2. "candidates" \in PCs /\ "candidates" \in Tracking \ {"job"}
      BY DEF PCs, Tracking, ClaimPCs
    <2> QED BY <1>1, <1>2, <1>4, <2>1, <2>2, ListedDoGood, StepLists
  <1> QED BY <1>3, <1>4, Now DEF BeginClaim

LEMMA AddLabelGood ==
    ASSUME NEW w \in Workers, Ready(w), AddLabel(w)
    PROVE  Good(w)'
  <1> DEFINE i == loop[w].at
  <1>1. /\ pc[w] = "labelling" /\ UNCHANGED <<active, job, loop>>
        /\ AddClaim(w, i) /\ Goto(w, "settling")
    BY Now DEF AddLabel
  <1>2. /\ loop[w] \in Loops /\ i \in Issues /\ i \notin loop[w].todo
        /\ i # active[w].issue /\ w \notin claims[i]
        /\ \A k \in loop[w].todo : w \in claims[k] => k \in loop[w].held \intersect loop[w].taken
        /\ active[w].issue \in Issues => w \in claims[active[w].issue]
    BY <1>1, Claiming DEF ClaimPCs
  <1> HIDE DEF i
  <1>3. pc'[w] = "settling"
    BY <1>1, Now DEF Goto, Maps
  <1>4. /\ w \in claims'[i]
        /\ \A k \in Issues \ {i} : claims'[k] = claims[k] /\ older'[k] = older[k]
    BY <1>1, <1>2, Now DEF AddClaim, ForgeType
  <1>5. LocalType(w)'
    BY <1>1, <1>2, <1>3, Now DEF LocalType, PCs, RunPCs, ClaimPCs, i
  <1>6. ActiveOK(w)' /\ RoutineOK(w)'
    BY <1>1, <1>2, <1>3, <1>4, Now DEF ActiveOK, RoutineOK
  <1>7. LoopOK(w)'
    <2>1. loop[w].todo \subseteq Issues
      BY <1>2 DEF Loops
    <2>2. \A k \in loop[w].todo : w \in claims'[k] => k \in loop[w].held \intersect loop[w].taken
      BY <1>2, <1>4, <2>1
    <2> QED BY <1>1, <1>2, <1>3, <1>4, <2>2 DEF LoopOK, In, ClaimPCs, i
  <1>8. ContestOK(w)'
    <2>1. \A k \in Issues \ {i} : w \in claims'[k] => older'[k][w] = {}
      BY <1>1, <1>4, Now
    <2> QED BY <1>1, <1>3, <2>1 DEF ContestOK, i
  <1> QED BY <1>5, <1>6, <1>7, <1>8 DEF Good, Sound

LEMMA SettleGood ==
    ASSUME NEW w \in Workers, Ready(w), Settle(w)
    PROVE  Good(w)'
  <1> DEFINE i == loop[w].at
  <1>1. pc[w] = "settling" /\ UNCHANGED <<claims, older, active>>
    BY DEF Settle, forge
  <1>2. /\ loop[w] \in Loops /\ i \in Issues /\ i \notin loop[w].todo
        /\ i # active[w].issue /\ w \in claims[i]
        /\ \A k \in loop[w].todo : w \in claims[k] => k \in loop[w].held \intersect loop[w].taken
        /\ active[w].issue \in Issues => w \in claims[active[w].issue]
    BY <1>1, Claiming DEF ClaimPCs
  <1>3. CASE older[i][w] = {} /\ Goto(w, "won") /\ UNCHANGED <<loop, job>>
    <2>1. pc'[w] = "won"
      BY <1>3, Now DEF Goto, Maps
    <2>2. LocalType(w)'
      BY <1>1, <1>2, <1>3, <2>1, Now DEF LocalType, PCs, RunPCs, ClaimPCs
    <2>3. ActiveOK(w)' /\ RoutineOK(w)'
      BY <1>1, <1>2, <2>1, Now DEF ActiveOK, RoutineOK
    <2>4. LoopOK(w)'
      BY <1>1, <1>2, <1>3, <2>1 DEF LoopOK, In, ClaimPCs
    <2>5. ContestOK(w)'
      <3>1. \A k \in Issues : w \in claims[k] => older[k][w] = {} \/ k = i
        BY <1>1 DEF Ready, Sound, ContestOK, Releasing
      <3> QED BY <1>1, <1>3, <3>1 DEF ContestOK
    <2> QED BY <2>2, <2>3, <2>4, <2>5 DEF Good, Sound
  <1>4. /\ Head(<<"release", "unsession">>) = "release"
        /\ "candidates" \in PCs /\ "candidates" \in Returns /\ "settling" \in Tracking \ {"job"}
        /\ "idle" \in PCs
    BY DEF PCs, Tracking, ClaimPCs, Returns
  <1>5. CASE UNCHANGED loop /\ Do(w, i, <<"release", "unsession">>, FALSE, "candidates", "idle")
    <2>1. Listed(w)
      BY <1>2, <1>5 DEF Listed
    <2> QED BY <1>1, <1>2, <1>4, <1>5, <2>1, ListedDoGood, StepLists
  <1>6. CASE loop' = [loop EXCEPT ![w] = NoLoop]
             /\ Do(w, i, <<"release", "unsession">>, FALSE, "idle", "idle")
    <2>1. loop'[w] \in Loops
      BY <1>6, NoLoopFacts, Now DEF Maps
    <2> QED BY <1>1, <1>2, <1>4, <1>6, <2>1, KeepGood, StepLists, Now
  <1> QED BY <1>3, <1>5, <1>6, Now DEF Settle, Wins

LEMMA WonGood ==
    ASSUME NEW w \in Workers, Ready(w), Won(w)
    PROVE  Good(w)'
  <1> DEFINE i == loop[w].at
  <1>1. pc[w] = "won" /\ UNCHANGED <<claims, older>>
    BY DEF Won, forge
  <1>2. /\ loop[w] \in Loops /\ i \in Issues /\ i \notin loop[w].todo
        /\ i # active[w].issue /\ w \in claims[i]
        /\ \A k \in loop[w].todo : w \in claims[k] => k \in loop[w].held \intersect loop[w].taken
        /\ active[w].issue \in Issues => w \in claims[active[w].issue]
    BY <1>1, Claiming DEF ClaimPCs
  <1>3. ASSUME loop' = [loop EXCEPT ![w] = NoLoop]
        PROVE  loop'[w] \in Loops
    BY <1>3, NoLoopFacts, Now DEF Maps
  <1>4. /\ "candidates" \in PCs /\ "won" \in Tracking \ {"job"} /\ "idle" \in PCs
    BY DEF PCs, Tracking, ClaimPCs
  <1>5. CASE /\ Do(w, i, <<"tryRelease", "unsession">>, FALSE, "idle", "idle")
             /\ loop' = [loop EXCEPT ![w] = NoLoop] /\ UNCHANGED active
    BY <1>1, <1>2, <1>3, <1>4, <1>5, KeepGood, StepLists, Now
  <1>6. CASE /\ Do(w, i, <<"tryRelease", "unsession">>, FALSE, "candidates", "candidates")
             /\ UNCHANGED <<loop, active>>
    <2>1. Listed(w)
      BY <1>2, <1>6 DEF Listed
    <2> QED BY <1>1, <1>2, <1>4, <1>6, <2>1, ListedDoGood, StepLists
  <1>7. CASE Goto(w, "start") /\ Pinned(w, i) /\ loop' = [loop EXCEPT ![w] = NoLoop] /\ UNCHANGED job
    <2>1. active'[w] \in Actives /\ active'[w].issue = i
      <3>1. active'[w] = [issue |-> i, mr |-> FALSE]
        BY <1>7, Now DEF Pinned, Maps
      <3> QED BY <1>2, <3>1 DEF Actives
    <2> QED BY <1>1, <1>2, <1>3, <1>7, <2>1, GotoGood, Places DEF Elsewhere
  <1> QED BY <1>5, <1>6, <1>7, Now DEF Won


(* A worker at one of these places has an issue with its label.            *)
LEMMA Running ==
    ASSUME NEW w \in Workers, Ready(w), pc[w] \in {"start", "prepare", "model", "publish", "track"}
    PROVE  /\ active[w].issue \in Issues /\ pc[w] \in Tracking \ {"settling", "job"}
           /\ pc[w] \notin {"settling", "job"}
           /\ w \in claims[active[w].issue] /\ active[w] \in Actives /\ loop[w] \in Loops
BY Now, Places DEF Tracking, RunPCs, ClaimPCs

(* It goes on with it, with or without a merge request.                    *)
LEMMA RunOn ==
    ASSUME NEW w \in Workers, Ready(w), pc[w] \in {"start", "prepare", "model", "publish", "track"},
           UNCHANGED <<claims, older, loop, job>>, UNCHANGED active \/ MakesMr(w),
           NEW p \in {"idle", "prepare", "model", "publish", "track", "failed"}, Goto(w, p)
    PROVE  Good(w)'
  <1>1. active'[w] \in Actives /\ active'[w].issue = active[w].issue
    <2>1. CASE UNCHANGED active
      BY <2>1, Running
    <2>2. CASE MakesMr(w)
      <3>1. active \in [Workers -> Actives]
        BY Now DEF Maps
      <3>2. active'[w] = [active[w] EXCEPT !.mr = TRUE]
        BY <2>2, <3>1 DEF MakesMr
      <3>3. \A a \in Actives : [a EXCEPT !.mr = TRUE] \in Actives
                               /\ [a EXCEPT !.mr = TRUE].issue = a.issue
        BY DEF Actives
      <3> QED BY <3>1, <3>2, <3>3
    <2> QED BY <2>1, <2>2
  <1> QED BY <1>1, OnGood, Running, Places

(* It ends without a merge request.                                        *)
LEMMA RunEnds ==
    ASSUME NEW w \in Workers, Ready(w), pc[w] \in {"start", "prepare", "model", "publish", "track"},
           UNCHANGED <<claims, older, loop, active>>,
           NEW s, IsRoutine(s), NEW e \in {"unmade", "failed"},
           Do(w, active[w].issue, s, FALSE, "unmade", e)
    PROVE  Good(w)'
BY KeepGood, Running, Places

LEMMA StartRunGood ==
    ASSUME NEW w \in Workers, Ready(w), StartRun(w)
    PROVE  Good(w)'
  <1>1. pc[w] = "start" /\ UNCHANGED <<claims, older, loop>>
    BY DEF StartRun
  <1>2. CASE (Goto(w, "track") \/ Goto(w, "prepare")) /\ UNCHANGED job
             /\ (UNCHANGED active \/ MakesMr(w))
    BY <1>1, <1>2, RunOn
  <1>3. CASE UNCHANGED active /\ \E s : IsRoutine(s) /\ Do(w, active[w].issue, s, FALSE, "unmade", "unmade")
    BY <1>1, <1>3, RunEnds
  <1>4. CASE StopForReview(w, active[w].issue) /\ UNCHANGED active
    BY <1>3, <1>4, StepLists DEF StopForReview
  <1>5. CASE Do(w, active[w].issue, <<"closeIssue", "unsession">>, FALSE, "unmade", "unmade")
             /\ UNCHANGED active
    BY <1>3, <1>5, StepLists
  <1> QED BY <1>2, <1>4, <1>5, Now DEF StartRun

LEMMA PrepareGood ==
    ASSUME NEW w \in Workers, Ready(w), Prepare(w)
    PROVE  Good(w)'
  <1>1. pc[w] = "prepare" /\ UNCHANGED <<claims, older, loop, active>>
    BY DEF Prepare
  <1>2. CASE Goto(w, "model") /\ UNCHANGED job
    BY <1>1, <1>2, RunOn
  <1>3. CASE Do(w, active[w].issue, ClearSteps, FALSE, "unmade", "unmade")
    BY <1>1, <1>3, RunEnds, StepLists
  <1> QED BY <1>2, <1>3, Now DEF Prepare, StopForReview

LEMMA ModelGood ==
    ASSUME NEW w \in Workers, Ready(w), Model(w)
    PROVE  Good(w)'
  <1>1. pc[w] = "model" /\ UNCHANGED <<claims, older, loop>>
    BY DEF Model
  <1>2. CASE (Goto(w, "publish") \/ Goto(w, "track") \/ Goto(w, "failed")) /\ UNCHANGED job
             /\ (UNCHANGED active \/ MakesMr(w))
    BY <1>1, <1>2, RunOn
  <1>3. ASSUME NEW s, IsRoutine(s), NEW e \in {"unmade", "failed"}, UNCHANGED active,
               Do(w, active[w].issue, s, FALSE, "unmade", e)
        PROVE  Good(w)'
    BY <1>1, <1>3, RunEnds
  <1>4. CASE UNCHANGED active
             /\ Do(w, active[w].issue, <<"closeMr", "mustUnprogress", "askHuman">>, FALSE, "unmade", "failed")
    BY <1>3, <1>4, StepLists
  <1>5. CASE UNCHANGED active
             /\ Do(w, active[w].issue, <<"park", "unprogress", "release", "unsession">>, FALSE, "unmade", "failed")
    BY <1>3, <1>5, StepLists
  <1>6. CASE UNCHANGED active
             /\ Do(w, active[w].issue, CancelSteps(active[w].issue), FALSE, "unmade", "unmade")
    BY <1>1, <1>3, <1>6, StepLists, Running
  <1> QED BY <1>2, <1>4, <1>5, <1>6, Now DEF Model

LEMMA PublishGood ==
    ASSUME NEW w \in Workers, Ready(w), Publish(w)
    PROVE  Good(w)'
  <1>1. pc[w] = "publish" /\ UNCHANGED <<claims, older, loop, job>>
    BY DEF Publish
  <1>2. CASE (Goto(w, "track") \/ Goto(w, "failed")) /\ (UNCHANGED active \/ MakesMr(w))
    BY <1>1, <1>2, RunOn
  <1> QED BY <1>2, Now DEF Publish

LEMMA TrackGood ==
    ASSUME NEW w \in Workers, Ready(w), Track(w)
    PROVE  Good(w)'
  <1>1. pc[w] = "track" /\ UNCHANGED <<claims, older, loop>>
    BY DEF Track, forge
  <1>2. CASE Goto(w, "idle") /\ UNCHANGED <<active, job>>
    BY <1>1, <1>2, RunOn
  <1>3. CASE active' = [active EXCEPT ![w] = NoIssue]
             /\ Do(w, active[w].issue, ClearSteps, FALSE, "idle", "idle")
    <2>1. active'[w] = NoIssue
      BY <1>3, Now DEF Maps
    <2> QED BY <1>1, <1>3, <2>1, KeepGood, StepLists, Running, Places, NoneTracked
  <1> QED BY <1>2, <1>3, Now DEF Track

LEMMA UnmadeGood ==
    ASSUME NEW w \in Workers, Ready(w), Unmade(w)
    PROVE  Good(w)'
  <1>1. /\ pc[w] = "unmade" /\ UNCHANGED <<claims, older, loop, active>>
        /\ active[w].issue \in Issues
    BY Now DEF Unmade, forge
  <1>2. ASSUME NEW s, IsRoutine(s), LetGo(w, active[w].issue, s, "idle", "idle")
        PROVE  Good(w)'
    BY <1>1, <1>2, LetGoGood, Places
  <1>3. CASE again[w]
    BY <1>2, <1>3, StepLists DEF Unmade
  <1>4. CASE ~again[w]
    BY <1>2, <1>4, StepLists DEF Unmade
  <1> QED BY <1>3, <1>4

LEMMA FailedGood ==
    ASSUME NEW w \in Workers, Ready(w), Failed(w)
    PROVE  Good(w)'
  <1>1. /\ pc[w] = "failed" /\ UNCHANGED <<claims, older, loop, active>>
        /\ active[w].issue \in Issues
    BY Now DEF Failed, forge
  <1>2. ASSUME NEW s, IsRoutine(s), LetGo(w, active[w].issue, s, "idle", "idle")
        PROVE  Good(w)'
    BY <1>1, <1>2, LetGoGood, Places
  <1>3. CASE shutdown[w]
    BY <1>1, <1>3, OnGood, Places, Now DEF Failed
  <1>4. CASE ~shutdown[w] /\ again[w]
    BY <1>2, <1>4, StepLists DEF Failed
  <1>5. CASE ~shutdown[w] /\ ~again[w]
    BY <1>2, <1>5, StepLists DEF Failed
  <1> QED BY <1>3, <1>4, <1>5

LEMMA CheckSessionGood ==
    ASSUME NEW w \in Workers, Ready(w), CheckSession(w)
    PROVE  Good(w)'
  <1>1. pc[w] = "sessions" /\ UNCHANGED <<claims, older, active>>
    BY DEF CheckSession, forge
  <1>2. ASSUME NEW i \in loop[w].todo, Visited(w, i), UNCHANGED <<pc, job>>
        PROVE  Good(w)'
    BY <1>1, <1>2, VisitedGood, Collecting
  <1>3. ASSUME NEW i \in loop[w].todo, Visited(w, i),
               Do(w, i, AbandonSteps, FALSE, "sessions", "sessions")
        PROVE  Good(w)'
    BY <1>1, <1>3, VisitedDoGood, StepLists
  <1>4. ASSUME NEW i \in loop[w].todo, claims[i] = {w},
               Resume(w, i, HasAny(i, {"pending", "review-only"}), "sessions")
        PROVE  Good(w)'
    <2>1. HasAny(i, {"pending", "review-only"}) \in BOOLEAN
      BY DEF HasAny
    <2> QED BY <1>1, <1>4, <2>1, ResumeGood
  <1> QED BY <1>2, <1>3, <1>4, Now DEF CheckSession

LEMMA CheckClaimGood ==
    ASSUME NEW w \in Workers, Ready(w), CheckClaim(w)
    PROVE  Good(w)'
  <1>1. pc[w] = "sweep" /\ UNCHANGED <<claims, older, active>>
    BY DEF CheckClaim, forge
  <1>2. PICK i \in loop[w].todo : Resume(w, i, i \in loop[w].held, "sweep")
    BY DEF CheckClaim
  <1>3. w \in claims[i] /\ (i \in loop[w].held) \in BOOLEAN
    BY <1>1, Collecting
  <1> QED BY <1>1, <1>2, <1>3, ResumeGood

LEMMA EndSweepGood ==
    ASSUME NEW w \in Workers, Ready(w), EndSweep(w)
    PROVE  Good(w)'
BY CollectedGood DEF EndSweep, forge

LEMMA ListClaimsGood ==
    ASSUME NEW w \in Workers, Ready(w), ListClaims(w)
    PROVE  Good(w)'
  <1>1. /\ pc[w] = "sessions" /\ loop[w].todo = {} /\ UNCHANGED <<claims, older, job, active>>
        /\ Goto(w, "sweep")
        /\ loop' = [loop EXCEPT ![w].todo = Orphans(w),
                                ![w].held = {i \in Orphans(w) : HasAny(i, {"pending", "review-only"})}]
    BY Now DEF ListClaims, forge
  <1> DEFINE T == Orphans(w)
             H == {i \in Orphans(w) : HasAny(i, {"pending", "review-only"})}
  <1>2. /\ T \in SUBSET Issues /\ H \in SUBSET Issues
        /\ \A i \in T : w \in claims[i] /\ \A a \in loop[w].found : a.issue # i
    BY DEF Orphans
  <1>3. loop' = [loop EXCEPT ![w].todo = T, ![w].held = H]
    BY <1>1
  <1>4. Maps /\ loop[w] \in Loops /\ loop[w].taken \in SUBSET Issues
    BY Now DEF Loops
  <1> HIDE DEF T, H
  <1>5. /\ loop'[w] \in Loops /\ loop'[w].todo = T /\ loop'[w].found = loop[w].found
        /\ loop'[w].why = loop[w].why
    <2>1. loop'[w] = WithSweep(loop[w], T, H)
      BY <1>3, <1>4 DEF Maps, WithSweep
    <2> QED BY <1>2, <1>4, <2>1, SweepLoop, SweepFields
  <1>6. pc'[w] = "sweep"
    BY <1>1, <1>4 DEF Goto, Maps
  <1>7. LocalType(w)'
    BY <1>1, <1>5, <1>6, Now DEF LocalType, PCs, RunPCs, ClaimPCs
  <1>8. ActiveOK(w)' /\ RoutineOK(w)'
    BY <1>1, <1>6, Now DEF ActiveOK, RoutineOK, Tracking, RunPCs, ClaimPCs
  <1>9. LoopOK(w)'
    <2>1. \A a \in loop[w].found : w \in claims[a.issue] /\ a.issue \notin T
      BY <1>1, <1>2, Collecting
    <2>2. loop[w].why # "none"
      BY <1>1, Collecting
    <2> QED BY <1>1, <1>2, <1>5, <1>6, <2>1, <2>2 DEF LoopOK, In, Releasing, ClaimPCs
  <1>10. ContestOK(w)'
    BY <1>1, Now DEF ContestOK
  <1> QED BY <1>7, <1>8, <1>9, <1>10 DEF Good, Sound

LEMMA ResumeCheckGood ==
    ASSUME NEW w \in Workers, Ready(w), ResumeCheck(w)
    PROVE  Good(w)'
  <1>1. /\ pc[w] = "resume" /\ UNCHANGED <<claims, older, loop>> /\ active[w].issue \in Issues
    BY Now DEF ResumeCheck, forge
  <1>2. CASE Goto(w, "idle") /\ UNCHANGED <<active, job>>
    BY <1>1, <1>2, OnGood, Places, Now
  <1>3. ASSUME active' = [active EXCEPT ![w] = NoIssue], NEW s, IsRoutine(s),
               Do(w, active[w].issue, s, FALSE, "idle", "idle")
        PROVE  Good(w)'
    <2>1. active'[w] = NoIssue /\ loop'[w] \in Loops /\ pc[w] \notin {"job", "settling"}
      BY <1>1, <1>3, Now DEF Maps
    <2> QED BY <1>1, <1>3, <2>1, KeepGood, Places, NoneTracked
  <1>4. CASE /\ active' = [active EXCEPT ![w] = NoIssue]
             /\ Do(w, active[w].issue,
                   IF ~open[active[w].issue] /\ "scope" \in labels[active[w].issue]
                   THEN AbandonSteps ELSE ClearSteps, FALSE, "idle", "idle")
    BY <1>3, <1>4, StepLists
  <1> QED BY <1>2, <1>4, Now DEF ResumeCheck

(* The process is gone: its labels stay, none of them contested.           *)
LEMMA ForgetGood ==
    ASSUME NEW w \in Workers, Ready(w), UNCHANGED <<claims, older>>, Forget(w),
           \A i \in Issues : w \in claims[i] => older[i][w] = {}
    PROVE  Good(w)'
  <1>1. /\ pc'[w] = "off" /\ active'[w] = NoIssue /\ loop'[w] = NoLoop /\ job'[w] = NoJob
    BY Now DEF Forget, Goto, Maps
  <1>2. NoJob \in Routines
    BY EmptySeq DEF NoJob, Routines, PCs
  <1>3. LocalType(w)'
    BY <1>1, <1>2, NoLoopFacts, NoneTracked DEF LocalType, PCs, RunPCs, ClaimPCs
  <1>4. ActiveOK(w)' /\ RoutineOK(w)' /\ LoopOK(w)'
    BY <1>1 DEF ActiveOK, RoutineOK, LoopOK, In, Tracking, RunPCs, ClaimPCs
  <1>5. ContestOK(w)'
    BY DEF ContestOK
  <1> QED BY <1>3, <1>4, <1>5 DEF Good, Sound

LEMMA ShutDownGood ==
    ASSUME NEW w \in Workers, Ready(w), ShutDown(w)
    PROVE  Good(w)'
BY ForgetGood, Now DEF ShutDown, forge

LEMMA KillGood ==
    ASSUME NEW w \in Workers, Ready(w), Ordered, ~ContestKills, Kill(w)
    PROVE  Good(w)'
  <1>1. \A i \in Issues : w \in claims[i] => older[i][w] = {}
    BY DEF Kill, Ordered
  <1> QED BY <1>1, ForgetGood DEF Kill, forge


(* The rest of a routine.                                                  *)
WithRest(j) == [j EXCEPT !.do = Tail(@)]

LEMMA RestOfRoutine ==
    ASSUME NEW j \in Routines, Len(j.do) > 1
    PROVE  WithRest(j) \in Routines
  <1>1. j.do \in Seq(Steps) /\ j.do # <<>>
    BY EmptySeq DEF Routines
  <1>2. Tail(j.do) \in Seq(Steps)
    BY <1>1, HeadTailProperties
  <1> QED BY <1>2 DEF WithRest, Routines

LEMMA RestFields ==
    ASSUME NEW j \in Routines, Len(j.do) > 1
    PROVE  /\ WithRest(j).do # <<>> /\ WithRest(j).issue = j.issue
           /\ WithRest(j).forget = j.forget /\ WithRest(j).next = j.next
  <1>1. j.do \in Seq(Steps)
    BY DEF Routines
  <1>2. WithRest(j).do = Tail(j.do)
    BY DEF WithRest, Routines
  <1>3. Tail(j.do) # <<>>
    <2> DEFINE d == j.do
               t == Tail(d)
    <2>1. d # <<>> /\ Len(d) > 1
      OBVIOUS
    <2>2. d \in Seq(Steps)
      BY <1>1
    <2>3. Len(d) \in Nat
      BY <2>2, LenProperties
    <2> HIDE DEF d
    <2>4. Len(t) = Len(d) - 1
      BY <2>1, <2>2, HeadTailProperties
    <2> HIDE DEF t
    <2>5. Len(t) # 0
      BY <2>1, <2>3, <2>4
    <2>6. t # <<>>
      BY <2>5
    <2> QED BY <2>6 DEF t, d
  <1>4. /\ WithRest(j).issue = j.issue /\ WithRest(j).forget = j.forget /\ WithRest(j).next = j.next
    BY DEF WithRest, Routines
  <1> QED BY <1>2, <1>3, <1>4

(* What a step of a routine does to the worker's own labels.               *)
LEMMA JobLabels ==
    ASSUME NEW w \in Workers, Ready(w), JobStep(w)
    PROVE  /\ StepDone(w) /\ ClaimStep(w)
           /\ \A k \in Issues : w \in claims'[k] => w \in claims[k] /\ older'[k][w] = {}
           /\ \A k \in Issues \ {job[w].issue} : w \in claims[k] => w \in claims'[k]
  <1> DEFINE i == job[w].issue
             step == Head(job[w].do)
  <1>1. pc[w] = "job" /\ i \in Issues /\ StepEffect(w, i, step) /\ StepDone(w)
    <2>1. pc[w] = "job" /\ i \in Issues
      BY DEF JobStep, Ready, LocalType
    <2> QED BY <2>1, Now DEF JobStep
  <1>2. step \in Steps
    <2>1. job[w].do \in Seq(Steps) /\ job[w].do # <<>>
      BY <1>1 DEF Ready, LocalType, Routines
    <2> QED BY <2>1, HeadTailProperties
  <1>3. \A k \in Issues : w \in claims[k] => older[k][w] = {} \/ (k = i /\ step = "release")
    BY <1>1 DEF Ready, Sound, ContestOK, Releasing
  <1> HIDE DEF i, step
  <1>4. CASE step \in {"release", "tryRelease"}
    <2>1. DropClaim(w, i)
      BY <1>1, <1>4 DEF StepEffect
    <2>2. /\ w \notin claims'[i]
          /\ \A k \in Issues \ {i} : claims'[k] = claims[k] /\ older'[k] = older[k]
      BY <1>1, <2>1, Now DEF DropClaim, ForgeType
    <2>3. ClaimStep(w)
      BY <1>1, <2>1 DEF ClaimStep
    <2> QED BY <1>1, <1>3, <2>2, <2>3 DEF i
  <1>5. CASE step \notin {"release", "tryRelease"}
    <2>1. UNCHANGED <<claims, older>>
      BY <1>1, <1>2, <1>5 DEF StepEffect, Steps, forge
    <2> QED BY <1>1, <1>3, <1>5, <2>1 DEF i, ClaimStep
  <1> QED BY <1>4, <1>5

LEMMA JobStepGood ==
    ASSUME NEW w \in Workers, Ready(w), JobStep(w)
    PROVE  Good(w)'
  <1> DEFINE j == job[w]
  <1>1. /\ pc[w] = "job" /\ j \in Routines /\ j.issue \in Issues /\ j.next \in Returns
        /\ j.next = "poll" => j.forget
        /\ j.next \in {"rotate", "unmade"} => ~j.forget /\ active[w].issue \in Issues
        /\ j.next \in {"idle", "candidates"} /\ ~j.forget /\ active[w].issue \in Issues
             => active[w].issue # j.issue /\ w \in claims[active[w].issue]
    BY DEF JobStep, Ready, LocalType, Sound, RoutineOK
  <1>2. /\ StepDone(w)
        /\ \A k \in Issues : w \in claims'[k] => w \in claims[k] /\ older'[k][w] = {}
        /\ \A k \in Issues \ {j.issue} : w \in claims[k] => w \in claims'[k]
    BY JobLabels
  <1>3. ContestOK(w)'
    BY <1>2 DEF ContestOK
  <1>4. /\ active[w] \in Actives /\ loop[w] \in Loops /\ Maps
        /\ active[w] = NoIssue \/ active[w].issue \in Issues
        /\ loop[w].todo \subseteq Issues /\ loop[w].found \subseteq [issue : Issues, mr : BOOLEAN]
    BY Now DEF Loops
  <1>5. /\ j.next \in {"sessions", "sweep"} =>
             /\ loop[w].why # "none"
             /\ \A a \in loop[w].found : /\ w \in claims'[a.issue] /\ a.issue \notin loop[w].todo
                                         /\ a.issue # j.issue
        /\ j.next = "sweep" => \A k \in loop[w].todo : w \in claims'[k] /\ k # j.issue
        /\ j.next = "candidates" =>
             \A k \in loop[w].todo : w \in claims'[k] => k \in loop[w].held \intersect loop[w].taken
    <2>1. /\ j.next \in {"sessions", "sweep"} =>
             /\ loop[w].why # "none"
             /\ \A a \in loop[w].found : /\ w \in claims[a.issue] /\ a.issue \notin loop[w].todo
                                         /\ a.issue # j.issue
          /\ j.next = "sweep" => \A k \in loop[w].todo : w \in claims[k] /\ k # j.issue
          /\ j.next = "candidates" =>
             \A k \in loop[w].todo : w \in claims[k] => k \in loop[w].held \intersect loop[w].taken
      BY <1>1 DEF Ready, Sound, LoopOK, In, Releasing
    <2>2. \A a \in loop[w].found : a.issue \in Issues
      BY <1>4
    <2> QED BY <1>2, <1>4, <2>1, <2>2
  <1>6. CASE Len(j.do) > 1
    <2>1. UNCHANGED <<pc, active, loop>> /\ job' = [job EXCEPT ![w].do = Tail(@)]
      BY <1>2, <1>6 DEF StepDone
    <2>2. job'[w] = WithRest(job[w])
      BY <1>4, <2>1 DEF Maps, WithRest
    <2>3. /\ job'[w] \in Routines /\ job'[w].do # <<>> /\ job'[w].issue = j.issue
          /\ job'[w].forget = j.forget /\ job'[w].next = j.next
      BY <1>1, <1>6, <2>2, RestOfRoutine, RestFields
    <2> HIDE DEF j
    <2>4. LocalType(w)'
      BY <1>1, <1>4, <2>1, <2>3 DEF LocalType, PCs, RunPCs, ClaimPCs
    <2>5. ActiveOK(w)' /\ RoutineOK(w)'
      BY <1>1, <1>2, <1>4, <2>1, <2>3 DEF ActiveOK, RoutineOK, Tracking, RunPCs, ClaimPCs
    <2>6. LoopOK(w)'
      BY <1>1, <1>5, <2>1, <2>3 DEF LoopOK, In, Releasing, ClaimPCs, Returns
    <2> QED BY <1>3, <2>4, <2>5, <2>6 DEF Good, Sound
  <1>7. CASE ~(Len(j.do) > 1)
    <2>1. /\ job' = [job EXCEPT ![w] = NoJob] /\ Goto(w, j.next)
          /\ loop' = IF j.next = "idle" THEN [loop EXCEPT ![w] = NoLoop] ELSE loop
          /\ active' = IF j.forget THEN [active EXCEPT ![w] = NoIssue] ELSE active
      BY <1>2, <1>7 DEF StepDone
    <2> HIDE DEF j
    <2>2. pc'[w] = j.next /\ job'[w] = NoJob
      BY <1>4, <2>1 DEF Goto, Maps
    <2>3. /\ j.forget => active'[w] = NoIssue
          /\ ~j.forget => active'[w] = active[w]
      BY <1>4, <2>1 DEF Maps
    <2>4. loop'[w] \in Loops /\ (j.next # "idle" => loop'[w] = loop[w])
      BY <1>4, <2>1, NoLoopFacts DEF Maps
    <2>5. active'[w] \in Actives /\ (active'[w] = NoIssue \/ active'[w].issue \in Issues)
      BY <1>4, <2>3, NoneTracked
    <2>6. LocalType(w)'
      <3>1. NoJob \in Routines
        BY EmptySeq DEF NoJob, Routines, PCs
      <3> QED BY <1>1, <2>2, <2>3, <2>4, <2>5, <3>1 DEF LocalType, PCs, RunPCs, ClaimPCs, Returns
    <2>7. ActiveOK(w)'
      BY <1>1, <1>2, <2>2, <2>3, <2>5, NoneTracked DEF ActiveOK, Tracking, Returns, RunPCs, ClaimPCs
    <2>8. RoutineOK(w)'
      BY <1>1, <2>2 DEF RoutineOK, Returns
    <2>9. LoopOK(w)'
      BY <1>1, <1>5, <2>2, <2>4 DEF LoopOK, In, Releasing, Returns, ClaimPCs
    <2> QED BY <1>3, <2>6, <2>7, <2>8, <2>9 DEF Good, Sound
  <1> QED BY <1>6, <1>7


-----------------------------------------------------------------------------
(* A step of the cycle touches the worker's own entries and labels only.   *)
LEMMA ShapeOfCycle ==
    ASSUME NEW w \in Workers, Ready(w), Cycle(w)
    PROVE  Shape(w)
  <1>1. CASE BeginCycle(w)
    BY <1>1 DEF BeginCycle, Collect, Goto, Shape, Maps, Ready, ClaimStep, forge
  <1>2. CASE CheckHold(w)
    BY <1>2 DEF CheckHold, LetGo, Goto, Do, Shape, Maps, Ready, ClaimStep, forge
  <1>3. CASE ReattemptUnread(w)
    BY <1>3 DEF ReattemptUnread, Goto, Shape, Maps, Ready, ClaimStep, forge
  <1>4. CASE WatchMr(w)
    BY <1>4 DEF WatchMr, LetGo, Goto, Do, Shape, Maps, Ready, ClaimStep, forge
  <1>5. CASE Feedback(w)
    BY <1>5 DEF Feedback, LetGo, Goto, Do, Shape, Maps, Ready, ClaimStep, forge
  <1>6. CASE Rotate(w)
    BY <1>6 DEF Rotate, Collect, Goto, Shape, Maps, Ready, ClaimStep, forge
  <1>7. CASE Poll(w)
    BY <1>7 DEF Poll, Goto, Shape, Maps, Ready, ClaimStep, forge
  <1>8. CASE EndPoll(w)
    BY <1>8 DEF EndPoll, Goto, Shape, Maps, Ready, ClaimStep, forge
  <1>9. CASE CheckDependency(w)
    BY <1>9 DEF CheckDependency, Visited, Shape, Maps, Ready, ClaimStep, forge
  <1>10. CASE BeginClaim(w)
    BY <1>10 DEF BeginClaim, Visited, Do, Goto, Shape, Maps, Ready, ClaimStep, forge
  <1>11. CASE AddLabel(w)
    <2>1. /\ UNCHANGED <<active, job, loop>> /\ Goto(w, "settling") /\ AddClaim(w, loop[w].at)
          /\ loop[w].at \in Issues
      BY <1>11, Now, Claiming DEF AddLabel, ClaimPCs
    <2>2. ClaimStep(w)
      BY <2>1 DEF ClaimStep
    <2>3. Maps
      BY Now
    <2> QED BY <2>1, <2>2, <2>3 DEF Shape, Maps, Goto
  <1>12. CASE Settle(w)
    BY <1>12 DEF Settle, Do, Goto, Shape, Maps, Ready, ClaimStep, forge
  <1>13. CASE Won(w)
    BY <1>13 DEF Won, Do, Goto, Pinned, Shape, Maps, Ready, ClaimStep, forge
  <1>14. CASE StartRun(w)
    BY <1>14 DEF StartRun, StopForReview, Do, Goto, MakesMr, Shape, Maps, Ready, ClaimStep, forge
  <1>15. CASE Prepare(w)
    BY <1>15 DEF Prepare, StopForReview, Do, Goto, Shape, Maps, Ready, ClaimStep, forge
  <1>16. CASE Model(w)
    BY <1>16 DEF Model, Do, Goto, MakesMr, Shape, Maps, Ready, ClaimStep, forge
  <1>17. CASE Publish(w)
    BY <1>17 DEF Publish, Goto, MakesMr, Shape, Maps, Ready, ClaimStep, forge
  <1>18. CASE Track(w)
    BY <1>18 DEF Track, Do, Goto, Shape, Maps, Ready, ClaimStep, forge
  <1>19. CASE Unmade(w)
    <2>1. /\ UNCHANGED <<claims, older, active, loop>>
          /\ \E s : LetGo(w, active[w].issue, s, "idle", "idle")
      BY <1>19 DEF Unmade, forge
    <2> QED BY <2>1, Now, ZenonT(40) DEF Shape, Maps, LetGo, Do, Goto, ClaimStep
  <1>20. CASE Failed(w)
    BY <1>20 DEF Failed, LetGo, Do, Goto, Shape, Maps, Ready, ClaimStep, forge
  <1>21. CASE CheckSession(w)
    BY <1>21 DEF CheckSession, Visited, Resume, Found, Do, Goto, Shape, Maps, Ready, ClaimStep, forge
  <1>22. CASE ListClaims(w)
    BY <1>22 DEF ListClaims, Goto, Collected, Shape, Maps, Ready, ClaimStep, forge
  <1>23. CASE CheckClaim(w)
    BY <1>23 DEF CheckClaim, Resume, Visited, Found, Do, Goto, Shape, Maps, Ready, ClaimStep, forge
  <1>24. CASE EndSweep(w)
    BY <1>24 DEF EndSweep, Collected, Goto, Shape, Maps, Ready, ClaimStep, forge
  <1>25. CASE ResumeCheck(w)
    BY <1>25 DEF ResumeCheck, Do, Goto, Shape, Maps, Ready, ClaimStep, forge
  <1>26. CASE Start(w)
    BY <1>26 DEF Start, Collect, Goto, Shape, Maps, Ready, ClaimStep, forge
  <1>27. CASE ShutDown(w)
    BY <1>27 DEF ShutDown, Forget, Goto, Shape, Maps, Ready, ClaimStep, forge
  <1>28. CASE JobStep(w)
    <2>1. StepDone(w) /\ ClaimStep(w)
      BY <1>28, JobLabels
    <2>2. Maps
      BY Now
    <2>3. CASE Len(job[w].do) > 1
      BY <2>1, <2>2, <2>3 DEF StepDone, Shape, Maps
    <2>4. CASE ~(Len(job[w].do) > 1)
      BY <2>1, <2>2, <2>4 DEF StepDone, Shape, Maps, Goto
    <2> QED BY <2>3, <2>4
  <1> QED BY <1>1, <1>2, <1>3, <1>4, <1>5, <1>6, <1>7, <1>8, <1>9, <1>10, <1>11, <1>12, <1>13, <1>14, <1>15, <1>16, <1>17, <1>18, <1>19, <1>20, <1>21, <1>22, <1>23, <1>24, <1>25, <1>26, <1>27, <1>28 DEF Cycle

(* What it makes of the forge and the session files is well typed.         *)
LEMMA ForgeOfCycle ==
    ASSUME NEW w \in Workers, Ready(w), Cycle(w)
    PROVE  ForgeType'
  <1>0. /\ ForgeType /\ ClaimStep(w) /\ active[w] \in Actives
        /\ {"in-progress", "waiting-on-issue", "action-required"} \subseteq Labels
        /\ FALSE \in BOOLEAN /\ TRUE \in BOOLEAN
    BY ShapeOfCycle, Now DEF Shape, Labels
  <1>a. /\ claims' \in [Issues -> SUBSET Workers]
        /\ older' \in [Issues -> [Workers -> SUBSET Workers]]
    BY <1>0, ClaimTypes
  <1>1. CASE BeginCycle(w)
    BY <1>0, <1>1 DEF BeginCycle, Ready, ForgeType, Succeeds, forge
  <1>2. CASE CheckHold(w)
    BY <1>0, <1>2 DEF CheckHold, Ready, ForgeType, Succeeds, forge
  <1>3. CASE ReattemptUnread(w)
    BY <1>0, <1>3 DEF ReattemptUnread, Ready, ForgeType, Succeeds, forge
  <1>4. CASE WatchMr(w)
    BY <1>0, <1>4 DEF WatchMr, Ready, ForgeType, Succeeds, forge
  <1>5. CASE Feedback(w)
    BY <1>0, <1>5 DEF Feedback, Ready, ForgeType, Succeeds, forge
  <1>6. CASE Rotate(w)
    BY <1>0, <1>6 DEF Rotate, Ready, ForgeType, Succeeds, forge
  <1>7. CASE Poll(w)
    BY <1>0, <1>7 DEF Poll, Ready, ForgeType, Succeeds, forge
  <1>8. CASE EndPoll(w)
    BY <1>0, <1>8 DEF EndPoll, Ready, ForgeType, Succeeds, forge
  <1>9. CASE CheckDependency(w)
    <2>1. loop[w].todo \subseteq Issues
      BY Now DEF Loops
    <2>2. labels' \in [Issues -> SUBSET Labels]
      <3>1. UNCHANGED labels \/ \E i \in Issues, l \in Labels : Label(i, l) \/ Unlabel(i, l)
        BY <1>0, <1>9, <2>1, Now DEF CheckDependency
      <3> QED BY <1>0, <3>1, LabelTypes DEF ForgeType
    <2>3. UNCHANGED <<open, mr, session, shutdown, again, faults, stops, kills, moves>>
      BY <1>9, Now DEF CheckDependency, Succeeds, forge
    <2> QED BY <1>0, <1>a, <2>2, <2>3 DEF ForgeType
  <1>10. CASE BeginClaim(w)
    <2>1. loop[w].todo \subseteq Issues
      BY Now DEF Loops
    <2>2. session' \in [Workers -> [Issues -> BOOLEAN]]
      <3>1. UNCHANGED session \/ \E i \in Issues, b \in BOOLEAN : session' = [session EXCEPT ![w][i] = b]
        BY <1>0, <1>10, <2>1, Now DEF BeginClaim
      <3> QED BY <1>0, <3>1, SessionTypes DEF ForgeType
    <2>3. UNCHANGED <<open, labels, mr, shutdown, again, faults, stops, kills, moves>>
      BY <1>10, Now DEF BeginClaim, Succeeds, forge
    <2> QED BY <1>0, <1>a, <2>2, <2>3 DEF ForgeType
  <1>11. CASE AddLabel(w)
    <2>1. UNCHANGED <<open, labels, mr, session, shutdown, again, faults, stops, kills, moves>>
      BY <1>11, Now DEF AddLabel, Succeeds, forge
    <2> QED BY <1>0, <1>a, <2>1 DEF ForgeType
  <1>12. CASE Settle(w)
    BY <1>0, <1>12 DEF Settle, Ready, ForgeType, Succeeds, forge
  <1>13. CASE Won(w)
    BY <1>0, <1>13 DEF Won, Ready, ForgeType, Succeeds, forge
  <1>14. CASE StartRun(w)
    <2>1. active[w].issue \in Issues
      BY <1>14, Running DEF StartRun
    <2>2. labels' \in [Issues -> SUBSET Labels]
      <3>1. UNCHANGED labels \/ \E i \in Issues, l \in Labels : Label(i, l) \/ Unlabel(i, l)
        BY <1>0, <1>14, <2>1, Now DEF StartRun, StopForReview
      <3> QED BY <1>0, <3>1, LabelTypes DEF ForgeType
    <2>3. session' \in [Workers -> [Issues -> BOOLEAN]]
      <3>1. UNCHANGED session \/ \E i \in Issues, b \in BOOLEAN : session' = [session EXCEPT ![w][i] = b]
        BY <1>0, <1>14, <2>1, Now DEF StartRun, StopForReview
      <3> QED BY <1>0, <3>1, SessionTypes DEF ForgeType
    <2>4. UNCHANGED <<open, mr, shutdown, again, faults, stops, kills, moves>>
      BY <1>14, Now DEF StartRun, Succeeds, forge, StopForReview
    <2> QED BY <1>0, <1>a, <2>2, <2>3, <2>4 DEF ForgeType
  <1>15. CASE Prepare(w)
    <2>1. active[w].issue \in Issues
      BY <1>15, Running DEF Prepare
    <2>2. labels' \in [Issues -> SUBSET Labels]
      <3>1. UNCHANGED labels \/ \E i \in Issues, l \in Labels : Label(i, l) \/ Unlabel(i, l)
        BY <1>0, <1>15, <2>1, Now DEF Prepare, StopForReview
      <3> QED BY <1>0, <3>1, LabelTypes DEF ForgeType
    <2>3. UNCHANGED <<open, mr, session, shutdown, again, faults, stops, kills, moves>>
      BY <1>15, Now DEF Prepare, Succeeds, forge, StopForReview
    <2> QED BY <1>0, <1>a, <2>2, <2>3 DEF ForgeType
  <1>16. CASE Model(w)
    <2>1. active[w].issue \in Issues
      BY <1>16, Running DEF Model
    <2>2. labels' \in [Issues -> SUBSET Labels]
      <3>1. UNCHANGED labels \/ \E i \in Issues, l \in Labels : Label(i, l) \/ Unlabel(i, l)
        BY <1>0, <1>16, <2>1, Now DEF Model
      <3> QED BY <1>0, <3>1, LabelTypes DEF ForgeType
    <2>3. session' \in [Workers -> [Issues -> BOOLEAN]]
      <3>1. UNCHANGED session \/ \E i \in Issues, b \in BOOLEAN : session' = [session EXCEPT ![w][i] = b]
        BY <1>0, <1>16, <2>1, Now DEF Model
      <3> QED BY <1>0, <3>1, SessionTypes DEF ForgeType
    <2>4. UNCHANGED <<open, mr, shutdown, again, faults, stops, kills, moves>>
      BY <1>16, Now DEF Model, Succeeds, forge
    <2> QED BY <1>0, <1>a, <2>2, <2>3, <2>4 DEF ForgeType
  <1>17. CASE Publish(w)
    <2>1. active[w].issue \in Issues
      BY <1>17, Running DEF Publish
    <2>2. session' \in [Workers -> [Issues -> BOOLEAN]]
      <3>1. UNCHANGED session \/ \E i \in Issues, b \in BOOLEAN : session' = [session EXCEPT ![w][i] = b]
        BY <1>0, <1>17, <2>1, Now DEF Publish
      <3> QED BY <1>0, <3>1, SessionTypes DEF ForgeType
    <2>3. UNCHANGED <<open, labels, shutdown, again, faults, stops, kills, moves>>
      BY <1>17, Now DEF Publish, Succeeds, forge
    <2>4. mr' \in [Issues -> {"none", "open", "merged", "closed"}]
      <3>1. UNCHANGED mr \/ mr' = [mr EXCEPT ![active[w].issue] = "open"]
        BY <1>17, Now DEF Publish
      <3> QED BY <1>0, <3>1 DEF ForgeType
    <2> QED BY <1>0, <1>a, <2>2, <2>3, <2>4 DEF ForgeType
  <1>18. CASE Track(w)
    BY <1>0, <1>18 DEF Track, Ready, ForgeType, Succeeds, forge
  <1>19. CASE Unmade(w)
    BY <1>0, <1>19 DEF Unmade, Ready, ForgeType, Succeeds, forge
  <1>20. CASE Failed(w)
    BY <1>0, <1>20 DEF Failed, Ready, ForgeType, Succeeds, forge
  <1>21. CASE CheckSession(w)
    <2>1. loop[w].todo \subseteq Issues
      BY Now DEF Loops
    <2>2. session' \in [Workers -> [Issues -> BOOLEAN]]
      <3>1. UNCHANGED session \/ \E i \in Issues, b \in BOOLEAN : session' = [session EXCEPT ![w][i] = b]
        BY <1>0, <1>21, <2>1, Now DEF CheckSession
      <3> QED BY <1>0, <3>1, SessionTypes DEF ForgeType
    <2>3. UNCHANGED <<open, labels, mr, shutdown, again, faults, stops, kills, moves>>
      BY <1>21, Now DEF CheckSession, Succeeds, forge
    <2> QED BY <1>0, <1>a, <2>2, <2>3 DEF ForgeType
  <1>22. CASE ListClaims(w)
    BY <1>0, <1>22 DEF ListClaims, Ready, ForgeType, Succeeds, forge
  <1>23. CASE CheckClaim(w)
    BY <1>0, <1>23 DEF CheckClaim, Ready, ForgeType, Succeeds, forge
  <1>24. CASE EndSweep(w)
    BY <1>0, <1>24 DEF EndSweep, Ready, ForgeType, Succeeds, forge
  <1>25. CASE ResumeCheck(w)
    BY <1>0, <1>25 DEF ResumeCheck, Ready, ForgeType, Succeeds, forge
  <1>26. CASE Start(w)
    BY <1>0, <1>26 DEF Start, Ready, ForgeType, Succeeds, forge
  <1>27. CASE ShutDown(w)
    BY <1>0, <1>27 DEF ShutDown, Ready, ForgeType, Succeeds, forge, Forget
  <1>28. CASE JobStep(w)
    <2> DEFINE i == job[w].issue
               step == Head(job[w].do)
    <2>1. i \in Issues /\ step \in Steps
      <3>1. job[w].do \in Seq(Steps) /\ job[w].do # <<>> /\ i \in Issues
        BY <1>28 DEF JobStep, Ready, LocalType, Routines
      <3> QED BY <3>1, HeadTailProperties
    <2>2. StepEffect(w, i, step) /\ UNCHANGED <<shutdown, again, faults, stops, kills, moves>>
      BY <1>28, Now DEF JobStep, Succeeds
    <2> HIDE DEF i, step
    <2>3. CASE step \in {"release", "tryRelease"}
      BY <1>0, <1>a, <2>2, <2>3 DEF StepEffect, ForgeType
    <2>4. CASE step = "closeMr"
      <3>1. /\ mr' = [mr EXCEPT ![i] = IF @ = "open" THEN "closed" ELSE @]
            /\ UNCHANGED <<open, labels, session>>
        BY <2>2, <2>4 DEF StepEffect
      <3> QED BY <1>0, <1>a, <2>1, <2>2, <3>1 DEF ForgeType
    <2>5. CASE step \in {"unprogress", "mustUnprogress", "askHuman", "park"}
      <3>1. /\ \E l \in Labels : Label(i, l) \/ Unlabel(i, l)
            /\ UNCHANGED <<open, mr, session>>
        BY <1>0, <2>2, <2>5 DEF StepEffect
      <3>2. labels' \in [Issues -> SUBSET Labels]
        BY <1>0, <2>1, <3>1, LabelTypes
      <3> QED BY <1>0, <1>a, <2>2, <3>1, <3>2 DEF ForgeType
    <2>6. CASE step = "unsession"
      <3>1. session' = [session EXCEPT ![w][i] = FALSE] /\ UNCHANGED <<open, labels, mr>>
        BY <2>2, <2>6 DEF StepEffect, forge
      <3>2. session' \in [Workers -> [Issues -> BOOLEAN]]
        BY <1>0, <2>1, <3>1, SessionTypes
      <3> QED BY <1>0, <1>a, <2>2, <3>1, <3>2 DEF ForgeType
    <2>7. CASE step = "closeIssue"
      <3>1. open' = [open EXCEPT ![i] = FALSE] /\ UNCHANGED <<labels, mr, session>>
        BY <2>2, <2>7 DEF StepEffect
      <3> QED BY <1>0, <1>a, <2>1, <2>2, <3>1 DEF ForgeType
    <2> QED BY <2>1, <2>3, <2>4, <2>5, <2>6, <2>7 DEF Steps
  <1> QED BY <1>1, <1>2, <1>3, <1>4, <1>5, <1>6, <1>7, <1>8, <1>9, <1>10, <1>11, <1>12, <1>13, <1>14, <1>15, <1>16, <1>17, <1>18, <1>19, <1>20, <1>21, <1>22, <1>23, <1>24, <1>25, <1>26, <1>27, <1>28 DEF Cycle

LEMMA GoodCycle ==
    ASSUME NEW w \in Workers, Ready(w), Cycle(w)
    PROVE  Good(w)'
BY BeginCycleGood, CheckHoldGood, WatchMrGood, FeedbackGood,
   RotateGood, PollGood, EndPollGood, CheckDependencyGood, BeginClaimGood,
   AddLabelGood, SettleGood, WonGood, StartRunGood, PrepareGood,
   ModelGood, PublishGood, TrackGood, UnmadeGood, FailedGood,
   CheckSessionGood, ListClaimsGood, CheckClaimGood, EndSweepGood, ResumeCheckGood,
   StartGood, ShutDownGood, JobStepGood,
   Now DEF Cycle, ReattemptUnread

-----------------------------------------------------------------------------
(* The inductive invariant.                                                *)
(* What a worker's step must keep is enough for all of them.                *)
LEMMA Assemble ==
    ASSUME IInv, NEW w \in Workers, Shape(w), ForgeType', Good(w)'
    PROVE  IInv'
  <1>1. /\ TypeOK /\ ForgeType /\ Maps /\ Ordered /\ \A v \in Workers : LocalType(v) /\ Sound(v)
    BY Types DEF IInv
  <1>2. StepOf(w)
    BY <1>1 DEF Shape, StepOf, Maps
  <1>3. Ordered'
    BY <1>1, <1>2, LabelsOfOthers DEF StepOf
  <1>4. \A v \in Workers : Sound(v)'
    <2>1. \A v \in Workers \ {w} : Sound(v)'
      BY <1>1, <1>2, Others
    <2> QED BY <2>1 DEF Good
  <1>5. Maps'
    <2>1. pc'[w] \in PCs /\ active'[w] \in Actives /\ loop'[w] \in Loops /\ job'[w] \in Routines
      BY DEF Good, LocalType
    <2> QED BY <1>1, <2>1 DEF Shape, Maps
  <1>6. \A v \in Workers : LocalType(v)'
    <2>1. ASSUME NEW v \in Workers \ {w}
          PROVE  LocalType(v)'
      BY <1>1, <1>2 DEF StepOf, LocalType
    <2> QED BY <2>1 DEF Good
  <1>7. TypeOK'
    BY <1>5, <1>6 DEF TypeOK, LocalType, ForgeType, Maps, Actives, Loops, Routines
  <1> QED BY <1>3, <1>4, <1>7 DEF IInv

(* A step that leaves the workers and their labels alone.                  *)
LEMMA Aside ==
    ASSUME IInv, ForgeType', UNCHANGED <<pc, active, loop, job, claims, older>>
    PROVE  IInv'
  <1>1. Maps /\ Ordered /\ \A v \in Workers : LocalType(v) /\ Sound(v)
    BY Types DEF IInv
  <1>2. Maps' /\ \A v \in Workers : LocalType(v)'
    BY <1>1 DEF Maps, LocalType
  <1>3. TypeOK'
    BY <1>2 DEF TypeOK, LocalType, ForgeType, Maps, Actives, Loops, Routines
  <1>4. \A v \in Workers : Sound(v)'
    BY <1>1 DEF Sound, ActiveOK, RoutineOK, LoopOK, ContestOK, In, Releasing
  <1>5. Ordered'
    BY <1>1 DEF Ordered
  <1> QED BY <1>3, <1>4, <1>5 DEF IInv

LEMMA HumansKeepIInv ==
    ASSUME IInv, Humans
    PROVE  IInv'
  <1>1. ForgeType
    BY Types DEF IInv
  <1>2. {MaxFaults, MaxStops, MaxKills, MaxMoves} \subseteq Nat
    BY ConstantsOK
  <1>3. ASSUME HumanMove
        PROVE  moves' \in 0..MaxMoves /\ UNCHANGED <<faults, stops, kills>>
    BY <1>1, <1>2, <1>3 DEF HumanMove, ForgeType
  <1>4. ASSUME NEW i \in Issues, Close(i)
        PROVE  IInv'
    <2>1. ForgeType'
      BY <1>1, <1>3, <1>4 DEF Close, ForgeType, Local
    <2> QED BY <1>4, <2>1, Aside DEF Close, Local
  <1>5. ASSUME NEW i \in Issues, NEW l \in HumanLabels, Relabel(i, l)
        PROVE  IInv'
    <2>1. l \in Labels
      BY ConstantsOK DEF Labels
    <2>2. labels' \in [Issues -> SUBSET Labels]
      BY <1>1, <1>5, <2>1, LabelTypes DEF Relabel
    <2>3. ForgeType'
      BY <1>1, <1>3, <1>5, <2>2 DEF Relabel, ForgeType, Local
    <2> QED BY <1>5, <2>3, Aside DEF Relabel, Local
  <1>6. ASSUME NEW i \in Issues, NEW s \in {"merged", "closed"}, EndMr(i, s)
        PROVE  IInv'
    <2>1. ForgeType'
      BY <1>1, <1>3, <1>6 DEF EndMr, ForgeType, Local
    <2> QED BY <1>6, <2>1, Aside DEF EndMr, Local
  <1> QED BY <1>4, <1>5, <1>6 DEF Humans

LEMMA InitIInv == Init => IInv
  <1> SUFFICES ASSUME Init
               PROVE  IInv
    OBVIOUS
  <1>1. NoJob \in Routines /\ NoIssue \in Actives /\ NoLoop \in Loops
    BY EmptySeq, NoLoopFacts, NoneTracked DEF NoJob, Routines, PCs
  <1>2. Maps /\ \A w \in Workers : LocalType(w)
    BY <1>1 DEF Init, Maps, LocalType, PCs, RunPCs, ClaimPCs
  <1>3. ForgeType
    BY ConstantsOK DEF Init, ForgeType, Labels
  <1>4. \A w \in Workers : Sound(w)
    BY DEF Init, Sound, ActiveOK, RoutineOK, LoopOK, ContestOK, In, Tracking, RunPCs, ClaimPCs
  <1>5. Ordered
    BY DEF Init, Ordered
  <1> QED BY <1>2, <1>3, <1>4, <1>5, Types DEF IInv

LEMMA NextIInv ==
    ASSUME SafeSetting, IInv, [Next]_vars
    PROVE  IInv'
  <1>1. TypeOK /\ ForgeType /\ Maps /\ Ordered /\ ~Fails /\ \A w \in Workers : Ready(w)
    BY Types, NothingFails DEF IInv, Ready
  <1>2. ASSUME NEW w \in Workers, Cycle(w)
        PROVE  IInv'
    BY <1>1, <1>2, ShapeOfCycle, ForgeOfCycle, GoodCycle, Assemble
  <1>3. ASSUME NEW w \in Workers, RequestShutdown(w)
        PROVE  IInv'
    <2>1. ForgeType'
      BY <1>1, <1>3, ConstantsOK DEF RequestShutdown, ForgeType, forge
    <2> QED BY <1>3, <2>1, Aside DEF RequestShutdown, forge
  <1>4. ASSUME NEW w \in Workers, Kill(w)
        PROVE  IInv'
    <2>1. ForgeType'
      BY <1>1, <1>4, ConstantsOK DEF Kill, Forget, ForgeType, forge
    <2>2. Shape(w)
      BY <1>1, <1>4 DEF Kill, Forget, Goto, Shape, Maps, ClaimStep, forge
    <2>3. Good(w)'
      BY <1>1, <1>4, KillGood DEF SafeSetting
    <2> QED BY <2>1, <2>2, <2>3, Assemble
  <1>5. CASE UNCHANGED vars
    <2>1. ForgeType'
      BY <1>1, <1>5 DEF vars, ForgeType
    <2> QED BY <1>5, <2>1, Aside DEF vars
  <1> QED BY <1>2, <1>3, <1>4, <1>5, HumansKeepIInv DEF Next

LEMMA Invariance == SafeSetting => (Spec => []IInv)
  <1> SUFFICES ASSUME SafeSetting
               PROVE  Spec => []IInv
    OBVIOUS
  <1>1. Init => IInv
    BY InitIInv
  <1>2. IInv /\ [Next]_vars => IInv'
    BY NextIInv
  <1> QED BY <1>1, <1>2, PTL DEF Spec
-----------------------------------------------------------------------------
(* Two workers never run a model on one issue (OneWorker: what the claim   *)
(* labels of claim.rs are for), in every number of workers and issues, for *)
(* any number of shutdowns, kills and human moves, while no call fails and *)
(* nobody is killed with a contested label.                                *)
THEOREM OnlyOneWorker == SafeSetting => (Spec => []OneWorker)
  <1> SUFFICES ASSUME SafeSetting
               PROVE  Spec => []OneWorker
    OBVIOUS
  <1>1. IInv => OneWorker
    <2> SUFFICES ASSUME IInv, NEW i \in Issues, NEW v \in Workers, NEW w \in Workers,
                        WorksOn(v, i), WorksOn(w, i)
                 PROVE  v = w
      BY DEF OneWorker
    <2>1. \A u \in {v, w} : u \in claims[i] /\ older[i][u] = {}
      BY DEF IInv, Sound, ActiveOK, ContestOK, Releasing, WorksOn, Tracking, RunPCs
    <2> QED BY <2>1 DEF IInv, Ordered
  <1>2. Spec => []IInv
    BY Invariance
  <1> QED BY <1>1, <1>2, PTL

(* What a worker tracks and works on carries its claim label               *)
(* (ActiveIsClaimed: nothing re-reads the label once `active` is set), and *)
(* the state is well typed.                                                *)
THEOREM WorkIsClaimed == SafeSetting => (Spec => []ActiveIsClaimed)
  <1> SUFFICES ASSUME SafeSetting
               PROVE  Spec => []ActiveIsClaimed
    OBVIOUS
  <1>1. IInv => ActiveIsClaimed
    BY DEF IInv, Sound, ActiveOK, ActiveIsClaimed, Tracking
  <1>2. Spec => []IInv
    BY Invariance
  <1> QED BY <1>1, <1>2, PTL
-----------------------------------------------------------------------------
(* Who sees to it that an issue does not stay in progress unclaimed.       *)
Marked(i) == open[i] /\ "in-progress" \in labels[i]
Unmarks(s) == \E k \in DOMAIN s : s[k] \in {"unprogress", "mustUnprogress"}

(* A worker keeps the mark of an issue covered by its claim, unless it is  *)
(* about to drop that without a look at the mark: after a contest, a win   *)
(* that is not yet confirmed, or a run that ended without a merge request. *)
(* A routine keeps it covered while it has yet to unmark or close.         *)
Keeps(w, i) ==
    IF Releasing(w, i)
    THEN Unmarks(job[w].do) \/ (w \in claims[i] /\ Head(job[w].do) = "closeIssue")
    ELSE /\ w \in claims[i]
         /\ ~(pc[w] \in {"settling", "won"} /\ loop[w].at = i)
         /\ ~(pc[w] = "unmade" /\ active[w].issue = i)

(* The run that is handed back is the one the routine was about.           *)
EndsRun(w) == pc[w] = "job" /\ job[w].next = "unmade" => job[w].issue = active[w].issue

MarksKept == kills = 0 => \A i \in Issues : Marked(i) => \E w \in Workers : Keeps(w, i)

MarkInv == IInv /\ (\A w \in Workers : EndsRun(w)) /\ MarksKept

(* What a step of w must not do: take an issue that it kept covered into   *)
(* the open, or mark one and not keep it.                                  *)
KeepStep(w) ==
    \A i \in Issues : Marked(i)' => Keeps(w, i)' \/ (Marked(i) /\ ~Keeps(w, i))

Kept(w) == KeepStep(w) /\ EndsRun(w)'
-----------------------------------------------------------------------------
LEMMA UnmarkLists ==
    /\ Unmarks(<<"release", "unprogress">>)
    /\ Unmarks(<<"closeMr", "mustUnprogress", "askHuman">>)
    /\ Unmarks(<<"park", "unprogress", "release", "unsession">>)
    /\ Unmarks(<<"closeMr", "unprogress", "askHuman", "unsession", "release">>)
    /\ Unmarks(ClearSteps) /\ Unmarks(AbandonSteps) /\ Unmarks(MergedSteps)
    /\ Unmarks(ClearSteps \o <<"closeIssue">>)
    /\ \A i \in Issues : Unmarks(CancelSteps(i)) /\ Unmarks(HoldSteps(i))
  <1>1. Unmarks(<<"release", "unprogress">>)
    <2>1. 2 \in DOMAIN <<"release", "unprogress">> /\ <<"release", "unprogress">>[2] = "unprogress"
      OBVIOUS
    <2> QED BY <2>1 DEF Unmarks
  <1>2. Unmarks(<<"closeMr", "mustUnprogress", "askHuman">>)
    <2> DEFINE s == <<"closeMr", "mustUnprogress", "askHuman">>
    <2>1. 2 \in DOMAIN s /\ s[2] = "mustUnprogress"
      OBVIOUS
    <2> QED BY <2>1 DEF Unmarks
  <1>3. Unmarks(<<"park", "unprogress", "release", "unsession">>)
    <2> DEFINE s == <<"park", "unprogress", "release", "unsession">>
    <2>1. 2 \in DOMAIN s /\ s[2] = "unprogress"
      OBVIOUS
    <2> QED BY <2>1 DEF Unmarks
  <1>4. Unmarks(<<"closeMr", "unprogress", "askHuman", "unsession", "release">>)
    <2> DEFINE s == <<"closeMr", "unprogress", "askHuman", "unsession", "release">>
    <2>1. 2 \in DOMAIN s /\ s[2] = "unprogress"
      OBVIOUS
    <2> QED BY <2>1 DEF Unmarks
  <1>5. Unmarks(<<"tryRelease", "unprogress", "unsession">>)
    <2> DEFINE s == <<"tryRelease", "unprogress", "unsession">>
    <2>1. 2 \in DOMAIN s /\ s[2] = "unprogress"
      OBVIOUS
    <2> QED BY <2>1 DEF Unmarks
  <1>6. Unmarks(ClearSteps)
    <2>1. 2 \in DOMAIN ClearSteps /\ ClearSteps[2] = "unprogress"
      BY DEF ClearSteps
    <2> QED BY <2>1 DEF Unmarks
  <1>7. Unmarks(AbandonSteps)
    <2>1. 3 \in DOMAIN AbandonSteps /\ AbandonSteps[3] = "unprogress"
      BY DEF AbandonSteps
    <2> QED BY <2>1 DEF Unmarks
  <1>8. Unmarks(MergedSteps)
    <2>1. 3 \in DOMAIN MergedSteps /\ MergedSteps[3] = "unprogress"
      BY DEF MergedSteps
    <2> QED BY <2>1 DEF Unmarks
  <1>9. Unmarks(ClearSteps \o <<"closeIssue">>)
    <2> DEFINE s == ClearSteps \o <<"closeIssue">>
    <2>1. 2 \in DOMAIN s /\ s[2] = "unprogress"
      BY DEF ClearSteps
    <2> QED BY <2>1 DEF Unmarks
  <1>10. \A i \in Issues : Unmarks(CancelSteps(i)) /\ Unmarks(HoldSteps(i))
    BY <1>5, <1>6, <1>7 DEF CancelSteps, HoldSteps
  <1> QED BY <1>1, <1>2, <1>3, <1>4, <1>6, <1>7, <1>8, <1>9, <1>10

(* The worker goes on elsewhere; it may have marked what it has claimed.   *)
LEMMA GoKeeps ==
    ASSUME NEW w \in Workers, pc[w] # "job", claims' = claims,
           pc'[w] \notin {"job", "settling", "won", "unmade"},
           \A i \in Issues : Marked(i)' => Marked(i) \/ w \in claims[i]
    PROVE  Kept(w)
BY DEF Kept, KeepStep, EndsRun, Keeps, Releasing

(* The worker starts a routine about i.                                    *)
LEMMA DoKeeps ==
    ASSUME NEW w \in Workers, Ready(w), pc[w] # "job", claims' = claims,
           NEW i \in Issues, NEW s, IsRoutine(s), NEW f \in BOOLEAN,
           NEW n \in PCs, NEW e \in PCs, Do(w, i, s, f, n, e),
           \A k \in Issues : Marked(k)' => Marked(k),
           \/ Unmarks(s)
           \/ w \in claims[i] /\ Head(s) = "closeIssue"
           \/ ~Keeps(w, i),
           n = "unmade" => i = active'[w].issue
    PROVE  Kept(w)
  <1>1. pc'[w] = "job" /\ job'[w].issue = i /\ job'[w].do = s /\ job'[w].next = n
    BY DoFacts, Now
  <1>2. EndsRun(w)'
    BY <1>1 DEF EndsRun
  <1>3. ASSUME NEW k \in Issues \ {i}, Marked(k)'
        PROVE  Keeps(w, k)' \/ (Marked(k) /\ ~Keeps(w, k))
    BY <1>1, <1>3 DEF Keeps, Releasing
  <1>4. ASSUME Marked(i)'
        PROVE  Keeps(w, i)' \/ (Marked(i) /\ ~Keeps(w, i))
    BY <1>1, <1>4 DEF Keeps, Releasing
  <1> QED BY <1>2, <1>3, <1>4 DEF Kept, KeepStep

(* The same, about the issue of the run, with all labels where they were.  *)
LEMMA GiveUpKeeps ==
    ASSUME NEW w \in Workers, Ready(w), pc[w] # "job", active[w].issue \in Issues,
           UNCHANGED <<open, labels, claims>>,
           NEW s, IsRoutine(s), Unmarks(s), NEW f \in BOOLEAN,
           NEW n \in PCs, NEW e \in PCs, Do(w, active[w].issue, s, f, n, e),
           n = "unmade" => active'[w].issue = active[w].issue
    PROVE  Kept(w)
BY DoKeeps DEF Marked

(* What is left of a routine.                                              *)
LEMMA RestUnmarks ==
    ASSUME NEW s \in Seq(Steps), s # <<>>, Unmarks(s),
           Head(s) \notin {"unprogress", "mustUnprogress"}
    PROVE  Len(s) > 1 /\ Unmarks(Tail(s))
  <1>1. PICK k \in 1 .. Len(s) : s[k] \in {"unprogress", "mustUnprogress"}
    BY DEF Unmarks
  <1>2. k # 1 /\ Len(s) \in Nat /\ k \in Nat
    BY <1>1
  <1>3. k - 1 \in 1 .. Len(Tail(s)) /\ Tail(s)[k - 1] = s[k] /\ Len(s) > 1
    BY <1>1, <1>2
  <1>4. DOMAIN Tail(s) = 1 .. Len(Tail(s))
    BY HeadTailProperties
  <1> QED BY <1>1, <1>3, <1>4 DEF Unmarks
-----------------------------------------------------------------------------
(* The steps that only move on.                                            *)
LEMMA MovesKeep ==
    ASSUME NEW w \in Workers, Ready(w),
           BeginCycle(w) \/ ReattemptUnread(w) \/ Rotate(w) \/ Poll(w) \/ EndPoll(w)
             \/ CheckDependency(w) \/ AddLabel(w) \/ Publish(w) \/ ListClaims(w)
             \/ EndSweep(w) \/ Start(w) \/ ShutDown(w)
    PROVE  Kept(w)
  <1>1. CASE BeginCycle(w)
    BY <1>1, Now, GoKeeps DEF BeginCycle, Collect, Goto, Maps, Marked, forge
  <1>2. CASE ReattemptUnread(w)
    BY <1>2, Now DEF ReattemptUnread
  <1>3. CASE Rotate(w)
    BY <1>3, Now, GoKeeps DEF Rotate, Collect, Goto, Maps, Marked, forge
  <1>4. CASE Poll(w)
    <2>1. pc[w] = "poll" /\ pc'[w] \in {"idle", "candidates"} /\ UNCHANGED <<open, labels, claims>>
      <3>1. /\ pc[w] = "poll" /\ UNCHANGED <<open, labels, claims>>
            /\ Goto(w, "idle") \/ Goto(w, "candidates")
        BY <1>4 DEF Poll, forge
      <3> QED BY <3>1, Now DEF Goto, Maps
    <2> QED BY <2>1, GoKeeps DEF Marked
  <1>5. CASE EndPoll(w)
    BY <1>5, Now, GoKeeps DEF EndPoll, Goto, Maps, Marked, forge
  <1>6. CASE CheckDependency(w)
    <2>1. pc[w] = "candidates" /\ pc' = pc /\ UNCHANGED <<open, claims>>
      BY <1>6 DEF CheckDependency
    <2>2. \A k \in Issues : labels'[k] \subseteq labels[k]
      BY <1>6, Now DEF CheckDependency, Unlabel, ForgeType
    <2> QED BY <2>1, <2>2, GoKeeps DEF Marked
  <1>7. CASE AddLabel(w)
    <2> DEFINE i == loop[w].at
    <2>1. /\ i \in Issues /\ pc[w] = "labelling" /\ w \notin claims[i]
          /\ AddClaim(w, i) /\ Goto(w, "settling") /\ UNCHANGED <<open, labels, job, loop>>
      BY <1>7, Now DEF AddLabel, Ready, LocalType, Sound, LoopOK, ClaimPCs
    <2> HIDE DEF i
    <2>2. pc'[w] = "settling" /\ \A k \in Issues \ {i} : claims'[k] = claims[k]
      BY <2>1, Now DEF Goto, Maps, AddClaim, ForgeType
    <2>3. \A k \in Issues : Marked(k)' => Marked(k)
      BY <2>1 DEF Marked
    <2>4. ~Keeps(w, i)
      BY <2>1 DEF Keeps, Releasing
    <2>5. \A k \in Issues \ {i} : Keeps(w, k) => Keeps(w, k)'
      BY <2>1, <2>2 DEF Keeps, Releasing, i
    <2> QED BY <2>2, <2>3, <2>4, <2>5 DEF Kept, KeepStep, EndsRun
  <1>8. CASE Publish(w)
    <2>1. /\ pc[w] = "publish" /\ pc'[w] \in {"track", "failed"}
          /\ UNCHANGED <<open, labels, claims>>
      BY <1>8, Now DEF Publish, Goto, Maps
    <2> QED BY <2>1, GoKeeps DEF Marked
  <1>9. ASSUME ListClaims(w) \/ EndSweep(w)
        PROVE  Kept(w)
    <2>1. /\ pc[w] \in {"sessions", "sweep"} /\ pc'[w] \in {"sweep", "idle", "poll", "resume"}
          /\ UNCHANGED <<open, labels, claims>>
      <3>1. ASSUME Collected(w)
            PROVE  pc'[w] \in {"idle", "poll", "resume"}
        <4>1. pc'[w] \in {"idle", "poll", "resume"} \/ loop[w].why = "none"
          BY <3>1, Now DEF Collected, Goto, Maps, Loops
        <4>2. loop[w].why # "none"
          BY <1>9 DEF ListClaims, EndSweep, Ready, Sound, LoopOK, In
        <4> QED BY <4>1, <4>2
      <3> QED BY <1>9, <3>1, Now DEF ListClaims, EndSweep, Goto, Maps, forge
    <2> QED BY <2>1, GoKeeps DEF Marked
  <1>10. CASE Start(w)
    BY <1>10, Now, GoKeeps DEF Start, Collect, Goto, Maps, Marked, forge
  <1>11. CASE ShutDown(w)
    BY <1>11, Now, GoKeeps DEF ShutDown, Forget, Goto, Maps, Marked, forge
  <1> QED BY <1>1, <1>2, <1>3, <1>4, <1>5, <1>6, <1>7, <1>8, <1>9, <1>10, <1>11

(* The steps of a run, and what ends one.                                  *)
LEMMA RunKeeps ==
    ASSUME NEW w \in Workers, Ready(w),
           CheckHold(w) \/ WatchMr(w) \/ Feedback(w) \/ StartRun(w) \/ Prepare(w)
             \/ Model(w) \/ Track(w) \/ Unmade(w) \/ Failed(w) \/ ResumeCheck(w)
    PROVE  Kept(w)
  <1> DEFINE i == active[w].issue
  <1>0. i \in Issues /\ pc[w] # "job" /\ claims' = claims /\ open' = open
    BY Now DEF CheckHold, WatchMr, Feedback, StartRun, Prepare, Model, Track, Unmade,
               Failed, ResumeCheck, forge, RunPCs
  <1>1. CASE CheckHold(w)
    <2>1. CASE LetGo(w, i, HoldSteps(i), "poll", "poll")
      BY <1>0, <1>1, <2>1, GiveUpKeeps, StepLists, UnmarkLists, Places DEF CheckHold, LetGo, forge
    <2>2. CASE Goto(w, IF active[w].mr THEN "mr" ELSE "start")
      BY <1>0, <1>1, <2>2, Now, GoKeeps DEF CheckHold, Goto, Maps, Marked, forge
    <2> QED BY <1>1, <2>1, <2>2, Now DEF CheckHold
  <1>2. CASE WatchMr(w)
    <2>1. CASE Goto(w, "feedback")
      BY <1>0, <1>2, <2>1, Now, GoKeeps DEF WatchMr, Goto, Maps, Marked, forge
    <2>2. ASSUME NEW s, IsRoutine(s), Unmarks(s), LetGo(w, i, s, "poll", "idle")
          PROVE  Kept(w)
      BY <1>0, <1>2, <2>2, GiveUpKeeps, Places DEF WatchMr, LetGo, forge
    <2> QED BY <1>2, <2>1, <2>2, Now, StepLists, UnmarkLists DEF WatchMr
  <1>3. CASE Feedback(w)
    <2>1. UNCHANGED <<open, labels, claims, active>>
      BY <1>3 DEF Feedback, forge
    <2>2. CASE Goto(w, "rotate") \/ Goto(w, "idle")
      BY <1>0, <2>1, <2>2, Now, GoKeeps DEF Goto, Maps, Marked
    <2>3. ASSUME NEW s, IsRoutine(s), Unmarks(s), NEW f \in BOOLEAN,
                 NEW n \in {"poll", "rotate"}, NEW e \in {"idle", "rotate"}, Do(w, i, s, f, n, e)
          PROVE  Kept(w)
      <3>1. n \in PCs /\ e \in PCs
        BY Places
      <3> QED BY <1>0, <2>1, <2>3, <3>1, GiveUpKeeps
    <2> QED BY <1>0, <1>3, <2>2, <2>3, Now, StepLists, UnmarkLists DEF Feedback, LetGo
  <1>4. CASE StartRun(w)
    <2>1. CASE StopForReview(w, i) /\ UNCHANGED <<labels, session, active>>
      BY <1>0, <2>1, GiveUpKeeps, StepLists, UnmarkLists, Places DEF StopForReview
    <2>2. w \in claims[i]
      BY <1>4, Now, Places DEF StartRun
    <2>3. CASE Goto(w, "track") /\ Label(i, "in-progress")
      <3>1. \A k \in Issues \ {i} : labels'[k] = labels[k]
        BY <2>3, <1>0, Now DEF Label, ForgeType
      <3> QED BY <1>0, <2>2, <2>3, <3>1, Now, GoKeeps DEF Goto, Maps, Marked
    <2>4. CASE Do(w, i, <<"closeIssue", "unsession">>, FALSE, "unmade", "unmade")
               /\ UNCHANGED <<labels, session, active>>
      <3>1. Head(<<"closeIssue", "unsession">>) = "closeIssue"
        OBVIOUS
      <3> QED BY <1>0, <2>2, <2>4, <3>1, DoKeeps, StepLists, Places DEF Marked
    <2>5. CASE Goto(w, "prepare") /\ UNCHANGED labels
      BY <1>0, <2>5, Now, GoKeeps DEF Goto, Maps, Marked
    <2> QED BY <1>4, <2>1, <2>3, <2>4, <2>5, Now DEF StartRun
  <1>5. CASE Prepare(w)
    <2>1. CASE StopForReview(w, i) /\ UNCHANGED labels
      BY <1>0, <1>5, <2>1, GiveUpKeeps, StepLists, UnmarkLists, Places DEF StopForReview, Prepare
    <2>2. CASE Goto(w, "model") /\ Label(i, "in-progress")
      <3>1. w \in claims[i]
        BY <1>5, Now, Places DEF Prepare
      <3>2. \A k \in Issues \ {i} : labels'[k] = labels[k]
        BY <2>2, <1>0, Now DEF Label, ForgeType
      <3> QED BY <1>0, <2>2, <3>1, <3>2, Now, GoKeeps DEF Goto, Maps, Marked
    <2> QED BY <1>5, <2>1, <2>2, Now DEF Prepare
  <1>6. CASE Model(w)
    <2>1. w \in claims[i]
      BY <1>6, Now, Places DEF Model
    <2>2. CASE (Goto(w, "publish") \/ Goto(w, "failed")) /\ UNCHANGED labels
      BY <1>0, <2>2, Now, GoKeeps DEF Goto, Maps, Marked
    <2>3. CASE Goto(w, "track") /\ Label(i, "in-progress")
      <3>1. \A k \in Issues \ {i} : labels'[k] = labels[k]
        BY <2>3, <1>0, Now DEF Label, ForgeType
      <3> QED BY <1>0, <2>1, <2>3, <3>1, Now, GoKeeps DEF Goto, Maps, Marked
    <2>4. ASSUME NEW s, IsRoutine(s), Unmarks(s), NEW e \in {"failed", "unmade"},
                 Do(w, i, s, FALSE, "unmade", e), UNCHANGED <<labels, session, active>>
          PROVE  Kept(w)
      <3>1. "unmade" \in PCs /\ e \in PCs
        BY Places
      <3> QED BY <1>0, <2>4, <3>1, GiveUpKeeps
    <2> QED BY <1>0, <1>6, <2>2, <2>3, <2>4, Now, StepLists, UnmarkLists DEF Model
  <1>7. CASE Track(w)
    <2>1. CASE Do(w, i, ClearSteps, FALSE, "idle", "idle")
      BY <1>0, <1>7, <2>1, GiveUpKeeps, StepLists, UnmarkLists, Places DEF Track, forge
    <2>2. CASE Goto(w, "idle")
      BY <1>0, <1>7, <2>2, Now, GoKeeps DEF Track, Goto, Maps, Marked, forge
    <2> QED BY <1>7, <2>1, <2>2 DEF Track
  <1>8. CASE Unmade(w)
    <2>1. ~Keeps(w, i)
      BY <1>8 DEF Unmade, Keeps, Releasing
    <2>2. ASSUME NEW s, IsRoutine(s), Do(w, i, s, TRUE, "idle", "idle")
          PROVE  Kept(w)
      BY <1>0, <1>8, <2>1, <2>2, DoKeeps, Places DEF Unmade, Marked, forge
    <2> QED BY <1>8, <2>2, StepLists DEF Unmade, LetGo
  <1>9. CASE Failed(w)
    <2>1. CASE Goto(w, "idle")
      BY <1>0, <1>9, <2>1, Now, GoKeeps DEF Failed, Goto, Maps, Marked, forge
    <2>2. ASSUME NEW s, IsRoutine(s), Unmarks(s), LetGo(w, i, s, "idle", "idle")
          PROVE  Kept(w)
      BY <1>0, <1>9, <2>2, GiveUpKeeps, Places DEF Failed, LetGo, forge
    <2> QED BY <1>9, <2>1, <2>2, StepLists, UnmarkLists DEF Failed
  <1>10. CASE ResumeCheck(w)
    <2>1. CASE Goto(w, "idle")
      BY <1>0, <1>10, <2>1, Now, GoKeeps DEF ResumeCheck, Goto, Maps, Marked, forge
    <2>2. ASSUME NEW s, IsRoutine(s), Unmarks(s), Do(w, i, s, FALSE, "idle", "idle")
          PROVE  Kept(w)
      BY <1>0, <1>10, <2>2, GiveUpKeeps, Places DEF ResumeCheck, forge
    <2> QED BY <1>10, <2>1, <2>2, Now, StepLists, UnmarkLists DEF ResumeCheck
  <1> QED BY <1>1, <1>2, <1>3, <1>4, <1>5, <1>6, <1>7, <1>8, <1>9, <1>10
(* The claim attempt, and what a collection or a claim hands to a routine. *)
LEMMA ContestKeeps ==
    ASSUME NEW w \in Workers, Ready(w), BeginClaim(w) \/ Settle(w) \/ Won(w)
    PROVE  Kept(w)
  <1>0. /\ UNCHANGED <<open, labels, claims>> /\ pc[w] # "job" /\ \A k \in Issues : Marked(k)' => Marked(k)
    BY DEF BeginClaim, Settle, Won, forge, Marked
  <1>1. CASE BeginClaim(w)
    <2>1. pc[w] = "candidates" /\ \A k \in loop[w].todo \ loop[w].held : k \in Issues /\ w \notin claims[k]
      BY <1>1, Now DEF BeginClaim, Ready, Sound, LoopOK, In, Loops
    <2>2. PICK i \in loop[w].todo \ loop[w].held :
             \/ Goto(w, "labelling")
             \/ Do(w, i, <<"unsession">>, FALSE, "candidates", "candidates")
      BY <1>1, Now DEF BeginClaim
    <2>3. CASE Goto(w, "labelling")
      BY <1>0, <2>1, <2>3, Now, GoKeeps DEF Goto, Maps
    <2>4. CASE Do(w, i, <<"unsession">>, FALSE, "candidates", "candidates")
      <3>1. ~Keeps(w, i) /\ i \in Issues
        BY <2>1 DEF Keeps, Releasing
      <3>2. "candidates" \in PCs
        BY DEF PCs
      <3> QED BY <1>0, <2>4, <3>1, <3>2, DoKeeps, StepLists
    <2> QED BY <2>2, <2>3, <2>4
  <1> DEFINE i == loop[w].at
  <1>2. CASE Settle(w)
    <2>1. pc[w] = "settling" /\ i \in Issues /\ ~Keeps(w, i)
      BY <1>2 DEF Settle, Ready, LocalType, ClaimPCs, Keeps, Releasing
    <2>2. CASE Goto(w, "won") /\ UNCHANGED <<loop, job>>
      <3>1. pc'[w] = "won"
        BY <2>2, Now DEF Goto, Maps
      <3>2. \A k \in Issues : Keeps(w, k) => Keeps(w, k)'
        BY <1>0, <2>1, <2>2, <3>1 DEF Keeps, Releasing
      <3> QED BY <1>0, <3>1, <3>2 DEF Kept, KeepStep, EndsRun
    <2>3. ASSUME NEW s, IsRoutine(s), NEW n \in {"candidates", "idle"}, Do(w, i, s, FALSE, n, "idle")
          PROVE  Kept(w)
      <3>1. n \in PCs /\ "idle" \in PCs
        BY DEF PCs
      <3> QED BY <1>0, <2>1, <2>3, <3>1, DoKeeps
    <2> QED BY <1>2, <2>2, <2>3, Now, StepLists DEF Settle
  <1>3. CASE Won(w)
    <2>1. pc[w] = "won" /\ i \in Issues /\ ~Keeps(w, i)
      BY <1>3 DEF Won, Ready, LocalType, ClaimPCs, Keeps, Releasing
    <2>2. CASE Goto(w, "start")
      BY <1>0, <2>1, <2>2, Now, GoKeeps DEF Goto, Maps
    <2>3. ASSUME NEW n \in {"candidates", "idle"},
                 Do(w, i, <<"tryRelease", "unsession">>, FALSE, n, n)
          PROVE  Kept(w)
      <3>1. n \in PCs
        BY DEF PCs
      <3> QED BY <1>0, <2>1, <2>3, <3>1, DoKeeps, StepLists
    <2> QED BY <1>3, <2>2, <2>3, Now DEF Won
  <1> QED BY <1>1, <1>2, <1>3

LEMMA ResumesKeep ==
    ASSUME NEW w \in Workers, Ready(w), CheckSession(w) \/ CheckClaim(w)
    PROVE  Kept(w)
  <1>0. /\ UNCHANGED <<open, labels, claims>> /\ pc[w] \in {"sessions", "sweep"}
        /\ \A k \in Issues : Marked(k)' => Marked(k)
    BY DEF CheckSession, CheckClaim, forge, Marked
  <1>1. ASSUME NEW i \in Issues, NEW s, IsRoutine(s), Unmarks(s),
               NEW here \in {"sessions", "sweep"}, Do(w, i, s, FALSE, here, here)
        PROVE  Kept(w)
    <2>1. here \in PCs
      BY DEF PCs
    <2> QED BY <1>0, <1>1, <2>1, DoKeeps
  <1>2. ASSUME pc' = pc
        PROVE  Kept(w)
    BY <1>0, <1>2, GoKeeps
  <1>3. ASSUME NEW i \in Issues, NEW held, NEW here \in {"sessions", "sweep"}, Resume(w, i, held, here)
        PROVE  Kept(w)
    BY <1>1, <1>2, <1>3, StepLists, UnmarkLists DEF Resume
  <1>4. loop[w].todo \subseteq Issues
    BY Now DEF Loops
  <1>5. CASE CheckSession(w)
    BY <1>1, <1>2, <1>3, <1>4, <1>5, Now, StepLists, UnmarkLists DEF CheckSession
  <1>6. CASE CheckClaim(w)
    BY <1>3, <1>4, <1>6 DEF CheckClaim
  <1> QED BY <1>5, <1>6

(* What a label is put on or taken off.                                    *)
LEMMA LabelChange ==
    ASSUME ForgeType, NEW i \in Issues, NEW l
    PROVE  /\ Label(i, l) => /\ labels'[i] = labels[i] \union {l}
                             /\ \A k \in Issues \ {i} : labels'[k] = labels[k]
           /\ Unlabel(i, l) => /\ labels'[i] = labels[i] \ {l}
                               /\ \A k \in Issues \ {i} : labels'[k] = labels[k]
BY DEF ForgeType, Label, Unlabel

(* No step of a routine marks an issue, and three of them unmark it.       *)
LEMMA StepMarks ==
    ASSUME ForgeType, NEW w \in Workers, NEW i \in Issues, NEW step \in Steps,
           StepEffect(w, i, step)
    PROVE  /\ \A k \in Issues \ {i} : Marked(k)' => Marked(k)
           /\ Marked(i)' => Marked(i)
           /\ Marked(i)' => step \notin {"unprogress", "mustUnprogress", "closeIssue"}
  <1>1. CASE step \in {"release", "tryRelease", "closeMr", "unsession"}
    <2>1. UNCHANGED <<open, labels>>
      BY <1>1 DEF StepEffect, forge
    <2> QED BY <1>1, <2>1 DEF Marked
  <1>2. CASE step \in {"unprogress", "mustUnprogress"}
    <2>1. Unlabel(i, "in-progress") /\ open' = open
      BY <1>2 DEF StepEffect
    <2> QED BY <2>1, LabelChange DEF Marked
  <1>3. CASE step = "closeIssue"
    <2>1. open' = [open EXCEPT ![i] = FALSE] /\ labels' = labels
      BY <1>3 DEF StepEffect
    <2>2. ~open'[i] /\ \A k \in Issues \ {i} : open'[k] = open[k]
      BY <2>1 DEF ForgeType
    <2> QED BY <2>1, <2>2 DEF Marked
  <1>4. CASE step \in {"askHuman", "park"}
    <2>1. PICK l \in {"action-required", "waiting-on-issue"} : Label(i, l) /\ open' = open
      BY <1>4 DEF StepEffect
    <2> QED BY <1>4, <2>1, LabelChange DEF Marked
  <1> QED BY <1>1, <1>2, <1>3, <1>4 DEF Steps

(* The steps of a routine: it unmarks or closes before it is over.         *)
LEMMA JobStepKeeps ==
    ASSUME NEW w \in Workers, Ready(w), EndsRun(w), JobStep(w)
    PROVE  Kept(w)
  <1>0. PICK j, i, step : j = job[w] /\ i = j.issue /\ step = Head(j.do)
    OBVIOUS
  <1>1. /\ pc[w] = "job" /\ i \in Issues /\ j \in Routines /\ j.next \in Returns
        /\ j.do \in Seq(Steps) /\ j.do # <<>> /\ step \in Steps
        /\ StepEffect(w, i, step) /\ StepDone(w)
    <2>1. /\ pc[w] = "job" /\ i \in Issues /\ j.next \in Returns /\ j \in Routines /\ j.do # <<>>
      BY <1>0 DEF JobStep, Ready, LocalType, Sound, RoutineOK
    <2>2. j.do \in Seq(Steps)
      BY <1>0, <2>1 DEF Routines
    <2>3. step \in Steps
      BY <1>0, <2>1, <2>2, HeadTailProperties
    <2> QED BY <1>0, <2>1, <2>2, <2>3, Now DEF JobStep
  <1>2. j.next = "unmade" => ~j.forget /\ i = active[w].issue
    BY <1>0, <1>1 DEF Ready, Sound, RoutineOK, EndsRun
  <1>3. \A k \in Issues \ {i} : w \in claims[k] => w \in claims'[k]
    BY <1>0, JobLabels
  <1>4. /\ \A k \in Issues \ {i} : Marked(k)' => Marked(k)
        /\ Marked(i)' => Marked(i)
        /\ Marked(i)' => step \notin {"unprogress", "mustUnprogress", "closeIssue"}
    BY <1>0, <1>1, StepMarks, Now
  <1>5. \A k \in Issues : Marked(k)' => Marked(k)
    BY <1>4
  <1>6. CASE Len(j.do) > 1
    <2>1. UNCHANGED <<pc, active, loop>> /\ job' = [job EXCEPT ![w].do = Tail(@)]
      BY <1>0, <1>1, <1>6 DEF StepDone
    <2>2. job'[w] = WithRest(j) /\ WithRest(j).issue = i /\ WithRest(j).next = j.next
      <3>0. Maps
        BY Now
      <3>1. job'[w] = WithRest(job[w])
        BY <2>1, <3>0 DEF WithRest, Maps
      <3> QED BY <1>0, <1>1, <1>6, <3>1, RestFields
    <2>3. job'[w].do = Tail(j.do)
      BY <1>0, <1>1, <2>2 DEF WithRest, Routines
    <2>4. EndsRun(w)'
      BY <1>0, <1>2, <2>1, <2>2 DEF EndsRun
    <2>5. ASSUME NEW k \in Issues \ {i}, Keeps(w, k)
          PROVE  Keeps(w, k)'
      BY <1>0, <1>1, <1>3, <2>1, <2>2, <2>5 DEF Keeps, Releasing
    <2>6. ASSUME Marked(i)', Keeps(w, i)
          PROVE  Keeps(w, i)'
      <3>1. Unmarks(j.do)
        BY <1>0, <1>1, <1>4, <2>6 DEF Keeps, Releasing
      <3>2. Unmarks(Tail(j.do))
        BY <1>0, <1>1, <1>4, <2>6, <3>1, RestUnmarks
      <3>3. Releasing(w, i)' /\ Unmarks(job'[w].do)
        BY <1>0, <1>1, <2>1, <2>2, <2>3, <3>2 DEF Releasing
      <3> QED BY <1>0, <3>3 DEF Keeps
    <2>7. \A k \in Issues : Marked(k)' /\ Keeps(w, k) => Keeps(w, k)'
      BY <1>0, <2>5, <2>6
    <2> QED BY <1>0, <1>5, <2>4, <2>7 DEF Kept, KeepStep
  <1>7. CASE ~(Len(j.do) > 1)
    <2>1. pc'[w] = j.next /\ (~j.forget => active'[w] = active[w])
      BY <1>0, <1>1, <1>7, Now DEF StepDone, Goto, Maps
    <2>2. EndsRun(w)' /\ pc'[w] \notin {"job", "settling", "won"}
      BY <1>0, <1>1, <2>1 DEF EndsRun, Returns
    <2>3. ASSUME NEW k \in Issues \ {i}, Keeps(w, k)
          PROVE  Keeps(w, k)'
      <3>1. w \in claims'[k]
        BY <1>0, <1>1, <1>3, <2>3 DEF Keeps, Releasing
      <3> QED BY <1>0, <1>2, <2>1, <2>2, <3>1 DEF Keeps, Releasing
    <2>4. ASSUME Marked(i)', Keeps(w, i)
          PROVE  FALSE
      <3>1. Unmarks(j.do)
        BY <1>0, <1>1, <1>4, <2>4 DEF Keeps, Releasing
      <3> QED BY <1>0, <1>1, <1>4, <1>7, <2>4, <3>1, RestUnmarks
    <2>5. \A k \in Issues : Marked(k)' => ~Keeps(w, k) \/ Keeps(w, k)'
      BY <1>0, <2>3, <2>4
    <2> QED BY <1>0, <1>5, <2>2, <2>5 DEF Kept, KeepStep
  <1> QED BY <1>6, <1>7
-----------------------------------------------------------------------------
LEMMA KeptCycle ==
    ASSUME NEW w \in Workers, Ready(w), EndsRun(w), Cycle(w)
    PROVE  Kept(w)
BY MovesKeep, RunKeeps, ContestKeeps, ResumesKeep, JobStepKeeps DEF Cycle

(* The other workers keep what they kept.                                  *)
LEMMA OthersMarks ==
    ASSUME IInv, NEW w \in Workers, Shape(w), NEW v \in Workers \ {w}
    PROVE  /\ \A i \in Issues : Keeps(v, i)' <=> Keeps(v, i)
           /\ EndsRun(v)' <=> EndsRun(v)
  <1>1. ForgeType /\ Maps /\ Ordered
    BY Types DEF IInv
  <1>2. pc'[v] = pc[v] /\ active'[v] = active[v] /\ loop'[v] = loop[v] /\ job'[v] = job[v]
    BY <1>1 DEF Shape, Maps
  <1>3. \A i \in Issues : v \in claims'[i] <=> v \in claims[i]
    BY <1>1, LabelsOfOthers DEF Shape
  <1> QED BY <1>2, <1>3 DEF Keeps, Releasing, EndsRun

LEMMA NextMarkInv ==
    ASSUME SafeSetting, MarkInv, [Next]_vars
    PROVE  MarkInv'
  <1>1. IInv'
    BY NextIInv DEF MarkInv
  <1>2. TypeOK /\ ForgeType /\ Maps /\ ~Fails /\ \A w \in Workers : Ready(w) /\ EndsRun(w)
    BY Types, NothingFails DEF IInv, Ready, MarkInv
  <1>3. ASSUME NEW w \in Workers, Cycle(w)
        PROVE  MarkInv'
    <2>1. Shape(w) /\ Kept(w)
      BY <1>2, <1>3, ShapeOfCycle, KeptCycle
    <2>2. kills' = kills
      BY <1>2, <1>3 DEF Cycle, BeginCycle, CheckHold, ReattemptUnread, WatchMr, Feedback, Rotate,
             Poll, EndPoll, CheckDependency, BeginClaim, AddLabel, Settle, Won, StartRun, Prepare,
             Model, Publish, Track, Unmade, Failed, JobStep, CheckSession, ListClaims, CheckClaim,
             EndSweep, ResumeCheck, Start, ShutDown, Succeeds, StopForReview
    <2>3. \A v \in Workers : EndsRun(v)'
      <3>1. \A v \in Workers \ {w} : EndsRun(v)'
        BY <1>2, <2>1, OthersMarks DEF MarkInv
      <3> QED BY <2>1, <3>1 DEF Kept
    <2>4. ASSUME kills' = 0, NEW i \in Issues, Marked(i)'
          PROVE  \E v \in Workers : Keeps(v, i)'
      <3>1. Keeps(w, i)' \/ (Marked(i) /\ ~Keeps(w, i))
        BY <2>1, <2>4 DEF Kept, KeepStep
      <3>2. CASE Marked(i) /\ ~Keeps(w, i)
        <4>1. PICK v \in Workers : Keeps(v, i)
          BY <2>2, <2>4, <3>2 DEF MarkInv, MarksKept
        <4>2. v \in Workers \ {w}
          BY <3>2, <4>1
        <4> QED BY <2>1, <4>1, <4>2, OthersMarks DEF MarkInv
      <3> QED BY <3>1, <3>2
    <2> QED BY <1>1, <2>3, <2>4 DEF MarkInv, MarksKept
  <1>4. ASSUME UNCHANGED <<claims, pc, active, loop, job, kills>>,
               \A i \in Issues : Marked(i)' => Marked(i)
        PROVE  MarkInv'
    BY <1>1, <1>4 DEF MarkInv, MarksKept, EndsRun, Keeps, Releasing
  <1>5. ASSUME NEW w \in Workers, RequestShutdown(w)
        PROVE  MarkInv'
    BY <1>4, <1>5 DEF RequestShutdown, forge, Marked
  <1>6. ASSUME NEW w \in Workers, Kill(w)
        PROVE  MarkInv'
    <2>1. kills' # 0
      BY <1>2, <1>6 DEF Kill, ForgeType
    <2>2. pc' = [pc EXCEPT ![w] = "off"] /\ job' = [job EXCEPT ![w] = NoJob]
          /\ active' = [active EXCEPT ![w] = NoIssue]
      BY <1>6 DEF Kill, Forget, Goto
    <2>3. \A v \in Workers : EndsRun(v)'
      BY <1>2, <2>2 DEF EndsRun, Maps
    <2> QED BY <1>1, <2>1, <2>3 DEF MarkInv, MarksKept
  <1>7. CASE Humans
    <2>1. ASSUME NEW i \in Issues, NEW l \in HumanLabels, Relabel(i, l)
          PROVE  MarkInv'
      <3>1. l # "in-progress"
        BY ConstantsOK
      <3>2. \A k \in Issues : "in-progress" \in labels'[k] => "in-progress" \in labels[k]
        BY <1>2, <2>1, <3>1, LabelChange DEF Relabel
      <3> QED BY <1>4, <2>1, <3>2 DEF Relabel, HumanMove, Local, Marked
    <2>2. ASSUME NEW i \in Issues, Close(i)
          PROVE  MarkInv'
      <3>1. \A k \in Issues : open'[k] => open[k]
        BY <1>2, <2>2 DEF Close, ForgeType
      <3> QED BY <1>4, <2>2, <3>1 DEF Close, HumanMove, Local, Marked
    <2>3. ASSUME NEW i \in Issues, NEW s \in {"merged", "closed"}, EndMr(i, s)
          PROVE  MarkInv'
      BY <1>4, <2>3 DEF EndMr, HumanMove, Local, Marked
    <2> QED BY <1>7, <2>1, <2>2, <2>3 DEF Humans
  <1>8. CASE UNCHANGED vars
    BY <1>4, <1>8 DEF vars, Marked
  <1> QED BY <1>3, <1>5, <1>6, <1>7, <1>8 DEF Next

(* Without failing calls and kills an open issue marked in-progress, which *)
(* every worker skips, is claimed, or a routine is about to unmark it      *)
(* (InProgressIsHeld: the release routines of worker.rs), for any number   *)
(* of workers and issues, shutdowns and human moves.                       *)
THEOREM MarksAreHeld == SafeSetting => (Spec => []InProgressIsHeld)
  <1> SUFFICES ASSUME SafeSetting
               PROVE  Spec => []InProgressIsHeld
    OBVIOUS
  <1>1. Init => MarkInv
    BY InitIInv DEF Init, MarkInv, EndsRun, MarksKept, Marked
  <1>2. MarkInv /\ [Next]_vars => MarkInv'
    BY NextMarkInv
  <1>3. MarkInv => InProgressIsHeld
    BY DEF MarkInv, MarksKept, InProgressIsHeld, Marked, Keeps, Releasing, Unmarks
  <1> QED BY <1>1, <1>2, <1>3, PTL DEF Spec
=============================================================================
