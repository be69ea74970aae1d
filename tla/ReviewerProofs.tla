--------------------------- MODULE ReviewerProofs ---------------------------
(***************************************************************************)
(* Proofs about Reviewer, for any number of reviewers and merge requests:  *)
(* one reviewer works on a merge request at a time, and none reviews again *)
(* what its own unresolved discussion is about.                            *)
(***************************************************************************)
EXTENDS Components, TLAPS

LEMMA StepsApart == [Next]_vars => [Reviewer!Next]_reviewerVars
BY DEF Next, vars, InModelRun, InAcpClient, InAuthFlight, InJobs, InResume, InAgentLoop,
       InSubagents, InSandal, InSplit, InPmo, InReviewer, InQa, InOps

Procs == [pc : {"off", "idle", "resume", "drop", "pick", "acquire",
    "release"} \cup Reviewer!Working,
          lease : Mrs \cup {NoMr}, origin : {"none", "build", "scan", "won"},
          cand : SUBSET Mrs, ours : SUBSET Mrs, subject : Mrs \cup {NoMr}, linked : BOOLEAN]

Forge == [state : {"opened", "merged", "closed"}, claims : SUBSET Reviewers,
          labels : SUBSET {"reviewer-approved", "not-for-ai"},
          threads : BOOLEAN, linked : BOOLEAN, issues : 0 .. 2]

(* A lease is backed by the reviewer's label on the merge request.         *)
LeaseIsLabelled(r) == rev[r].lease # NoMr => r \in mr[rev[r].lease].claims

(* Work is on the leased merge request; before a claim, and in a stopped   *)
(* process, there is no lease.                                             *)
Placed(r) ==
    /\ rev[r].pc \in Reviewer!Working => rev[r].subject = rev[r].lease
    /\ rev[r].pc \in Reviewer!Working \cup {"release", "resume"} => rev[r].lease # NoMr
    /\ rev[r].pc \in {"off", "pick", "acquire"} => rev[r].lease = NoMr
    /\ rev[r].pc = "acquire" => rev[r].subject # NoMr
    /\ rev[r].pc = "off" => posted[r] = {}

(* Where r has an unresolved discussion, r takes no claim, and a claim of  *)
(* r's is still leased: it is released before anything else.               *)
Answered(r) ==
    \A m \in posted[r] :
        /\ mr[m].threads
        /\ r \in mr[m].claims => rev[r].lease = m
        /\ rev[r].lease = m => rev[r].pc \in {"release", "idle", "drop"}
        /\ rev[r].pc = "acquire" => rev[r].subject # m

Sound(r) == LeaseIsLabelled(r) /\ Placed(r) /\ Answered(r)

(* Two leases are on two merge requests.                                   *)
LeasesDiffer ==
    \A r, q \in Reviewers : rev[r].lease = rev[q].lease /\ rev[r].lease # NoMr => r = q

Counts ==
    /\ givenUp \subseteq Reviewers
    /\ rfaults \in 0 .. MaxFaults /\ rkills \in 0 .. MaxKills /\ rmoves \in 0 .. MaxMoves

IInv ==
    /\ Reviewer!TypeOK
    /\ \A r \in Reviewers : Sound(r)
    /\ LeasesDiffer

(* What a step of r leaves to the other reviewers.                         *)
OthersKeep(r) ==
    \A q \in Reviewers \ {r} :
        /\ rev'[q] = rev[q]
        /\ posted'[q] = posted[q]
        /\ \A m \in Mrs : /\ q \in mr'[m].claims <=> q \in mr[m].claims
                          /\ mr[m].threads => mr'[m].threads

(* A lease is new only where no other reviewer's label is.                 *)
LeaseStep(r) ==
    \/ rev'[r].lease \in {rev[r].lease, NoMr}
    \/ rev'[r].lease \in Mrs /\ mr[rev'[r].lease].claims \subseteq {r}
-----------------------------------------------------------------------------
LEMMA Kept ==
    ASSUME IInv, NEW r \in Reviewers, OthersKeep(r)
    PROVE  \A q \in Reviewers \ {r} : Sound(q)'
  <1> SUFFICES ASSUME NEW q \in Reviewers \ {r} PROVE Sound(q)'
    OBVIOUS
  <1>1. Sound(q) /\ posted[q] \subseteq Mrs /\ rev[q].lease \in Mrs \cup {NoMr}
    BY DEF IInv, Reviewer!TypeOK
  <1>2. LeaseIsLabelled(q)'
    BY <1>1 DEF OthersKeep, Sound, LeaseIsLabelled
  <1>3. Placed(q)'
    BY <1>1 DEF OthersKeep, Sound, Placed
  <1>4. Answered(q)'
    BY <1>1 DEF OthersKeep, Sound, Answered
  <1> QED BY <1>2, <1>3, <1>4 DEF Sound

LEMMA Differ ==
    ASSUME IInv, NEW r \in Reviewers, OthersKeep(r), LeaseStep(r)
    PROVE  LeasesDiffer'
  <1> SUFFICES ASSUME NEW p \in Reviewers, NEW q \in Reviewers, p # q,
                      (rev[p].lease = rev[q].lease)', rev'[p].lease # NoMr
               PROVE  FALSE
    BY DEF LeasesDiffer
  <1>1. ASSUME NEW o \in Reviewers, o # r, rev'[o].lease = rev'[r].lease,
               rev'[r].lease # NoMr
        PROVE  FALSE
    <2>1. rev[o].lease = rev'[o].lease
      BY <1>1 DEF OthersKeep
    <2>2. o \in mr[rev[o].lease].claims
      BY <1>1, <2>1 DEF IInv, Sound, LeaseIsLabelled
    <2>3. rev[o].lease # rev[r].lease
      BY <1>1, <2>1 DEF IInv, LeasesDiffer
    <2> QED BY <1>1, <2>1, <2>2, <2>3 DEF LeaseStep
  <1>2. p = r \/ q = r
    BY DEF OthersKeep, IInv, LeasesDiffer
  <1> QED BY <1>1, <1>2
-----------------------------------------------------------------------------
(* TypeOK by its parts.                                                    *)
LEMMA Types ==
    Reviewer!TypeOK <=> /\ mr \in [Mrs -> Forge]
               /\ rev \in [Reviewers -> Procs]
               /\ posted \in [Reviewers -> SUBSET Mrs]
               /\ Counts
  BY DEF Reviewer!TypeOK, Procs, Forge, Counts

LEMMA TypesAfter ==
    /\ mr' \in [Mrs -> Forge]
    /\ rev' \in [Reviewers -> Procs]
    /\ posted' \in [Reviewers -> SUBSET Mrs]
    /\ Counts'
    => Reviewer!TypeOK'
  BY DEF Reviewer!TypeOK, Procs, Forge, Counts

LEMMA Counted ==
    ASSUME Reviewer!TypeOK, Reviewer!ConstantsOK, Reviewer!Fault \/ Reviewer!NoFault
    PROVE  Counts'
  <1>1. Counts /\ {MaxFaults, MaxKills, MaxMoves} \subseteq Nat
    BY Types DEF Reviewer!ConstantsOK
  <1> QED BY <1>1 DEF Counts, Reviewer!Fault, Reviewer!NoFault

(* A reviewer's record replaced, and a label put on or taken off.          *)
LEMMA Become ==
    ASSUME Reviewer!TypeOK, NEW r \in Reviewers, NEW k \in Procs, rev' = [rev EXCEPT ![r] = k]
    PROVE  /\ rev' \in [Reviewers -> Procs]
           /\ rev'[r] = k
           /\ \A q \in Reviewers \ {r} : rev'[q] = rev[q]
  BY Types

LEMMA Labelled ==
    ASSUME Reviewer!TypeOK, NEW m \in Mrs, NEW C \in SUBSET Reviewers,
           mr' = [mr EXCEPT ![m].claims = C]
    PROVE  /\ mr' \in [Mrs -> Forge]
           /\ mr'[m].claims = C
           /\ \A n \in Mrs : n # m => mr'[n].claims = mr[n].claims
           /\ \A n \in Mrs : mr'[n].threads = mr[n].threads
  <1>1. mr \in [Mrs -> Forge]
    BY Types
  <1>2. [mr[m] EXCEPT !.claims = C] \in Forge
    BY <1>1 DEF Forge
  <1>3. mr' = [mr EXCEPT ![m] = [mr[m] EXCEPT !.claims = C]]
    OBVIOUS
  <1>4. /\ [mr[m] EXCEPT !.claims = C].claims = C
        /\ [mr[m] EXCEPT !.claims = C].threads = mr[m].threads
    BY <1>1 DEF Forge
  <1> QED BY <1>1, <1>2, <1>3, <1>4

LEMMA Scanned ==
    ASSUME Reviewer!TypeOK, Reviewer!ConstantsOK, NEW r \in Reviewers,
           NEW origin \in {"build", "scan"},
           NEW found \in {"idle", "resume"}, NEW none \in {"idle", "drop"},
           Reviewer!Scan(r, origin, found, none)
    PROVE  /\ \E k \in Procs :
                /\ rev' = [rev EXCEPT ![r] = k]
                /\ \/ k.lease = NoMr /\ k.pc = none
                   \/ k.lease \in Mrs /\ mr[k.lease].claims = {r} /\ k.pc = found
           /\ Counts'
  <1>1. Counts'
    BY Counted DEF Reviewer!Scan
  <1>2. CASE \E m \in Reviewer!Found(r) :
               rev' = [rev EXCEPT ![r] = [Reviewer!Idle EXCEPT !.pc = found, !.lease = m,
                                                      !.origin = origin]]
    <2>1. PICK m \in Reviewer!Found(r) :
            rev' = [rev EXCEPT ![r] = [Reviewer!Idle EXCEPT !.pc = found, !.lease = m,
                                                   !.origin = origin]]
      BY <1>2
    <2>2. m \in Mrs /\ mr[m].claims = {r}
      BY DEF Reviewer!Found, Reviewer!Recovers
    <2> DEFINE k == [Reviewer!Idle EXCEPT !.pc = found, !.lease = m, !.origin = origin]
    <2>3. k \in Procs /\ k.lease = m /\ k.pc = found
      BY <2>2 DEF Reviewer!Idle, Procs
    <2>4. rev' = [rev EXCEPT ![r] = k]
      BY <2>1
    <2> HIDE DEF k
    <2> QED BY <1>1, <2>2, <2>3, <2>4
  <1>3. CASE rev' = [rev EXCEPT ![r] = [Reviewer!Idle EXCEPT !.pc = none]]
    <2> DEFINE k == [Reviewer!Idle EXCEPT !.pc = none]
    <2>1. k \in Procs /\ k.lease = NoMr /\ k.pc = none
      BY DEF Reviewer!Idle, Procs
    <2>2. rev' = [rev EXCEPT ![r] = k]
      BY <1>3
    <2> HIDE DEF k
    <2> QED BY <1>1, <2>1, <2>2
  <1> QED BY <1>2, <1>3 DEF Reviewer!Scan

LEMMA Moves ==
    ASSUME Reviewer!TypeOK, NEW r \in Reviewers,
           NEW place \in {"off", "idle", "resume", "drop", "pick",
                                                   "acquire", "release"} \cup Reviewer!Working,
           Reviewer!Now(r, place)
    PROVE  \E k \in Procs :
              /\ rev' = [rev EXCEPT ![r] = k]
              /\ k.pc = place /\ k.lease = rev[r].lease /\ k.subject = rev[r].subject
  <1> DEFINE k == [rev[r] EXCEPT !.pc = place]
  <1>1. /\ k \in Procs
        /\ k.pc = place /\ k.lease = rev[r].lease /\ k.subject = rev[r].subject
    BY Types DEF Procs
  <1>2. rev' = [rev EXCEPT ![r] = k]
    BY DEF Reviewer!Now
  <1> HIDE DEF k
  <1> QED BY <1>1, <1>2

LEMMA Passed ==
    ASSUME Reviewer!TypeOK, NEW r \in Reviewers, NEW m \in Mrs, Reviewer!Pass(r, m)
    PROVE  \E k \in Procs :
              /\ rev' = [rev EXCEPT ![r] = k]
              /\ k.pc \in {"idle", "pick"} /\ k.lease = rev[r].lease
  <1> DEFINE k == [rev[r] EXCEPT !.cand = @ \ {m}, !.subject = NoMr,
                       !.pc = IF rev[r].cand = {m} THEN "idle" ELSE "pick",
                       !.ours = IF rev[r].cand = {m} THEN {} ELSE @]
  <1>1. k \in Procs /\ k.pc \in {"idle", "pick"} /\ k.lease = rev[r].lease
    BY Types, ZenonT(40) DEF Procs
  <1>2. rev' = [rev EXCEPT ![r] = k]
    BY DEF Reviewer!Pass
  <1> HIDE DEF k
  <1> QED BY <1>1, <1>2
-----------------------------------------------------------------------------
(* What r's new record k must agree with: its phase with its lease, and    *)
(* both with the discussions of r.                                         *)
Placeable(r, k) ==
    /\ k.pc \in Reviewer!Working => k.subject = k.lease
    /\ k.pc \in Reviewer!Working \cup {"release", "resume"} => k.lease # NoMr
    /\ k.pc \in {"off", "pick", "acquire"} => k.lease = NoMr
    /\ k.pc = "acquire" => k.subject # NoMr
    /\ k.pc = "off" => posted'[r] = {}

Standing(r, k) ==
    \A m \in posted'[r] :
        /\ mr'[m].threads
        /\ r \in mr'[m].claims => k.lease = m
        /\ k.lease = m => k.pc \in {"release", "idle", "drop"}
        /\ k.pc = "acquire" => k.subject # m

(* The forge after a step of r: labels of others and discussions stay.     *)
ForgeStep(r) ==
    /\ mr' \in [Mrs -> Forge]
    /\ \A m \in Mrs : mr[m].threads => mr'[m].threads
    /\ \A q \in Reviewers \ {r}, m \in Mrs : q \in mr'[m].claims <=> q \in mr[m].claims

(* What a step of r establishes.                                           *)
Good(r) == Reviewer!TypeOK' /\ OthersKeep(r) /\ LeaseStep(r) /\ Sound(r)'

(* A step that leaves the forge alone and changes r's record to k.         *)
LEMMA Inward ==
    ASSUME IInv, Reviewer!ConstantsOK, NEW r \in Reviewers, NEW k \in Procs,
           rev' = [rev EXCEPT ![r] = k],
           UNCHANGED <<mr, posted>>, Counts',
           \/ k.lease \in {rev[r].lease, NoMr}
           \/ k.lease \in Mrs /\ mr[k.lease].claims = {r},
           k.lease # NoMr => r \in mr[k.lease].claims,
           k.pc \in Reviewer!Working => k.subject = k.lease,
           k.pc \in Reviewer!Working \cup {"release", "resume"} => k.lease # NoMr,
           k.pc \in {"off", "pick", "acquire"} => k.lease = NoMr,
           k.pc = "acquire" => k.subject \notin posted[r] /\ k.subject # NoMr,
           k.pc = "off" => posted[r] = {},
           k.lease \in posted[r] => k.lease = rev[r].lease
               /\ k.pc \in {"release", "idle", "drop"},
           k.lease # rev[r].lease => rev[r].lease = NoMr
    PROVE  Good(r)
  <1>1. /\ rev' \in [Reviewers -> Procs]
        /\ rev'[r] = k
        /\ \A q \in Reviewers \ {r} : rev'[q] = rev[q]
    BY Become DEF IInv
  <1>2. Reviewer!TypeOK /\ Sound(r)
    BY DEF IInv
  <1>3. Reviewer!TypeOK'
    BY <1>1, <1>2, Types, TypesAfter
  <1>4. OthersKeep(r) /\ LeaseStep(r)
    BY <1>1 DEF OthersKeep, LeaseStep
  <1>5. LeaseIsLabelled(r)' /\ Placed(r)'
    BY <1>1 DEF LeaseIsLabelled, Placed
  <1>6. ASSUME NEW m \in posted[r]
        PROVE  /\ mr[m].threads
               /\ r \in mr[m].claims => k.lease = m
               /\ k.lease = m => k.pc \in {"release", "idle", "drop"}
               /\ k.pc = "acquire" => k.subject # m
    BY <1>2, <1>6, Types DEF Answered, Sound, Reviewer!ConstantsOK
  <1>7. Answered(r)'
    BY <1>1, <1>6 DEF Answered
  <1> QED BY <1>3, <1>4, <1>5, <1>7 DEF Good, Sound
-----------------------------------------------------------------------------
LEMMA StartStep ==
    ASSUME IInv, Reviewer!ConstantsOK, NEW r \in Reviewers, Reviewer!Start(r)
    PROVE  Good(r)
  <1>1. /\ rev[r].pc = "off" /\ UNCHANGED <<mr, posted>>
        /\ Reviewer!Scan(r, "build", "idle", "idle")
    BY DEF Reviewer!Start, Reviewer!At
  <1>2. rev[r].lease = NoMr /\ posted[r] = {} /\ NoMr \notin Mrs
    BY <1>1 DEF IInv, Sound, Placed, Reviewer!ConstantsOK
  <1>3. PICK k \in Procs :
            /\ rev' = [rev EXCEPT ![r] = k]
            /\ \/ k.lease = NoMr /\ k.pc = "idle"
               \/ k.lease \in Mrs /\ mr[k.lease].claims = {r} /\ k.pc = "idle"
    BY <1>1, Scanned DEF IInv
  <1>4. Counts'
    BY <1>1, Scanned DEF IInv
  <1> QED BY <1>1, <1>2, <1>3, <1>4, Inward DEF Reviewer!Working

LEMMA RecoverStep ==
    ASSUME IInv, Reviewer!ConstantsOK, NEW r \in Reviewers, Reviewer!Recover(r)
    PROVE  Good(r)
  <1>1. rev[r].pc = "idle" /\ UNCHANGED <<mr, posted>>
    BY DEF Reviewer!Recover, Reviewer!At
  <1>2. Sound(r) /\ Reviewer!TypeOK /\ NoMr \notin Mrs
    BY DEF IInv, Reviewer!ConstantsOK
  <1>3. CASE rev[r].lease = NoMr
    <2>1. Reviewer!Scan(r, "scan", "resume", "drop")
      BY <1>3 DEF Reviewer!Recover, Reviewer!Holds
    <2>2. PICK k \in Procs :
              /\ rev' = [rev EXCEPT ![r] = k]
              /\ \/ k.lease = NoMr /\ k.pc = "drop"
                 \/ k.lease \in Mrs /\ mr[k.lease].claims = {r} /\ k.pc = "resume"
      BY <1>2, <2>1, Scanned
    <2>3. Counts'
      BY <1>2, <2>1, Scanned
    <2>4. k.lease \notin posted[r]
      BY <1>2, <1>3, <2>2, Types DEF Sound, Answered
    <2> QED BY <1>1, <1>2, <1>3, <2>2, <2>3, <2>4, Inward DEF Reviewer!Working
  <1>4. CASE rev[r].lease # NoMr
    <2>1. Reviewer!Now(r, "drop") /\ Reviewer!NoFault
      BY <1>4 DEF Reviewer!Recover, Reviewer!Holds
    <2>2. Counts'
      BY <1>2, <2>1, Counted
    <2>3. PICK k \in Procs :
            /\ rev' = [rev EXCEPT ![r] = k]
            /\ k.pc = "drop" /\ k.lease = rev[r].lease /\ k.subject = rev[r].subject
      BY <1>2, <2>1, Moves
    <2>4. r \in mr[rev[r].lease].claims
      BY <1>2, <1>4 DEF Sound, LeaseIsLabelled
    <2> QED BY <1>1, <1>2, <1>4, <2>2, <2>3, <2>4, Inward DEF Reviewer!Working
  <1> QED BY <1>3, <1>4

LEMMA ResumeStep ==
    ASSUME IInv, Reviewer!ConstantsOK, NEW r \in Reviewers, Reviewer!ResumeHeld(r)
    PROVE  Good(r)
  <1>1. rev[r].pc = "resume" /\ UNCHANGED <<mr, posted>> /\ (Reviewer!Fault \/ Reviewer!NoFault)
    BY DEF Reviewer!ResumeHeld, Reviewer!At
  <1>2. Sound(r) /\ Reviewer!TypeOK
    BY DEF IInv
  <1>3. /\ rev[r].lease \in Mrs /\ r \in mr[rev[r].lease].claims
        /\ rev[r].lease \notin posted[r] /\ NoMr \notin Mrs
    BY <1>1, <1>2, Types DEF Reviewer!ConstantsOK, Sound, Placed, LeaseIsLabelled, Answered,
       Procs
  <1>4. Counts'
    BY <1>1, <1>2, Counted
  <1>5. CASE Reviewer!Now(r, "drop")
    <2>1. PICK k \in Procs :
            /\ rev' = [rev EXCEPT ![r] = k]
            /\ k.pc = "drop" /\ k.lease = rev[r].lease /\ k.subject = rev[r].subject
      BY <1>2, <1>5, Moves
    <2> QED BY <1>1, <1>3, <1>4, <2>1, Inward DEF Reviewer!Working
  <1>6. CASE rev' = [rev EXCEPT ![r].pc = "review", ![r].subject = Reviewer!Holds(r),
                                ![r].linked = mr[Reviewer!Holds(r)].linked]
    <2> DEFINE k == [rev[r] EXCEPT !.pc = "review", !.subject = Reviewer!Holds(r),
                                   !.linked = mr[Reviewer!Holds(r)].linked]
    <2>1. mr[Reviewer!Holds(r)].linked \in BOOLEAN
      BY <1>2, <1>3, Types DEF Reviewer!Holds, Forge
    <2>2. k \in Procs /\ k.pc = "review" /\ k.lease = rev[r].lease /\ k.subject = k.lease
      BY <1>2, <1>3, <2>1, Types, ZenonT(40) DEF Reviewer!Holds, Procs, Reviewer!Working
    <2>3. rev' = [rev EXCEPT ![r] = k]
      BY <1>6
    <2> HIDE DEF k
    <2> QED BY <1>1, <1>3, <1>4, <2>2, <2>3, Inward DEF Reviewer!Working
  <1> QED BY <1>5, <1>6 DEF Reviewer!ResumeHeld

(* A step that also changes the forge.                                     *)
LEMMA Outward ==
    ASSUME IInv, NEW r \in Reviewers, NEW k \in Procs, rev' = [rev EXCEPT ![r] = k], Counts',
           posted' \in [Reviewers -> SUBSET Mrs],
           \A q \in Reviewers \ {r} : posted'[q] = posted[q],
           ForgeStep(r),
           \/ k.lease \in {rev[r].lease, NoMr}
           \/ k.lease \in Mrs /\ mr[k.lease].claims \subseteq {r},
           k.lease # NoMr => r \in mr'[k.lease].claims,
           Placeable(r, k), Standing(r, k)
    PROVE  Good(r)
  <1>1. /\ rev' \in [Reviewers -> Procs]
        /\ rev'[r] = k
        /\ \A q \in Reviewers \ {r} : rev'[q] = rev[q]
    BY Become DEF IInv
  <1>2. Reviewer!TypeOK'
    BY <1>1, TypesAfter DEF ForgeStep
  <1>3. OthersKeep(r) /\ LeaseStep(r)
    BY <1>1 DEF OthersKeep, LeaseStep, ForgeStep
  <1>4. LeaseIsLabelled(r)' /\ Placed(r)' /\ Answered(r)'
    BY <1>1 DEF LeaseIsLabelled, Placed, Answered, Placeable, Standing
  <1> QED BY <1>2, <1>3, <1>4 DEF Good, Sound

(* An edit of a merge request that leaves claims and discussions alone.    *)
LEMMA Edited ==
    ASSUME Reviewer!TypeOK, NEW m \in Mrs, NEW f \in Forge, mr' = [mr EXCEPT ![m] = f],
           f.claims = mr[m].claims, f.threads = mr[m].threads
    PROVE  /\ mr' \in [Mrs -> Forge]
           /\ \A n \in Mrs : mr'[n].claims = mr[n].claims /\ mr'[n].threads = mr[n].threads
  BY Types

(* A step from one working phase to another or to the release, with such   *)
(* an edit or none.                                                        *)
LEMMA Onward ==
    ASSUME IInv, Reviewer!ConstantsOK, NEW r \in Reviewers, rev[r].pc \in Reviewer!Working,
           NEW place \in Reviewer!Working \cup {"release"}, Reviewer!Now(r, place),
               Reviewer!Fault \/ Reviewer!NoFault,
           mr' \in [Mrs -> Forge], UNCHANGED posted,
           \A n \in Mrs : mr'[n].claims = mr[n].claims /\ mr'[n].threads = mr[n].threads
    PROVE  Good(r)
  <1>1. Reviewer!TypeOK /\ Sound(r) /\ NoMr \notin Mrs
    BY DEF IInv, Reviewer!ConstantsOK
  <1>2. PICK k \in Procs :
          /\ rev' = [rev EXCEPT ![r] = k]
          /\ k.pc = place /\ k.lease = rev[r].lease /\ k.subject = rev[r].subject
    <2>1. place \in {"off", "idle", "resume", "drop", "pick", "acquire",
        "release"} \cup Reviewer!Working
      OBVIOUS
    <2> QED BY <1>1, <2>1, Moves
  <1>3. /\ rev[r].lease \in Mrs /\ r \in mr[rev[r].lease].claims
        /\ rev[r].subject = rev[r].lease /\ rev[r].lease \notin posted[r]
    BY <1>1, Types DEF Sound, Placed, LeaseIsLabelled, Answered, Procs, Reviewer!Working
  <1>4. Counts' /\ posted \in [Reviewers -> SUBSET Mrs]
    BY <1>1, Counted, Types
  <1>5. \A m \in posted[r] : mr[m].threads /\ (r \in mr[m].claims => rev[r].lease = m)
      /\ m \in Mrs
    BY <1>1, <1>4 DEF Sound, Answered
  <1>6. k.pc \in Reviewer!Working \cup {"release"} /\ k.lease = rev[r].lease
      /\ k.subject = k.lease
    BY <1>2, <1>3
  <1>7. k.pc \notin {"off", "pick", "acquire"}
    BY <1>6 DEF Reviewer!Working
  <1>8. Standing(r, k)
    BY <1>3, <1>5, <1>6, <1>7 DEF Standing
  <1>9. k.lease # NoMr /\ r \in mr'[k.lease].claims /\ ForgeStep(r)
    BY <1>1, <1>3, <1>6 DEF ForgeStep
  <1>10. Placeable(r, k)
    BY <1>6, <1>7, <1>9 DEF Placeable
  <1> QED BY <1>2, <1>4, <1>6, <1>8, <1>9, <1>10, Outward

LEMMA ReviewStep ==
    ASSUME IInv, Reviewer!ConstantsOK, NEW r \in Reviewers, Reviewer!Review(r)
    PROVE  Good(r)
  <1>1. rev[r].pc \in Reviewer!Working /\ UNCHANGED posted
      /\ (Reviewer!Fault \/ Reviewer!NoFault)
    BY DEF Reviewer!Review, Reviewer!At, Reviewer!Working
  <1>2. Reviewer!TypeOK /\ rev[r].subject \in Mrs
    BY <1>1, Types DEF IInv, Sound, Placed, Procs, Reviewer!ConstantsOK
  <1>3. CASE UNCHANGED mr /\ \E place \in {"post", "model", "release"} : Reviewer!Now(r, place)
    BY <1>1, <1>2, <1>3, Onward, Types DEF IInv, Reviewer!Working
  <1>4. CASE /\ mr' = [mr EXCEPT ![rev[r].subject].issues = IF @ = 2 THEN 2 ELSE @ + 1]
             /\ Reviewer!Now(r, "link")
    <2> DEFINE f == [mr[rev[r].subject] EXCEPT !.issues = IF @ = 2 THEN 2 ELSE @ + 1]
    <2>1. /\ f \in Forge
          /\ f.claims = mr[rev[r].subject].claims /\ f.threads = mr[rev[r].subject].threads
      BY <1>2, Types DEF Forge
    <2>2. mr' = [mr EXCEPT ![rev[r].subject] = f]
      BY <1>4
    <2> HIDE DEF f
    <2>3. /\ mr' \in [Mrs -> Forge]
          /\ \A n \in Mrs : mr'[n].claims = mr[n].claims /\ mr'[n].threads = mr[n].threads
      BY <1>2, <2>1, <2>2, Edited
    <2> QED BY <1>1, <1>4, <2>3, Onward DEF Reviewer!Working
  <1> QED BY <1>3, <1>4 DEF Reviewer!Review

LEMMA Flagged ==
    ASSUME NEW g \in Forge, NEW b \in BOOLEAN
    PROVE  /\ [g EXCEPT !.linked = b] \in Forge /\ [g EXCEPT !.threads = b] \in Forge
           /\ [g EXCEPT !.linked = b].claims = g.claims
           /\ [g EXCEPT !.linked = b].threads = g.threads
           /\ [g EXCEPT !.threads = b].claims = g.claims
           /\ [g EXCEPT !.threads = b].threads = b
  BY DEF Forge

LEMMA LinkStep ==
    ASSUME IInv, Reviewer!ConstantsOK, NEW r \in Reviewers, Reviewer!Link(r)
    PROVE  Good(r)
  <1>1. rev[r].pc \in Reviewer!Working /\ UNCHANGED posted
      /\ (Reviewer!Fault \/ Reviewer!NoFault) /\ Reviewer!Now(r, "model")
    BY DEF Reviewer!Link, Reviewer!At, Reviewer!Working
  <1>2. Reviewer!TypeOK /\ rev[r].subject \in Mrs
    BY <1>1, Types DEF IInv, Sound, Placed, Procs, Reviewer!ConstantsOK
  <1>3. CASE UNCHANGED mr
    BY <1>1, <1>2, <1>3, Onward, Types DEF Reviewer!Working
  <1>4. CASE mr' = [mr EXCEPT ![rev[r].subject].linked = TRUE]
    <2> DEFINE f == [mr[rev[r].subject] EXCEPT !.linked = TRUE]
    <2>1. /\ f \in Forge
          /\ f.claims = mr[rev[r].subject].claims /\ f.threads = mr[rev[r].subject].threads
      <3>1. mr[rev[r].subject] \in Forge /\ TRUE \in BOOLEAN
        BY <1>2, Types
      <3> QED BY <3>1, Flagged, Zenon
    <2>2. mr' = [mr EXCEPT ![rev[r].subject] = f]
      BY <1>4
    <2> HIDE DEF f
    <2>3. /\ mr' \in [Mrs -> Forge]
          /\ \A n \in Mrs : mr'[n].claims = mr[n].claims /\ mr'[n].threads = mr[n].threads
      BY <1>2, <2>1, <2>2, Edited
    <2> QED BY <1>1, <2>3, Onward DEF Reviewer!Working
  <1> QED BY <1>3, <1>4 DEF Reviewer!Link

LEMMA ModelStep ==
    ASSUME IInv, Reviewer!ConstantsOK, NEW r \in Reviewers, Reviewer!Model(r)
    PROVE  Good(r)
  <1>1. /\ rev[r].pc \in Reviewer!Working /\ UNCHANGED <<mr, posted>>
             /\ (Reviewer!Fault \/ Reviewer!NoFault)
        /\ \E place \in {"post", "approve", "release"} : Reviewer!Now(r, place)
    BY DEF Reviewer!Model, Reviewer!At, Reviewer!Working
  <1> QED BY <1>1, Onward, Types DEF IInv, Reviewer!Working

LEMMA ApproveStep ==
    ASSUME IInv, Reviewer!ConstantsOK, NEW r \in Reviewers, Reviewer!Approve(r)
    PROVE  Good(r)
  <1>1. /\ rev[r].pc \in Reviewer!Working /\ UNCHANGED <<mr, posted>>
             /\ (Reviewer!Fault \/ Reviewer!NoFault)
        /\ \E place \in {"merge", "label", "release"} : Reviewer!Now(r, place)
    BY DEF Reviewer!Approve, Reviewer!At, Reviewer!Working
  <1> QED BY <1>1, Onward, Types DEF IInv, Reviewer!Working

LEMMA MergeStep ==
    ASSUME IInv, Reviewer!ConstantsOK, NEW r \in Reviewers, Reviewer!Merge(r)
    PROVE  Good(r)
  <1>1. /\ rev[r].pc \in Reviewer!Working /\ UNCHANGED posted
             /\ (Reviewer!Fault \/ Reviewer!NoFault)
        /\ \E place \in {"post", "release"} : Reviewer!Now(r, place)
    BY DEF Reviewer!Merge, Reviewer!At, Reviewer!Working
  <1>2. Reviewer!TypeOK /\ rev[r].subject \in Mrs
    BY <1>1, Types DEF IInv, Sound, Placed, Procs, Reviewer!ConstantsOK
  <1>3. CASE UNCHANGED mr
    BY <1>1, <1>2, <1>3, Onward, Types DEF Reviewer!Working
  <1>4. CASE mr' = [mr EXCEPT ![rev[r].subject].state = "merged"]
    <2> DEFINE f == [mr[rev[r].subject] EXCEPT !.state = "merged"]
    <2>1. /\ f \in Forge
          /\ f.claims = mr[rev[r].subject].claims /\ f.threads = mr[rev[r].subject].threads
      BY <1>2, Types DEF Forge
    <2>2. mr' = [mr EXCEPT ![rev[r].subject] = f]
      BY <1>4
    <2> HIDE DEF f
    <2>3. /\ mr' \in [Mrs -> Forge]
          /\ \A n \in Mrs : mr'[n].claims = mr[n].claims /\ mr'[n].threads = mr[n].threads
      BY <1>2, <2>1, <2>2, Edited
    <2> QED BY <1>1, <2>3, Onward DEF Reviewer!Working
  <1> QED BY <1>3, <1>4 DEF Reviewer!Merge

LEMMA LabelStep ==
    ASSUME IInv, Reviewer!ConstantsOK, NEW r \in Reviewers, Reviewer!Label(r)
    PROVE  Good(r)
  <1>1. rev[r].pc \in Reviewer!Working /\ UNCHANGED posted
      /\ (Reviewer!Fault \/ Reviewer!NoFault) /\ Reviewer!Now(r, "release")
    BY DEF Reviewer!Label, Reviewer!At, Reviewer!Working
  <1>2. Reviewer!TypeOK /\ rev[r].subject \in Mrs
    BY <1>1, Types DEF IInv, Sound, Placed, Procs, Reviewer!ConstantsOK
  <1>3. CASE UNCHANGED mr
    BY <1>1, <1>2, <1>3, Onward, Types DEF Reviewer!Working
  <1>4. CASE mr' = [mr EXCEPT ![rev[r].subject].labels = @ \cup {"reviewer-approved"}]
    <2> DEFINE f == [mr[rev[r].subject] EXCEPT !.labels = @ \cup {"reviewer-approved"}]
    <2>1. /\ f \in Forge
          /\ f.claims = mr[rev[r].subject].claims /\ f.threads = mr[rev[r].subject].threads
      BY <1>2, Types DEF Forge
    <2>2. mr' = [mr EXCEPT ![rev[r].subject] = f]
      BY <1>4
    <2> HIDE DEF f
    <2>3. /\ mr' \in [Mrs -> Forge]
          /\ \A n \in Mrs : mr'[n].claims = mr[n].claims /\ mr'[n].threads = mr[n].threads
      BY <1>2, <2>1, <2>2, Edited
    <2> QED BY <1>1, <2>3, Onward DEF Reviewer!Working
  <1> QED BY <1>3, <1>4 DEF Reviewer!Label

(* Discussions of r stand, and no claim but a leased one is beside them.   *)
LEMMA PostedFacts ==
    ASSUME IInv, Reviewer!ConstantsOK, NEW r \in Reviewers
    PROVE  /\ posted \in [Reviewers -> SUBSET Mrs] /\ NoMr \notin posted[r] /\ NoMr \notin Mrs
           /\ rev[r].lease \in Mrs \cup {NoMr} /\ rev[r].subject \in Mrs \cup {NoMr}
           /\ rev[r].lease # NoMr => r \in mr[rev[r].lease].claims
           /\ \A m \in posted[r] : /\ m \in Mrs /\ mr[m].threads
                                   /\ r \in mr[m].claims => rev[r].lease = m
                                   /\ rev[r].lease = m
                                        => rev[r].pc \in {"release", "idle", "drop"}
                                   /\ rev[r].pc = "acquire" => rev[r].subject # m
  BY Types DEF IInv, Sound, LeaseIsLabelled, Answered, Procs, Reviewer!ConstantsOK

LEMMA DropStep ==
    ASSUME IInv, Reviewer!ConstantsOK, NEW r \in Reviewers, Reviewer!DropAndList(r)
    PROVE  Good(r)
  <1>1. rev[r].pc = "drop" /\ UNCHANGED posted /\ (Reviewer!Fault \/ Reviewer!NoFault)
    BY DEF Reviewer!DropAndList, Reviewer!At
  <1>2. Reviewer!TypeOK /\ Counts'
    BY <1>1, Counted DEF IInv
  <1>3. CASE Reviewer!Holds(r) = NoMr /\ rev' = [rev EXCEPT ![r] = Reviewer!Listed(r)]
      /\ UNCHANGED mr
    <2> DEFINE k == Reviewer!Listed(r)
    <2>1. k \in Procs /\ k.pc \in {"idle", "pick"} /\ k.lease = NoMr
      BY DEF Reviewer!Listed, Reviewer!Idle, Procs
    <2>2. rev' = [rev EXCEPT ![r] = k] /\ rev[r].lease = NoMr
      BY <1>3 DEF Reviewer!Holds
    <2> HIDE DEF k
    <2> QED BY <1>1, <1>2, <1>3, <2>1, <2>2, PostedFacts, Inward, ZenonT(40) DEF Reviewer!Working
  <1>4. CASE /\ Reviewer!Holds(r) # NoMr
             /\ mr' = [mr EXCEPT ![Reviewer!Holds(r)].claims = @ \ {r}]
             /\ rev' = [rev EXCEPT ![r] = [Reviewer!Idle EXCEPT !.pc = "drop"]]
    <2> DEFINE k == [Reviewer!Idle EXCEPT !.pc = "drop"]
               C == mr[Reviewer!Holds(r)].claims \ {r}
    <2>1. k \in Procs /\ k.pc = "drop" /\ k.lease = NoMr
      BY DEF Reviewer!Idle, Procs
    <2>2. Reviewer!Holds(r) \in Mrs /\ C \subseteq Reviewers
      BY <1>2, <1>4, Types DEF Reviewer!Holds, Procs, Forge
    <2>3. rev' = [rev EXCEPT ![r] = k] /\ mr' = [mr EXCEPT ![Reviewer!Holds(r)].claims = C]
      BY <1>4
    <2>4. r \notin C
        /\ \A q \in Reviewers \ {r} : q \in C <=> q \in mr[Reviewer!Holds(r)].claims
      OBVIOUS
    <2> HIDE DEF k, C
    <2>5. /\ mr' \in [Mrs -> Forge] /\ mr'[Reviewer!Holds(r)].claims = C
          /\ \A n \in Mrs : n # Reviewer!Holds(r) => mr'[n].claims = mr[n].claims
          /\ \A n \in Mrs : mr'[n].threads = mr[n].threads
      BY <1>2, <2>2, <2>3, Labelled
    <2>6. \A m \in posted'[r] : mr'[m].threads /\ r \notin mr'[m].claims
      BY <1>1, <2>4, <2>5, PostedFacts DEF Reviewer!Holds
    <2>7. \A q \in Reviewers \ {r}, m \in Mrs : q \in mr'[m].claims <=> q \in mr[m].claims
      BY <2>4, <2>5
    <2>8. ForgeStep(r) /\ Placeable(r, k)
      BY <2>1, <2>5, <2>7 DEF ForgeStep, Placeable, Reviewer!Working
    <2>9. Standing(r, k)
      BY <2>1, <2>6 DEF Standing
    <2> QED BY <1>1, <1>2, <2>1, <2>3, <2>8, <2>9, PostedFacts, Outward
  <1>5. CASE Reviewer!Holds(r) # NoMr /\ Reviewer!Now(r, "idle") /\ UNCHANGED mr
    <2>1. PICK k \in Procs :
            /\ rev' = [rev EXCEPT ![r] = k]
            /\ k.pc = "idle" /\ k.lease = rev[r].lease /\ k.subject = rev[r].subject
      BY <1>2, <1>5, Moves
    <2> QED BY <1>1, <1>2, <1>5, <2>1, PostedFacts, Inward DEF Reviewer!Working, Reviewer!Holds
  <1> QED BY <1>3, <1>4, <1>5 DEF Reviewer!DropAndList

LEMMA ScreenStep ==
    ASSUME IInv, Reviewer!ConstantsOK, NEW r \in Reviewers, NEW m \in Mrs, Reviewer!Screen(r, m)
    PROVE  Good(r)
  <1>1. rev[r].pc = "pick" /\ UNCHANGED posted /\ (Reviewer!Fault \/ Reviewer!NoFault)
    BY DEF Reviewer!Screen, Reviewer!At
  <1>2. Reviewer!TypeOK /\ Counts' /\ rev[r].lease = NoMr
    BY <1>1, Counted DEF IInv, Sound, Placed
  <1>3. CASE rev' = [rev EXCEPT ![r].ours = @ \ {m}]
    <2> DEFINE k == [rev[r] EXCEPT !.ours = @ \ {m}]
    <2>1. k \in Procs /\ k.pc = "pick" /\ k.lease = NoMr
      BY <1>1, <1>2, Types DEF Procs
    <2>2. rev' = [rev EXCEPT ![r] = k]
      BY <1>3
    <2> HIDE DEF k
    <2>3. CASE UNCHANGED mr
      BY <1>1, <1>2, <2>1, <2>2, <2>3, PostedFacts, Inward DEF Reviewer!Working
    <2>4. CASE mr' = [mr EXCEPT ![m].claims = @ \ {r}]
      <3> DEFINE C == mr[m].claims \ {r}
      <3>1. C \subseteq Reviewers /\ mr' = [mr EXCEPT ![m].claims = C]
        BY <1>2, <2>4, Types DEF Forge
      <3>2. r \notin C /\ \A q \in Reviewers \ {r} : q \in C <=> q \in mr[m].claims
        OBVIOUS
      <3> HIDE DEF C
      <3>3. /\ mr' \in [Mrs -> Forge] /\ mr'[m].claims = C
            /\ \A n \in Mrs : n # m => mr'[n].claims = mr[n].claims
            /\ \A n \in Mrs : mr'[n].threads = mr[n].threads
        BY <1>2, <3>1, Labelled
      <3>4. \A n \in posted'[r] : mr'[n].threads /\ r \notin mr'[n].claims
        BY <1>1, <1>2, <3>2, <3>3, PostedFacts
      <3>5. \A q \in Reviewers \ {r}, n \in Mrs : q \in mr'[n].claims <=> q \in mr[n].claims
        BY <3>2, <3>3
      <3>6. ForgeStep(r) /\ Placeable(r, k)
        BY <2>1, <3>3, <3>5 DEF ForgeStep, Placeable, Reviewer!Working
      <3>7. Standing(r, k)
        BY <1>1, <2>1, <3>4, PostedFacts DEF Standing
      <3> QED BY <1>1, <1>2, <2>1, <2>2, <3>6, <3>7, PostedFacts, Outward
    <2> QED BY <1>3, <2>3, <2>4 DEF Reviewer!Screen
  <1>4. CASE /\ ~mr[m].threads /\ UNCHANGED mr
             /\ rev' = [rev EXCEPT ![r].pc = "acquire", ![r].subject = m,
                                   ![r].linked = mr[m].linked]
    <2> DEFINE k == [rev[r] EXCEPT !.pc = "acquire", !.subject = m, !.linked = mr[m].linked]
    <2>1. mr[m].linked \in BOOLEAN
      BY <1>2, Types DEF Forge
    <2>2. k \in Procs /\ k.pc = "acquire" /\ k.lease = NoMr /\ k.subject = m
      BY <1>1, <1>2, <2>1, Types, ZenonT(40) DEF Procs
    <2>3. rev' = [rev EXCEPT ![r] = k]
      BY <1>4
    <2> HIDE DEF k
    <2>4. m \notin posted[r] /\ m # NoMr
      BY <1>4, PostedFacts
    <2>5. ForgeStep(r) /\ Placeable(r, k)
      BY <1>2, <1>4, <2>2, <2>4, Types DEF ForgeStep, Placeable, Reviewer!Working
    <2>6. Standing(r, k)
      BY <1>1, <1>2, <1>4, <2>2, <2>4, PostedFacts DEF Standing
    <2> QED BY <1>1, <1>2, <2>2, <2>3, <2>5, <2>6, PostedFacts, Outward
  <1>5. CASE Reviewer!Pass(r, m) /\ UNCHANGED mr
    <2>1. PICK k \in Procs :
            /\ rev' = [rev EXCEPT ![r] = k]
            /\ k.pc \in {"idle", "pick"} /\ k.lease = rev[r].lease
      BY <1>2, <1>5, Passed
    <2> QED BY <1>1, <1>2, <1>5, <2>1, PostedFacts, Inward DEF Reviewer!Working
  <1> QED BY <1>3, <1>4, <1>5 DEF Reviewer!Screen

LEMMA AcquireStep ==
    ASSUME IInv, Reviewer!ConstantsOK, NEW r \in Reviewers, Reviewer!Acquire(r)
    PROVE  Good(r)
  <1> DEFINE m == rev[r].subject
  <1>1. rev[r].pc = "acquire" /\ UNCHANGED posted /\ (Reviewer!Fault \/ Reviewer!NoFault)
    BY DEF Reviewer!Acquire, Reviewer!At
  <1>2. Reviewer!TypeOK /\ Counts' /\ rev[r].lease = NoMr /\ m # NoMr
    BY <1>1, Counted DEF IInv, Sound, Placed
  <1>3. m \in Mrs /\ m \notin posted[r]
    BY <1>1, <1>2, PostedFacts
  <1>4. CASE /\ mr[m].claims \subseteq {r}
             /\ mr' = [mr EXCEPT ![m].claims = {r}]
             /\ rev' = [rev EXCEPT ![r] = [Reviewer!Idle EXCEPT !.pc = "review", !.lease = m,
                            !.origin = "won", !.subject = m, !.linked = rev[r].linked]]
    <2> DEFINE k == [Reviewer!Idle EXCEPT !.pc = "review", !.lease = m, !.origin = "won",
        !.subject = m,
                                 !.linked = rev[r].linked]
    <2>1. rev[r].linked \in BOOLEAN
      BY <1>2, Types DEF Procs
    <2>2. k \in Procs /\ k.pc = "review" /\ k.lease = m /\ k.subject = m
      BY <1>3, <2>1 DEF Reviewer!Idle, Procs, Reviewer!Working
    <2>3. rev' = [rev EXCEPT ![r] = k]
      BY <1>4
    <2> HIDE DEF k
    <2>4. /\ mr' \in [Mrs -> Forge] /\ mr'[m].claims = {r}
          /\ \A n \in Mrs : n # m => mr'[n].claims = mr[n].claims
          /\ \A n \in Mrs : mr'[n].threads = mr[n].threads
      <3>1. {r} \in SUBSET Reviewers
        OBVIOUS
      <3> QED BY <1>2, <1>3, <1>4, <3>1, Labelled
    <2> HIDE DEF m
    <2>5. \A n \in posted'[r] : mr'[n].threads /\ r \notin mr'[n].claims /\ n # m
      BY <1>1, <1>2, <1>3, <2>4, PostedFacts
    <2>6. \A q \in Reviewers \ {r}, n \in Mrs : q \in mr'[n].claims <=> q \in mr[n].claims
      BY <1>4, <2>4
    <2>7. ForgeStep(r) /\ Placeable(r, k)
      BY <1>2, <1>3, <2>2, <2>4, <2>6 DEF ForgeStep, Placeable, Reviewer!Working
    <2>8. Standing(r, k)
      BY <2>2, <2>5 DEF Standing
    <2>9. k.lease \in Mrs /\ mr[k.lease].claims \subseteq {r} /\ r \in mr'[k.lease].claims
      BY <1>3, <1>4, <2>2, <2>4
    <2> QED BY <1>1, <1>2, <2>2, <2>3, <2>7, <2>8, <2>9, PostedFacts, Outward
  <1>5. CASE Reviewer!Pass(r, m) /\ UNCHANGED mr
    <2>1. PICK k \in Procs :
            /\ rev' = [rev EXCEPT ![r] = k]
            /\ k.pc \in {"idle", "pick"} /\ k.lease = rev[r].lease
      BY <1>2, <1>3, <1>5, Passed
    <2> QED BY <1>1, <1>2, <1>5, <2>1, PostedFacts, Inward DEF Reviewer!Working
  <1>6. CASE Reviewer!Pass(r, m) /\ mr' = [mr EXCEPT ![m].claims = @ \cup {r}]
    <2>1. PICK k \in Procs :
            /\ rev' = [rev EXCEPT ![r] = k]
            /\ k.pc \in {"idle", "pick"} /\ k.lease = rev[r].lease
      BY <1>2, <1>3, <1>6, Passed
    <2> DEFINE C == mr[m].claims \cup {r}
    <2>2. C \subseteq Reviewers /\ mr' = [mr EXCEPT ![m].claims = C]
      BY <1>2, <1>3, <1>6, Types DEF Forge
    <2>3. \A q \in Reviewers \ {r} : q \in C <=> q \in mr[m].claims
      OBVIOUS
    <2> HIDE DEF C
    <2>4. /\ mr' \in [Mrs -> Forge] /\ mr'[m].claims = C
          /\ \A n \in Mrs : n # m => mr'[n].claims = mr[n].claims
          /\ \A n \in Mrs : mr'[n].threads = mr[n].threads
      BY <1>2, <1>3, <2>2, Labelled
    <2> HIDE DEF m
    <2>5. \A n \in posted'[r] : mr'[n].threads /\ r \notin mr'[n].claims
      BY <1>1, <1>2, <1>3, <2>4, PostedFacts
    <2>6. \A q \in Reviewers \ {r}, n \in Mrs : q \in mr'[n].claims <=> q \in mr[n].claims
      BY <2>3, <2>4
    <2>7. ForgeStep(r) /\ Placeable(r, k)
      BY <1>2, <2>1, <2>4, <2>6 DEF ForgeStep, Placeable, Reviewer!Working
    <2>8. Standing(r, k)
      BY <1>1, <1>2, <2>1, <2>5, PostedFacts DEF Standing
    <2> QED BY <1>1, <1>2, <2>1, <2>7, <2>8, PostedFacts, Outward
  <1> QED BY <1>4, <1>5, <1>6 DEF Reviewer!Acquire

LEMMA PostStep ==
    ASSUME IInv, Reviewer!ConstantsOK, NEW r \in Reviewers, Reviewer!Post(r)
    PROVE  Good(r)
  <1> DEFINE m == rev[r].subject
  <1>1. rev[r].pc \in Reviewer!Working /\ (Reviewer!Fault \/ Reviewer!NoFault)
      /\ Reviewer!Now(r, "release")
    BY DEF Reviewer!Post, Reviewer!At, Reviewer!Working
  <1>2. Reviewer!TypeOK /\ Counts'
    BY <1>1, Counted DEF IInv
  <1>3. m \in Mrs /\ m = rev[r].lease /\ r \in mr[m].claims
    BY <1>1, <1>2, PostedFacts DEF IInv, Sound, Placed
  <1>4. CASE UNCHANGED <<mr, posted>>
    BY <1>1, <1>2, <1>4, Onward, Types
  <1>5. CASE /\ mr' = [mr EXCEPT ![m].threads = TRUE]
             /\ posted' = [posted EXCEPT ![r] = @ \cup {m}]
    <2>1. PICK k \in Procs :
            /\ rev' = [rev EXCEPT ![r] = k]
            /\ k.pc = "release" /\ k.lease = rev[r].lease /\ k.subject = rev[r].subject
      BY <1>1, <1>2, Moves
    <2> DEFINE f == [mr[m] EXCEPT !.threads = TRUE]
    <2>2. f \in Forge /\ f.claims = mr[m].claims /\ f.threads
      <3>1. mr[m] \in Forge /\ TRUE \in BOOLEAN
        BY <1>2, <1>3, Types
      <3> QED BY <3>1, Flagged, Zenon
    <2>3. mr' = [mr EXCEPT ![m] = f]
      BY <1>5
    <2> HIDE DEF f, m
    <2>4. /\ mr' \in [Mrs -> Forge] /\ mr'[m].threads /\ mr'[m].claims = mr[m].claims
          /\ \A n \in Mrs \ {m} : mr'[n] = mr[n]
      BY <1>2, <1>3, <2>2, <2>3, Types
    <2>5. /\ posted' \in [Reviewers -> SUBSET Mrs] /\ posted'[r] = posted[r] \cup {m}
          /\ \A q \in Reviewers \ {r} : posted'[q] = posted[q]
      BY <1>3, <1>5, PostedFacts
    <2>6. ForgeStep(r) /\ Placeable(r, k)
      BY <1>3, <2>1, <2>4, PostedFacts DEF ForgeStep, Placeable, Reviewer!Working
    <2>7. \A n \in posted'[r] : mr'[n].threads /\ (r \in mr'[n].claims => rev[r].lease = n)
      BY <1>3, <2>4, <2>5, PostedFacts
    <2>8. Standing(r, k)
      BY <2>1, <2>7 DEF Standing
    <2>9. r \in mr'[k.lease].claims
      BY <1>3, <2>1, <2>4
    <2> QED BY <1>2, <2>1, <2>5, <2>6, <2>8, <2>9, Outward
  <1> QED BY <1>4, <1>5 DEF Reviewer!Post

LEMMA ReleaseStep ==
    ASSUME IInv, Reviewer!ConstantsOK, NEW r \in Reviewers, Reviewer!Release(r)
    PROVE  Good(r)
  <1>1. rev[r].pc = "release" /\ UNCHANGED posted /\ (Reviewer!Fault \/ Reviewer!NoFault)
    BY DEF Reviewer!Release, Reviewer!At
  <1>2. Reviewer!TypeOK /\ Counts'
    BY <1>1, Counted DEF IInv
  <1>3. rev[r].lease \in Mrs
    BY <1>1, PostedFacts DEF IInv, Sound, Placed
  <1>4. CASE /\ mr' = [mr EXCEPT ![Reviewer!Holds(r)].claims = @ \ {r}]
             /\ rev' = [rev EXCEPT ![r] = Reviewer!Idle]
    <2> DEFINE C == mr[Reviewer!Holds(r)].claims \ {r}
    <2>1. Reviewer!Idle \in Procs /\ Reviewer!Idle.pc = "idle" /\ Reviewer!Idle.lease = NoMr
      BY DEF Reviewer!Idle, Procs
    <2>2. Reviewer!Holds(r) \in Mrs /\ C \subseteq Reviewers
        /\ mr' = [mr EXCEPT ![Reviewer!Holds(r)].claims = C]
      BY <1>2, <1>3, <1>4, Types DEF Reviewer!Holds, Forge
    <2>3. r \notin C
        /\ \A q \in Reviewers \ {r} : q \in C <=> q \in mr[Reviewer!Holds(r)].claims
      OBVIOUS
    <2> HIDE DEF C
    <2>4. /\ mr' \in [Mrs -> Forge] /\ mr'[Reviewer!Holds(r)].claims = C
          /\ \A n \in Mrs : n # Reviewer!Holds(r) => mr'[n].claims = mr[n].claims
          /\ \A n \in Mrs : mr'[n].threads = mr[n].threads
      BY <1>2, <2>2, Labelled
    <2>5. \A m \in posted'[r] : mr'[m].threads /\ r \notin mr'[m].claims
      BY <1>1, <2>3, <2>4, PostedFacts DEF Reviewer!Holds
    <2>6. \A q \in Reviewers \ {r}, m \in Mrs : q \in mr'[m].claims <=> q \in mr[m].claims
      BY <2>3, <2>4
    <2>7. ForgeStep(r) /\ Placeable(r, Reviewer!Idle)
      BY <2>1, <2>4, <2>6 DEF ForgeStep, Placeable, Reviewer!Working
    <2>8. Standing(r, Reviewer!Idle)
      BY <2>1, <2>5 DEF Standing
    <2> QED BY <1>1, <1>2, <1>4, <2>1, <2>7, <2>8, PostedFacts, Outward
  <1>5. CASE rev' = [rev EXCEPT ![r] = Reviewer!Unreleased(r)] /\ UNCHANGED mr
    <2> DEFINE k == Reviewer!Unreleased(r)
    <2>1. k \in Procs /\ k.pc = "idle" /\ k.lease = rev[r].lease
      BY <1>2, Types DEF Reviewer!Unreleased, Reviewer!Holds, Reviewer!Idle, Procs
    <2>2. rev' = [rev EXCEPT ![r] = k]
      BY <1>5
    <2> HIDE DEF k
    <2>3. ForgeStep(r) /\ Placeable(r, k)
      BY <1>2, <1>5, <2>1, Types DEF ForgeStep, Placeable, Reviewer!Working
    <2>4. Standing(r, k)
      BY <1>1, <1>5, <2>1, PostedFacts DEF Standing
    <2> QED BY <1>1, <1>2, <1>5, <2>1, <2>2, <2>3, <2>4, PostedFacts, Outward
  <1> QED BY <1>4, <1>5 DEF Reviewer!Release

LEMMA KillStep ==
    ASSUME IInv, Reviewer!ConstantsOK, NEW r \in Reviewers, Reviewer!Kill(r)
    PROVE  Good(r)
  <1> DEFINE m == rev[r].subject
             k == [Reviewer!Idle EXCEPT !.pc = "off"]
  <1>1. k \in Procs /\ k.pc = "off" /\ k.lease = NoMr
    BY DEF Reviewer!Idle, Procs
  <1>2. rev' = [rev EXCEPT ![r] = k] /\ posted' = [posted EXCEPT ![r] = {}]
    BY DEF Reviewer!Kill
  <1>3. Reviewer!TypeOK /\ posted' \in [Reviewers -> SUBSET Mrs] /\ posted'[r] = {}
        /\ \A q \in Reviewers \ {r} : posted'[q] = posted[q]
    BY <1>2, PostedFacts DEF IInv
  <1>4. Counts'
    BY <1>3, Types DEF Reviewer!Kill, Counts, Reviewer!ConstantsOK
  <1> HIDE DEF k
  <1>5. Placeable(r, k) /\ Standing(r, k)
    BY <1>1, <1>3 DEF Placeable, Standing, Reviewer!Working
  <1>6. ForgeStep(r)
    <2>1. CASE UNCHANGED mr
      BY <1>3, <2>1, Types DEF ForgeStep
    <2>2. CASE rev[r].pc = "acquire" /\ mr' = [mr EXCEPT ![m].claims = @ \cup {r}]
      <3>1. m \in Mrs
        BY <2>2, PostedFacts DEF IInv, Sound, Placed
      <3> DEFINE C == mr[m].claims \cup {r}
      <3>2. C \subseteq Reviewers /\ mr' = [mr EXCEPT ![m].claims = C]
        BY <1>3, <2>2, <3>1, Types DEF Forge
      <3>3. \A q \in Reviewers \ {r} : q \in C <=> q \in mr[m].claims
        OBVIOUS
      <3> HIDE DEF C
      <3>4. /\ mr' \in [Mrs -> Forge] /\ mr'[m].claims = C
            /\ \A n \in Mrs : n # m => mr'[n].claims = mr[n].claims
            /\ \A n \in Mrs : mr'[n].threads = mr[n].threads
        BY <1>3, <3>1, <3>2, Labelled
      <3> HIDE DEF m
      <3> QED BY <3>3, <3>4 DEF ForgeStep
    <2> QED BY <2>1, <2>2 DEF Reviewer!Kill, Reviewer!At
  <1> QED BY <1>1, <1>2, <1>3, <1>4, <1>5, <1>6, Outward

(* Humans touch no claim; a discussion they resolve is no reviewer's any   *)
(* more.                                                                   *)
LEMMA MoveStep == ASSUME IInv, Reviewer!ConstantsOK, NEW m \in Mrs, Reviewer!Move(m) PROVE IInv'
  <1>1. Reviewer!TypeOK /\ UNCHANGED rev
    BY DEF IInv, Reviewer!Move
  <1>2. Counts'
    BY <1>1, Types DEF Reviewer!Move, Counts, Reviewer!ConstantsOK
  <1>3. /\ mr' \in [Mrs -> Forge] /\ posted' \in [Reviewers -> SUBSET Mrs]
        /\ \A n \in Mrs : mr'[n].claims = mr[n].claims
        /\ \A r \in Reviewers : posted'[r] \subseteq posted[r]
        /\ \A r \in Reviewers, n \in Mrs : n \in posted'[r] /\ mr[n].threads => mr'[n].threads
    <2>0. mr \in [Mrs -> Forge] /\ posted \in [Reviewers -> SUBSET Mrs] /\ mr[m] \in Forge
          /\ TRUE \in BOOLEAN /\ FALSE \in BOOLEAN
      BY <1>1, Types
    <2>1. CASE mr' = [mr EXCEPT ![m].threads = TRUE] /\ UNCHANGED posted
      <3> DEFINE f == [mr[m] EXCEPT !.threads = TRUE]
      <3>1. f \in Forge /\ f.claims = mr[m].claims /\ f.threads
        BY <2>0, Flagged, Zenon
      <3>2. mr' = [mr EXCEPT ![m] = f]
        BY <2>1
      <3> HIDE DEF f
      <3> QED BY <2>0, <2>1, <3>1, <3>2
    <2>2. CASE /\ mr' = [mr EXCEPT ![m].threads = FALSE]
               /\ posted' = [r \in Reviewers |-> posted[r] \ {m}]
      <3> DEFINE f == [mr[m] EXCEPT !.threads = FALSE]
      <3>1. f \in Forge /\ f.claims = mr[m].claims
        BY <2>0, Flagged, Zenon
      <3>2. mr' = [mr EXCEPT ![m] = f]
        BY <2>2
      <3> HIDE DEF f
      <3> QED BY <2>0, <2>2, <3>1, <3>2
    <2>3. CASE mr' = [mr EXCEPT ![m].labels = @ \cup {"not-for-ai"}] /\ UNCHANGED posted
      <3> DEFINE f == [mr[m] EXCEPT !.labels = @ \cup {"not-for-ai"}]
      <3>1. f \in Forge /\ f.claims = mr[m].claims /\ f.threads = mr[m].threads
        BY <2>0 DEF Forge
      <3>2. mr' = [mr EXCEPT ![m] = f]
        BY <2>3
      <3> HIDE DEF f
      <3> QED BY <2>0, <2>3, <3>1, <3>2
    <2>4. CASE mr' = [mr EXCEPT ![m].state = "closed"] /\ UNCHANGED posted
      <3> DEFINE f == [mr[m] EXCEPT !.state = "closed"]
      <3>1. f \in Forge /\ f.claims = mr[m].claims /\ f.threads = mr[m].threads
        BY <2>0 DEF Forge
      <3>2. mr' = [mr EXCEPT ![m] = f]
        BY <2>4
      <3> HIDE DEF f
      <3> QED BY <2>0, <2>4, <3>1, <3>2
    <2> QED BY <2>1, <2>2, <2>3, <2>4 DEF Reviewer!Move
  <1>4. Reviewer!TypeOK'
    BY <1>1, <1>2, <1>3, Types, TypesAfter
  <1>5. ASSUME NEW r \in Reviewers PROVE Sound(r)'
    <2>1. Sound(r) /\ rev[r].lease \in Mrs \cup {NoMr} /\ posted[r] \subseteq Mrs
      BY <1>1, Types DEF IInv, Procs
    <2>2. LeaseIsLabelled(r)'
      BY <1>1, <1>3, <2>1 DEF Sound, LeaseIsLabelled
    <2>3. Placed(r)'
      BY <1>1, <1>3, <2>1 DEF Sound, Placed
    <2>4. Answered(r)'
      BY <1>1, <1>3, <2>1 DEF Sound, Answered
    <2> QED BY <2>2, <2>3, <2>4 DEF Sound
  <1>6. LeasesDiffer'
    BY <1>1 DEF IInv, LeasesDiffer
  <1> QED BY <1>4, <1>5, <1>6 DEF IInv
-----------------------------------------------------------------------------
LEMMA InitIInv == Reviewer!ConstantsOK /\ Reviewer!Init => IInv
  <1> SUFFICES ASSUME Reviewer!ConstantsOK, Reviewer!Init PROVE IInv
    OBVIOUS
  <1>1. Reviewer!Idle \in Procs /\ Reviewer!Idle.pc = "idle" /\ Reviewer!Idle.lease = NoMr
    BY DEF Reviewer!Idle, Procs
  <1>2. rev \in [Reviewers -> Procs] /\ \A r \in Reviewers : rev[r] = Reviewer!Idle
    BY <1>1 DEF Reviewer!Init
  <1>3. posted \in [Reviewers -> SUBSET Mrs] /\ \A r \in Reviewers : posted[r] = {}
    BY DEF Reviewer!Init
  <1> DEFINE g == [state |-> "opened", claims |-> {}, labels |-> {}, threads |-> FALSE,
                   linked |-> FALSE, issues |-> 0]
  <1>4. g \in Forge
    BY DEF Forge
  <1>5. mr = [m \in Mrs |-> g]
    BY DEF Reviewer!Init
  <1> HIDE DEF g
  <1>6. mr \in [Mrs -> Forge]
    BY <1>4, <1>5
  <1>7. Counts
    BY DEF Reviewer!Init, Counts, Reviewer!ConstantsOK
  <1>8. Reviewer!TypeOK
    BY <1>2, <1>3, <1>6, <1>7, Types
  <1>9. \A r \in Reviewers : Sound(r)
    BY <1>1, <1>2, <1>3 DEF Sound, LeaseIsLabelled, Placed, Answered, Reviewer!Working
  <1>10. LeasesDiffer
    BY <1>1, <1>2 DEF LeasesDiffer
  <1> QED BY <1>8, <1>9, <1>10 DEF IInv

LEMMA NextIInv == Reviewer!ConstantsOK /\ IInv /\ [Reviewer!Next]_reviewerVars => IInv'
  <1> SUFFICES ASSUME Reviewer!ConstantsOK, IInv, [Reviewer!Next]_reviewerVars PROVE IInv'
    OBVIOUS
  <1>1. ASSUME NEW r \in Reviewers, Reviewer!Step(r) \/ Reviewer!Kill(r) PROVE IInv'
    <2>1. Good(r)
      BY <1>1, StartStep, RecoverStep, ResumeStep, DropStep, ScreenStep, AcquireStep,
          ReviewStep,
         LinkStep, ModelStep, PostStep, ApproveStep, MergeStep, LabelStep, ReleaseStep, KillStep
         DEF Reviewer!Step
    <2>2. \A q \in Reviewers : Sound(q)'
      BY <2>1, Kept DEF Good
    <2>3. LeasesDiffer'
      BY <2>1, Differ DEF Good
    <2> QED BY <2>1, <2>2, <2>3 DEF IInv, Good
  <1>2. ASSUME NEW m \in Mrs, Reviewer!Move(m) PROVE IInv'
    BY <1>2, MoveStep
  <1>3. ASSUME NEW r \in Reviewers, Reviewer!GivesUp(r) PROVE IInv'
    <2>1. /\ UNCHANGED <<mr, rev, posted, rfaults, rkills, rmoves>>
          /\ givenUp' = givenUp \cup {r}
      BY <1>3 DEF Reviewer!GivesUp
    <2>2. Reviewer!TypeOK'
      <3>1. Counts'
        BY <2>1, Types DEF IInv, Counts
      <3> QED BY <2>1, <3>1, Types, TypesAfter DEF IInv
    <2> QED BY <2>1, <2>2 DEF IInv, Sound, LeaseIsLabelled, Placed, Answered, LeasesDiffer
  <1>4. CASE UNCHANGED reviewerVars
    BY <1>4 DEF reviewerVars, IInv, Reviewer!TypeOK, Sound, LeaseIsLabelled, Placed, Answered,
       LeasesDiffer
  <1> QED BY <1>1, <1>2, <1>3, <1>4 DEF Reviewer!Next

(* Two reviewers never work on one merge request, and none reviews again   *)
(* what its own unresolved discussion is about (claim recovery and the     *)
(* screening of candidates in reviewer.rs).                                *)
THEOREM ReviewsAreExclusive == Spec => []OneReviewAtATime
  <1>1. IInv => Reviewer!OneReviewer
    BY Types DEF IInv, Reviewer!OneReviewer, LeasesDiffer, Sound, Placed, Reviewer!Working,
       Procs
  <1>2. IInv => Reviewer!NoSecondOpinion
    <2> SUFFICES ASSUME IInv, NEW r \in Reviewers, rev[r].pc = "model",
                        rev[r].subject \in posted[r]
                 PROVE  FALSE
      BY DEF Reviewer!NoSecondOpinion
    <2> QED BY DEF IInv, Sound, Placed, Answered, Reviewer!Working
  <1>3. IInv => OneReviewAtATime
    BY <1>1, <1>2 DEF IInv, Reviewer!OneReviewAtATime, OneReviewAtATime
  <1>4. Init => IInv
    BY ConstantsOK, InitIInv DEF Init
  <1>5. IInv /\ [Next]_vars => IInv'
    BY ConstantsOK, StepsApart, NextIInv
  <1> QED BY <1>3, <1>4, <1>5, PTL DEF Spec
=============================================================================
