---------------------------- MODULE ClaimProofs ----------------------------
(***************************************************************************)
(* Proofs about Claim, for any set of agents, any number of settle rounds  *)
(* and any propagation delay the rounds outlast (Timely).                  *)
(***************************************************************************)
EXTENDS Claim, TLAPS

(* Claims that are settling have waited out part of the propagation delay. *)
Contending == {a \in Agents : pc[a] \in {"settling", "ordering"}}

(* Add events are numbered in the order they happen.                       *)
DistinctIds ==
    /\ \A a \in Agents : since[a] <= nextId
    /\ \A a, b \in Labelled : since[a] = since[b] => a = b

(* What was added earlier becomes visible no later.                        *)
EarlierIsVisible ==
    \A a, b \in Labelled : since[b] < since[a] => lag[b] <= lag[a]

(* The rest of the settle rounds outlasts what is left of the delay.       *)
SettleOutlastsLag ==
    \A a \in Contending :
        /\ round[a] \in 1..Rounds
        /\ lag[a] <= timer[a] + (Rounds - round[a]) * SettleTicks

(* So does the pause of an agent that is between attempts.                 *)
PauseOutlastsLag ==
    \A a \in Agents : pc[a] \in {"idle", "down"} => lag[a] <= timer[a]

(* The last read of a contender shows every label that came before it.     *)
LastReadIsComplete ==
    \A a \in Agents : (pc[a] = "ordering" /\ round[a] = Rounds) =>
        /\ a \in Labelled
        /\ \A b \in Labelled : since[b] < since[a] => b \in seen[a]

OrderingIsAwake == \A a \in Agents : pc[a] = "ordering" => timer[a] = 0

IInv ==
    /\ TypeOK
    /\ DistinctIds
    /\ EarlierIsVisible
    /\ SettleOutlastsLag
    /\ PauseOutlastsLag
    /\ OrderingIsAwake
    /\ LastReadIsComplete
    /\ OwnerIsEarliest
    /\ HolderIsOwner

-----------------------------------------------------------------------------
(* The type invariant of the claim protocol.                               *)

LEMMA InitTypeOK == Init => TypeOK
BY ConstantsOK DEF Init, TypeOK, PCs, Outcomes

LEMMA RoundTypeOK ==
    ASSUME TypeOK, NEW a \in Agents,
           \/ NextRound(a)
           \/ Win(a)
           \/ \E o \in {"Lost", "Err"} : BackOff(a, o),
           seen' \in [Agents -> SUBSET Agents],
           UNCHANGED <<since, lag, nextId, shutdown>>
    PROVE  TypeOK'
<1> USE ConstantsOK DEF TypeOK, PCs, Outcomes, Goto
<1>1. CASE NextRound(a)
    <2>1. round[a] + 1 \in 0..Rounds
        BY <1>1 DEF NextRound
    <2> QED BY <1>1, <2>1 DEF NextRound, BeginSettle
<1>2. CASE Win(a)
    BY <1>2 DEF Win
<1>3. ASSUME NEW o \in {"Lost", "Err"}, BackOff(a, o) PROVE TypeOK'
    BY <1>3 DEF BackOff, Abandon
<1> QED BY <1>1, <1>2, <1>3

LEMMA NextTypeOK == TypeOK /\ [Next]_vars => TypeOK'
<1> SUFFICES ASSUME TypeOK, [Next]_vars PROVE TypeOK'
    OBVIOUS
<1> USE ConstantsOK DEF TypeOK, PCs, Outcomes, Goto
<1>1. ASSUME NEW a \in Agents, AddLabel(a) PROVE TypeOK'
    BY <1>1 DEF AddLabel, BeginSettle, Label, forge
<1>2. ASSUME NEW a \in Agents, VerifyAdd(a) PROVE TypeOK'
    BY <1>2 DEF VerifyAdd, BeginSettle, Finish
<1>3. ASSUME NEW a \in Agents, SettleRead(a) PROVE TypeOK'
    <2>1. ASSUME NEW S \in Views, Goto(a, "ordering"), seen' = [seen EXCEPT ![a] = S],
                 UNCHANGED <<round, timer, want, result, owned>>
          PROVE  TypeOK'
        BY <1>3, <2>1 DEF SettleRead, Views
    <2>2. CASE UNCHANGED seen
        BY <1>3, <2>2, RoundTypeOK DEF SettleRead
    <2> QED BY <1>3, <2>1, <2>2 DEF SettleRead
<1>4. ASSUME NEW a \in Agents, SettleInterrupted(a) PROVE TypeOK'
    BY <1>4 DEF SettleInterrupted, Abandon
<1>5. ASSUME NEW a \in Agents, Order(a) PROVE TypeOK'
    <2>1. seen' \in [Agents -> SUBSET Agents] /\ UNCHANGED <<since, lag, nextId, shutdown>>
        BY <1>5 DEF Order
    <2> QED BY <1>5, <2>1, RoundTypeOK DEF Order
<1>6. ASSUME NEW a \in Agents, RemoveLabel(a) PROVE TypeOK'
    <2>1. lag' \in [Agents -> 0..MaxLag] /\ since' \in [Agents -> Nat] /\ nextId' \in Nat
        BY <1>6 DEF RemoveLabel, Unlabel, forge
    <2>2. owned' \in [Agents -> BOOLEAN]
        BY <1>6 DEF RemoveLabel, Unlabel
    <2> QED BY <1>6, <2>1, <2>2 DEF RemoveLabel, Removed, Finish
<1>7. ASSUME NEW a \in Agents, VerifyRemove(a) PROVE TypeOK'
    BY <1>7 DEF VerifyRemove, Removed, NotRemoved, Finish
<1>8. ASSUME NEW a \in Agents, Use(a) PROVE TypeOK'
    <2>1. CASE Precheck(a) BY <2>1 DEF Precheck, Finish
    <2>2. CASE Release(a) BY <2>2 DEF Release, Abandon
    <2>3. CASE Preserve(a) BY <2>3 DEF Preserve, Finish
    <2>4. CASE Recover(a) BY <2>4 DEF Recover
    <2> QED BY <1>8, <2>1, <2>2, <2>3, <2>4 DEF Use
<1>9. ASSUME NEW a \in Agents, Shutdown(a) PROVE TypeOK'
    BY <1>9 DEF Shutdown
<1>10. ASSUME NEW a \in Agents, Crash(a) PROVE TypeOK'
    BY <1>10 DEF Crash
<1>11. ASSUME NEW a \in Agents, Restart(a) PROVE TypeOK'
    BY <1>11 DEF Restart
<1>12. CASE Tick
    BY <1>12 DEF Tick, Countdown
<1>13. CASE UNCHANGED vars
    BY <1>13 DEF vars
<1> QED
    BY <1>1, <1>2, <1>3, <1>4, <1>5, <1>6, <1>7, <1>8, <1>9, <1>10, <1>11,
       <1>12, <1>13 DEF Next, Attempt

(* Every reachable state of the protocol is well typed.                    *)
THEOREM TypeCorrect == Spec => []TypeOK
BY InitTypeOK, NextTypeOK, PTL DEF Spec

-----------------------------------------------------------------------------
(* What a step does to the forge, and that agents leave each other alone.  *)

Step(a) == Attempt(a) \/ Use(a) \/ Shutdown(a) \/ Crash(a) \/ Restart(a)

AddStep(a) == pc[a] = "checked" /\ Label(a) /\ UNCHANGED owned
RemoveStep(a) == pc[a] = "removing" /\ Unlabel(a)

LEMMA ForgeStep ==
    ASSUME TypeOK, NEW a \in Agents, Step(a)
    PROVE  AddStep(a) \/ RemoveStep(a) \/ UNCHANGED forge
<1> USE DEF forge
<1>1. CASE AddLabel(a)
    BY <1>1 DEF AddLabel, AddStep
<1>2. CASE RemoveLabel(a)
    BY <1>2 DEF RemoveLabel, RemoveStep
<1>3. CASE VerifyAdd(a) \/ SettleRead(a) \/ SettleInterrupted(a) \/ Order(a) \/ VerifyRemove(a)
    BY <1>3 DEF VerifyAdd, SettleRead, SettleInterrupted, Order, VerifyRemove
<1>4. CASE Use(a) \/ Shutdown(a) \/ Crash(a) \/ Restart(a)
    BY <1>4 DEF Use, Precheck, Release, Preserve, Recover, Shutdown, Crash, Restart
<1> QED BY <1>1, <1>2, <1>3, <1>4 DEF Step, Attempt

OthersKeep(a) ==
    \A b \in Agents \ {a} :
        /\ pc'[b] = pc[b] /\ round'[b] = round[b]
        /\ timer'[b] = timer[b] /\ seen'[b] = seen[b]

LEMMA StepIsLocal ==
    ASSUME TypeOK, NEW a \in Agents, Step(a)
    PROVE  OthersKeep(a)
<1> USE DEF OthersKeep, Goto, Abandon, Finish, TypeOK
<1>1. CASE AddLabel(a) BY <1>1 DEF AddLabel, BeginSettle
<1>2. CASE VerifyAdd(a) BY <1>2 DEF VerifyAdd, BeginSettle
<1>3. CASE SettleRead(a)
    BY <1>3 DEF SettleRead, NextRound, Win, BackOff, BeginSettle
<1>4. CASE SettleInterrupted(a) BY <1>4 DEF SettleInterrupted
<1>5. CASE Order(a)
    BY <1>5 DEF Order, NextRound, Win, BackOff, BeginSettle
<1>6. CASE RemoveLabel(a) BY <1>6 DEF RemoveLabel, Removed
<1>7. CASE VerifyRemove(a) BY <1>7 DEF VerifyRemove, Removed, NotRemoved
<1>8. CASE Precheck(a) BY <1>8 DEF Precheck
<1>9. CASE Release(a) BY <1>9 DEF Release
<1>10. CASE Preserve(a) BY <1>10 DEF Preserve
<1>11. CASE Recover(a) BY <1>11 DEF Recover
<1>12. CASE Shutdown(a) BY <1>12 DEF Shutdown
<1>13. CASE Crash(a) BY <1>13 DEF Crash
<1>14. CASE Restart(a) BY <1>14 DEF Restart
<1> QED
    BY <1>1, <1>2, <1>3, <1>4, <1>5, <1>6, <1>7, <1>8, <1>9, <1>10, <1>11,
       <1>12, <1>13, <1>14 DEF Step, Attempt, Use

(* A read that a lag no longer blurs shows the label that is there, and a  *)
(* removal takes it away: an attempt that gives up leaves none behind.     *)
LEMMA CleanStep ==
    ASSUME TypeOK, NEW a \in Agents, Step(a),
           \/ pc[a] = "removing"
           \/ pc[a] = "removeFailed" /\ lag[a] = 0,
           pc'[a] = "idle", result'[a] \in {"Lost", "Interrupted"}
    PROVE  since'[a] = 0
<1> USE DEF TypeOK
<1>1. ~(Use(a) \/ Shutdown(a) \/ Crash(a) \/ Restart(a))
    BY DEF Use, Precheck, Release, Preserve, Recover, Shutdown, Crash, Restart, Goto
<1>2. ~(AddLabel(a) \/ VerifyAdd(a) \/ SettleRead(a) \/ SettleInterrupted(a) \/ Order(a))
    BY DEF AddLabel, VerifyAdd, SettleRead, SettleInterrupted, Order
<1>3. CASE RemoveLabel(a)
    BY <1>3 DEF RemoveLabel, Unlabel, Goto
<1>4. CASE VerifyRemove(a)
    <2>1. ~NotRemoved(a)
        BY DEF NotRemoved, Finish, Goto
    <2>2. lag[a] = 0
        BY <1>4 DEF VerifyRemove
    <2>3. PICK S \in Views : a \notin S
        BY <1>4, <2>1 DEF VerifyRemove
    <2> QED BY <1>4, <2>2, <2>3 DEF VerifyRemove, Views, Labelled
<1> QED BY <1>1, <1>2, <1>3, <1>4 DEF Step, Attempt

(* An attempt that reports Lost or Interrupted after it added its label has *)
(* removed it, whatever the removal reported (remove_claim_label).         *)
THEOREM LossesAreClean == Spec => CleanLoss
<1>1. ASSUME TypeOK, [Next]_vars, NEW a \in Agents,
             \/ pc[a] = "removing"
             \/ pc[a] = "removeFailed" /\ lag[a] = 0,
             pc'[a] = "idle", result'[a] \in {"Lost", "Interrupted"}
      PROVE  since'[a] = 0
    <2>1. pc'[a] # pc[a]
        BY <1>1
    <2>2. PICK b \in Agents : Step(b)
        BY <1>1, <2>1 DEF Next, Step, Tick, vars
    <2>3. a = b
        BY <1>1, <2>1, <2>2, StepIsLocal DEF OthersKeep
    <2> QED BY <1>1, <2>2, <2>3, CleanStep
<1>2. TypeOK /\ [Next]_vars =>
        [\A a \in Agents :
            (/\ pc[a] = "removing" \/ (pc[a] = "removeFailed" /\ lag[a] = 0)
             /\ pc'[a] = "idle" /\ result'[a] \in {"Lost", "Interrupted"})
            => since'[a] = 0]_vars
    BY <1>1
<1> QED BY <1>2, TypeCorrect, PTL DEF Spec, CleanLoss

-----------------------------------------------------------------------------
(* The two facts about the forge alone.                                    *)

LEMMA ForgeInvariant ==
    ASSUME TypeOK, TypeOK', DistinctIds, EarlierIsVisible, [Next]_vars
    PROVE  DistinctIds' /\ EarlierIsVisible'
<1> USE ConstantsOK DEF TypeOK, DistinctIds, EarlierIsVisible, Labelled
<1>1. ASSUME NEW a \in Agents, AddStep(a) PROVE DistinctIds' /\ EarlierIsVisible'
    <2>1. CASE a \in Labelled
        BY <1>1, <2>1 DEF AddStep, Label, forge
    <2>2. CASE a \notin Labelled
        <3>1. /\ nextId' = nextId + 1
              /\ since' = [since EXCEPT ![a] = nextId + 1]
              /\ lag' = [lag EXCEPT ![a] = MaxLag]
            BY <1>1, <2>2 DEF AddStep, Label
        <3>2. \A b \in Agents : since[b] < nextId + 1
            OBVIOUS
        <3>3. \A b \in Agents : lag[b] <= MaxLag
            OBVIOUS
        <3>4. DistinctIds'
            BY <3>1, <3>2
        <3>5. EarlierIsVisible'
            BY <3>1, <3>2, <3>3
        <3> QED BY <3>4, <3>5
    <2> QED BY <2>1, <2>2
<1>2. ASSUME NEW a \in Agents, RemoveStep(a) PROVE DistinctIds' /\ EarlierIsVisible'
    <2>1. /\ since' = [since EXCEPT ![a] = 0]
          /\ \A b \in Agents \ {a} : lag'[b] = lag[b]
          /\ nextId' = nextId
        BY <1>2 DEF RemoveStep, Unlabel
    <2> QED BY <2>1
<1>3. CASE UNCHANGED forge
    BY <1>3 DEF forge
<1>4. CASE Tick
    <2>1. since' = since /\ nextId' = nextId
        BY <1>4 DEF Tick
    <2>2. \A b \in Agents : lag'[b] = IF lag[b] > 0 THEN lag[b] - 1 ELSE 0
        BY <1>4 DEF Tick, Countdown
    <2>3. \A b \in Agents : lag[b] \in Nat
        OBVIOUS
    <2> QED BY <2>1, <2>2, <2>3
<1> QED
    BY <1>1, <1>2, <1>3, <1>4, ForgeStep DEF Next, Step, vars, forge

-----------------------------------------------------------------------------
(* How long a label may stay invisible, against the sleeps of its agent.   *)

LEMMA RoundsLeft ==
    /\ Rounds * SettleTicks = SettleTicks + (Rounds - 1) * SettleTicks
    /\ \A r \in 1..Rounds :
          (Rounds - r) * SettleTicks = SettleTicks + (Rounds - (r + 1)) * SettleTicks
    /\ (Rounds - Rounds) * SettleTicks = 0
    /\ \A r \in 1..Rounds : (Rounds - r) * SettleTicks \in Nat
BY ConstantsOK

LEMMA OrderingInvariant ==
    ASSUME TypeOK, OrderingIsAwake, [Next]_vars
    PROVE  OrderingIsAwake'
<1> USE DEF TypeOK, OrderingIsAwake
<1>1. ASSUME NEW a \in Agents, Step(a) PROVE OrderingIsAwake'
    <2>1. ASSUME pc'[a] = "ordering" PROVE timer'[a] = 0
        <3> USE <2>1 DEF Goto, Abandon, Finish, BeginSettle
        <3>1. CASE SettleRead(a)
            BY <3>1 DEF SettleRead, NextRound, Win, BackOff
        <3>2. CASE Attempt(a) /\ ~SettleRead(a)
            BY <3>2 DEF Attempt, AddLabel, VerifyAdd, SettleInterrupted, Order, NextRound,
               Win, BackOff, RemoveLabel, VerifyRemove, Removed, NotRemoved
        <3>3. CASE Use(a) \/ Shutdown(a) \/ Crash(a) \/ Restart(a)
            BY <3>3 DEF Use, Precheck, Release, Preserve, Recover, Shutdown, Crash, Restart
        <3> QED BY <1>1, <3>1, <3>2, <3>3 DEF Step
    <2> QED BY <1>1, <2>1, StepIsLocal DEF OthersKeep
<1>2. CASE Tick BY <1>2 DEF Tick, Countdown
<1>3. CASE UNCHANGED vars BY <1>3 DEF vars
<1> QED BY <1>1, <1>2, <1>3 DEF Next, Step

(* A contender starts with all rounds ahead, and each round waits its part. *)
LEMMA SettleInvariant ==
    ASSUME Timely, TypeOK, TypeOK', SettleOutlastsLag, OrderingIsAwake, [Next]_vars
    PROVE  SettleOutlastsLag'
<1> DEFINE P(a) == /\ round[a] \in 1..Rounds
                   /\ lag[a] <= timer[a] + (Rounds - round[a]) * SettleTicks
<1> USE ConstantsOK DEF TypeOK
<1>1. ASSUME NEW a \in Agents, Step(a), NEW b \in Contending', b # a PROVE P(b)'
    <2>1. pc'[b] = pc[b] /\ round'[b] = round[b] /\ timer'[b] = timer[b]
        BY <1>1, StepIsLocal DEF OthersKeep, Contending
    <2>2. lag'[b] = lag[b]
        BY <1>1, ForgeStep DEF AddStep, RemoveStep, Label, Unlabel, forge, Contending
    <2> QED BY <1>1, <2>1, <2>2 DEF SettleOutlastsLag, Contending
<1>2. ASSUME NEW a \in Agents, Step(a), a \in Contending' PROVE P(a)'
    <2>1. CASE BeginSettle(a, 1)
        <3>1. round'[a] = 1 /\ timer'[a] = SettleTicks
            BY <2>1 DEF BeginSettle
        <3>2. lag'[a] <= Rounds * SettleTicks
            BY RoundsLeft DEF Timely
        <3> QED BY <3>1, <3>2, RoundsLeft
    <2>2. CASE a \in Contending /\ NextRound(a) /\ timer[a] = 0 /\ UNCHANGED lag
        <3>1. /\ round'[a] = round[a] + 1 /\ timer'[a] = SettleTicks
              /\ round[a] < Rounds /\ lag'[a] = lag[a]
            BY <2>2 DEF NextRound, BeginSettle
        <3>2. /\ round[a] \in 1..Rounds
              /\ lag[a] <= (Rounds - round[a]) * SettleTicks
            BY <2>2, RoundsLeft DEF SettleOutlastsLag
        <3> QED BY <3>1, <3>2, RoundsLeft
    <2>3. CASE a \in Contending /\ UNCHANGED <<lag, round, timer>>
        BY <2>3 DEF SettleOutlastsLag
    <2>4. CASE pc'[a] \notin {"settling", "ordering"}
        BY <1>2, <2>4 DEF Contending
    <2>5. \/ BeginSettle(a, 1)
          \/ a \in Contending /\ NextRound(a) /\ timer[a] = 0 /\ UNCHANGED lag
          \/ a \in Contending /\ UNCHANGED <<lag, round, timer>>
          \/ pc'[a] \notin {"settling", "ordering"}
        <3> USE DEF Goto, Abandon, Finish
        <3>1. CASE SettleRead(a)
            BY <3>1 DEF SettleRead, Win, BackOff, Contending
        <3>2. CASE Order(a)
            BY <3>2 DEF Order, Win, BackOff, Contending, OrderingIsAwake
        <3>3. CASE Attempt(a) /\ ~SettleRead(a) /\ ~Order(a)
            BY <3>3 DEF Attempt, AddLabel, VerifyAdd, SettleInterrupted,
               RemoveLabel, VerifyRemove, Removed, NotRemoved
        <3>4. CASE Use(a) \/ Crash(a) \/ Restart(a)
            BY <3>4 DEF Use, Precheck, Release, Preserve, Recover, Crash, Restart
        <3>5. CASE Shutdown(a)
            BY <3>5 DEF Shutdown, Contending
        <3> QED BY <1>2, <3>1, <3>2, <3>3, <3>4, <3>5 DEF Step
    <2> QED BY <2>1, <2>2, <2>3, <2>4, <2>5
<1>3. CASE Tick
    <2> SUFFICES ASSUME NEW a \in Contending PROVE P(a)'
        BY <1>3 DEF Tick, SettleOutlastsLag, Contending
    <2>1. /\ round'[a] = round[a]
          /\ lag'[a] = IF lag[a] > 0 THEN lag[a] - 1 ELSE 0
          /\ timer'[a] = IF timer[a] > 0 THEN timer[a] - 1 ELSE 0
        BY <1>3 DEF Tick, Countdown, Contending
    <2>2. P(a) /\ lag[a] \in Nat /\ timer[a] \in Nat
        BY DEF SettleOutlastsLag, Contending
    <2>3. (Rounds - round[a]) * SettleTicks \in Nat
        BY <2>2, RoundsLeft
    <2> QED BY <2>1, <2>2, <2>3
<1>4. CASE UNCHANGED vars
    BY <1>4 DEF vars, SettleOutlastsLag, Contending
<1>5. ASSUME NEW a \in Agents, Step(a) PROVE SettleOutlastsLag'
    BY <1>1, <1>2, <1>5 DEF SettleOutlastsLag
<1> QED BY <1>3, <1>4, <1>5 DEF Next, Step

(* An agent becomes idle, or goes down, with a whole pause ahead of it.    *)
LEMMA PauseInvariant ==
    ASSUME Timely, TypeOK, TypeOK', PauseOutlastsLag, [Next]_vars
    PROVE  PauseOutlastsLag'
<1> USE ConstantsOK DEF TypeOK, PauseOutlastsLag
<1>1. ASSUME NEW a \in Agents, Step(a), NEW b \in Agents, b # a,
             pc'[b] \in {"idle", "down"}
      PROVE  lag'[b] <= timer'[b]
    <2>1. pc'[b] = pc[b] /\ timer'[b] = timer[b]
        BY <1>1, StepIsLocal DEF OthersKeep
    <2>2. lag'[b] = lag[b]
        BY <1>1, ForgeStep DEF AddStep, RemoveStep, Label, Unlabel, forge
    <2> QED BY <1>1, <2>1, <2>2
<1>2. ASSUME NEW a \in Agents, Step(a), pc'[a] \in {"idle", "down"}
      PROVE  lag'[a] <= timer'[a]
    <2>1. CASE timer'[a] = PollTicks
        BY <2>1 DEF Timely
    <2>2. CASE pc[a] \in {"idle", "down"} /\ UNCHANGED <<lag, timer>>
        BY <2>2
    <2>3. \/ timer'[a] = PollTicks
          \/ pc[a] \in {"idle", "down"} /\ UNCHANGED <<lag, timer>>
        <3> USE <1>2 DEF Goto, Abandon, Finish, BeginSettle
        <3>1. CASE Attempt(a)
            BY <3>1 DEF Attempt, AddLabel, VerifyAdd, SettleRead, SettleInterrupted, Order,
               NextRound, Win, BackOff, RemoveLabel, VerifyRemove, Removed, NotRemoved
        <3>2. CASE Use(a)
            BY <3>2 DEF Use, Precheck, Release, Preserve, Recover
        <3>3. CASE Shutdown(a) \/ Crash(a) \/ Restart(a)
            BY <3>3 DEF Shutdown, Crash, Restart
        <3> QED BY <3>1, <3>2, <3>3 DEF Step
    <2> QED BY <2>1, <2>2, <2>3
<1>3. CASE Tick BY <1>3 DEF Tick, Countdown
<1>4. CASE UNCHANGED vars BY <1>4 DEF vars
<1> QED BY <1>1, <1>2, <1>3, <1>4 DEF Next, Step

-----------------------------------------------------------------------------
(* What the last read shows.                                               *)

(* A read by an agent whose own label is settled shows every earlier label. *)
LEMMA SettledReadShowsEarlier ==
    ASSUME TypeOK, EarlierIsVisible, NEW a \in Agents, lag[a] = 0,
           NEW S \in Views, a \in S
    PROVE  /\ a \in Labelled
           /\ \A b \in Labelled : since[b] < since[a] => b \in S
<1>1. a \in Labelled
    BY DEF Views
<1>2. ASSUME NEW b \in Labelled, since[b] < since[a] PROVE b \in S
    <2>1. lag[b] <= 0 /\ b \in Agents
        BY <1>1, <1>2 DEF EarlierIsVisible, Labelled
    <2>2. lag[b] = 0
        BY <2>1, ConstantsOK DEF TypeOK
    <2> QED BY <1>2, <2>1, <2>2 DEF Views
<1> QED BY <1>1, <1>2

(* At the last read a contender's own label is settled.                    *)
LEMMA LastRoundIsSettled ==
    ASSUME TypeOK, SettleOutlastsLag, NEW a \in Contending,
           timer[a] = 0, round[a] = Rounds
    PROVE  lag[a] = 0
<1>1. lag[a] <= 0 + (Rounds - Rounds) * SettleTicks
    BY DEF SettleOutlastsLag
<1> QED BY <1>1, RoundsLeft, ConstantsOK DEF TypeOK, Contending

LEMMA LastReadInvariant ==
    ASSUME TypeOK, TypeOK', EarlierIsVisible, SettleOutlastsLag, DistinctIds,
           LastReadIsComplete, [Next]_vars
    PROVE  LastReadIsComplete'
<1> USE ConstantsOK DEF TypeOK
<1> DEFINE Q(a) == /\ a \in Labelled
                   /\ \A b \in Labelled : since[b] < since[a] => b \in seen[a]
(* A contender keeps what it has seen while others come and go.            *)
<1>1. ASSUME NEW a \in Agents, pc[a] = "ordering", Q(a), seen'[a] = seen[a],
             NEW c \in Agents, Step(c)
      PROVE  Q(a)'
    <2>1. CASE AddStep(c)
        <3>1. CASE c \in Labelled
            BY <1>1, <2>1, <3>1 DEF AddStep, Label, forge, Labelled
        <3>2. CASE c \notin Labelled
            <4>1. since' = [since EXCEPT ![c] = nextId + 1] /\ c # a
                BY <1>1, <2>1, <3>2 DEF AddStep, Label
            <4>2. since[a] <= nextId
                BY DEF DistinctIds
            <4> QED BY <1>1, <4>1, <4>2 DEF Labelled
        <3> QED BY <3>1, <3>2
    <2>2. CASE RemoveStep(c)
        <3>1. since' = [since EXCEPT ![c] = 0] /\ c # a
            BY <1>1, <2>2 DEF RemoveStep, Unlabel
        <3> QED BY <1>1, <3>1 DEF Labelled
    <2>3. CASE UNCHANGED forge
        BY <1>1, <2>3 DEF forge, Labelled
    <2> QED BY <1>1, <2>1, <2>2, <2>3, ForgeStep
<1>2. ASSUME NEW a \in Agents, SettleRead(a), pc'[a] = "ordering", round'[a] = Rounds
      PROVE  Q(a)'
    <2>1. PICK S \in Views : /\ a \in S /\ seen' = [seen EXCEPT ![a] = S]
                             /\ UNCHANGED <<since, round>>
        BY <1>2 DEF SettleRead, NextRound, Win, BackOff, BeginSettle, Goto, Abandon
    <2>2. lag[a] = 0
        BY <1>2, <2>1, LastRoundIsSettled DEF SettleRead, Contending
    <2>3. Q(a)' <=> /\ a \in Labelled
                    /\ \A b \in Labelled : since[b] < since[a] => b \in S
        BY <2>1 DEF Labelled
    <2> QED BY <2>1, <2>2, <2>3, SettledReadShowsEarlier
<1>3. ASSUME NEW c \in Agents, Step(c), NEW a \in Agents,
             pc'[a] = "ordering", round'[a] = Rounds
      PROVE  Q(a)'
    <2>1. CASE a # c
        <3>1. pc[a] = "ordering" /\ round[a] = Rounds /\ seen'[a] = seen[a]
            BY <1>3, <2>1, StepIsLocal DEF OthersKeep
        <3> QED BY <1>1, <1>3, <3>1 DEF LastReadIsComplete
    <2>2. CASE a = c /\ SettleRead(a)
        BY <1>2, <1>3, <2>2
    <2>3. CASE a = c /\ ~SettleRead(a)
        <3>1. Shutdown(a)
            <4> USE <1>3, <2>3 DEF Goto, Abandon, Finish, BeginSettle
            <4>1. CASE Attempt(a)
                BY <4>1 DEF Attempt, AddLabel, VerifyAdd, SettleInterrupted, Order, NextRound,
                   Win, BackOff, RemoveLabel, VerifyRemove, Removed, NotRemoved
            <4>2. CASE Use(a) \/ Crash(a) \/ Restart(a)
                BY <4>2 DEF Use, Precheck, Release, Preserve, Recover, Crash, Restart
            <4> QED BY <4>1, <4>2 DEF Step
        <3>2. pc[a] = "ordering" /\ round[a] = Rounds /\ seen'[a] = seen[a]
            BY <1>3, <3>1 DEF Shutdown
        <3> QED BY <1>1, <1>3, <3>2 DEF LastReadIsComplete
    <2> QED BY <2>1, <2>2, <2>3
<1>4. CASE Tick
    BY <1>4 DEF Tick, LastReadIsComplete, Labelled
<1>5. CASE UNCHANGED vars
    BY <1>5 DEF vars, LastReadIsComplete, Labelled
<1>6. ASSUME NEW c \in Agents, Step(c) PROVE LastReadIsComplete'
    BY <1>3, <1>6 DEF LastReadIsComplete
<1> QED BY <1>4, <1>5, <1>6 DEF Next, Step

-----------------------------------------------------------------------------
(* Ownership.                                                              *)

(* A new owner has just seen that no label comes before its own.           *)
LEMMA NewOwnerIsEarliest ==
    ASSUME Timely, IInv, TypeOK', NEW a \in Agents, Step(a), owned' # owned,
           owned'[a]
    PROVE  /\ owned' = [owned EXCEPT ![a] = TRUE]
           /\ UNCHANGED forge
           /\ a \in Labelled
           /\ \A b \in Labelled : since[a] <= since[b]
<1> USE ConstantsOK DEF IInv, TypeOK
<1> DEFINE Earliest == a \in Labelled /\ \A b \in Labelled : since[a] <= since[b]
<1>1. ASSUME NEW S \in Views, S = {a}, lag[a] = 0 PROVE Earliest
    <2>1. /\ a \in Labelled
          /\ \A b \in Labelled : since[b] < since[a] => b \in S
        BY <1>1, SettledReadShowsEarlier
    <2> QED BY <1>1, <2>1 DEF Labelled
<1>2. CASE SettleRead(a)
    <2>1. PICK S \in Views : S = {a} /\ Win(a)
        BY <1>2 DEF SettleRead, NextRound, BackOff
    <2>2. lag[a] = 0
        BY <1>2, <2>1, LastRoundIsSettled DEF SettleRead, Win, LastRound, Contending
    <2> QED BY <1>1, <1>2, <2>1, <2>2 DEF SettleRead, Win, forge
<1>3. CASE Order(a)
    <2>1. /\ Win(a)
          /\ pc[a] = "ordering"
          /\ seen[a] \subseteq Labelled
          /\ FirstByEvents(a)
          /\ UNCHANGED forge
        BY <1>3 DEF Order, NextRound, BackOff, Timely, forge
    <2>2. /\ a \in Labelled
          /\ \A b \in Labelled : since[b] < since[a] => b \in seen[a]
        BY <2>1 DEF Win, LastRound, LastReadIsComplete
    <2>3. Earliest
        BY <2>1, <2>2 DEF FirstByEvents, Labelled
    <2> QED BY <2>1, <2>3 DEF Win
<1>4. CASE Recover(a)
    <2>1. lag[a] = 0
        BY <1>4 DEF Recover, PauseOutlastsLag
    <2>2. {a} \in Views
        BY <1>4 DEF Recover, SoleClaim
    <2> QED BY <1>1, <1>4, <2>1, <2>2 DEF Recover, forge
<1>5. CASE RemoveLabel(a)
    BY <1>5 DEF RemoveLabel, Unlabel
<1>6. CASE AddLabel(a) \/ VerifyAdd(a) \/ SettleInterrupted(a) \/ VerifyRemove(a)
    BY <1>6 DEF AddLabel, VerifyAdd, SettleInterrupted, VerifyRemove
<1>7. CASE Precheck(a) \/ Release(a) \/ Preserve(a) \/ Shutdown(a) \/ Crash(a) \/ Restart(a)
    BY <1>7 DEF Precheck, Release, Preserve, Shutdown, Crash, Restart
<1> QED
    BY <1>2, <1>3, <1>4, <1>5, <1>6, <1>7 DEF Step, Attempt, Use

(* The other steps that touch ownership remove the label of the agent.     *)
LEMMA OwnershipStep ==
    ASSUME TypeOK, TypeOK', NEW a \in Agents, Step(a)
    PROVE  \/ owned' # owned /\ owned'[a]
           \/ RemoveStep(a)
           \/ UNCHANGED owned
<1>1. CASE RemoveLabel(a)
    BY <1>1 DEF RemoveLabel, RemoveStep
<1>2. CASE SettleRead(a) \/ Order(a)
    BY <1>2 DEF SettleRead, Order, NextRound, Win, BackOff, TypeOK
<1>3. CASE Recover(a)
    BY <1>3 DEF Recover, TypeOK
<1>4. CASE AddLabel(a) \/ VerifyAdd(a) \/ SettleInterrupted(a) \/ VerifyRemove(a)
    BY <1>4 DEF AddLabel, VerifyAdd, SettleInterrupted, VerifyRemove
<1>5. CASE Precheck(a) \/ Release(a) \/ Preserve(a) \/ Shutdown(a) \/ Crash(a) \/ Restart(a)
    BY <1>5 DEF Precheck, Release, Preserve, Shutdown, Crash, Restart
<1> QED BY <1>1, <1>2, <1>3, <1>4, <1>5 DEF Step, Attempt, Use

LEMMA OwnerInvariant ==
    ASSUME Timely, IInv, TypeOK', [Next]_vars
    PROVE  OwnerIsEarliest'
<1> USE ConstantsOK DEF IInv, TypeOK, OwnerIsEarliest
<1>1. ASSUME NEW a \in Agents, Step(a) PROVE OwnerIsEarliest'
    <2>1. CASE owned' # owned /\ owned'[a]
        BY <1>1, <2>1, NewOwnerIsEarliest DEF forge, Labelled
    <2>2. CASE RemoveStep(a)
        <3>1. since' = [since EXCEPT ![a] = 0] /\ owned' = [owned EXCEPT ![a] = FALSE]
            BY <2>2 DEF RemoveStep, Unlabel
        <3> QED BY <3>1 DEF Labelled
    <2>3. CASE UNCHANGED owned /\ AddStep(a)
        <3>1. CASE a \in Labelled
            BY <2>3, <3>1 DEF AddStep, Label, forge, Labelled
        <3>2. CASE a \notin Labelled
            <4>1. since' = [since EXCEPT ![a] = nextId + 1]
                BY <2>3, <3>2 DEF AddStep, Label
            <4>2. \A b \in Agents : since[b] < nextId + 1
                BY DEF DistinctIds
            <4>3. ~owned[a]
                BY <3>2
            <4> QED BY <2>3, <4>1, <4>2, <4>3 DEF Labelled
        <3> QED BY <3>1, <3>2
    <2>4. CASE UNCHANGED owned /\ UNCHANGED forge
        BY <2>4 DEF forge, Labelled
    <2> QED BY <1>1, <2>1, <2>2, <2>3, <2>4, OwnershipStep, ForgeStep
<1>2. CASE Tick
    BY <1>2 DEF Tick, Labelled
<1>3. CASE UNCHANGED vars
    BY <1>3 DEF vars, Labelled
<1> QED BY <1>1, <1>2, <1>3 DEF Next, Step

LEMMA HolderInvariant ==
    ASSUME Timely, IInv, TypeOK', [Next]_vars
    PROVE  HolderIsOwner'
<1> USE DEF IInv, TypeOK, HolderIsOwner, Holders
<1>1. ASSUME NEW a \in Agents, Step(a), NEW b \in Agents, pc'[b] = "held"
      PROVE  owned'[b]
    <2>1. CASE b # a
        <3>1. pc[b] = "held"
            BY <1>1, <2>1, StepIsLocal DEF OthersKeep
        <3>2. owned'[b] = owned[b]
            <4>1. CASE owned' # owned /\ owned'[a]
                BY <1>1, <2>1, <4>1, NewOwnerIsEarliest
            <4>2. CASE RemoveStep(a)
                BY <2>1, <4>2 DEF RemoveStep, Unlabel
            <4> QED BY <1>1, <4>1, <4>2, OwnershipStep
        <3> QED BY <3>1, <3>2
    <2>2. CASE b = a
        <3> USE <1>1, <2>2 DEF Goto, Abandon, Finish, BeginSettle
        <3>1. CASE SettleRead(a)
            BY <3>1 DEF SettleRead, NextRound, Win, BackOff
        <3>2. CASE Order(a)
            BY <3>2 DEF Order, NextRound, Win, BackOff
        <3>3. CASE Recover(a)
            BY <3>3 DEF Recover
        <3>4. CASE Shutdown(a)
            BY <3>4 DEF Shutdown
        <3>5. CASE Attempt(a) /\ ~SettleRead(a) /\ ~Order(a)
            BY <3>5 DEF Attempt, AddLabel, VerifyAdd, SettleInterrupted,
               RemoveLabel, VerifyRemove, Removed, NotRemoved
        <3>6. CASE Precheck(a) \/ Release(a) \/ Preserve(a) \/ Crash(a) \/ Restart(a)
            BY <3>6 DEF Precheck, Release, Preserve, Crash, Restart
        <3> QED BY <3>1, <3>2, <3>3, <3>4, <3>5, <3>6 DEF Step, Use
    <2> QED BY <2>1, <2>2
<1>2. CASE Tick BY <1>2 DEF Tick
<1>3. CASE UNCHANGED vars BY <1>3 DEF vars
<1>4. ASSUME NEW a \in Agents, Step(a) PROVE HolderIsOwner'
    BY <1>1, <1>4
<1> QED BY <1>2, <1>3, <1>4 DEF Next, Step

-----------------------------------------------------------------------------
(* The theorems.                                                           *)

LEMMA InitIInv == Init => IInv
<1> SUFFICES ASSUME Init PROVE IInv
    OBVIOUS
<1>1. TypeOK
    BY InitTypeOK
<1> QED
    BY <1>1, ConstantsOK DEF Init, IInv, DistinctIds, EarlierIsVisible, SettleOutlastsLag,
       PauseOutlastsLag, OrderingIsAwake, LastReadIsComplete, OwnerIsEarliest,
       HolderIsOwner, Holders, Labelled, Contending

LEMMA NextIInv == ASSUME Timely, IInv, [Next]_vars PROVE IInv'
<1>1. TypeOK'
    BY NextTypeOK DEF IInv
<1>2. DistinctIds' /\ EarlierIsVisible'
    BY <1>1, ForgeInvariant DEF IInv
<1>3. SettleOutlastsLag'
    BY <1>1, SettleInvariant DEF IInv
<1>4. PauseOutlastsLag'
    BY <1>1, PauseInvariant DEF IInv
<1>5. OrderingIsAwake'
    BY OrderingInvariant DEF IInv
<1>6. LastReadIsComplete'
    BY <1>1, LastReadInvariant DEF IInv
<1>7. OwnerIsEarliest' /\ HolderIsOwner'
    BY <1>1, OwnerInvariant, HolderInvariant
<1> QED BY <1>1, <1>2, <1>3, <1>4, <1>5, <1>6, <1>7 DEF IInv

(* Two owners would both carry the earliest label.                         *)
AtMostOneOwner == \A a, b \in Agents : owned[a] /\ owned[b] => a = b

LEMMA OneOwner == IInv => AtMostOneOwner
<1> SUFFICES ASSUME IInv, NEW a \in Agents, NEW b \in Agents, owned[a], owned[b]
             PROVE a = b
    BY DEF AtMostOneOwner
<1>1. a \in Labelled /\ b \in Labelled /\ since[a] <= since[b] /\ since[b] <= since[a]
    BY DEF IInv, OwnerIsEarliest
<1>2. since[a] = since[b]
    BY <1>1 DEF IInv, TypeOK, Labelled
<1> QED BY <1>1, <1>2 DEF IInv, DistinctIds

THEOREM Invariance == Timely => (Spec => []IInv)
<1> SUFFICES ASSUME Timely PROVE Spec => []IInv
    OBVIOUS
<1>1. IInv /\ [Next]_vars => IInv'
    BY NextIInv
<1> QED BY InitIInv, <1>1, PTL DEF Spec

(* When propagation is no slower than the settle rounds, an owner's label  *)
(* is at all times the earliest on the resource.                           *)
THEOREM OwnersComeFirst == Timely => (Spec => []OwnerIsEarliest)
<1> SUFFICES ASSUME Timely PROVE Spec => []OwnerIsEarliest
    OBVIOUS
<1>1. IInv => OwnerIsEarliest
    BY DEF IInv
<1> QED BY <1>1, Invariance, PTL

(* The lease is exclusive for any number of agents: two agents never work  *)
(* on one resource, whatever calls fail and whoever crashes.               *)
THEOREM Exclusion == Timely => (Spec => []MutualExclusion)
<1> SUFFICES ASSUME Timely PROVE Spec => []MutualExclusion
    OBVIOUS
<1>1. IInv => MutualExclusion
    BY OneOwner DEF AtMostOneOwner, IInv, MutualExclusion, HolderIsOwner, Holders
<1> QED BY <1>1, Invariance, PTL

LEMMA StepRefines ==
    ASSUME Timely, IInv, TypeOK', AtMostOneOwner, AtMostOneOwner', [Next]_vars
    PROVE  [L!Next]_owners
<1> USE DEF L!Next, L!Acquire, L!Release, AtMostOneOwner, owners
<1>1. ASSUME NEW a \in Agents, Step(a) PROVE [L!Next]_owners
    <2>1. CASE owned' # owned /\ owned'[a]
        <3>1. owned' = [owned EXCEPT ![a] = TRUE]
            BY <1>1, <2>1, NewOwnerIsEarliest
        <3>2. ~owned[a]
            BY <2>1, <3>1 DEF IInv, TypeOK
        <3>3. \A b \in Agents : owned'[b] <=> b = a
            BY <2>1
        <3>4. \A b \in Agents : ~owned[b]
            BY <3>1, <3>2, <3>3 DEF IInv, TypeOK
        <3> QED BY <3>3, <3>4
    <2>2. CASE RemoveStep(a) /\ owned[a]
        <3>1. \A b \in Agents : owned[b] <=> b = a
            BY <2>2
        <3>2. \A b \in Agents : ~owned'[b]
            BY <2>2, <3>1 DEF RemoveStep, Unlabel, IInv, TypeOK
        <3> QED BY <3>1, <3>2
    <2>3. CASE RemoveStep(a) /\ ~owned[a]
        <3>1. \A b \in Agents : owned'[b] <=> owned[b]
            BY <2>3 DEF RemoveStep, Unlabel, IInv, TypeOK
        <3> QED BY <3>1
    <2>4. CASE UNCHANGED owned
        BY <2>4
    <2> QED BY <1>1, <2>1, <2>2, <2>3, <2>4, OwnershipStep DEF IInv
<1>2. CASE Tick \/ UNCHANGED vars
    BY <1>2 DEF Tick, vars
<1> QED BY <1>1, <1>2 DEF Next, Step

(* The protocol implements the lease its callers are promised.             *)
THEOREM Refinement == Timely => (Spec => ImplementsLease)
<1> SUFFICES ASSUME Timely PROVE Spec => ImplementsLease
    OBVIOUS
<1>1. Init => L!Init
    BY DEF Init, owners, L!Init
<1>2. IInv => TypeOK
    BY DEF IInv
<1>3. IInv /\ TypeOK' /\ AtMostOneOwner /\ AtMostOneOwner' /\ [Next]_vars => [L!Next]_owners
    BY StepRefines
<1> QED BY <1>1, <1>2, <1>3, OneOwner, Invariance, PTL DEF ImplementsLease, L!Spec, Spec
=============================================================================
