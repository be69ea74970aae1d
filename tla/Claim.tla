------------------------------- MODULE Claim -------------------------------
(***************************************************************************)
(* The label-based claim protocol of src/agents/claim.rs, for one issue or *)
(* merge request that several agents, each in its own process, compete     *)
(* for.  The forge keeps the labels; a read of them may lag behind a write *)
(* by at most MaxLag ticks, in either direction.  A forge call that fails  *)
(* may or may not have taken effect.  An agent may be told to shut down,   *)
(* may crash at any step, and comes back knowing nothing.                  *)
(*                                                                         *)
(* A label is present from the event that added it: since[a] is the id of  *)
(* that event, 0 while a's claim label is absent.                          *)
(***************************************************************************)
EXTENDS Naturals, FiniteSets

CONSTANTS
    Agents,       \* the competing agents (agent_id)
    Rounds,       \* CLAIM_SETTLE_ROUNDS
    SettleTicks,  \* CLAIM_SETTLE_SECS, in ticks
    PollTicks,    \* least time between two looks of an idle agent, restart included
    MaxLag,       \* longest time a label change stays invisible to some read
    MaxAdds,      \* bound on label-add events
    Faults,       \* may forge calls fail?
    Interrupts,   \* may agents be shut down or crash?
    EventsEmpty,  \* may the label-event log come back empty?
    LabelRank     \* the alphabetical rank of each agent's claim label

(* Nothing but the shape of the constants: the values the protocol's safety *)
(* needs are stated where they are used, in Timely.                         *)
ASSUME ConstantsOK ==
    /\ IsFiniteSet(Agents)
    /\ Rounds \in Nat \ {0}
    /\ SettleTicks \in Nat /\ PollTicks \in Nat /\ MaxLag \in Nat /\ MaxAdds \in Nat
    /\ Faults \in BOOLEAN /\ Interrupts \in BOOLEAN /\ EventsEmpty \in BOOLEAN
    /\ LabelRank \in [Agents -> Nat]

VARIABLES
    since,     \* the forge: id of the event that added a's label, 0 if absent
    lag,       \* ticks until every read shows the last change of a's label
    nextId,    \* the forge: the last event id handed out
    pc,        \* where the agent is in claim.rs
    round,     \* settle rounds begun by settle_and_check
    timer,     \* ticks until the agent's sleep is over
    seen,      \* claim labels of the read that ordered_claim_labels is to order
    want,      \* the outcome that is reported once the label is removed
    result,    \* the outcome of the agent's last attempt
    shutdown,  \* the agent's shutdown flag
    owned      \* history: a won or recovered, and its label is still there

forge == <<since, lag, nextId>>
vars == <<since, lag, nextId, pc, round, timer, seen, want, result, shutdown, owned>>

Outcomes == {"Lost", "Interrupted", "Err", "Released", "Preserved"}
PCs == {"idle", "checked", "addFailed", "settling", "ordering", "held",
        "removing", "removeFailed", "unreleased", "down"}

-----------------------------------------------------------------------------
(* The forge.                                                              *)

Labelled == {a \in Agents : since[a] # 0}

(* What one read of the labels may return. *)
Views == {S \in SUBSET Agents :
             \A a \in Agents : lag[a] = 0 => (a \in S <=> a \in Labelled)}

(* Adding a label that is there changes nothing, not even the event log. *)
Label(a) ==
    IF a \in Labelled
    THEN UNCHANGED forge
    ELSE /\ nextId' = nextId + 1
         /\ since' = [since EXCEPT ![a] = nextId + 1]
         /\ lag' = [lag EXCEPT ![a] = MaxLag]

Unlabel(a) ==
    /\ since' = [since EXCEPT ![a] = 0]
    /\ lag' = IF a \in Labelled THEN [lag EXCEPT ![a] = MaxLag] ELSE lag
    /\ owned' = [owned EXCEPT ![a] = FALSE]
    /\ UNCHANGED nextId

-----------------------------------------------------------------------------
(* The agents: acquire_with, settle_and_check, remove_claim_label, the lease. *)

Init ==
    /\ since = [a \in Agents |-> 0]
    /\ lag = [a \in Agents |-> 0]
    /\ nextId = 0
    /\ pc = [a \in Agents |-> "idle"]
    /\ round = [a \in Agents |-> 0]
    /\ timer = [a \in Agents |-> 0]
    /\ seen = [a \in Agents |-> {}]
    /\ want = [a \in Agents |-> "Err"]
    /\ result = [a \in Agents |-> "none"]
    /\ shutdown = [a \in Agents |-> FALSE]
    /\ owned = [a \in Agents |-> FALSE]

(* The attempt or the operation ends; the agent looks again a poll later.  *)
Finish(a, outcome) ==
    /\ pc' = [pc EXCEPT ![a] = "idle"]
    /\ result' = [result EXCEPT ![a] = outcome]
    /\ timer' = [timer EXCEPT ![a] = PollTicks]
    /\ want' = [want EXCEPT ![a] = "Err"]

(* The agent's next step.                                                  *)
Goto(a, label) == pc' = [pc EXCEPT ![a] = label]

(* Any outcome but Won: the label this attempt added must go first.        *)
Abandon(a, outcome) ==
    /\ Goto(a, "removing")
    /\ want' = [want EXCEPT ![a] = outcome]
    /\ round' = [round EXCEPT ![a] = 0]

(* The guard of acquire_with: refuse a resource that shows any claim.      *)
Precheck(a) ==
    /\ pc[a] = "idle" /\ timer[a] = 0 /\ ~shutdown[a]
    /\ \/ /\ {} \in Views
          /\ nextId + Cardinality({b \in Agents : pc[b] = "checked"}) < MaxAdds
          /\ Goto(a, "checked")
          /\ result' = [result EXCEPT ![a] = "none"]
          /\ UNCHANGED <<timer, want>>
       \/ (\E S \in Views : S # {}) /\ Finish(a, "Lost")
       \/ Faults /\ Finish(a, "Err")
    /\ UNCHANGED <<since, lag, nextId, round, seen, shutdown, owned>>

BeginSettle(a, r) ==
    /\ Goto(a, "settling")
    /\ round' = [round EXCEPT ![a] = r]
    /\ timer' = [timer EXCEPT ![a] = SettleTicks]

AddLabel(a) ==
    /\ pc[a] = "checked"
    /\ \/ Label(a) /\ BeginSettle(a, 1)
       \/ Faults /\ (Label(a) \/ UNCHANGED forge) /\ Goto(a, "addFailed")
          /\ UNCHANGED <<round, timer>>
    /\ UNCHANGED <<seen, want, result, shutdown, owned>>

(* An add that reported an error counts when a read shows the label.       *)
VerifyAdd(a) ==
    /\ pc[a] = "addFailed"
    /\ \/ (\E S \in Views : a \in S) /\ BeginSettle(a, 1) /\ UNCHANGED <<result, want>>
       \/ (\E S \in Views : a \notin S) /\ Finish(a, "Err") /\ UNCHANGED round
       \/ Faults /\ Finish(a, "Err") /\ UNCHANGED round
    /\ UNCHANGED <<since, lag, nextId, seen, shutdown, owned>>

(* An agent that has not lost at the end of one round of settle_and_check: *)
(* another round, or after the last one the win, or the loss of an agent   *)
(* whose own label never showed.                                           *)
NextRound(a) ==
    /\ round[a] < Rounds
    /\ BeginSettle(a, round[a] + 1)
    /\ UNCHANGED <<want, result, owned>>

EveryRoundIsLast(a) == TRUE   \* mutant: the first verification is enough

LastRound(a) == round[a] = Rounds

Win(a) ==
    /\ LastRound(a)
    /\ Goto(a, "held")
    /\ owned' = [owned EXCEPT ![a] = TRUE]
    /\ result' = [result EXCEPT ![a] = "Won"]
    /\ round' = [round EXCEPT ![a] = 0]
    /\ UNCHANGED <<want, timer>>

BackOff(a, outcome) == Abandon(a, outcome) /\ UNCHANGED <<timer, result, owned>>

(* One settle wait is over: read the labels back.                          *)
SettleRead(a) ==
    /\ pc[a] = "settling" /\ timer[a] = 0 /\ ~shutdown[a]
    /\ \/ \E S \in Views :
             \/ /\ a \in S /\ S # {a}
                /\ Goto(a, "ordering")
                /\ seen' = [seen EXCEPT ![a] = S]
                /\ UNCHANGED <<round, timer, want, result, owned>>
             \/ (a \notin S \/ S = {a}) /\ NextRound(a) /\ UNCHANGED seen
             \/ S = {a} /\ Win(a) /\ UNCHANGED seen
             \/ a \notin S /\ round[a] = Rounds /\ BackOff(a, "Lost") /\ UNCHANGED seen
       \/ Faults /\ BackOff(a, "Err") /\ UNCHANGED seen
    /\ UNCHANGED <<since, lag, nextId, shutdown>>

SettleInterrupted(a) ==
    /\ pc[a] = "settling" /\ shutdown[a]
    /\ Abandon(a, "Interrupted")
    /\ UNCHANGED <<since, lag, nextId, timer, seen, result, shutdown, owned>>

(* fallback_claim_order: no events at all, so the labels are sorted.       *)
FirstByName(a) == \A b \in seen[a] : LabelRank[a] <= LabelRank[b]

AnyRivalWins(a) == seen[a] = {a}   \* mutant: a contested claim is given up

(* The labels the read showed, first the earliest active add event.        *)
FirstByEvents(a) == \A b \in seen[a] : since[a] <= since[b]

(* order_active_claim_labels fails on a label whose last event is not an   *)
(* add: one that was removed after, or was stale in, the read of labels.   *)
Order(a) ==
    /\ pc[a] = "ordering"
    /\ seen' = [seen EXCEPT ![a] = {}]
    /\ \/ /\ \/ seen[a] \subseteq Labelled /\ FirstByEvents(a)
             \/ EventsEmpty /\ FirstByName(a)
          /\ NextRound(a) \/ Win(a)
       \/ /\ \/ seen[a] \subseteq Labelled /\ ~FirstByEvents(a)
             \/ EventsEmpty /\ ~FirstByName(a)
          /\ BackOff(a, "Lost")
       \/ /\ Faults \/ ~(seen[a] \subseteq Labelled)
          /\ BackOff(a, "Err")
    /\ UNCHANGED <<since, lag, nextId, shutdown>>

(* remove_claim_label succeeded: the attempt, or the lease, is over.       *)
Removed(a) == Finish(a, want[a])

HideFailure(a) == Removed(a)             \* mutant: a failed cleanup is not reported
RetryRemoval(a) ==                       \* mutant: the removal is retried for ever
    Goto(a, "removing") /\ UNCHANGED <<result, timer, want>>

(* remove_claim_label failed: an attempt is reported as an error, a lease  *)
(* stays unsettled with its holder.                                        *)
NotRemoved(a) ==
    IF want[a] = "Released"
    THEN Goto(a, "unreleased") /\ UNCHANGED <<result, timer, want>>
    ELSE Finish(a, "Err")

RemoveLabel(a) ==
    /\ pc[a] = "removing"
    /\ \/ Unlabel(a) /\ Removed(a)
       \/ /\ Faults
          /\ Unlabel(a) \/ (UNCHANGED forge /\ UNCHANGED owned)
          /\ Goto(a, "removeFailed")
          /\ UNCHANGED <<result, timer, want>>
    /\ UNCHANGED <<round, seen, shutdown>>

VerifyRemove(a) ==
    /\ pc[a] = "removeFailed"
    /\ \/ (\E S \in Views : a \notin S) /\ Removed(a)
       \/ (\E S \in Views : a \in S) /\ NotRemoved(a)
       \/ Faults /\ NotRemoved(a)
    /\ UNCHANGED <<since, lag, nextId, round, seen, shutdown, owned>>

(* ClaimLease::try_release by the holder, or claim::release by an agent    *)
(* that only remembers the resource.                                       *)
Release(a) ==
    /\ pc[a] \in {"held", "unreleased"} \/ (pc[a] = "idle" /\ owned[a])
    /\ Abandon(a, "Released")
    /\ UNCHANGED <<since, lag, nextId, timer, seen, result, shutdown, owned>>

(* ClaimLease::preserve: keep the label, look again on a later poll.       *)
Preserve(a) ==
    /\ pc[a] \in {"held", "unreleased"}
    /\ Finish(a, "Preserved")
    /\ UNCHANGED <<since, lag, nextId, round, seen, shutdown, owned>>

OwnClaimShows(a) == \E S \in Views : a \in S   \* mutant: other claims are ignored

(* Ours is the only claim in a list just fetched.                          *)
SoleClaim(a) == {a} \in Views

(* ClaimLease::recover.                                                    *)
Recover(a) ==
    /\ pc[a] = "idle" /\ timer[a] = 0 /\ ~shutdown[a]
    /\ SoleClaim(a)
    /\ Goto(a, "held")
    /\ owned' = [owned EXCEPT ![a] = TRUE]
    /\ result' = [result EXCEPT ![a] = "Won"]
    /\ UNCHANGED <<since, lag, nextId, round, timer, seen, want, shutdown>>

-----------------------------------------------------------------------------
(* The world around the agents.                                            *)

Shutdown(a) ==
    /\ Interrupts
    /\ pc[a] # "down" /\ ~shutdown[a]
    /\ shutdown' = [shutdown EXCEPT ![a] = TRUE]
    /\ UNCHANGED <<since, lag, nextId, pc, round, timer, seen, want, result, owned>>

(* The process ends, at any point; the forge keeps its label.              *)
Crash(a) ==
    /\ Interrupts
    /\ pc[a] # "down"
    /\ Goto(a, "down")
    /\ seen' = [seen EXCEPT ![a] = {}]
    /\ timer' = [timer EXCEPT ![a] = PollTicks]
    /\ round' = [round EXCEPT ![a] = 0]
    /\ want' = [want EXCEPT ![a] = "Err"]
    /\ result' = [result EXCEPT ![a] = "none"]
    /\ shutdown' = [shutdown EXCEPT ![a] = FALSE]
    /\ UNCHANGED <<since, lag, nextId, owned>>

Restart(a) ==
    /\ pc[a] = "down" /\ timer[a] = 0
    /\ Goto(a, "idle")
    /\ UNCHANGED <<since, lag, nextId, round, timer, seen, want, result, shutdown, owned>>

Unclamped(f) == [a \in Agents |-> f[a] - 1]   \* mutant: remaining time is not saturated

Countdown(f) == [a \in Agents |-> IF f[a] > 0 THEN f[a] - 1 ELSE 0]

Tick ==
    /\ timer' = Countdown(timer)
    /\ lag' = Countdown(lag)
    /\ UNCHANGED <<since, nextId, pc, round, seen, want, result, shutdown, owned>>

(* The steps claim.rs itself takes once acquire or release was called.     *)
Attempt(a) ==
    \/ AddLabel(a) \/ VerifyAdd(a) \/ SettleRead(a) \/ SettleInterrupted(a)
    \/ Order(a) \/ RemoveLabel(a) \/ VerifyRemove(a)

(* The calls of its users.                                                 *)
Use(a) == Precheck(a) \/ Release(a) \/ Preserve(a) \/ Recover(a)

Next ==
    \/ \E a \in Agents : Attempt(a) \/ Use(a) \/ Shutdown(a) \/ Crash(a) \/ Restart(a)
    \/ Tick

Spec == Init /\ [][Next]_vars

(* acquire is a straight line of blocking calls, each of which returns, and *)
(* of sleeps: the process that runs it goes on, and time passes.           *)
FairSpec ==
    /\ Spec
    /\ WF_vars(Tick)
    /\ \A a \in Agents : WF_vars(Attempt(a))

-----------------------------------------------------------------------------
(* Properties.                                                             *)

TypeOK ==
    /\ since \in [Agents -> Nat]
    /\ lag \in [Agents -> 0..MaxLag]
    /\ nextId \in Nat
    /\ pc \in [Agents -> PCs]
    /\ round \in [Agents -> 0..Rounds]
    /\ timer \in [Agents -> Nat]
    /\ seen \in [Agents -> SUBSET Agents]
    /\ want \in [Agents -> Outcomes]
    /\ result \in [Agents -> Outcomes \cup {"none", "Won"}]
    /\ shutdown \in [Agents -> BOOLEAN]
    /\ owned \in [Agents -> BOOLEAN]

(* When the protocol is safe: the settle rounds together, and the pause    *)
(* before an idle agent looks again, outlast the propagation of a label    *)
(* change, and the forge has an event log.                                 *)
Timely ==
    /\ MaxLag <= Rounds * SettleTicks
    /\ MaxLag <= PollTicks
    /\ ~EventsEmpty

Holders == {a \in Agents : pc[a] = "held"}

(* Two agents never work on the resource at once, whatever fails, however  *)
(* slow the agents are and whenever they crash.                            *)
MutualExclusion == \A a, b \in Holders : a = b

(* An owner's label is the earliest of those on the resource, up to the    *)
(* moment it is removed: no contender that is still settling, and no agent *)
(* that left a label behind, can come before it (why a winner keeps its    *)
(* label visible through every round and survives a slow contender).       *)
OwnerIsEarliest ==
    \A a \in Agents : owned[a] =>
        /\ a \in Labelled
        /\ \A b \in Labelled : since[a] <= since[b]

(* Who is using the resource does so under a label that is still there.    *)
HolderIsOwner == \A a \in Holders : owned[a]

(* An attempt that reports Lost or Interrupted after it added its label    *)
(* has removed it (the contract of ClaimAcquireOutcome), even when the     *)
(* removal reported an error, unless a lagging read was wrong about it.    *)
CleanLoss ==
    [][\A a \in Agents :
          (/\ pc[a] = "removing" \/ (pc[a] = "removeFailed" /\ lag[a] = 0)
           /\ pc'[a] = "idle" /\ result'[a] \in {"Lost", "Interrupted"})
          => since'[a] = 0]_vars

InAttempt == {"checked", "addFailed", "settling", "ordering", "removing", "removeFailed"}

(* Every call of acquire and release returns.                              *)
AttemptsEnd == \A a \in Agents : (pc[a] \in InAttempt) ~> (pc[a] \notin InAttempt)

(* Contenders never all back off in silence: the settling contender whose  *)
(* label came first ends up with somebody holding the resource, is told of *)
(* an error, or is stopped; it never just loses.                           *)
ContestIsDecided ==
    \A a \in Agents :
        (pc[a] = "settling" /\ a \in Labelled
            /\ \A b \in Labelled : since[a] <= since[b])
        ~> (Holders # {} \/ result[a] \in {"Err", "Interrupted"} \/ pc[a] = "down")

(* Step 6 of the protocol: "the earliest active GitLab label-add event     *)
(* wins".  The contender whose add event is the earliest never backs off   *)
(* from ordering the claims, when no call fails and nobody is interrupted. *)
EarliestWins ==
    [][\A a \in Agents :
          (/\ pc[a] = "ordering" /\ a \in Labelled
           /\ \A b \in Labelled : since[a] <= since[b])
          => pc'[a] # "removing"]_vars

(* The promise to the callers.                                             *)
owners == {a \in Agents : owned[a]}

L == INSTANCE Lease WITH Agents <- Agents, owners <- owners

(* Ownership behaves like a lease: one owner, handed over through nobody.  *)
ImplementsLease == L!Spec
=============================================================================
