----------------------------- MODULE AgentLoop -----------------------------
(***************************************************************************)
(* One harness session's conversation: the loop of                         *)
(* src/harness/agent_loop.rs, the tiered retention, the wire format and    *)
(* the snapshot of src/harness/context.rs, and a child that dies and is    *)
(* restored.  Tokens are abstracted: whenever the budget may be exceeded,  *)
(* any outcome of enforce_budget may follow.  A message that carries       *)
(* several tool calls is one call here.                                    *)
(***************************************************************************)
EXTENDS Naturals, FiniteSets, Sequences

CONSTANTS
    KeepTexts,    \* KEEP_LAST_ASSISTANT_TEXT
    KeepReasons,  \* KEEP_LAST_REASONING
    StuckLimit,   \* stuck signals that end a turn
    MaxPrompts,   \* bound: session/prompt requests
    MaxInjects,   \* bound: session/inject requests
    MaxCalls,     \* bound: tool calls of the model
    MaxBudgets    \* bound: times the context is over its trigger

ConstantsOK ==
    {KeepTexts, KeepReasons, StuckLimit, MaxPrompts, MaxInjects, MaxCalls, MaxBudgets}
        \subseteq Nat

VARIABLES
    ctx,      \* the entries
    snap,     \* the context file; <<>> when there is none
    pc,       \* "ready" for a prompt, "loop" head, "chat": request out
    stuck,    \* stuck_count
    queue,    \* injected messages that wait
    cancel,   \* the session's cancel flag
    signed,   \* the protocol replays signed thinking (preserves_reasoning)
    keep,     \* the context's keep_reasoning
    count     \* prompts, injects, calls, budgets used up

vars == <<ctx, snap, pc, stuck, queue, cancel, signed, keep, count>>

(* An entry: its kind, the call or prompt it belongs to, and whether a     *)
(* call still carries its reasoning.                                       *)
Entry(kind, id) == [kind |-> kind, id |-> id, thought |-> kind = "call"]

Kinds == {"system", "prompt", "text", "call", "edit", "result"}

TypeOK ==
    /\ ctx \in Seq([kind : Kinds, id : Nat, thought : BOOLEAN])
    /\ snap \in Seq([kind : Kinds \ {"edit"}, id : Nat, thought : BOOLEAN])
    /\ pc \in {"ready", "loop", "chat"}
    /\ stuck \in 0 .. StuckLimit
    /\ queue \in 0 .. MaxInjects
    /\ {cancel, signed, keep} \subseteq BOOLEAN
    /\ count \in [prompts : 0 .. MaxPrompts + MaxInjects, calls : 0 .. MaxCalls,
                  injects : 0 .. MaxInjects, budgets : 0 .. MaxBudgets]

(* init_context, and set_keep_reasoning before the first restore.          *)
Init ==
    /\ ctx = <<Entry("system", 0)>> /\ snap = <<>>
    /\ pc = "ready" /\ stuck = 0 /\ queue = 0 /\ cancel = FALSE
    /\ signed \in BOOLEAN /\ keep = signed
    /\ count = [prompts |-> 0, calls |-> 0, injects |-> 0, budgets |-> 0]
-----------------------------------------------------------------------------
(* context.rs *)

Evictable(e) == e.kind \in {"result", "text"}

After(c, i, kind) == Cardinality({j \in DOMAIN c : j > i /\ c[j].kind = kind})

(* is_protected *)
Protected(c, i) ==
    \/ ~Evictable(c[i])
    \/ c[i].kind = "text" /\ After(c, i, "text") < KeepTexts

(* strip_old_reasoning *)
Stripped(c) ==
    [i \in DOMAIN c |->
        IF c[i].kind = "call" /\ After(c, i, "call") >= KeepReasons
        THEN [c[i] EXCEPT !.thought = FALSE] ELSE c[i]]

(* The entries of c at the places S, in their order.                       *)
Picked(c, S) ==
    [k \in 1 .. Cardinality(S) |-> c[CHOOSE i \in S : Cardinality({j \in S : j < i}) = k - 1]]

OfKind(c, kind) == Picked(c, {i \in DOMAIN c : c[i].kind = kind})

(* Phase 3: the oldest evictable entries go, n of them.                    *)
Evicted(c, n) ==
    LET loose == {i \in DOMAIN c : ~Protected(c, i)}
        gone == {i \in loose : Cardinality({j \in loose : j < i}) < n}
    IN Picked(c, DOMAIN c \ gone)

Summary == Entry("system", 1)

(* rebuild_after_collapse: the system entries, the summary, the first      *)
(* prompt.  No summary adds to one that says the same.                     *)
Collapsed(c) ==
    Append(OfKind(c, "system"), Summary) \o SubSeq(OfKind(c, "prompt"), 1, 1)

(* enforce_budget; compaction and truncation keep every entry.             *)
BudgetOutcomes(c) ==
    LET s == IF keep THEN c ELSE Stripped(c)
    IN {s, Collapsed(s)} \cup {Evicted(s, n) : n \in 1 .. 2}

(* Mutant: calls left open are not answered before a user message. *)
BeforeUserOnly(kind) == kind # "prompt"

(* The roles before which to_messages answers what is still unanswered.    *)
FlushesBefore(kind) == kind \notin {"result", "edit"}

Output(id) == [kind |-> "output", id |-> id]

(* to_messages, one entry: what is sent so far and the call left open.     *)
Sent(w, e) ==
    LET closed == IF w.open # 0 /\ FlushesBefore(e.kind)
                  THEN [msgs |-> Append(w.msgs, Output(w.open)), open |-> 0] ELSE w
    IN CASE e.kind = "call" ->
              [msgs |-> Append(closed.msgs, [kind |-> "call", id |-> e.id]), open |-> e.id]
         [] e.kind \in {"result", "edit"} ->
              [msgs |-> Append(closed.msgs, Output(e.id)),
               open |-> IF closed.open = e.id THEN 0 ELSE closed.open]
         [] OTHER ->
              [closed EXCEPT !.msgs = Append(@, [kind |-> e.kind, id |-> e.id])]

(* to_messages *)
Messages(c) ==
    LET upTo[n \in 0 .. Len(c)] ==
            IF n = 0 THEN [msgs |-> <<>>, open |-> 0] ELSE Sent(upTo[n - 1], c[n])
    IN upTo

Wire(c) ==
    LET all == Messages(c)[Len(c)]
    IN IF all.open = 0 THEN all.msgs ELSE Append(all.msgs, Output(all.open))

(* snapshot_markdown and restore_markdown: the kinds of tool results are   *)
(* not written.                                                            *)
Snapshot(c) ==
    [i \in DOMAIN c |-> IF c[i].kind = "edit" THEN [c[i] EXCEPT !.kind = "result"] ELSE c[i]]
-----------------------------------------------------------------------------
(* agent_loop.rs *)

Persist == snap' = Snapshot(ctx')

(* session/prompt on a turn thread: the flag of an earlier turn is stale.  *)
Prompt ==
    /\ pc = "ready" /\ count.prompts < MaxPrompts
    /\ ctx' = Append(ctx, Entry("prompt", count.prompts + 1))
    /\ Persist
    /\ count' = [count EXCEPT !.prompts = @ + 1]
    /\ pc' = "loop" /\ stuck' = 0 /\ cancel' = FALSE
    /\ UNCHANGED <<queue, signed, keep>>

Cancelled ==
    /\ pc = "loop" /\ cancel
    /\ pc' = "ready"
    /\ UNCHANGED <<ctx, snap, stuck, queue, cancel, signed, keep, count>>

(* The head of the loop: injected messages, then the budget.  The request  *)
(* that goes out is Wire(ctx').                                            *)
Prepare ==
    /\ pc = "loop" /\ ~cancel
    /\ LET drained == ctx \o [i \in 1 .. queue |-> Entry("prompt", MaxPrompts + i)]
       IN \/ ctx' = drained /\ UNCHANGED count
          \/ /\ count.budgets < MaxBudgets
             /\ ctx' \in BudgetOutcomes(drained)
             /\ count' = [count EXCEPT !.budgets = @ + 1]
    /\ Persist
    /\ queue' = 0 /\ pc' = "chat"
    /\ UNCHANGED <<stuck, cancel, signed, keep>>

ChatFails ==
    /\ pc = "chat" /\ pc' = "ready"
    /\ UNCHANGED <<ctx, snap, stuck, queue, cancel, signed, keep, count>>

(* The model is done.                                                      *)
ChatStops ==
    /\ pc = "chat" /\ pc' = "ready"
    /\ ctx' = Append(ctx, Entry("text", 0))
    /\ Persist
    /\ UNCHANGED <<stuck, queue, cancel, signed, keep, count>>

Called(id) == Append(ctx, Entry("call", id))

NextCall ==
    /\ pc = "chat" /\ count.calls < MaxCalls
    /\ count' = [count EXCEPT !.calls = @ + 1]
    /\ UNCHANGED <<queue, cancel, signed, keep>>

(* handle_response: the last of the stuck signals stops the turn, and the  *)
(* call stays unanswered in the context.                                   *)
ChatStuck ==
    /\ NextCall /\ stuck + 1 = StuckLimit
    /\ ctx' = Called(count'.calls)
    /\ stuck' = StuckLimit /\ pc' = "ready"
    /\ Persist

(* The call is run and answered; if it repeats an earlier one, a nudge     *)
(* goes between the call and its result.                                   *)
ChatCalls ==
    /\ NextCall
    /\ \E repeats \in BOOLEAN, kind \in {"result", "edit"} :
         /\ repeats => stuck + 1 < StuckLimit
         /\ stuck' = IF repeats THEN stuck + 1 ELSE 0
         /\ ctx' = Called(count'.calls)
                   \o (IF repeats THEN <<Entry("system", 2)>> ELSE <<>>)
                   \o <<Entry(kind, count'.calls)>>
    /\ Persist
    /\ pc' = "loop"

(* The reader thread: session/inject at any time, session/cancel.  A cancel*)
(* between turns is undone by the next prompt.                             *)
Inject ==
    /\ count.injects < MaxInjects
    /\ queue' = queue + 1
    /\ count' = [count EXCEPT !.injects = @ + 1]
    /\ UNCHANGED <<ctx, snap, pc, stuck, cancel, signed, keep>>

Cancel ==
    /\ pc # "ready" /\ ~cancel /\ cancel' = TRUE
    /\ UNCHANGED <<ctx, snap, pc, stuck, queue, signed, keep, count>>

(* The child dies; the next one adopts the session: restore_context        *)
(* replaces the context, its keep_reasoning included.                      *)
CrashAndRestore ==
    /\ snap # <<>>
    /\ ctx' = snap /\ keep' = FALSE
    /\ pc' = "ready" /\ stuck' = 0 /\ queue' = 0 /\ cancel' = FALSE
    /\ UNCHANGED <<snap, signed, count>>

Next ==
    \/ Prompt \/ Cancelled \/ Prepare \/ ChatFails \/ ChatStops \/ ChatStuck
    \/ ChatCalls \/ Inject \/ Cancel \/ CrashAndRestore

Spec == Init /\ [][Next]_vars
-----------------------------------------------------------------------------
Out == Wire(ctx)

(* "every tool call must be answered": in any request the loop may send,   *)
(* after evictions, stuck turns and restores, each call is followed by its *)
(* output at once.                                                         *)
CallsAreAnswered ==
    \A i \in DOMAIN Out : Out[i].kind = "call"
        => i < Len(Out) /\ Out[i + 1] = Output(Out[i].id)

(* "The file always holds the latest context, so a crashed process resumes *)
(* from the last completed update", however the turn ended.                *)
SnapshotIsCurrent == snap \in {<<>>, Snapshot(ctx)} /\ (Len(ctx) > 1 => snap # <<>>)

(* "strict endpoints reject a tool result that follows anything but its    *)
(* own call"                                                               *)
OutputsFollowTheirCall ==
    pc = "chat" => \A i \in DOMAIN Out : Out[i].kind = "output"
        => i > 1 /\ Out[i - 1] = [kind |-> "call", id |-> Out[i].id]

(* "protocols that replay signed thinking blocks require the reasoning to  *)
(* survive"                                                                *)
ReasoningSurvives == signed => \A i \in DOMAIN ctx : ctx[i].kind = "call" => ctx[i].thought

(* "messages are UserPrompt (non-evictable) so they survive compaction"    *)
PromptsSurvive ==
    \A n \in 1 .. count.prompts : \E i \in DOMAIN ctx : ctx[i] = Entry("prompt", n)
=============================================================================
