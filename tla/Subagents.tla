----------------------------- MODULE Subagents -----------------------------
(***************************************************************************)
(* The subagent agent (src/agents/subagent.rs): one hub thread that serves *)
(* the inbox and the lifecycle notices, one reader thread for each ACP     *)
(* client, and the clients themselves, which hold the sessions.            *)
(***************************************************************************)
EXTENDS Naturals, FiniteSets

CONSTANTS
    Callers,   \* task sessions that use the tool
    Subs,      \* the subagent ids the model may give out
    Kids,      \* the ACP clients
    MaxLive,   \* max_live_subagents
    MaxTurns   \* bound: prompts in flight for one subagent

ConstantsOK == MaxLive \in Nat \ {0} /\ MaxTurns \in Nat \ {0}

VARIABLES
    task,     \* [Callers -> "live", "retired": its notice is queued, "reaped"]
    ask,      \* [Callers -> the request it has in the inbox]
    hub,      \* what the hub thread is doing
    sub,      \* [Subs -> the hub's table]
    turns,    \* [Subs -> prompts sent whose response was not read]
    kid       \* [Kids -> "up", "dead", "eof": its reader has ended]

vars == <<task, ask, hub, sub, turns, kid>>

NoAsk == [op |-> "none"]
Drain == [pc |-> "drain"]
Recv == [pc |-> "recv"]
NoEntry == [status |-> "none"]   \* the id was not given out
Forgotten == [status |-> "gone"]
Entry(c, k) == [status |-> "Running", owner |-> c, kid |-> k, open |-> TRUE]

Known == {s \in Subs : sub[s].status \notin {"none", "gone"}}
Open == {s \in Known : sub[s].open}
OwnedBy(c) == {s \in Known : sub[s].owner = c}

TypeOK ==
    /\ task \in [Callers -> {"live", "retired", "reaped"}]
    /\ ask \in [Callers -> {NoAsk} \cup [op : {"spawn"}, kid : Kids]
                           \cup [op : {"message", "kill"}, sub : Subs]]
    /\ hub \in {Drain, Recv} \cup [pc : {"reap"}, caller : Callers]
               \cup [pc : {"new", "model"}, caller : Callers, sub : Subs, kid : Kids]
               \cup [pc : {"fire"}, sub : Subs]
    /\ sub \in [Subs -> {NoEntry, Forgotten} \cup
                 [status : {"Running", "Done", "Error", "Killed"}, owner : Callers,
                  kid : Kids, open : BOOLEAN]]
    /\ turns \in [Subs -> 0 .. MaxTurns]
    /\ kid \in [Kids -> {"up", "dead", "eof"}]

Init ==
    /\ task = [c \in Callers |-> "live"]
    /\ ask = [c \in Callers |-> NoAsk]
    /\ hub = Drain
    /\ sub = [s \in Subs |-> NoEntry]
    /\ turns = [s \in Subs |-> 0]
    /\ kid = [k \in Kids |-> "up"]
-----------------------------------------------------------------------------
(* The callers. *)

Request(c, r) ==
    /\ task[c] = "live" /\ ask[c] = NoAsk
    /\ ask' = [ask EXCEPT ![c] = r]
    /\ UNCHANGED <<task, hub, sub, turns, kid>>

AskSpawn(c) == \E k \in Kids : Request(c, [op |-> "spawn", kid |-> k])

AskAbout(c) ==
    \E s \in OwnedBy(c), o \in {"message", "kill"} : Request(c, [op |-> o, sub |-> s])

(* The task session ends, also with a request of it in the inbox.          *)
Retire(c) ==
    /\ task[c] = "live"
    /\ task' = [task EXCEPT ![c] = "retired"]
    /\ UNCHANGED <<ask, hub, sub, turns, kid>>
-----------------------------------------------------------------------------
(* The hub: notices first, then at most one request, then again.           *)

(* The status is set before session/close is sent; its outcome is ignored. *)
Kill(s) == sub' = [sub EXCEPT ![s].status = "Killed", ![s].open = FALSE]

(* An answer for an id that is gone is dropped.                            *)
Forget(S) ==
    /\ sub' = [s \in Subs |-> IF s \in S THEN Forgotten ELSE sub[s]]
    /\ turns' = [s \in Subs |-> IF s \in S THEN 0 ELSE turns[s]]

(* close_caller_sessions takes up a notice ...                             *)
TakeNotice(c) ==
    /\ hub = Drain /\ task[c] = "retired"
    /\ hub' = [pc |-> "reap", caller |-> c]
    /\ UNCHANGED <<task, ask, sub, turns, kid>>

(* ... kills the caller's subagents one after the other ...                *)
Reap(s) ==
    /\ hub.pc = "reap" /\ s \in Open \cap OwnedBy(hub.caller)
    /\ Kill(s)
    /\ UNCHANGED <<task, ask, hub, turns, kid>>

(* ... and forgets them.                                                   *)
Reaped ==
    /\ hub.pc = "reap" /\ Open \cap OwnedBy(hub.caller) = {}
    /\ Forget(OwnedBy(hub.caller))
    /\ task' = [task EXCEPT ![hub.caller] = "reaped"]
    /\ hub' = Drain
    /\ UNCHANGED <<ask, kid>>

NoNotice ==
    /\ hub = Drain /\ \A c \in Callers : task[c] # "retired"
    /\ hub' = Recv
    /\ UNCHANGED <<task, ask, sub, turns, kid>>

NoRequest ==
    /\ hub = Recv /\ \A c \in Callers : ask[c] = NoAsk
    /\ hub' = Drain
    /\ UNCHANGED <<task, ask, sub, turns, kid>>

Take(c, op) ==
    /\ hub = Recv /\ ask[c].op = op
    /\ ask' = [ask EXCEPT ![c] = NoAsk]

Tombstones == {s \in Subs : sub[s].status = "Killed"}

(* Mutant: only running subagents count. *)
RunningSeats == {s \in Subs : sub[s].status = "Running"}

(* The entries that count towards the cap.                                 *)
Seats == Open

(* enforce_cap drops the tombstones; then a spawn may be refused.          *)
TakeSpawn(c) ==
    /\ Take(c, "spawn")
    /\ Forget(Tombstones)
    /\ IF Cardinality(Seats) >= MaxLive
       THEN hub' = Drain
       ELSE \E s \in Subs :
              /\ sub[s] = NoEntry
              /\ hub' = [pc |-> "new", caller |-> c, sub |-> s, kid |-> ask[c].kid]
    /\ UNCHANGED <<task, kid>>

(* The id was given out; no entry was made for it.                         *)
SpawnFails ==
    /\ sub' = [sub EXCEPT ![hub.sub] = Forgotten]
    /\ hub' = Drain

(* session/new                                                             *)
SpawnNew ==
    /\ hub.pc = "new"
    /\ \/ kid[hub.kid] = "up" /\ hub' = [hub EXCEPT !.pc = "model"] /\ UNCHANGED sub
       \/ SpawnFails
    /\ UNCHANGED <<task, ask, turns, kid>>

(* session/set_model; the session is not closed when it fails.             *)
SpawnModel ==
    /\ hub.pc = "model"
    /\ \/ /\ kid[hub.kid] = "up"
          /\ sub' = [sub EXCEPT ![hub.sub] = Entry(hub.caller, hub.kid)]
          /\ hub' = [pc |-> "fire", sub |-> hub.sub]
       \/ SpawnFails
    /\ UNCHANGED <<task, ask, turns, kid>>

TakeMessage(c) ==
    LET s == ask[c].sub
    IN /\ Take(c, "message")
       /\ IF s \in Open /\ turns[s] < MaxTurns
          THEN /\ sub' = [sub EXCEPT ![s].status = "Running"]
               /\ hub' = [pc |-> "fire", sub |-> s]
          ELSE hub' = Drain /\ UNCHANGED sub
       /\ UNCHANGED <<task, turns, kid>>

(* Mutant: a prompt that cannot be written is only reported to the caller. *)
FireAndForget ==
    /\ hub.pc = "fire"
    /\ turns' = [turns EXCEPT ![hub.sub] =
                   IF kid[sub[hub.sub].kid] = "up" THEN @ + 1 ELSE @]
    /\ hub' = Drain
    /\ UNCHANGED <<task, ask, sub, kid>>

(* fire_prompt, for a new subagent and for a message.                      *)
Fire ==
    /\ hub.pc = "fire"
    /\ IF kid[sub[hub.sub].kid] = "up"
       THEN turns' = [turns EXCEPT ![hub.sub] = @ + 1] /\ UNCHANGED sub
       ELSE sub' = [sub EXCEPT ![hub.sub].status = "Error"] /\ UNCHANGED turns
    /\ hub' = Drain
    /\ UNCHANGED <<task, ask, kid>>

TakeKill(c) ==
    /\ Take(c, "kill")
    /\ IF ask[c].sub \in Known THEN Kill(ask[c].sub) ELSE UNCHANGED sub
    /\ hub' = Drain
    /\ UNCHANGED <<task, turns, kid>>

HubStep ==
    \/ \E c \in Callers : TakeNotice(c) \/ TakeSpawn(c) \/ TakeMessage(c) \/ TakeKill(c)
    \/ \E s \in Subs : Reap(s)
    \/ Reaped \/ NoNotice \/ NoRequest \/ SpawnNew \/ SpawnModel \/ Fire
-----------------------------------------------------------------------------
(* The readers and the clients. *)

KidOf(s) == sub[s].kid

(* complete_turn: a turn of a closed session is answered as well.  Done    *)
(* stands for a turn that ended with an error, too.                        *)
CompleteTurn(s) ==
    /\ turns[s] > 0
    /\ turns' = [turns EXCEPT ![s] = @ - 1]
    /\ IF s \in Known
       THEN sub' = [sub EXCEPT ![s].status = "Done"]
       ELSE UNCHANGED sub
    /\ UNCHANGED <<task, ask, hub, kid>>

(* A client dies, and its sessions with it.                                *)
KidDies(k) ==
    /\ kid[k] = "up"
    /\ kid' = [kid EXCEPT ![k] = "dead"]
    /\ UNCHANGED <<task, ask, hub, sub, turns>>

(* The end of run_reader: every running entry of the table is marked, of   *)
(* whichever client.  What the dead client did not answer stays unanswered.*)
ReaderEnds(k) ==
    /\ kid[k] = "dead"
    /\ kid' = [kid EXCEPT ![k] = "eof"]
    /\ sub' = [s \in Subs |-> IF sub[s].status = "Running"
                              THEN [sub[s] EXCEPT !.status = "Error"] ELSE sub[s]]
    /\ turns' = [s \in Subs |-> IF s \in Known /\ KidOf(s) = k THEN 0 ELSE turns[s]]
    /\ UNCHANGED <<task, ask, hub>>

Next ==
    \/ \E c \in Callers : AskSpawn(c) \/ AskAbout(c) \/ Retire(c)
    \/ HubStep
    \/ \E s \in Subs : CompleteTurn(s)
    \/ \E k \in Kids : KidDies(k) \/ ReaderEnds(k)

(* The hub and the readers are threads; every turn is answered while its   *)
(* client lives.                                                           *)
Fairness ==
    /\ WF_vars(HubStep)
    /\ \A s \in Subs : WF_vars(CompleteTurn(s))
    /\ \A k \in Kids : WF_vars(ReaderEnds(k))

Spec == Init /\ [][Next]_vars
FairSpec == Spec /\ Fairness
-----------------------------------------------------------------------------
(* "Mark running sessions failed so polls report the truth instead of      *)
(* running forever": whatever dies, no subagent stays running.             *)
NoRunningForever ==
    \A s \in Subs : sub[s].status = "Running" ~> sub[s].status # "Running"

(* "At most {max} subagents can be live at once", also while answers and   *)
(* kills race for the status of an entry.                                  *)
CapHolds == Cardinality(Open) <= MaxLive

(* "Subagents you leave behind are closed when your task session ends."    *)
LeftBehindAreClosed ==
    \A s \in Open : task[sub[s].owner] # "reaped"

(* "Killed: its harness session is closed [...]; only a tombstone remains":*)
(* a kill is final.                                                        *)
KilledStaysKilled ==
    [][\A s \in Subs : sub[s].status = "Killed"
                       => sub'[s].status \in {"Killed", "gone"}]_vars

(* "The harness is gone [...]: nothing will ever complete the in-flight    *)
(* turns": the end of one client's reader marks no turn of a client that   *)
(* lives.                                                                  *)
FailedWithItsClient ==
    [][\A k \in Kids, s \in Subs :
          kid[k] = "dead" /\ kid'[k] = "eof" /\ s \in Known /\ sub[s].kid # k
          => sub'[s] = sub[s]]_vars
=============================================================================
