------------------------------ MODULE AcpClient ------------------------------
(***************************************************************************)
(* One connection to an ACP child (src/core/model/acp/client.rs) and the   *)
(* threads around it: the agent's thread, which calls, monitors a prompt   *)
(* and disposes of the session (runtime.rs), the prompt thread, the        *)
(* client's writer and reader.  The client is shared by reference count;   *)
(* whoever lets go of it last closes it.                                   *)
(***************************************************************************)
EXTENDS Naturals, Sequences

CONSTANTS
    MaxRequests,  \* requests made on the connection
    MaxCalls,     \* agent-to-client calls the child makes
    Wedges,       \* TRUE: a child may stay when its stdin is closed
    Garbles       \* TRUE: a child may print a line that is not JSON

ConstantsOK ==
    MaxRequests \in Nat /\ MaxCalls \in Nat /\ Wedges \in BOOLEAN /\ Garbles \in BOOLEAN

VARIABLES
    at,       \* what the agent's thread does
    prompt,   \* what the prompt thread does
    waits,    \* the requests the two wait for: [agent, prompt -> number]
    refs,     \* who holds the Arc<AcpClient>
    conn,     \* the client's fields and threads
    pending,  \* the requests whose answers somebody waits for
    got,      \* <<r, n>>: the waiter of request r received the answer to n
    child     \* the process: whether it lives, what it has yet to answer,
              \* the lines in its stdout

vars == <<at, prompt, waits, refs, conn, pending, got, child>>

Requests == 1 .. MaxRequests
CallLine == 0
Garbage == MaxRequests + 1

TypeOK ==
    /\ at \in {"idle", "call", "monitor", "dispose", "closeWriter", "closeReader",
               "grace", "return", "done"}
    /\ prompt \in {"none", "wait", "told", "closeWriter", "closeReader"}
    /\ waits \in [agent : 0 .. MaxRequests, prompt : 0 .. MaxRequests]
    /\ refs \subseteq {"session", "monitor", "prompt"}
    /\ conn \in [fresh : BOOLEAN, open : BOOLEAN, stop : BOOLEAN, next : 1 .. MaxRequests + 1,
                 writer : {"on", "ended"}, reader : {"head", "read", "hook", "ended"}]
    /\ pending \subseteq Requests
    /\ got \subseteq Requests \X Requests
    /\ child \in [up : BOOLEAN, asked : SUBSET Requests, calls : 0 .. MaxCalls,
                  lines : Seq(0 .. MaxRequests + 1)]

(* spawn_acp_connection: the child is up, nothing was asked yet.           *)
Init ==
    /\ at = "idle" /\ prompt = "none"
    /\ waits = [agent |-> 0, prompt |-> 0]
    /\ refs = {"session"}
    /\ conn = [fresh |-> TRUE, open |-> TRUE, stop |-> FALSE, next |-> 1,
               writer |-> "on", reader |-> "head"]
    /\ pending = {} /\ got = {}
    /\ child = [up |-> TRUE, asked |-> {}, calls |-> 0, lines |-> <<>>]

Answered(r) == \E n \in Requests : <<r, n>> \in got
-----------------------------------------------------------------------------
(* Mutant: the reader's sender is left in its place.                       *)
StopOnly == conn' = [conn EXCEPT !.stop = TRUE]

(* The first half of Drop for AcpClient: the flag the reader looks at, and *)
(* the sender, whose end ends the writer and with it the child's stdin.    *)
Closing == conn' = [conn EXCEPT !.stop = TRUE, !.open = FALSE]

(* Letting go: the thread that was the last closes the client.             *)
LetsGo(holder) ==
    /\ refs' = refs \ {holder}
    /\ IF refs' = {} THEN Closing ELSE UNCHANGED conn

(* send_request: the answer is waited for under a number of its own.  A    *)
(* line to a child that is gone ends the writer; the next one fails here.  *)
Sends(who) ==
    LET r == conn.next IN
    /\ conn.next \in Requests /\ conn.writer = "on"
    /\ waits' = [waits EXCEPT ![who] = r]
    /\ pending' = pending \cup {r}
    /\ conn' = [conn EXCEPT !.next = @ + 1,
                            !.writer = IF child.up THEN "on" ELSE "ended"]
    /\ child' = IF child.up THEN [child EXCEPT !.asked = @ \cup {r}] ELSE child

(* A control-plane call: initialize, session/new, session/close and the    *)
(* choice of model.                                                        *)
Call ==
    /\ at = "idle" /\ "session" \in refs
    /\ Sends("agent")
    /\ at' = "call"
    /\ UNCHANGED <<prompt, refs, got>>

(* An error of a call: that of a new connection lets go of its client,     *)
(* and of the child without waiting for it; any other leaves the session.  *)
CallFails ==
    IF conn.fresh THEN LetsGo("session") /\ at' = "closeWriter"
    ELSE at' = "idle" /\ UNCHANGED <<refs, conn>>

CallRefused ==
    /\ at = "idle" /\ "session" \in refs /\ conn.writer = "ended"
    /\ CallFails
    /\ UNCHANGED <<prompt, waits, pending, got, child>>

(* The connection is new until a session/new is answered.                  *)
CallAnswered ==
    /\ at = "call" /\ Answered(waits.agent)
    /\ at' = "idle"
    /\ \E f \in {conn.fresh, FALSE} : conn' = [conn EXCEPT !.fresh = f]
    /\ UNCHANGED <<prompt, waits, refs, pending, got, child>>

(* CONTROL_PLANE_TIMEOUT; the answer may still be on its way.              *)
CallTimesOut ==
    /\ at = "call" /\ ~Answered(waits.agent)
    /\ pending' = pending \ {waits.agent}
    /\ CallFails
    /\ UNCHANGED <<prompt, waits, got, child>>

(* run_prompt_once: the client for this thread and for the prompt thread.  *)
(* The last prompt thread has ended.                                       *)
Prompt ==
    /\ at = "idle" /\ ~conn.fresh /\ prompt = "none"
    /\ refs' = refs \cup {"monitor", "prompt"}
    /\ at' = "monitor"
    /\ UNCHANGED got
    /\ \/ Sends("prompt") /\ prompt' = "wait"
       \/ /\ conn.writer = "ended"
          /\ prompt' = "told"
          /\ UNCHANGED <<waits, conn, pending, child>>

(* The prompt thread has the answer and hands it on ...                    *)
PromptAnswered ==
    /\ prompt = "wait" /\ Answered(waits.prompt)
    /\ prompt' = "told"
    /\ UNCHANGED <<at, waits, refs, conn, pending, got, child>>

(* ... and ends; the client is among what it had captured.                 *)
PromptEnds ==
    /\ prompt = "told"
    /\ LetsGo("prompt")
    /\ prompt' = IF refs' = {} THEN "closeWriter" ELSE "none"
    /\ UNCHANGED <<at, waits, pending, got, child>>

(* The poll loop receives what the prompt thread handed on.                *)
MonitorReturns ==
    /\ at = "monitor" /\ prompt # "wait"
    /\ refs' = refs \ {"monitor"}
    /\ at' = "idle"
    /\ UNCHANGED <<prompt, waits, conn, pending, got, child>>

(* It sees a shutdown, a cancellation or the child's exit first: kill_child*)
MonitorStops ==
    /\ at = "monitor"
    /\ at' = "dispose"
    /\ UNCHANGED <<prompt, waits, refs, conn, pending, got, child>>

(* Between prompts: shutdown, a child found dead at the next task, or the  *)
(* end of the agent.                                                       *)
Retire ==
    /\ at = "idle" /\ ~conn.fresh
    /\ at' = "dispose"
    /\ UNCHANGED <<prompt, waits, refs, conn, pending, got, child>>

(* Mutant: the grace period first, the client afterwards. *)
KillFirst ==
    /\ at = "dispose"
    /\ at' = "grace"
    /\ UNCHANGED <<prompt, waits, refs, conn, pending, got, child>>

(* dispose_acp_session drops the session's client first ...                *)
Dispose ==
    /\ at = "dispose"
    /\ LetsGo("session")
    /\ at' = IF refs' = {} THEN "closeWriter" ELSE "grace"
    /\ UNCHANGED <<prompt, waits, pending, got, child>>

(* ... gives the child DISPOSE_GRACE, kills and reaps it.                  *)
Kill ==
    /\ at = "grace"
    /\ child' = [child EXCEPT !.up = FALSE]
    /\ at' = IF "monitor" \in refs THEN "return" ELSE "done"
    /\ UNCHANGED <<prompt, waits, refs, conn, pending, got>>

(* run_prompt_once returns and lets go of its own reference.               *)
Return ==
    /\ at = "return"
    /\ LetsGo("monitor")
    /\ at' = IF refs' = {} THEN "closeWriter" ELSE "done"
    /\ UNCHANGED <<prompt, waits, pending, got, child>>

(* The second half of Drop: join the writer, then the reader.  After that  *)
(* an agent that was disposing goes on to its grace period; one that had   *)
(* killed the child finds nothing to do there.                             *)
AgentJoins ==
    /\ \/ at = "closeWriter" /\ conn.writer = "ended" /\ at' = "closeReader"
       \/ /\ at = "closeReader" /\ conn.reader = "ended"
          /\ at' = IF conn.fresh THEN "done" ELSE "grace"
    /\ UNCHANGED <<prompt, waits, refs, conn, pending, got, child>>

PromptJoins ==
    /\ \/ prompt = "closeWriter" /\ conn.writer = "ended" /\ prompt' = "closeReader"
       \/ prompt = "closeReader" /\ conn.reader = "ended" /\ prompt' = "none"
    /\ UNCHANGED <<at, waits, refs, conn, pending, got, child>>
-----------------------------------------------------------------------------
(* The writer drops the child's stdin when the last sender is gone.        *)
WriterEnds ==
    /\ conn.writer = "on" /\ ~conn.open
    /\ conn' = [conn EXCEPT !.writer = "ended"]
    /\ UNCHANGED <<at, prompt, waits, refs, pending, got, child>>

Reader(r) == conn' = [conn EXCEPT !.reader = r]

(* The head of reader_loop.                                                *)
ReaderLooks ==
    /\ conn.reader = "head"
    /\ Reader(IF conn.stop THEN "ended" ELSE "read")
    /\ UNCHANGED <<at, prompt, waits, refs, pending, got, child>>

(* Mutant: an answer goes to whoever waits. *)
ToAnyWaiter(n) ==
    IF pending = {} THEN UNCHANGED <<pending, got>>
    ELSE \E r \in pending : pending' = pending \ {r} /\ got' = got \cup {<<r, n>>}

(* An answer goes to the waiter of its request, or is an orphan.           *)
Deliver(n) ==
    IF n \in pending
    THEN pending' = pending \ {n} /\ got' = got \cup {<<n, n>>}
    ELSE UNCHANGED <<pending, got>>

(* One line: an answer, a call, which runs in the reader itself, or        *)
(* neither, which ends the reader and tells nobody.                        *)
ReaderReads ==
    LET line == Head(child.lines) IN
    /\ conn.reader = "read" /\ child.lines # <<>>
    /\ child' = [child EXCEPT !.lines = Tail(@)]
    /\ \/ line \in Requests /\ Deliver(line) /\ Reader("head")
       \/ line = CallLine /\ Reader("hook") /\ UNCHANGED <<pending, got>>
       \/ line = Garbage /\ Reader("ended") /\ UNCHANGED <<pending, got>>
    /\ UNCHANGED <<at, prompt, waits, refs>>

(* The call returns, and its answer is written if the writer still is.     *)
HookReturns ==
    /\ conn.reader = "hook"
    /\ Reader(IF conn.open /\ conn.writer = "on" THEN "head" ELSE "ended")
    /\ UNCHANGED <<at, prompt, waits, refs, pending, got, child>>

(* The child's stdout is at its end.                                       *)
ReaderAtEnd ==
    /\ conn.reader = "read" /\ child.lines = <<>> /\ ~child.up
    /\ Reader("ended")
    /\ UNCHANGED <<at, prompt, waits, refs, pending, got, child>>

ReaderStep == ReaderLooks \/ ReaderReads \/ HookReturns \/ ReaderAtEnd
-----------------------------------------------------------------------------
(* The child answers its requests in any order, calls the client, dies.    *)
ChildAnswers(r) ==
    /\ child.up /\ r \in child.asked
    /\ child' = [child EXCEPT !.asked = @ \ {r}, !.lines = Append(@, r)]
    /\ UNCHANGED <<at, prompt, waits, refs, conn, pending, got>>

ChildCalls ==
    /\ child.up /\ child.calls < MaxCalls
    /\ child' = [child EXCEPT !.calls = @ + 1, !.lines = Append(@, CallLine)]
    /\ UNCHANGED <<at, prompt, waits, refs, conn, pending, got>>

ChildGarbles ==
    /\ Garbles /\ child.up /\ child.lines = <<>>
    /\ child' = [child EXCEPT !.lines = Append(@, Garbage)]
    /\ UNCHANGED <<at, prompt, waits, refs, conn, pending, got>>

ChildDies ==
    /\ child.up
    /\ child' = [child EXCEPT !.up = FALSE]
    /\ UNCHANGED <<at, prompt, waits, refs, conn, pending, got>>

(* Its stdin is at its end.                                                *)
ChildExits ==
    /\ child.up /\ conn.writer = "ended"
    /\ child' = [child EXCEPT !.up = FALSE]
    /\ UNCHANGED <<at, prompt, waits, refs, conn, pending, got>>

Agent == CallTimesOut \/ CallAnswered \/ Dispose \/ Kill \/ Return \/ AgentJoins
PromptThread == PromptAnswered \/ PromptEnds \/ PromptJoins

Next ==
    \/ Agent \/ Call \/ CallRefused \/ Prompt \/ MonitorReturns \/ MonitorStops \/ Retire
    \/ PromptThread \/ WriterEnds \/ ReaderStep
    \/ \E r \in Requests : ChildAnswers(r)
    \/ ChildCalls \/ ChildGarbles \/ ChildDies \/ ChildExits

(* Threads run, a call of the child returns (its bus request has a         *)
(* deadline), and a child that is not wedged exits when its stdin ends.    *)
Fairness ==
    /\ WF_vars(Agent) /\ WF_vars(PromptThread)
    /\ WF_vars(WriterEnds) /\ WF_vars(ReaderStep)
    /\ ~Wedges => WF_vars(ChildExits)

Spec == Init /\ [][Next]_vars
FairSpec == Spec /\ Fairness
-----------------------------------------------------------------------------
(* A late answer to a call that timed out is nobody else's answer.         *)
AnswersMatch == \A g \in got : g[1] = g[2]

(* "Drop the client first: it closes the child's stdin, so a live child    *)
(* exits through its own shutdown path": with no prompt out, a child is    *)
(* killed only after its stdin was closed.                                 *)
IdleExitsItself ==
    at = "grace" /\ child.up /\ prompt = "none" /\ "monitor" \notin refs
        => conn.writer = "ended"

(* The same of every child that is killed, the one whose prompt is         *)
(* cancelled included.                                                     *)
StdinClosesFirst ==
    [][at = "grace" /\ at' # "grace" /\ child.up => ~conn.open]_vars

(* Disposing of a session ends, wherever prompt, reader and child are, and *)
(* whichever thread closes the client.                                     *)
DisposeEnds == at = "dispose" ~> at = "done"

(* "ACP reader stopped before response": a prompt whose reader is gone is  *)
(* answered with that error.                                               *)
PromptsEnd == prompt = "wait" /\ conn.reader = "ended" ~> prompt # "wait"
=============================================================================
