# Verification of potlatch

TLA+ models of the parts of potlatch that are hard to get right: how agents in different processes share
issues and merge requests through labels, how a worker, a reviewer and the PMO follow one issue through
crashes and failing calls, how the agents of one process supervise, call and shut each other down, and how
the threads around a model session, a VM, a subagent and a shell job meet.

Line numbers below are those of the commit the models were written from; `PROJECT.json` ("map") gives the
lines behind every definition.

## 1. The system

A potlatch process reads one TOML file, plans agent instances (`core/workflow.rs`), and runs each one on its
own thread under a supervisor. Agents work on issues and merge requests of a forge (GitLab or GitHub), drive
a model through an ACP child process, and call each other's tools over an in-process bus. Several processes,
on different machines, may work on the same project; the forge's labels are all they share.

| Component | State it keeps | Operations | Interacts by | Module |
|---|---|---|---|---|
| Claim protocol, `agents/claim.rs` | nothing between calls; the claim labels on the forge are the state | acquire (add, verify, settle, order), release, recover, list | forge labels and label events | `Claim`, `Lease` |
| Worker, `agents/worker.rs` | `active`, the session files, the shutdown flag | adopt sessions, sweep, watch merge requests, pick and claim, implement, park, abandon | claims, labels, merge requests, model runs | `Worker` |
| Worker feedback, `agents/worker.rs` | the feedback file (`last_comment_id`) | read comments, run the model, inject follow-ups, merge, push, answer, record | discussions, git, model runs | `Feedback` |
| Reviewer, `agents/reviewer.rs` | its lease and where it came from | recover, list, claim, review, comment, approve or merge, release | claims, discussions, labels | `Reviewer` |
| PMO, `agents/pmo.rs` | the state file (held issue, comment cursor), the split checkpoint | hold or pick an issue, plan, ask, publish, split, let go | claims, labels, comments, issues | `Pmo`, `Split` |
| QA, `agents/qa.rs` | last tested commit of each branch | test a commit, file issues, record it | issues | `Qa` |
| Ops, `agents/ops.rs`, `ops/grafana.rs` | history of filed errors | scrape logs, file issues, serve `grafana_query` | bus, issues | `Ops`, `Fleet` |
| Sandal, `agents/sandal.rs` | a pool with one VM per session | boot, run a call, reap, close | bus, threads, VM processes | `Sandal` |
| Subagents, `agents/subagent.rs` | session table, clients | spawn, poll, message, kill | bus, lifecycle notices, ACP children | `Subagents` |
| Web, clerk | browser, memory file | serve a tool | bus | `Fleet` (the serving) |
| Bus, `core/bus.rs` | routes, contexts, listeners | register, request, respond, drop of an inbox | mutex and condition variable, channels | `Bus` |
| Supervisor, `core/supervisor.rs`, `runtime.rs`, `agent.rs`, `periodic.rs` | health, restart delay, schedule | start, restart, schedule, shut down | threads, atomics | `Supervisor` |
| Tool serving, `core/tools/ssh.rs` | one thread and one inbox per adopting agent | adopt, serve, drop | bus | `Fleet` |
| Model runs, `core/model/breaker.rs`, `acp/runtime.rs`, `core/agent/model.rs` | failures per endpoint, the child and its session | prompt, retry, respawn, repair, give up | child processes, a global counter | `ModelRun`, `Resume` |
| ACP client, `core/model/acp/client.rs` | pending requests, writer and reader threads | call, answer, close | pipes, threads | `AcpClient` |
| Harness server and loop, `harness/acp.rs`, `agent_loop.rs`, `context.rs`, `session_store.rs` | sessions, conversation context, snapshot, marker | prompt loop, tools, eviction, restore | ACP, HTTP, files | `AgentLoop`, `Resume` |
| Shell jobs, `harness/tools/shell.rs` | job table of a session | start, poll, kill, clear | threads, processes | `Jobs` |
| Auth provider, `harness/auth_provider.rs` | cached headers, lock file, result file | get headers, run the provider | file lock between processes | `AuthFlight` |
| State files, configuration, forges, git, UI | - | parsing, I/O, formatting | - | none (section 7) |

**What is hard, and what each part must get right**

* *Claim protocol.* Reads of labels lag behind writes, a call that errors may have taken effect, the agent
  may stop between any two calls. At most one agent may own a resource; a contest must be decided; a loser
  must not leave its label behind.
* *Worker routing.* One issue's state is spread over claim label, `in-progress`, session file, merge request
  and `active`; every release routine is a sequence of calls that may stop halfway, while humans relabel and
  close and other workers screen the same list. No two workers on one issue; what is left halfway must be
  recovered by somebody.
* *Feedback.* Reviewers write while a run is in progress. What is recorded as seen must have been seen; the
  worker must not answer itself; it must not say it fixed what is not pushed.
* *Reviewer, PMO, QA, Ops.* Cycles of forge calls around one model run. Their memory (a label, a state file,
  a checkpoint, a history) is written before or after what it records, and a stop can come between. One
  reviewer per merge request, and none that talks over its own open discussion; no comment of a human passed
  over; a split that is neither repeated nor left half done; no finding lost.
* *Bus and supervision.* A caller waits for a route that is about to appear, or for a provider that is
  restarting, shutting down, or waiting for the caller. Nobody may wait for ever, and everything must stop.
* *Model runs.* All agents of an endpoint share a counter of failures; a retry may meet a fresh session that
  was never told the task; a child that returns must go on with its own conversation. The client is closed
  by whichever of four threads lets go of it last.
* *Context.* Strict endpoints reject a request in which a tool call and its output do not meet, whatever was
  evicted, injected or restored in between.
* *Sandal, subagents, jobs, auth.* A table, a reaper and threads that each look an entry up, let go of the
  table and go on; processes that die with a lock.

## 2. The modules

| Module | Models | Composes |
|---|---|---|
| `Lease` | what a claim promises: one owner, handed over through nobody | - |
| `Claim` | `claim.rs`, each agent a process, each forge call a step | implements `Lease` (`INSTANCE Lease WITH owners <- ...`) |
| `Worker` | the routing cycle of several workers over shared issues | states a claim attempt by its verdict; `Claim` has the details |
| `Feedback` | the feedback flow of one worker on one merge request | - |
| `Reviewer`, `Pmo`, `Split`, `Qa`, `Ops` | the cycles of these agents | `Pmo` takes a split as one step; `Split` has its calls |
| `Bus` | `bus.rs` | - |
| `Supervisor` | one thread per instance: `run_supervised`, `run_from`, guard, scheduler | - |
| `Fleet` | instances that serve, adopt ssh, and call each other | `Bus` + `Supervisor` + ssh serving |
| `ModelRun` | runs of several agents over one endpoint, their retries and repairs | runtime + breaker + structured output |
| `AcpClient` | one connection: agent, prompt, writer and reader threads, the child | - |
| `Resume` | which conversation a task is given after exits, stops and rotations | runtime + harness server + session files |
| `AgentLoop` | one conversation: loop, context, request, snapshot | loop + context |
| `Jobs`, `AuthFlight`, `Subagents`, `Sandal` | the tables and locks of these parts | - |
| `ClaimProofs`, `WorkerProofs`, `FleetProofs`, `FeedbackProofs` | the proofs about the module each extends | - |
| `RuntimeProofs`, `SessionProofs`, `ReviewerProofs`, `ServiceProofs` | the proofs about the parts of `Components` | - |
| `MCClaim`, `MCWorker`, `MCFleet` | values of the constants for TLC | - |
| `Components` | the thirteen parts that share no state, one moving at a time; their parameters are its CONSTANTS | all of them, as instances; see section 3 |
| `MCComponents` | values of these constants for TLC | - |

A definition named as *mutant* in a comment is not part of a model: it is the changed form of the definition
below it, and the named property must fail with it (`PROJECT.json`, "mutants").

### Claim

The forge is `since` (which add event put an agent's label there, 0 if absent), `lag` (ticks for which a
read may still show the old state of that label) and `nextId`. The actions are the calls: `Precheck`,
`AddLabel`, `VerifyAdd` (after an add that reported an error), `SettleRead` and `Order` (two reads, so that
a rival can act in between), `RemoveLabel`, `VerifyRemove`, `Recover`, `Release`, `Preserve`, and
`Shutdown`, `Crash` and `Restart` at any point. `Tick` is time: it counts down sleeps and lags and is always
possible, so a call may take arbitrarily long, while a sleep is never cut short. `owned` is a history
variable: the agent won or recovered, and its label is still there.

Left out: a call that reports an error and takes effect only later (an error has taken effect or never
will), and humans who edit claim labels.

### Worker

One action per function that reads or writes the forge or a session file; a release routine is a sequence of
calls (`job`), stepped one at a time, so that it can be cut anywhere. `Kill` loses everything but the forge
and the session files; `RequestShutdown` lets the loops that test the flag see it. The claim attempt is one
label added, one verdict, one label removed: the earliest label always has a chance, a contested one may
also lose, which is what `Claim` shows the protocol to do.

Left out: git commands on the worker's clone (their failures are `Fails` of the step they belong to); two
merge requests for one issue (so the recorded merge request number is abstracted to "there is one"); merge
requests of humans labelled for a worker; session files without an agent id (`try_adopt_orphaned_session`);
the idle state after a model endpoint was given up; 404 answers. The set of candidates is read at the start
of a poll, as the listing is.

### Feedback

A note's id is its place in `notes`. A reviewer may comment plainly, open a resolvable thread or reply in
one, before or between any two of the worker's calls. `ReadMr` to `Record` are the calls of
`handle_mr_comments` in order; `FinishGit` is merge, push and their outcomes. `Fetch` is `get_mr_comments`,
which answers an empty list when the fetch fails, at the start of a run and again for its record: the run
then works without the comments, and the record keeps the id it had. The model may leave conflict markers in
any run. `clash` is the real conflict with the target, `reported` the forge's belated view. The rest is
history: `shown` is what the latest run, and `handled` what any run that went on to answer, put before the
model; `missed` is what such a run was begun without and never shown; `record` tells whether the latest run
recorded what it could read, a stale id, or nothing.

### Bus, Supervisor, Fleet

A caller's state in `call` follows `AgentBus::request`: looking up the route, asleep on the condition
variable, sending, waiting. `Register`, `NotifyAll` and the drop of an inbox are one step each, as the
routes' mutex makes them. `phase` follows an instance's thread through `run_supervised`, `run_from` and the
scheduler; a failing hook is `Fault`, and a panic unwinds through the guard. In `Fleet` an agent *works*
(runs model sessions that may call the tools they were offered when the session was opened), *owns* a route
it serves from its periodic task, *adopts* ssh served by a thread of its own, or several of these.

Left out: durations; context channels and lifecycle listeners; a panic of `on_shutdown` while already
unwinding (the process aborts); a panic of the ssh thread; two tool calls of one session at once; calls made
by a handler; the forced exit five seconds after the signal.

### ModelRun, AcpClient, Resume

`ModelRun` has one record per agent, `run`: where its task loop is, both ladders of retries, the repair
turns left. `Send` to `BackoffEnds` are the branches of `run_task_loop`; the breaker is `failures` and
`gaveUp`, which every agent of the endpoint reads and writes. `link` says whether the child lives and what
its session was told, which is what a repair prompt depends on. `late` (in `run`) counts the attempts begun
after the endpoint was given up.

`AcpClient` gives each thread around one connection its own state: the agent's (`at`), the prompt thread's
(`prompt`), the writer and the reader (`conn`). `refs` is the reference count of the client, and dropping
the last reference closes stdin, in whichever thread that happens. The child may answer, call, print
something that is not JSON (`Garbles`), die, or stay when its stdin is closed (`Wedges`).

`Resume` follows a task from session to session: `talk` is which tasks a session's context file tells of,
`marker` the agent's file that names an interrupted session. Left out in all three: live follow-ups, vendor
extensions, wire formats, requests of the harness to its parent.

### AgentLoop, Jobs, AuthFlight

In `AgentLoop` `ctx` is the list of entries (user text, assistant text with or without reasoning, call,
output, nudge), `Prepare` is eviction and collapse, `Wire` what is sent to the endpoint, and `snap` the
context file a restart reads. Tokens are abstracted: whenever the budget might be exceeded, every outcome of
`enforce_budget` may follow.

`Jobs` is one session's job table: the turn thread starts, polls and kills, the main thread clears it when
the session is closed. `holder` is the table's mutex where it is kept across calls. `older` orders the
entries by `last_used`, whatever order the calls touch them in; pruning drops the oldest finished ones and
leaves at most `MaxFinished`, and as many fewer as the cap on the bytes of their output asks for (`keep`).

In `AuthFlight` harness processes ask for headers, one takes the lock file and runs the provider, the others
wait for what it publishes. A killed harness leaves its provider running (`OrphanEnds`). `Expire` ends the
life of published headers, `Lapse` that of a published error.

### Subagents, Sandal

`Subagents` has the hub thread (`hub`, one step between any two of its blocking calls), the callers with a
request in the inbox (`ask`), the table (`sub`), and a reader per client (`kid`). A caller's retirement is a
queued notice. `Sandal` has the run loop (`turn`), one thread for each call (`call`), the pool, and the VM
processes, which die or become idle at any time; `RunLoop` reaps, receives, looks up or boots; `Thread`
binds the VM's scope and runs the command. Left out: permissions, tool scopes, answer texts; images, file
transfer, VM options.

### Reviewer, Pmo, Split, Qa, Ops

`Reviewer`: `rev` is a process's place in its cycle, its lease, where the lease came from (acquired, or
recovered at build or in the cycle), the candidates it listed and has yet to screen. `Move` is what humans
and workers do to a merge request. The contest for a claim is one step with its possible outcomes; a lost
one may leave its label. A stop loses the process, the forge keeps the labels. `givenUp` is who idles because
its model endpoint was given up on (`GivesUp`, at any time): such a reviewer finishes the cycle it is in, with
a model run that fails, and begins no other, so it neither recovers nor releases a claim until its process is
restarted. Left out: worktrees, the title and conflict rules beyond their outcome, and which commit was
reviewed.

`Pmo`: `proc` and `run` are the process and its model session, `state` the saved issue and comment cursor;
`Inject` is the live poll of comments, `Ask` a question put to the humans. A human approves, answers,
comments, takes over, closes, and a worker may ask for the PMO's help. `stray` is a history variable: claims
that a process failed to learn of, on which `ClaimsAreHeld` promises nothing. The steps of a split are in
`Split`: the checkpoint (`file`), the children as the forge has them (`made`), the calls of `resume_split`
in order, maintenance of dependencies in later cycles, workers that take and implement children as soon as
they see them.

`Qa` records a commit as tested last of all (`history`); `Ops` saves its history once after the last issue.
In both the model run is one step that finds what is there, and every call may fail.

**Shared names.** `Components` instantiates these thirteen modules with their variables renamed where two
use one name (`at <- auth` and so on).

## 3. Runs

| Run | Instance | Question and answer |
|---|---|---|
| `claim` | 2 agents, 2 rounds, lag up to 2 ticks (all of the rounds), 3 add events, faults and interrupts | One owner, always with the earliest label; a lease is implemented; `Lost` means the label is gone; attempts end; the earliest contender is told an outcome other than a plain loss |
| `claim_earliest` | 2 agents, no lag, no faults | **Violated.** The loser removes its label between the winner's two reads and the winner backs off too |
| `worker_safe` | 2 workers, 1 issue, 1 stop, 1 kill, 2 human moves | One worker on an issue; what is tracked carries its label; without a kill `in-progress` does not outlive the claim |
| `worker_orphans` | 2 workers, 1 issue, 1 fault, 1 kill | No claim label stays orphaned on an open issue |
| `worker_watch` | 1 worker, 3 issues, 1 kill, 1 human move | The watch rotation reaches every merge request; the merge request of a closed issue is taken down |
| `worker_twice` | 2 workers, a kill while a losing label is still there | **Violated.** The sweep adopts the issue of another worker |
| `worker_freeze` | 1 worker, 1 kill | **Violated.** Killed between two calls of a release, it leaves `in-progress` for ever |
| `fleet` | worker and web, both with ssh; 2 calls, 1 passed deadline, 1 fault, shutdown at any time | One tool per name; no lost wake-up; no dead route; `on_shutdown` once; calls end; restarts work; all stop |
| `fleet_self` | worker and ops, 1 call each, no faults | **Violated.** A session waits for a tool its own blocked thread must serve |
| `feedback` | 2 comments, 3 notes, 1 target move, 2 faults, 1 kill | Comments made between runs are not lost and are shown, unless a run that could not fetch them answered; answers follow the push, unless a run without a conflict left markers; no self-trigger, unless the record could not be read. What the code does in the excepted cases is in section 5 |
| `feedback_lost` | 2 comments, no failures | **Violated.** A plain comment made during a run is recorded and never shown |
| `components` | thirteen components, one at a time (below) | see the next table |

### The run `components`

The thirteen parts share no state in memory: what one tells another goes over the forge, a file or a pipe,
and each module has the other side of that channel as its environment. Their product would only multiply
independent behaviours, so the run is their *sum*: `part` names the one that moves, `InX(...)` freezes the
rest, and each property says of which part it speaks. A state of the run is a state of one part; the 550,261
states are those of the thirteen instances, each explored completely. A liveness property has its part's
fairness as a premise.

| Property | Part and instance | What it says |
|---|---|---|
| `RepairsAreSound`, `RunsEnd` | ModelRun: 2 agents, 1 retry, 1 transport retry, 1 nudge | After a give-up a run begins at most one more attempt; a repair goes only to a session that knows the task; every run ends |
| `ClientIsSound`, `DisposeEnds` | AcpClient: 3 requests, 1 call of the child, garbled lines, no wedged child; AuthFlight: 3 harnesses, 1 kill | An answer reaches its own waiter; an idle child is killed only after its stdin was closed; one provider; disposal ends |
| `RunsAreNeeded` | AuthFlight | The provider runs again only when the last result no longer counts |
| `TalksKeepToTheirTask` | Resume: 2 scopes, 2 tasks, 3 sessions | No conversation of another scope; a task goes on with its own after its child died |
| `ContextIsSound` | AgentLoop: keep 1 text and 1 reasoning, 2 stuck signals, 2 prompts, 1 inject, 2 calls, 1 overflow | Each request answers each call it holds; the snapshot is what a crash would have to restore |
| `TablesAreCapped` | Subagents: 1 caller, 2 ids, 2 clients, 1 live, 1 turn; Jobs: 3 jobs, 2 finished kept | The cap on live subagents holds while answers, kills and ends race; a running job is not dropped |
| `OwnScopeOnly`, `NothingLingers` | Sandal: 1 session, 2 scopes, 2 calls, 2 VMs; Subagents | A command runs in a VM of its session and scope; no dead VM stays pooled; no subagent stays running after its client ended |
| `EachPartOnce`, `SplitsFinish` | Split: plans of two parts with and without dependencies, 1 break | An interruption doubles at most one child; the parent is marked when all parts exist; a split is finished |
| `NothingSlipsPast`, `ClaimsAreHeld` | Pmo: 2 PMOs, 1 issue, 1 fault, 1 stop, 1 move | No human comment unseen below the cursor; a claimed issue is held or let go |
| `OneReviewAtATime`, `LeftoversGo` | Reviewer: 2 reviewers, 1 merge request, 1 fault, 1 kill, 1 move, give-ups at any time | One reviewer; none before its own discussion is resolved; a claim is released in the end, unless it is that of a reviewer whose endpoint was given up on |
| `FindingsAreFiled` | Qa: 2 branches, 3 commits; Ops: 2 errors; 1 fault, 1 kill each | Tested means filed; filed again only when the history was lost |

**Bounds.** Two agents are the least that contend, and every argument of the protocol is about a pair (the
proofs cover any number). Three add events let one agent lose, come back and meet the other again. The lag
equals the sum of the settle rounds, the largest for which the protocol is safe. Two workers and one issue
give every interleaving of routines over one set of labels; three issues are the least for which a rotation
can skip one. One kill or fault is enough for every cut of one routine; what two overlapping failures do is
not explored there. The fleet has every role twice or once with a counterpart: two ssh registrants, one that
serves and one that calls, and a second call that can meet what the first left behind. In the feedback run
one early and one late comment with a reply, or one comment with two replies, give every order of comment,
read and record; with two faults a failed fetch at the start of a run meets a failed fetch of its record, or
a run that fails and is begun again.

In `components` each part has the least instance in which its hazard occurs: two agents share a breaker and
one more failure gives the endpoint up; two requests overlap and a third follows a late answer; three
harnesses are a leader, a waiter and one that comes after a leader was killed; a second job or subagent
meets a full table; two scopes are a wrong one and a right one; two VMs are the old and the new one of a
session; a dependency may point forward or backward; two reviewers or PMOs contend for one thing. The retry
counts are smaller than the code's (the ladders are loops whose turns do not differ).

**Where the bounds matter.** `MaxAdds`, `MaxFaults`, `MaxStops`, `MaxKills`, `MaxMoves`, `MaxCalls`,
`MaxLate`, `MaxComments`, `MaxNotes`, `MaxTasks`, `MaxSessions`, `MaxRequests`, `MaxPrompts`, `MaxInjects`,
`MaxBudgets`, `MaxTurns`, `MaxCommits` and `MaxBreaks` stand only in guards of environment actions, of a
failure, or of an agent's own new attempt. `MaxRetries`, `MaxTransport`, `MaxNudges`, `StuckLimit`,
`MaxFinished`, `MaxLive`, `KeepTexts` and `KeepReasons` are limits of the code.

**Fairness.** Weak fairness of each agent's own steps: a thread that can run does, and a forge call returns.
Nothing is assumed of failures, kills, shutdown, or of the 30-minute bus deadline, so `CallsAreAnswered`
does not rest on it. `ContestIsDecided` and `AttemptsEnd` also need time to pass. `ClosedTakesMrDown` and
`WatchGoesRound` are conditional on the worker coming round at all: a worker that is kept busy by issues, or
is killed and not started again, promises nothing. In `components`: a prompt is answered or fails
(`RunsEnd`; the code has timeouts for it); the threads of a connection run and a child that is not wedged
exits when its stdin is closed (`DisposeEnds`); hub, readers and running turns go on, a VM nobody uses
becomes idle (`NothingLingers`); the PMO's and the reviewer's cycles come round (`SplitsFinish`,
`ClaimsAreHeld`, `LeftoversGo`), the reviewer's while its endpoint is not given up on. Only `ClaimsAreHeld` assumes anything of humans: that a plan in review is
approved and a question answered, for the PMO holds its issue until then.

**Deadlock** is checked where the system can never stop (Claim, Worker) and switched off where it may: after
shutdown in Fleet, when nobody comments any more in Feedback, and in `components`, whose parts come to rest
when their bounds are used up.

## 4. What is proved

Everything here is for any values of the constants; "without further assumptions" means beyond the named
`ASSUME`s of the modules, which are typing and finiteness.

**`ClaimProofs`**, for any finite set of agents:

* `TypeCorrect`: `Spec => []TypeOK`, and `LossesAreClean` (`CleanLoss`, an action property): an attempt that is
  reported lost or interrupted after it added its label has removed it, unless a lagging read was wrong about
  it. Both without further assumptions.
* `OwnersComeFirst`, `Exclusion`, `Refinement`: an owner's label is the earliest; two agents never hold a
  resource; the protocol implements `Lease`. Each under `Timely`: the propagation delay is at most the sum
  of the settle rounds, and at most the pause before an idle agent looks again (a restart included), and the
  event log is not empty. That is the code's design assumption made explicit; with a longer delay the claim
  is false.

`MutualExclusion` is not inductive: that nobody holds a resource now says nothing about two contenders that
are about to win. The strengthening `IInv` says why they cannot:

1. add events have distinct, increasing ids, and what was added earlier becomes visible no later
   (`DistinctIds`, `EarlierIsVisible`);
2. for a contender, the rounds that are left outlast what is left of its own label's delay
   (`SettleOutlastsLag`), so in the last round its own label is fully visible, and with (1) so is every
   earlier one (`LastReadIsComplete`);
3. hence who wins has the earliest label, also against agents that have not looked yet; and an agent that
   returns to a label it left has waited for it too (`PauseOutlastsLag`), so `recover` is a complete read;
4. an owner's label stays until the owner removes it, and later labels have later ids (`OwnerIsEarliest`,
   `HolderIsOwner`).

The proofs of preservation go by what a step does to the forge (`ForgeStep`) and by the fact that a step
touches only its own agent (`StepIsLocal`). `Refinement` maps `owners` to the agents with `owned`.

**`WorkerProofs`**, for any number of workers, issues, shutdowns, kills and human moves: `OnlyOneWorker`
(`OneWorker`) and `WorkIsClaimed` (`ActiveIsClaimed`, with `TypeOK`), under `SafeSetting`: no call fails and
nobody is killed with a contested label, the setting of `worker_safe`. A worker that runs a model has a label
on the issue with no older one beside it, and labels are ordered (`Ordered`), so two workers there are one.
Keeping that takes, of each worker (`Sound`): what it tracks carries its label (`ActiveOK`); a routine that
returns to where the worker goes on with what it tracks lets go of it or is about another issue
(`RoutineOK`); what a collection found is claimed, is not visited again and is not being released, what the
sweep has yet to visit is claimed, and a candidate that carries the worker's own label is not tried
(`LoopOK`); a label that is not the earliest is in a contest or about to be removed (`ContestOK`). A step
touches only its own worker's entries and labels (`ShapeOfCycle`, `Others`), so one lemma per action shows
that its worker is left sound.

`MarksAreHeld` (`InProgressIsHeld`), in the same setting: an open issue marked in-progress, which every worker
skips, is claimed or about to be unmarked. It is inductive only with who is answerable for the mark
(`MarksKept`): a worker *keeps* an issue covered (`Keeps`) by its claim, unless it is about to drop that
without a look at the mark, that is after a contest, a win it has yet to confirm or a run that ended without
a merge request; and by a routine, until that has unmarked or closed the issue (`RestUnmarks`). No step takes
an issue its worker kept into the open, and one that marks an issue keeps it (`KeepStep`, by `KeptCycle`).
That a routine after a run is about the run's issue is part of the invariant (`EndsRun`).

**`FleetProofs`**, for any agents and routes. `ToolsAreDistinct`, `NoLostWakeUp`, `HookRunsOnce` without
further assumptions: `OneToolPerName`, `NobodySleepsPastARoute`, `OnShutdownOnce`. The invariant `IInv`
joins the types of the bus, the supervisor and the fleet with what makes each inductive: `HooksOnce` (where
an attempt stands tells how often its hook has run), `NoOverlap` (no two registered routes offer one tool),
`InRole` (a task runs only where it was planned), `Counted` (a call under way was counted), and the sleeping
condition itself, which is inductive because looking up and going to sleep happen under the routes' mutex.
Steps of the fleet are first mapped to steps of the bus and of the supervisor (`BusStep`, `SupStep`), so
that each conjunct is argued once for the few steps that touch it. `RoutesKeepToTheirServers` needs
`RoutesApart`: no two registrants use one route name. ssh is registered under the agent's id and a served
tool under the agent's kind; two agents of one kind share a name, the second's registration is refused, and
its build fails.

**`FeedbackProofs`**, for any number of comments, failures and kills, without further assumptions:
`AnswersAreBacked` (`RepliesFollowPush`), `EarlyIsHandled` (`NothingEarlyIsLost`), `RunsHaveACause`
(`NoSelfTrigger`). The exceptions these properties name are necessary: section 5. The invariants: an early
comment has been shown by the time the model works, or was not fetched when the run began; it is handled or
missed when the run goes on to answer, and so is every early one below the saved cursor (`EarlyIsCarried`);
replies are posted while the run has recorded nothing, and once it recorded what it could read all of them
are below the cursor (`RepliesAreRecorded`); what is changed and not pushed is stuck, and a stuck run that
set out to resolve a conflict does not answer (`UnpushedIsStuck`); all over `TypeOK` and the room the reply
loop keeps (`RoomForReplies`).

The proofs about the parts of `Components` state the properties of the run `components`. A step of the sum is
a step of one part or leaves it alone (`StepsApart`), so each part has an inductive invariant over its own
variables.

**`RuntimeProofs`**, for any number of agents, requests, harnesses, scopes, tasks and sessions.

* `RepairsStaySound` (`RepairsAreSound`). `OnceLate`: a run that counted a late attempt has seen the give-up
  and only carries on to its end. `Tells`: wherever a repair can follow, the child's session was told the
  task; the ladder's rung and the link are one statement because a retry may replace the child in between.
* `ClientsStaySound` (`ClientIsSound`). `AnswersMatch` alone does not say who drops the last reference:
  `HoldersUseIt` says a thread past its own use of the client holds it no longer, `WriterFirst` that the
  writer has ended before anybody joins the reader, and before a child whose client nobody holds is given
  its grace; from the two, an idle child is killed only with its stdin closed. The part of `AuthFlight`:
  `InsideHasLock`, and `RunsAreWaitedFor`, which sets the providers of killed harnesses apart.
* `ProviderRunsWhenNeeded` (`RunsAreNeeded`, an action property) adds that the published file tells the last
  outcome (`FileHasOutcome`, `RunClearsOutcome`).
* `TalksStayApart` (`TalksKeepToTheirTask`). A task in its session is in the one the marker names
  (`MarkedSession`); a session not yet minted tells of nothing, and what the marked one tells of has the
  marker's scope (`TalksAreMade`); a task that was heard stays in the marked session until it rotates that
  away, and no child that is up would clear the marker (`HeardIsMarked`), so what a dead child leaves is
  found again.

**`SessionProofs`**, for any sessions, scopes, VMs, calls, callers, subagents and jobs.

* `CommandsStayInScope` (`OwnScopeOnly`): a command runs on a VM booted for its session and its scope. The
  invariant says whose VM a pool entry (`PoolIsOwned`) and a call that has looked one up (`HeldIsOwn`) may
  name, and that the loop boots only for a call that still waits (`TurnIsQueued`).
* `TablesStayCapped` (`TablesAreCapped`), two counting arguments. Subagents: the cap holds while the hub is
  between the check of it and the insertion, because the place is free until then (`SpawnHasSeat`) and the
  target of a turn that is about to start still open (`FireHasTarget`); every other step opens nothing. Jobs:
  pruning keeps the last `keep` entries of a total order, so at most `keep` (`FewAreLast`, by induction on
  the size of the set), whatever order the entries were touched in; no running job is dropped from the table
  (`RunningIsListed`).
* `ContextStaysSound` (`ContextIsSound`). The context is `Orderly`: every result or edit follows the call it
  answers with no other call in between, and only calls are numbered. Eviction picks a subsequence that keeps
  the calls (`PickedInOrder`), a collapse keeps no call and no result, what is stripped from an entry or
  changed by the snapshot is neither its kind nor its number (`AlikeIsOrderly`), and a restore loads what the
  snapshot wrote. Of such a context each request answers each call at once (`RequestIsAnswered`). The request
  is a recursive function on the prefixes of the context: that it exists (`MessagesExist`) and what it yields
  are shown of the least prefix that would be an exception. The file is current wherever the loop waits
  because every step that changes the context saves it or goes on to one that does.

**`ReviewerProofs`**, for any number of reviewers and merge requests: `ReviewsAreExclusive`
(`OneReviewAtATime`). That one reviewer works on a merge request now does not follow from itself: two leases
on one merge request would have to be excluded, also by a process that restarts and finds its label.
`LeasesDiffer` says no two processes hold a lease on one merge request; it is kept because a lease begins
only where no other label is (`Sound` ties lease, label and place in the cycle), and a lost contest or a
killed process leaves labels, never leases. `Answered` says why no second review follows: a merge request
with an own open discussion keeps its lease only in the steps that let it go.

**`ServiceProofs`**, for any plans, issues, PMOs, branches, commits, errors, faults and kills.

* `PartsAreCreatedOnce` (`EachPartOnce`). After a break the checkpoint tells what the memory told
  (`MemoryIsFile`); what the forge has and the checkpoint does not is at most the one child that was created
  and not yet saved (`UnsavedIsNext`), the others stand in it in the order of the plan (`RecordedInOrder`);
  each double is paid for by a break (`BreaksPay`). Linking begins when all are recorded
  (`LinkedWhenComplete`), so a processed parent has them all (`AllMade`).
* `CommentsAreSeen` (`NothingSlipsPast`, an action property). When a decision is applied that did not see
  every human comment, one of them is beyond the cursor (`UnseenIsNews`), which the end of the session leaves
  there; the cursor in question is that of the session's own issue (`FileFollowsTalk`, and `WonIsHeld`
  for the step between the claim and the session).
* `FindingsStayFiled` (`FindingsAreFiled`). Qa: what a branch's history tells as tested was found clean, filed,
  or lost with a failure that was counted (`ShasAreCovered`, through every step between the model's answer
  and the save). Ops: an issue is filed again only if its run forgot it, and each such loss is paid for
  (`Remembered`, `LossesPay`); during a run the history in memory is ahead of the saved one
  (`HistoryIsAhead`).

Every invariant and action property of a passing run is thus stated by a theorem. Only model-checked, on the
instances above, are the liveness properties, which the proof system cannot treat (neither fairness nor
ENABLED).

## 5. Differences between code and documentation

Five runs end in a counterexample; `PROJECT.json` ("findings") quotes the line each one contradicts:
`claim_earliest`, `worker_twice`, `worker_freeze`, `fleet_self`, `feedback_lost`. Others were met while
modelling and have no run of their own:

* `ClaimLease::recover` and acquisition both give up when another label is present: two labels left by two
  killed agents block the resource until one of them adopts it by the sweep or a human removes one.
* An attempt that loses but fails to remove its label returns an error and leaves the label; a worker that
  restarts with a contested label deletes its session and keeps the label.
* When the event log is empty, the labels' names decide (`claim.rs`:350); an owner can then be overtaken by
  a later label. `Timely` excludes it.
* Both recovery loops skip an issue that left the scope while the worker was down, and leave its claim.
* An attempt without a merge request resets `active`, and the rotation starts over: while a candidate keeps
  being offered and given up, only the first watched merge request is served.
* A reviewer whose release failed and whose model endpoint is then given up on keeps its claim label until
  its process is restarted: the cycle returns before it recovers or releases anything (`reviewer.rs`:591-601).
* A reply in a thread that was resolved triggers no run when there are no other comments.
* `HealthState::Stopped` says "this instance will not run again" (`runtime.rs`:31), but the guard sets it
  also before a restart.

### Shown by a configuration beside the module

Each of these is a property of its module that TLC violates with `tlc -config X.cfg X.tla`. A cfg states one
of them; the others are there as comments, to be exchanged with it.

| Configuration | Property | What the code does |
|---|---|---|
| `Jobs.cfg` | `CallsReturn` | Killing a job whose exit was already seen calls `poll` with the guard of the table in scope (`shell.rs`:338-341), which locks the same mutex: the turn thread never returns |
| | `NothingOutlivesClose`, `ReportsAreTrue` | A turn that is still in a tool call when its session is closed starts a job in the cleared table ("nothing they started may outlive the session"); a job that a signal ended has no exit code (`shell.rs`:272) and is reported as running for good |
| `AcpClient.cfg` | `StdinClosesFirst` | Disposal drops its client first so that "a live child exits through its own shutdown path" (`acp/runtime.rs`:74); a cancel or shutdown during a prompt gets there while the prompt thread holds the client too, so the child is killed with its stdin open |
| | `PromptsEnd` | A prompt is to end with "ACP reader stopped before response" (`acp/client.rs`:302); the reader leaves `pending` as it is, and the waiting thread keeps the client that owns it alive. A line that is not JSON ends the reader too |
| | `DisposeEnds` with `Wedges = TRUE` | A child that stays when its stdin closes is waited for without limit on the path of `acp/runtime.rs`:58-62 |
| `AuthFlight.cfg` | `OneProvider` | A killed harness releases the lock while the provider it started still runs (`auth_provider.rs`:87-94) |
| `Reviewer.cfg` | `ResumesInPlace`, `OneIssuePerMr` | A claim found at build is released before the candidates are listed, not "resumed in place" (`reviewer.rs`:613-616, 1606-1608); a stop between creating and linking an issue leaves a merge request with two |
| `Feedback.cfg` | `OnlyHandledIsGated` | "Only handled plain comments are gated" (`worker.rs`:2918); a failing fetch is an empty list (`gitlab.rs`:572-578), so a run begun for a conflict or a discussion works without the comments, and its record, from a later fetch that succeeds, silences them |
| | `HandledDoesNotTrigger` | "so they cannot re-trigger it" (`worker.rs`:2919-2920); when the fetch of the record fails, the saved id stays the one before (3340-3345), and the run's own replies, or the comment it has handled, start another |
| | `RepliesDescribePushedCode` | Replies are withheld because "answering the reviews now would describe code that is not pushed" (`worker.rs`:3454-3455); a run that set out to resolve no conflict and leaves markers is not pushed and answers nevertheless (3562) |
| `Sandal.cfg` | `LiveVmsArePooled` | A call that lost its VM removes its session's entry whichever VM is in it (`sandal.rs`:893): a VM another call booted meanwhile lives outside the pool, where neither `reap_idle` nor `close_all` finds it (501-505) |
| `Pmo.cfg` | `PlanningIsHeld` | `pmo-planning` is documented as the mark of an issue in planning (`labels.rs`:8-11); an issue in planning that cannot be fetched for once is let go with the label on (`pmo.rs`:1076-1088, 976-985) |
| `AgentLoop.cfg` | `OutputsFollowTheirCall` | A nudge is pushed between a call and its output (`agent_loop.rs`:613-618), contrary to `context.rs`:1523-1526 |
| | `ReasoningSurvives`, `PromptsSurvive` | A restored session is not told what its protocol replays (`acp.rs`:480-486), so signed reasoning is trimmed; a prompt accepted just before a crash is not in the snapshot, so it does not survive that |
| `Resume.cfg` | `OnlyInterruptedResumes`, `OneTaskPerTalk` | The marker outlives the end of a task: a child that exits between two tasks of one scope is replaced by one that restores the finished conversation. Of two tasks without a scope, the later may adopt what a stop left of the earlier |
| `Subagents.cfg` | `LeftBehindAreClosed` | A subagent spawned after its caller's retirement was handled stays open |
| | `KilledStaysKilled`, `FailedWithItsClient` | An answer that was under way marks a killed subagent completed; a reader that ends marks the running sessions of all clients as failed (`subagent.rs`:1123-1133) |

With the constants of `MCComponents`, two more are violated: `DependentsWait` of `Split` (a child is
visible, or loses `do-not-implement`, before it waits for its dependency, `pmo.rs`:864-873, 885-889) and
`EveryBranchIsTested` of `Qa` (the first branch that is not finished is taken, `qa.rs`:499-505, so a branch
that changes all the time starves the others).

### Met while reading, without a property

* Auth provider: a provider that leaves a process behind with its stdout open makes the join of the reader
  wait for it, contrary to `auth_provider.rs`:55-58; headers that expire within the margin of 60 seconds
  make every call run the provider again.
* Reviewer: a merge is not bound to the commit that was reviewed; `reviewer-approved` stays after later
  pushes; `not-for-ai` and Draft are read once for a whole cycle; linking a created issue overwrites an edit
  of the description made since it was read.
* PMO: its own plan comment counts as a human's; a stop in the middle of a session loses a comment that was
  injected into it; a plan whose posting fails leaves `pmo-planning`; an issue that waits for its approval
  keeps the PMO from all others; an `Immediate` error during a split keeps the claim.
* Split: when the best-effort removal of `do-not-implement` fails, the child is blocked for good; circular
  `depends_on` are not rejected (`pmo.rs`:91-123); a checkpoint that cannot be read is set aside, and the
  issue is split again.
* A request of a harness to its parent times out after 35 minutes, the bus behind it after 30.

## 6. Plan

The order is by what a defect costs and how little a test can reach it.

1. Done: `Lease`, `Claim`, `Worker`, `Bus`, `Supervisor`, `Fleet`, `Feedback`.
2. Done: `ModelRun`, `AcpClient`, `Resume`, `AgentLoop`, `Jobs`, `AuthFlight`, `Subagents`, `Sandal`,
   `Reviewer`, `Pmo`, `Split`, `Qa`, `Ops`, composed in `Components`, which `MCComponents` checks.
3. Done: proofs for `Claim`, `Worker`, `Fleet` with `Bus` and `Supervisor`, `Feedback`, and for each part of
   `Components`.
4. Left, to be modelled: live follow-ups of the ACP runtime; the worker's clarifications and worktrees;
   requests of the harness to its parent; two overlapping failures in the worker.

## 7. Not modelled

About half of the repository's lines are tests, which the modules are checked against and do not translate.
Of the rest, most has no state that several actors share and no order of steps that could go wrong: request
and response formats of the forges and the model protocols, streaming parsers, prompts and templates,
schemas, configuration and its validation, git command lines, terminal output, file and process wrappers,
matching and editing of text within one tool call. A model of these would be a transliteration, and unit
tests reach them. The share of the lines the modules map is therefore small by nature; the parts with
control over shared state are what is modelled.

`PROJECT.json` ("components") gives the reason for each part: Browser, Agent state and artifacts, Git,
Forges, Agent settings, Registry, Terminal output are not modelled at all (their outcomes, failures
included, are inputs of the agents' modules), and what is left out of the others stands beside each of them.
