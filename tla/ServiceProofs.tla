--------------------------- MODULE ServiceProofs ----------------------------
(***************************************************************************)
(* Proofs about the agents that file, split and triage issues, for every   *)
(* value of the constants: ops, QA, the PMO's splits and its triage.       *)
(***************************************************************************)
EXTENDS Components, SequenceTheorems, TLAPS

LEMMA StepsApart ==
    [Next]_vars =>
        /\ [Ops!Next]_opsVars
        /\ [Qa!Next]_qaVars
        /\ [Split!Next]_splitVars
        /\ [Pmo!Next]_pmoVars
BY DEF Next, vars, InModelRun, InAcpClient, InAuthFlight, InJobs, InResume, InAgentLoop,
       InSubagents, InSandal, InSplit, InPmo, InReviewer, InQa, InOps
-----------------------------------------------------------------------------
(* Ops.                                                                    *)

Scrapes == [pc : {"idle", "fetch", "analyse", "create"}, window : SUBSET Errors,
            context : SUBSET Errors, todo : SUBSET Errors, history : SUBSET Errors,
            made : Nat]

Lost == ofaults + okills

(* What the next cycle will not propose: the file names it, or the history *)
(* that is about to be saved does.                                         *)
Remembered(e) == e \in saved \/ (scrape.pc = "create" /\ e \in scrape.history)

(* The history in memory is never behind the file, and is the file's until *)
(* an issue was created.                                                   *)
HistoryIsAhead ==
    /\ scrape.pc \in {"analyse", "create"} => saved \subseteq scrape.history
    /\ scrape.pc = "analyse" => scrape.history = saved
    /\ scrape.pc \in {"fetch", "analyse"} => scrape.made = 0
    /\ scrape.pc = "create" /\ scrape.made = 0 => scrape.history = saved

(* What is still to be filed is in no history.                             *)
TodoIsNew == scrape.pc = "create" => scrape.todo \cap scrape.history = {}

(* Each creation but the first of an error has a loss behind it, and while *)
(* the error is not remembered so has the first.                           *)
LossesPay ==
    \A e \in Errors : times[e] <= (IF Remembered(e) THEN 1 + Lost ELSE Lost)

LogsInv == Ops!TypeOK /\ HistoryIsAhead /\ TodoIsNew /\ LossesPay

LEMMA OpsTypes ==
    Ops!TypeOK <=>
        /\ issue \in SUBSET Errors /\ saved \in SUBSET Errors
        /\ times \in [Errors -> Nat]
        /\ scrape \in Scrapes
        /\ ofaults \in 0 .. MaxFaults /\ okills \in 0 .. MaxKills
BY DEF Ops!TypeOK, Scrapes

LEMMA OpsTypesAfter ==
    /\ issue' \in SUBSET Errors /\ saved' \in SUBSET Errors
    /\ times' \in [Errors -> Nat]
    /\ scrape' \in Scrapes
    /\ ofaults' \in 0 .. MaxFaults /\ okills' \in 0 .. MaxKills
    => Ops!TypeOK'
BY DEF Ops!TypeOK, Scrapes

LEMMA ScrapeKinds ==
    /\ Ops!Idle \in Scrapes /\ Ops!Idle.pc = "idle"
    /\ \A x \in SUBSET Errors :
          LET d == [Ops!Idle EXCEPT !.pc = "fetch", !.context = x]
          IN d \in Scrapes /\ d.pc = "fetch" /\ d.made = 0
    /\ \A c \in Scrapes, e \in Errors :
          LET d == [c EXCEPT !.todo = @ \ {e}, !.history = @ \cup {e}, !.made = @ + 1]
          IN d \in Scrapes /\ d.pc = c.pc /\ d.todo = c.todo \ {e}
                /\ d.history = c.history \cup {e} /\ d.made = c.made + 1
    /\ \A c \in Scrapes, e \in Errors :
          LET d == [c EXCEPT !.todo = @ \ {e}]
          IN d \in Scrapes /\ d.pc = c.pc /\ d.todo = c.todo \ {e}
                /\ d.history = c.history /\ d.made = c.made
<1>1. Ops!Idle \in Scrapes /\ Ops!Idle.pc = "idle"
    BY DEF Scrapes, Ops!Idle
<1>2. ASSUME NEW x \in SUBSET Errors
      PROVE  LET d == [Ops!Idle EXCEPT !.pc = "fetch", !.context = x]
             IN d \in Scrapes /\ d.pc = "fetch" /\ d.made = 0
    BY DEF Scrapes, Ops!Idle
<1>3. ASSUME NEW c \in Scrapes, NEW e \in Errors
      PROVE  LET d == [c EXCEPT !.todo = @ \ {e}, !.history = @ \cup {e}, !.made = @ + 1]
             IN d \in Scrapes /\ d.pc = c.pc /\ d.todo = c.todo \ {e}
                   /\ d.history = c.history \cup {e} /\ d.made = c.made + 1
    <2>1. c.made + 1 \in Nat /\ c.history \cup {e} \in SUBSET Errors
            /\ c.todo \ {e} \in SUBSET Errors
        BY DEF Scrapes
    <2> QED BY <2>1 DEF Scrapes
<1>4. ASSUME NEW c \in Scrapes, NEW e \in Errors
      PROVE  LET d == [c EXCEPT !.todo = @ \ {e}]
             IN d \in Scrapes /\ d.pc = c.pc /\ d.todo = c.todo \ {e}
                   /\ d.history = c.history /\ d.made = c.made
    <2>1. c.todo \ {e} \in SUBSET Errors
        BY DEF Scrapes
    <2> QED BY <2>1 DEF Scrapes
<1> QED BY <1>1, <1>2, <1>3, <1>4

LEMMA ScrapeParts ==
    ASSUME scrape \in Scrapes
    PROVE  /\ scrape.window \in SUBSET Errors /\ scrape.context \in SUBSET Errors
           /\ scrape.todo \in SUBSET Errors /\ scrape.history \in SUBSET Errors
           /\ scrape.made \in Nat
BY DEF Scrapes

LEMMA InitLogsInv == Ops!ConstantsOK /\ Ops!Init => LogsInv
<1> SUFFICES ASSUME Ops!ConstantsOK, Ops!Init PROVE LogsInv
    OBVIOUS
<1>1. scrape = Ops!Idle /\ scrape \in Scrapes /\ scrape.pc = "idle"
    BY ScrapeKinds DEF Ops!Init
<1>2. ofaults = 0 /\ okills = 0 /\ MaxFaults \in Nat /\ MaxKills \in Nat
    BY DEF Ops!Init, Ops!ConstantsOK
<1>3. Ops!TypeOK
    <2>1. ofaults \in 0 .. MaxFaults /\ okills \in 0 .. MaxKills
        BY <1>2
    <2> QED BY <1>1, <2>1, OpsTypes DEF Ops!Init
<1>4. LossesPay
    BY <1>2 DEF LossesPay, Lost, Ops!Init
<1> QED BY <1>1, <1>3, <1>4 DEF LogsInv, HistoryIsAhead, TodoIsNew

LEMMA ScrapeGoesOn ==
    ASSUME Ops!ConstantsOK, LogsInv
    PROVE  /\ Ops!Context => LogsInv'
           /\ Ops!Fetch => LogsInv'
           /\ Ops!Analyse => LogsInv'
<1>0. /\ issue \in SUBSET Errors /\ saved \in SUBSET Errors
      /\ times \in [Errors -> Nat]
      /\ scrape \in Scrapes
      /\ ofaults \in 0 .. MaxFaults /\ okills \in 0 .. MaxKills
      /\ HistoryIsAhead /\ TodoIsNew /\ LossesPay
      /\ MaxFaults \in Nat /\ MaxKills \in Nat
    BY OpsTypes DEF LogsInv, Ops!ConstantsOK
<1>a. ASSUME Ops!Fault PROVE ofaults' \in 0 .. MaxFaults /\ okills' = okills /\ Lost' = Lost + 1
    BY <1>0, <1>a DEF Ops!Fault, Lost
<1>b. ASSUME Ops!NoFault PROVE ofaults' = ofaults /\ okills' = okills /\ Lost' = Lost
    BY <1>b DEF Ops!NoFault, Lost
<1>n. Lost \in Nat
    BY <1>0 DEF Lost
(* A step that files nothing and forgets nothing.                          *)
<1>k. ASSUME times' = times, Lost' \in {Lost, Lost + 1},
             \A e \in Errors : Remembered(e) => Remembered(e)' \/ Lost' = Lost + 1
      PROVE  LossesPay'
    <2>1. SUFFICES ASSUME NEW e \in Errors
                   PROVE  times[e] <= (IF Remembered(e)' THEN 1 + Lost' ELSE Lost')
        BY <1>k DEF LossesPay
    <2>2. times[e] <= (IF Remembered(e) THEN 1 + Lost ELSE Lost) /\ times[e] \in Nat
        BY <1>0 DEF LossesPay
    <2>3. CASE Remembered(e)'
        BY <2>2, <2>3, <1>k, <1>n
    <2>4. CASE ~Remembered(e)' /\ ~Remembered(e)
        BY <2>2, <2>4, <1>k, <1>n
    <2>5. CASE ~Remembered(e)' /\ Remembered(e)
        BY <2>2, <2>5, <1>k, <1>n
    <2> QED BY <2>3, <2>4, <2>5
<1>1. ASSUME Ops!Context PROVE LogsInv'
    <2>1. /\ scrape' \in Scrapes /\ scrape'.pc = "fetch" /\ scrape'.made = 0
          /\ issue' = issue /\ times' = times /\ saved' = saved /\ scrape.pc = "idle"
          /\ Ops!NoFault
        BY <1>0, <1>1, ScrapeKinds DEF Ops!Context
    <2>2. LossesPay'
        BY <2>1, <1>b, <1>k DEF Remembered
    <2> QED BY <1>0, <2>1, <2>2, <1>b, OpsTypesAfter DEF LogsInv, HistoryIsAhead, TodoIsNew
<1>2. ASSUME Ops!Fetch PROVE LogsInv'
    <2>0. scrape.pc = "fetch" /\ issue' = issue /\ times' = times /\ saved' = saved
        BY <1>2 DEF Ops!Fetch
    <2>1. CASE scrape' = Ops!Idle /\ Ops!Fault
        <3>1. scrape' \in Scrapes /\ scrape'.pc = "idle"
            BY <2>1, ScrapeKinds
        <3>2. LossesPay'
            BY <2>0, <2>1, <1>a, <1>k
        <3> QED BY <1>0, <2>0, <2>1, <3>1, <3>2, <1>a, OpsTypesAfter
                DEF LogsInv, HistoryIsAhead, TodoIsNew
    <2>2. ASSUME NEW w \in SUBSET Errors, Ops!NoFault,
                 scrape' = [scrape EXCEPT !.pc = "analyse", !.window = w, !.history = saved]
          PROVE  LogsInv'
        <3>1. /\ scrape' \in Scrapes /\ scrape'.pc = "analyse"
              /\ scrape'.history = saved /\ scrape'.made = 0
            <4>1. saved \in SUBSET Errors /\ scrape \in Scrapes /\ scrape.made = 0
                BY <1>0, <2>0 DEF HistoryIsAhead
            <4>2. LET d == [scrape EXCEPT !.pc = "analyse", !.window = w, !.history = saved]
                  IN d \in Scrapes /\ d.pc = "analyse" /\ d.history = saved /\ d.made = scrape.made
                BY <4>1 DEF Scrapes
            <4> QED BY <4>1, <4>2, <2>2
        <3>2. LossesPay'
            BY <2>0, <2>2, <1>b, <1>k DEF Remembered
        <3> QED BY <1>0, <2>0, <2>2, <3>1, <3>2, <1>b, OpsTypesAfter
                DEF LogsInv, HistoryIsAhead, TodoIsNew
    <2> QED BY <1>2, <2>1, <2>2 DEF Ops!Fetch
<1>3. ASSUME Ops!Analyse PROVE LogsInv'
    <2> DEFINE new == scrape.window \ (scrape.context \cup scrape.history)
    <2>0. /\ scrape.pc = "analyse" /\ issue' = issue /\ times' = times /\ saved' = saved
          /\ scrape.history = saved /\ scrape.made = 0
        BY <1>0, <1>3 DEF Ops!Analyse, HistoryIsAhead
    <2>1. CASE scrape' = Ops!Idle /\ (Ops!Fault \/ Ops!NoFault)
        <3>1. scrape' \in Scrapes /\ scrape'.pc = "idle"
            BY <2>1, ScrapeKinds
        <3>2. LossesPay'
            BY <2>0, <2>1, <1>a, <1>b, <1>k DEF Remembered
        <3> QED BY <1>0, <2>0, <2>1, <3>1, <3>2, <1>a, <1>b, OpsTypesAfter
                DEF LogsInv, HistoryIsAhead, TodoIsNew
    <2>2. CASE /\ Ops!NoFault
               /\ scrape' = [scrape EXCEPT !.pc = "create", !.todo = new,
                                           !.window = {}, !.context = {}]
        <3>1. new \in SUBSET Errors /\ new \cap scrape.history = {}
            BY <1>0, ScrapeParts
        <3> HIDE DEF new
        <3>2. /\ scrape' \in Scrapes /\ scrape'.pc = "create" /\ scrape'.todo = new
              /\ scrape'.history = saved /\ scrape'.made = 0
            <4>1. LET d == [scrape EXCEPT !.pc = "create", !.todo = new,
                                          !.window = {}, !.context = {}]
                  IN d \in Scrapes /\ d.pc = "create" /\ d.todo = new
                        /\ d.history = scrape.history /\ d.made = scrape.made
                BY <1>0, <3>1 DEF Scrapes
            <4> QED BY <4>1, <2>0, <2>2
        <3>3. LossesPay'
            BY <2>0, <2>2, <1>b, <1>k DEF Remembered
        <3> QED BY <1>0, <2>0, <2>2, <3>1, <3>2, <3>3, <1>b, OpsTypesAfter
                DEF LogsInv, HistoryIsAhead, TodoIsNew
    <2> QED BY <1>3, <2>1, <2>2 DEF Ops!Analyse
<1> QED BY <1>1, <1>2, <1>3

LEMMA FilingGoesOn ==
    ASSUME Ops!ConstantsOK, LogsInv
    PROVE  /\ \A e \in Errors : Ops!Create(e) => LogsInv'
           /\ Ops!Save => LogsInv'
           /\ Ops!Kill => LogsInv'
           /\ \A e \in Errors : Ops!Close(e) => LogsInv'
           /\ UNCHANGED opsVars => LogsInv'
<1>0. /\ issue \in SUBSET Errors /\ saved \in SUBSET Errors
      /\ times \in [Errors -> Nat]
      /\ scrape \in Scrapes
      /\ ofaults \in 0 .. MaxFaults /\ okills \in 0 .. MaxKills
      /\ HistoryIsAhead /\ TodoIsNew /\ LossesPay
      /\ MaxFaults \in Nat /\ MaxKills \in Nat
    BY OpsTypes DEF LogsInv, Ops!ConstantsOK
<1>p. /\ scrape.todo \in SUBSET Errors /\ scrape.history \in SUBSET Errors
      /\ scrape.made \in Nat
    BY <1>0, ScrapeParts
<1>a. ASSUME Ops!Fault PROVE ofaults' \in 0 .. MaxFaults /\ okills' = okills /\ Lost' = Lost + 1
    BY <1>0, <1>a DEF Ops!Fault, Lost
<1>b. ASSUME Ops!NoFault PROVE ofaults' = ofaults /\ okills' = okills /\ Lost' = Lost
    BY <1>b DEF Ops!NoFault, Lost
<1>n. Lost \in Nat
    BY <1>0 DEF Lost
<1>k. ASSUME times' = times, Lost' \in {Lost, Lost + 1},
             \A e \in Errors : Remembered(e) => Remembered(e)' \/ Lost' = Lost + 1
      PROVE  LossesPay'
    <2>1. SUFFICES ASSUME NEW e \in Errors
                   PROVE  times[e] <= (IF Remembered(e)' THEN 1 + Lost' ELSE Lost')
        BY <1>k DEF LossesPay
    <2>2. times[e] <= (IF Remembered(e) THEN 1 + Lost ELSE Lost) /\ times[e] \in Nat
        BY <1>0 DEF LossesPay
    <2>3. CASE Remembered(e)'
        BY <2>2, <2>3, <1>k, <1>n
    <2>4. CASE ~Remembered(e)' /\ ~Remembered(e)
        BY <2>2, <2>4, <1>k, <1>n
    <2>5. CASE ~Remembered(e)' /\ Remembered(e)
        BY <2>2, <2>5, <1>k, <1>n
    <2> QED BY <2>3, <2>4, <2>5
<1>1. ASSUME NEW e \in Errors, Ops!Create(e) PROVE LogsInv'
    <2>0. scrape.pc = "create" /\ e \in scrape.todo /\ saved' = saved
        BY <1>1 DEF Ops!Create
    <2>1. CASE /\ issue' = issue \cup {e} /\ times' = [times EXCEPT ![e] = @ + 1]
               /\ scrape' = [scrape EXCEPT !.todo = @ \ {e}, !.history = @ \cup {e},
                                           !.made = @ + 1]
               /\ Ops!NoFault
        <3>1. /\ scrape' \in Scrapes /\ scrape'.pc = "create"
              /\ scrape'.todo = scrape.todo \ {e}
              /\ scrape'.history = scrape.history \cup {e} /\ scrape'.made = scrape.made + 1
            <4>1. LET d == [scrape EXCEPT !.todo = @ \ {e}, !.history = @ \cup {e}, !.made = @ + 1]
                  IN d \in Scrapes /\ d.pc = scrape.pc /\ d.todo = scrape.todo \ {e}
                        /\ d.history = scrape.history \cup {e} /\ d.made = scrape.made + 1
                BY <1>0, ScrapeKinds
            <4> QED BY <4>1, <2>0, <2>1
        <3>2. times' \in [Errors -> Nat] /\ times'[e] = times[e] + 1
                /\ \A x \in Errors : x # e => times'[x] = times[x]
            BY <1>0, <2>1
        <3>3. HistoryIsAhead' /\ TodoIsNew'
            BY <1>0, <1>p, <2>0, <3>1 DEF HistoryIsAhead, TodoIsNew
        <3>4. LossesPay'
            <4>1. ~Remembered(e)
                BY <1>0, <2>0 DEF Remembered, HistoryIsAhead, TodoIsNew
            <4>2. Remembered(e)'
                BY <3>1 DEF Remembered
            <4>3. Lost' = Lost
                BY <1>b, <2>1
            <4>4. times'[e] <= 1 + Lost'
                BY <1>0, <1>n, <3>2, <4>1, <4>3 DEF LossesPay
            <4>5. ASSUME NEW x \in Errors, x # e
                  PROVE  times'[x] <= (IF Remembered(x)' THEN 1 + Lost' ELSE Lost')
                <5>1. Remembered(x)' <=> Remembered(x)
                    BY <2>0, <3>1, <4>5 DEF Remembered
                <5> QED BY <1>0, <3>2, <4>3, <4>5, <5>1 DEF LossesPay
            <4> QED BY <4>2, <4>4, <4>5 DEF LossesPay
        <3>5. issue' \in SUBSET Errors
            BY <1>0, <2>1
        <3> QED BY <1>0, <1>b, <2>0, <2>1, <3>1, <3>2, <3>3, <3>4, <3>5, OpsTypesAfter DEF LogsInv
    <2>2. CASE /\ scrape' = [scrape EXCEPT !.todo = @ \ {e}] /\ Ops!Fault
               /\ issue' = issue /\ times' = times
        <3>1. /\ scrape' \in Scrapes /\ scrape'.pc = "create"
              /\ scrape'.todo = scrape.todo \ {e}
              /\ scrape'.history = scrape.history /\ scrape'.made = scrape.made
            <4>1. LET d == [scrape EXCEPT !.todo = @ \ {e}]
                  IN d \in Scrapes /\ d.pc = scrape.pc /\ d.todo = scrape.todo \ {e}
                        /\ d.history = scrape.history /\ d.made = scrape.made
                BY <1>0, ScrapeKinds
            <4> QED BY <4>1, <2>0, <2>2
        <3>2. LossesPay'
            BY <1>a, <1>k, <2>2
        <3>3. HistoryIsAhead' /\ TodoIsNew'
            BY <1>0, <1>p, <2>0, <3>1 DEF HistoryIsAhead, TodoIsNew
        <3> QED BY <1>0, <1>a, <2>0, <2>2, <3>1, <3>2, <3>3, OpsTypesAfter DEF LogsInv
    <2> QED BY <1>1, <2>1, <2>2 DEF Ops!Create
<1>2. ASSUME Ops!Save PROVE LogsInv'
    <2>1. /\ scrape' \in Scrapes /\ scrape'.pc = "idle" /\ scrape.pc = "create"
          /\ issue' = issue /\ times' = times
        BY <1>2, ScrapeKinds DEF Ops!Save
    <2>2. CASE saved' = (IF scrape.made > 0 THEN scrape.history ELSE saved) /\ Ops!NoFault
        <3>1. saved' = scrape.history
            BY <1>0, <1>p, <2>1, <2>2 DEF HistoryIsAhead
        <3>2. saved \subseteq scrape.history
            BY <1>0, <2>1 DEF HistoryIsAhead
        <3>3. LossesPay'
            BY <1>b, <1>k, <2>1, <2>2, <3>1, <3>2 DEF Remembered
        <3> QED BY <1>0, <1>p, <1>b, <2>1, <2>2, <3>1, <3>3, OpsTypesAfter
                DEF LogsInv, HistoryIsAhead, TodoIsNew
    <2>3. CASE saved' = saved /\ Ops!Fault
        <3>1. LossesPay'
            BY <1>a, <1>k, <2>1, <2>3
        <3> QED BY <1>0, <1>a, <2>1, <2>3, <3>1, OpsTypesAfter
                DEF LogsInv, HistoryIsAhead, TodoIsNew
    <2> QED BY <1>2, <2>2, <2>3 DEF Ops!Save
<1>3. ASSUME Ops!Kill PROVE LogsInv'
    <2>1. /\ scrape' \in Scrapes /\ scrape'.pc = "idle"
          /\ issue' = issue /\ times' = times /\ saved' = saved
          /\ ofaults' = ofaults /\ okills' = okills + 1 /\ okills < MaxKills
        BY <1>3, ScrapeKinds DEF Ops!Kill
    <2>2. okills' \in 0 .. MaxKills /\ Lost' = Lost + 1
        BY <1>0, <2>1 DEF Lost
    <2>3. LossesPay'
        BY <1>k, <2>1, <2>2
    <2> QED BY <1>0, <2>1, <2>2, <2>3, OpsTypesAfter DEF LogsInv, HistoryIsAhead, TodoIsNew
<1>4. ASSUME NEW e \in Errors, Ops!Close(e) PROVE LogsInv'
    <2>1. /\ issue' = issue \ {e} /\ times' = times /\ saved' = saved /\ scrape' = scrape
          /\ ofaults' = ofaults /\ okills' = okills
        BY <1>4 DEF Ops!Close
    <2>2. issue' \in SUBSET Errors /\ Lost' = Lost
        BY <1>0, <2>1 DEF Lost
    <2>3. LossesPay'
        BY <1>k, <2>1, <2>2 DEF Remembered
    <2> QED BY <1>0, <2>1, <2>2, <2>3, OpsTypesAfter DEF LogsInv, HistoryIsAhead, TodoIsNew
<1>5. ASSUME UNCHANGED opsVars PROVE LogsInv'
    <2>1. /\ issue' = issue /\ times' = times /\ saved' = saved /\ scrape' = scrape
          /\ ofaults' = ofaults /\ okills' = okills
        BY <1>5 DEF opsVars
    <2>2. LossesPay'
        BY <1>k, <2>1 DEF Remembered, Lost
    <2> QED BY <1>0, <2>1, <2>2, OpsTypesAfter DEF LogsInv, HistoryIsAhead, TodoIsNew
<1> QED BY <1>1, <1>2, <1>3, <1>4, <1>5

LEMMA NextLogsInv == Ops!ConstantsOK /\ LogsInv /\ [Ops!Next]_opsVars => LogsInv'
BY ScrapeGoesOn, FilingGoesOn DEF Ops!Next

LEMMA LogsInvIsEnough == Ops!ConstantsOK /\ LogsInv => Ops!TypeOK /\ Ops!FiledAgainOnlyAfterLoss
<1> SUFFICES ASSUME Ops!ConstantsOK, LogsInv
             PROVE  Ops!TypeOK /\ Ops!FiledAgainOnlyAfterLoss
    OBVIOUS
<1>1. /\ times \in [Errors -> Nat] /\ LossesPay
      /\ ofaults \in Nat /\ okills \in Nat
    BY OpsTypes DEF LogsInv, Ops!ConstantsOK
<1>2. ASSUME NEW e \in Errors PROVE times[e] <= 1 + ofaults + okills
    <2>1. times[e] \in Nat /\ times[e] <= (IF Remembered(e) THEN 1 + Lost ELSE Lost)
        BY <1>1 DEF LossesPay
    <2> QED BY <1>1, <2>1 DEF Lost
<1> QED BY <1>2 DEF LogsInv, Ops!FiledAgainOnlyAfterLoss
-----------------------------------------------------------------------------
(* QA.                                                                     *)

Commits == 0 .. MaxCommits
Shas == [Qa!B -> Commits]
Tests == [pc : {"idle", "model", "file", "save"}, b : Qa!B, at : Commits,
          known : SUBSET Qa!Commits, old : Shas, blocked : BOOLEAN]

(* What a record of the commit as tested asks for.                         *)
Covered(c) == c \in {0} \cup Bugless \cup filed \cup lostBug \cup bare

(* The commits in the file are covered, and so are those in the file as    *)
(* the cycle loaded it; the one under test is once its bug was looked at.  *)
(* Issues once filed stay, so the listed ones are still there.             *)
ShasAreCovered ==
    /\ \A x \in Qa!B : Covered(history[x]) /\ Covered(cycle.old[x])
    /\ cycle.known \subseteq filed
    /\ cycle.pc # "idle" => cycle.at # 0
    /\ cycle.pc = "save" => Covered(cycle.at)

ShasInv == Qa!TypeOK /\ ShasAreCovered

LEMMA QaTypes ==
    Qa!TypeOK <=>
        /\ last \in Commits /\ tip \in Shas /\ history \in Shas
        /\ filed \subseteq Qa!Commits /\ lostBug \subseteq Qa!Commits /\ bare \subseteq Qa!Commits
        /\ cycle \in Tests
        /\ qfaults \in 0 .. MaxFaults /\ qkills \in 0 .. MaxKills
BY DEF Qa!TypeOK, Tests, Shas, Commits

LEMMA QaTypesAfter ==
    /\ last' \in Commits /\ tip' \in Shas /\ history' \in Shas
    /\ filed' \subseteq Qa!Commits /\ lostBug' \subseteq Qa!Commits /\ bare' \subseteq Qa!Commits
    /\ cycle' \in Tests
    /\ qfaults' \in 0 .. MaxFaults /\ qkills' \in 0 .. MaxKills
    => Qa!TypeOK'
BY DEF Qa!TypeOK, Tests, Shas, Commits

LEMMA QaSizes ==
    ASSUME Qa!ConstantsOK
    PROVE  /\ 1 \in Qa!B /\ 0 \in Commits /\ MaxCommits \in Nat
           /\ MaxFaults \in Nat /\ MaxKills \in Nat
           /\ [x \in Qa!B |-> 0] \in Shas
           /\ \A c \in Commits : c # 0 <=> c \in Qa!Commits
<1>1. /\ Branches \in Seq(STRING) /\ Len(Branches) > 0
      /\ MaxCommits \in Nat /\ MaxFaults \in Nat /\ MaxKills \in Nat
    BY DEF Qa!ConstantsOK
<1>2. 1 \in Qa!B
    BY <1>1 DEF Qa!B
<1>3. 0 \in Commits
    BY <1>1 DEF Commits
<1>4. \A c \in Commits : c # 0 <=> c \in Qa!Commits
    BY <1>1 DEF Commits, Qa!Commits
<1> QED BY <1>1, <1>2, <1>3, <1>4 DEF Shas

LEMMA TestParts ==
    ASSUME cycle \in Tests
    PROVE  /\ cycle.b \in Qa!B /\ cycle.at \in Commits /\ cycle.old \in Shas
           /\ cycle.known \in SUBSET Qa!Commits
BY DEF Tests

LEMMA IdleIsTest ==
    Qa!ConstantsOK => /\ Qa!Idle \in Tests /\ Qa!Idle.pc = "idle" /\ Qa!Idle.known = {}
                      /\ \A x \in Qa!B : Qa!Idle.old[x] = 0
<1>1. Qa!ConstantsOK => Qa!Idle \in Tests
    BY QaSizes DEF Tests, Qa!Idle
<1> QED BY <1>1 DEF Qa!Idle

LEMMA TestKinds ==
    ASSUME cycle \in Tests
    PROVE  /\ \A q \in {"file", "save"} :
                LET d == [cycle EXCEPT !.pc = q]
                IN d \in Tests /\ d.pc = q /\ d.at = cycle.at /\ d.known = cycle.known
                      /\ d.old = cycle.old
           /\ LET d == [cycle EXCEPT !.pc = "file", !.blocked = TRUE]
              IN d \in Tests /\ d.pc = "file" /\ d.at = cycle.at /\ d.known = cycle.known
                    /\ d.old = cycle.old
BY DEF Tests

(* Bugs that are covered stay covered.                                     *)
LEMMA CoveredStays ==
    ASSUME filed \subseteq filed', lostBug \subseteq lostBug', bare \subseteq bare'
    PROVE  \A c : Covered(c) => Covered(c)'
BY DEF Covered

LEMMA InitShasInv == Qa!ConstantsOK /\ Qa!Init => ShasInv
<1> SUFFICES ASSUME Qa!ConstantsOK, Qa!Init PROVE ShasInv
    OBVIOUS
<1>1. /\ tip = [x \in Qa!B |-> 0] /\ history = [x \in Qa!B |-> 0] /\ last = 0
      /\ filed = {} /\ lostBug = {} /\ bare = {} /\ cycle = Qa!Idle /\ qfaults = 0 /\ qkills = 0
    BY DEF Qa!Init
<1>2. qfaults \in 0 .. MaxFaults /\ qkills \in 0 .. MaxKills
    BY <1>1, QaSizes
<1>3. Qa!TypeOK
    BY <1>1, <1>2, QaSizes, IdleIsTest, QaTypes
<1>4. ShasAreCovered
    <2>1. \A x \in Qa!B : history[x] = 0 /\ cycle.old[x] = 0
        BY <1>1, IdleIsTest
    <2>2. cycle.pc = "idle" /\ cycle.known = {}
        BY <1>1, IdleIsTest
    <2> QED BY <2>1, <2>2 DEF ShasAreCovered, Covered
<1> QED BY <1>3, <1>4 DEF ShasInv

LEMMA TestGoesOn ==
    ASSUME Qa!ConstantsOK, ShasInv
    PROVE  /\ \A x \in Qa!B : Qa!Push(x) => ShasInv'
           /\ Qa!Begin => ShasInv'
           /\ Qa!Tested => ShasInv'
           /\ Qa!File => ShasInv'
           /\ Qa!Save => ShasInv'
           /\ Qa!Kill => ShasInv'
           /\ UNCHANGED qaVars => ShasInv'
<1>0. /\ last \in Commits /\ tip \in Shas /\ history \in Shas
      /\ filed \subseteq Qa!Commits /\ lostBug \subseteq Qa!Commits /\ bare \subseteq Qa!Commits
      /\ cycle \in Tests
      /\ qfaults \in 0 .. MaxFaults /\ qkills \in 0 .. MaxKills
      /\ ShasAreCovered
      /\ MaxFaults \in Nat /\ MaxKills \in Nat /\ MaxCommits \in Nat
    BY QaTypes, QaSizes DEF ShasInv
<1>p. /\ cycle.b \in Qa!B /\ cycle.at \in Commits /\ cycle.old \in Shas
      /\ cycle.known \in SUBSET Qa!Commits
    BY <1>0, TestParts
<1>a. ASSUME Qa!Fault \/ Qa!NoFault PROVE qfaults' \in 0 .. MaxFaults /\ qkills' = qkills
    BY <1>0, <1>a DEF Qa!Fault, Qa!NoFault
<1>i. ASSUME Qa!ConstantsOK
      PROVE  /\ Qa!Idle \in Tests /\ Qa!Idle.pc = "idle" /\ Qa!Idle.known = {}
             /\ \A x \in Qa!B : Qa!Idle.old[x] = 0
    BY <1>i, IdleIsTest
<1>1. ASSUME NEW x \in Qa!B, Qa!Push(x) PROVE ShasInv'
    <2>1. /\ last < MaxCommits /\ last' = last + 1 /\ tip' = [tip EXCEPT ![x] = last + 1]
          /\ UNCHANGED <<history, filed, lostBug, bare, cycle, qfaults, qkills>>
        BY <1>1 DEF Qa!Push, Qa!Reported
    <2>2. last + 1 \in Commits
        BY <1>0, <2>1 DEF Commits
    <2>3. tip' \in Shas
        BY <1>0, <2>1, <2>2 DEF Shas
    <2>4. ShasAreCovered'
        BY <1>0, <2>1 DEF ShasAreCovered, Covered
    <2> QED BY <1>0, <2>1, <2>2, <2>3, <2>4, QaTypesAfter DEF ShasInv
<1>2. ASSUME Qa!Begin PROVE ShasInv'
    <2>1. /\ tip[1] # 0 /\ UNCHANGED <<tip, last, history, filed, lostBug, bare, qfaults, qkills>>
          /\ cycle' = [pc |-> "model", b |-> 1, at |-> tip[1], known |-> filed,
                       old |-> history, blocked |-> FALSE]
        BY <1>2 DEF Qa!Begin, Qa!Selected, Qa!NoFault, Qa!World, Qa!Reported
    <2>2. 1 \in Qa!B /\ tip[1] \in Commits
        BY <1>0, QaSizes DEF Shas
    <2>3. cycle' \in Tests
        BY <1>0, <2>1, <2>2 DEF Tests
    <2>4. cycle'.pc = "model" /\ cycle'.at = tip[1] /\ cycle'.known = filed /\ cycle'.old = history
        BY <2>1
    <2>5. ShasAreCovered'
        BY <1>0, <2>1, <2>4 DEF ShasAreCovered, Covered
    <2> QED BY <1>0, <2>1, <2>3, <2>5, QaTypesAfter DEF ShasInv
<1>3. ASSUME Qa!Tested PROVE ShasInv'
    <2>1. /\ UNCHANGED <<tip, last, history, filed, lostBug, bare>>
          /\ qfaults' \in 0 .. MaxFaults /\ qkills' = qkills /\ cycle.pc = "model"
        BY <1>3, <1>a DEF Qa!Tested, Qa!World, Qa!Reported
    <2>2. CASE \/ cycle' = [cycle EXCEPT !.pc = "file"]
               \/ cycle' = [cycle EXCEPT !.pc = "file", !.blocked = TRUE]
        <3>1. /\ cycle' \in Tests /\ cycle'.pc = "file" /\ cycle'.at = cycle.at
              /\ cycle'.known = cycle.known /\ cycle'.old = cycle.old
            BY <1>0, <2>2, TestKinds
        <3>2. ShasAreCovered'
            BY <1>0, <2>1, <3>1 DEF ShasAreCovered, Covered
        <3> QED BY <1>0, <2>1, <3>1, <3>2, QaTypesAfter DEF ShasInv
    <2>3. CASE cycle' = Qa!Idle
        <3>1. ShasAreCovered'
            BY <1>0, <1>i, <2>1, <2>3 DEF ShasAreCovered, Covered
        <3> QED BY <1>0, <1>i, <2>1, <2>3, <3>1, QaTypesAfter DEF ShasInv
    <2> QED BY <1>3, <2>2, <2>3 DEF Qa!Tested
<1>4. ASSUME Qa!File PROVE ShasInv'
    <2>1. /\ UNCHANGED <<tip, last, history>> /\ cycle.pc = "file"
          /\ cycle' = [cycle EXCEPT !.pc = "save"]
          /\ qfaults' \in 0 .. MaxFaults /\ qkills' = qkills
        BY <1>4, <1>a DEF Qa!File, Qa!World
    <2>2. /\ cycle' \in Tests /\ cycle'.pc = "save" /\ cycle'.at = cycle.at
          /\ cycle'.known = cycle.known /\ cycle'.old = cycle.old
        BY <1>0, <2>1, TestKinds
    <2>3. cycle.at \in Qa!Commits
        BY <1>0, <1>p, <2>1, QaSizes DEF ShasAreCovered
    <2>4. /\ filed' \subseteq Qa!Commits /\ lostBug' \subseteq Qa!Commits /\ bare' \subseteq Qa!Commits
          /\ filed \subseteq filed' /\ lostBug \subseteq lostBug' /\ bare \subseteq bare'
        BY <1>0, <1>4, <2>3 DEF Qa!File, Qa!Reported
    <2>5. Covered(cycle.at)'
        <3>1. CASE cycle.at \in Bugless \cup cycle.known
            BY <1>0, <2>2, <2>4, <3>1 DEF ShasAreCovered, Covered
        <3>2. CASE cycle.at \notin Bugless \cup cycle.known
            BY <1>4, <2>2, <3>2 DEF Qa!File, Covered
        <3> QED BY <3>1, <3>2
    <2>6. ShasAreCovered'
        <3>1. \A c : Covered(c) => Covered(c)'
            BY <2>4, CoveredStays
        <3>2. cycle'.known \subseteq filed'
            BY <1>0, <2>2, <2>4 DEF ShasAreCovered
        <3>3. \A x \in Qa!B : Covered(history[x])' /\ Covered(cycle.old[x])'
            <4>1. ASSUME NEW x \in Qa!B PROVE Covered(history[x])' /\ Covered(cycle.old[x])'
                BY <1>0, <2>1, <2>2, <2>4 DEF ShasAreCovered, Covered
            <4> QED BY <4>1
        <3> QED BY <1>0, <2>1, <2>2, <2>5, <3>2, <3>3 DEF ShasAreCovered
    <2> QED BY <1>0, <2>1, <2>2, <2>4, <2>6, QaTypesAfter DEF ShasInv
<1>5. ASSUME Qa!Save PROVE ShasInv'
    <2>1. /\ UNCHANGED <<tip, last, filed, lostBug, bare>> /\ cycle.pc = "save"
          /\ cycle' = Qa!Idle
          /\ qfaults' \in 0 .. MaxFaults /\ qkills' = qkills
          /\ history' \in {history, [cycle.old EXCEPT ![cycle.b] = cycle.at]}
        BY <1>5, <1>a DEF Qa!Save, Qa!World, Qa!Reported
    <2>2. history' \in Shas
        BY <1>0, <1>p, <2>1 DEF Shas
    <2>3. \A x \in Qa!B : Covered(history'[x])
        BY <1>0, <1>p, <2>1 DEF Shas, ShasAreCovered
    <2>4. ShasAreCovered'
        BY <1>i, <2>1, <2>3 DEF ShasAreCovered, Covered
    <2> QED BY <1>0, <1>i, <2>1, <2>2, <2>4, QaTypesAfter DEF ShasInv
<1>6. ASSUME Qa!Kill PROVE ShasInv'
    <2>1. /\ UNCHANGED <<tip, last, history, filed, lostBug, bare, qfaults>>
          /\ cycle' = Qa!Idle /\ qkills < MaxKills /\ qkills' = qkills + 1
        BY <1>6 DEF Qa!Kill, Qa!World, Qa!Reported
    <2>2. qkills' \in 0 .. MaxKills
        BY <1>0, <2>1
    <2>3. ShasAreCovered'
        BY <1>0, <1>i, <2>1 DEF ShasAreCovered, Covered
    <2> QED BY <1>0, <1>i, <2>1, <2>2, <2>3, QaTypesAfter DEF ShasInv
<1>7. ASSUME UNCHANGED qaVars PROVE ShasInv'
    <2>1. ShasAreCovered'
        BY <1>0, <1>7 DEF qaVars, ShasAreCovered, Covered
    <2> QED BY <1>0, <1>7, <2>1, QaTypesAfter DEF qaVars, ShasInv
<1> QED BY <1>1, <1>2, <1>3, <1>4, <1>5, <1>6, <1>7

LEMMA NextShasInv == Qa!ConstantsOK /\ ShasInv /\ [Qa!Next]_qaVars => ShasInv'
BY TestGoesOn DEF Qa!Next, Qa!Step

(* What ops and QA find is not lost and not filed without cause, for any   *)
(* number of errors, branches and commits: a commit that QA recorded has   *)
(* its bug filed unless the create call failed, and each issue of one      *)
(* error but the first is paid for by a failed call or a stop.             *)
THEOREM FindingsStayFiled == Spec => []FindingsAreFiled
<1>1. Init => LogsInv /\ ShasInv
    BY ConstantsOK, InitLogsInv, InitShasInv DEF Init
<1>2. LogsInv /\ ShasInv /\ [Next]_vars => LogsInv' /\ ShasInv'
    BY ConstantsOK, StepsApart, NextLogsInv, NextShasInv
<1>3. LogsInv /\ ShasInv => FindingsAreFiled
    <2>1. ShasInv => Qa!TestedIsFiled
        BY DEF ShasInv, ShasAreCovered, Covered, Qa!TestedIsFiled
    <2> QED BY <2>1, ConstantsOK, LogsInvIsEnough DEF FindingsAreFiled, ShasInv
<1> QED BY <1>1, <1>2, <1>3, PTL DEF Spec
-----------------------------------------------------------------------------
(* The PMO's splits.                                                       *)

Cuts == {"off", "idle", "create", "block", "save", "link", "label", "told", "asked",
         "processed", "done"}
Places == Cuts \X (0 .. Split!N)
Kidset(n) == [of : 1 .. Split!N, blocked : BOOLEAN, waits : 0 .. n, state : Split!ChildStates]
Papers(n) == [on : BOOLEAN, ids : Seq(1 .. n)]
Parents == [open : BOOLEAN, asks : BOOLEAN, processed : BOOLEAN]

Working == {"create", "block", "save", "link", "label", "told", "asked", "processed"}
Linking == {"link", "label", "told", "asked", "processed"}
Cut == step[1]

(* Without a checkpoint there are children only of a parent that has been  *)
(* dealt with.                                                             *)
NoneBeforeDecision == ~file.on /\ parent.asks => Len(made) = 0

(* A process at work has the checkpoint in memory.                         *)
MemoryIsFile == Cut \in Working => file.on /\ ids = file.ids

(* The last child is the part that the checkpoint is missing next.         *)
UnsavedIsNext ==
    Cut \in {"block", "save"} =>
        Len(ids) < Split!N /\ Len(made) > 0 /\ made[Len(made)].of = Len(ids) + 1

(* The checkpoint names a child of each part, in the order of the parts.   *)
RecordedInOrder ==
    /\ Len(file.ids) <= Split!N
    /\ \A k \in 1 .. Len(file.ids) : made[file.ids[k]].of = k

(* Links and labels come after the last part.                              *)
LinkedWhenComplete ==
    /\ Cut \in Linking => Len(ids) = Split!N
    /\ Cut \in {"link", "label"} => step[2] > 0
    /\ Cut = "label" => plan[step[2]] # 0
    /\ Cut = "processed" => ~parent.asks

(* Each child that the checkpoint does not name has a break behind it, but *)
(* for the one that is about to be recorded.                               *)
BreaksPay ==
    /\ file.on => Len(made) <= Len(file.ids) + breaks
                                 + (IF Cut \in {"block", "save"} THEN 1 ELSE 0)
    /\ ~file.on => Len(made) <= Split!N + breaks

AllMade == \A k \in 1 .. Split!N : \E c \in 1 .. Len(made) : made[c].of = k

SplitInv ==
    /\ Split!TypeOK
    /\ NoneBeforeDecision /\ MemoryIsFile /\ UnsavedIsNext /\ RecordedInOrder
    /\ LinkedWhenComplete /\ BreaksPay
    /\ parent.processed => AllMade

LEMMA SplitTypes ==
    Split!TypeOK <=>
        /\ plan \in Plans /\ file \in Papers(Len(made))
        /\ made \in Seq(Kidset(Len(made))) /\ parent \in Parents
        /\ step \in Places /\ ids \in Seq(1 .. Len(made))
        /\ breaks \in 0 .. MaxBreaks
<1>1. made \in Seq(Kidset(Len(made))) => DOMAIN made = 1 .. Len(made)
    OBVIOUS
<1>2. Split!TypeOK => made \in Seq(Kidset(Len(made)))
    BY DEF Split!TypeOK, Kidset
<1> QED BY <1>1, <1>2
        DEF Split!TypeOK, Split!Iids, Papers, Kidset, Parents, Places, Cuts

LEMMA SplitTypesAfter ==
    /\ plan' = plan
    /\ plan \in Plans /\ file' \in Papers(Len(made'))
    /\ made' \in Seq(Kidset(Len(made'))) /\ parent' \in Parents
    /\ step' \in Places /\ ids' \in Seq(1 .. Len(made'))
    /\ breaks' \in 0 .. MaxBreaks
    => Split!TypeOK'
<1>1. made' \in Seq(Kidset(Len(made'))) => DOMAIN made' = 1 .. Len(made')
    OBVIOUS
<1> QED BY <1>1
        DEF Split!TypeOK, Split!Iids, Split!N, Papers, Kidset, Parents, Places, Cuts

LEMMA SplitSizes ==
    ASSUME Split!ConstantsOK, plan \in Plans
    PROVE  /\ Split!N \in Nat /\ Split!N > 0 /\ MaxBreaks \in Nat
           /\ plan \in Seq(0 .. Split!N) /\ DOMAIN plan = 1 .. Split!N
           /\ \A k \in 1 .. Split!N : plan[k] \in 0 .. Split!N
<1>1. plan # <<>> /\ plan \in Seq(0 .. Len(plan)) /\ MaxBreaks \in Nat
    BY DEF Split!ConstantsOK
<1>2. Len(plan) \in Nat /\ DOMAIN plan = 1 .. Len(plan) /\ Len(plan) > 0
    BY <1>1
<1> QED BY <1>1, <1>2 DEF Split!N

LEMMA PlaceKinds ==
    /\ \A s \in Cuts, k \in 0 .. Split!N :
          <<s, k>> \in Places /\ <<s, k>>[1] = s /\ <<s, k>>[2] = k
    /\ \A q \in Places : q[1] \in Cuts /\ q[2] \in 0 .. Split!N /\ q = <<q[1], q[2]>>
BY DEF Places

(* What a step makes of the children: one more or one changed, but never   *)
(* another part.                                                           *)
MadeGrows ==
    /\ made' \in Seq(Kidset(Len(made')))
    /\ Len(made') >= Len(made)
    /\ \A c \in 1 .. Len(made) : made'[c].of = made[c].of

LEMMA KidIs ==
    ASSUME NEW n \in Nat, NEW m \in Seq(Kidset(n)), NEW c \in 1 .. Len(m)
    PROVE  m[c] \in Kidset(n)
OBVIOUS

LEMMA EditGrows ==
    ASSUME made \in Seq(Kidset(Len(made))), NEW c \in 1 .. Len(made),
           NEW r \in Kidset(Len(made)), r.of = made[c].of, made' = [made EXCEPT ![c] = r]
    PROVE  MadeGrows /\ Len(made') = Len(made)
<1>1. Len(made') = Len(made) /\ made' \in Seq(Kidset(Len(made)))
    OBVIOUS
<1>2. \A d \in 1 .. Len(made) : made'[d].of = made[d].of
    BY <1>1
<1>3. Len(made) \in Nat
    OBVIOUS
<1> QED BY <1>1, <1>2, <1>3 DEF MadeGrows

LEMMA SameGrows ==
    ASSUME made \in Seq(Kidset(Len(made))), made' = made
    PROVE  MadeGrows /\ Len(made') = Len(made)
BY DEF MadeGrows

LEMMA KidKinds ==
    ASSUME NEW n \in Nat, NEW r \in Kidset(n)
    PROVE  /\ \A b \in BOOLEAN : LET q == [r EXCEPT !.blocked = b]
                                 IN q \in Kidset(n) /\ q.of = r.of
           /\ \A w \in 1 .. n : LET q == [r EXCEPT !.waits = w]
                                 IN q \in Kidset(n) /\ q.of = r.of
           /\ \A t \in Split!ChildStates : LET q == [r EXCEPT !.state = t]
                                           IN q \in Kidset(n) /\ q.of = r.of
           /\ r \in Kidset(n + 1)
<1>1. 1 .. n \subseteq 0 .. n /\ 0 .. n \subseteq 0 .. (n + 1)
    OBVIOUS
<1>2. ASSUME NEW b \in BOOLEAN
      PROVE  LET q == [r EXCEPT !.blocked = b] IN q \in Kidset(n) /\ q.of = r.of
    BY DEF Kidset
<1>3. ASSUME NEW w \in 1 .. n
      PROVE  LET q == [r EXCEPT !.waits = w] IN q \in Kidset(n) /\ q.of = r.of
    BY <1>1 DEF Kidset
<1>4. ASSUME NEW t \in Split!ChildStates
      PROVE  LET q == [r EXCEPT !.state = t] IN q \in Kidset(n) /\ q.of = r.of
    BY DEF Kidset
<1>5. r \in Kidset(n + 1)
    BY <1>1 DEF Kidset
<1> QED BY <1>2, <1>3, <1>4, <1>5

(* What the checkpoint says of the children stays true.                    *)
LEMMA RecordStays ==
    ASSUME Split!ConstantsOK, SplitInv, MadeGrows, plan' = plan
    PROVE  /\ Len(made') \in Nat /\ Len(made) \in Nat
           /\ Papers(Len(made)) \subseteq Papers(Len(made'))
           /\ Seq(1 .. Len(made)) \subseteq Seq(1 .. Len(made'))
           /\ file' = file => RecordedInOrder'
           /\ AllMade => AllMade'
<1>0. /\ plan \in Plans /\ file \in Papers(Len(made))
      /\ made \in Seq(Kidset(Len(made))) /\ RecordedInOrder
    BY SplitTypes DEF SplitInv
<1>1. Len(made') \in Nat /\ Len(made) \in Nat /\ Len(made') >= Len(made)
    BY <1>0 DEF MadeGrows
<1>2. 1 .. Len(made) \subseteq 1 .. Len(made')
    BY <1>1
<1>3. ASSUME NEW s \in Seq(1 .. Len(made)) PROVE s \in Seq(1 .. Len(made'))
    BY <1>2, SeqMonotonic
<1>4. Papers(Len(made)) \subseteq Papers(Len(made'))
    BY <1>3 DEF Papers
<1>5. ASSUME file' = file PROVE RecordedInOrder'
    <2>1. file.ids \in Seq(1 .. Len(made))
        BY <1>0 DEF Papers
    <2>2. \A k \in 1 .. Len(file.ids) : file.ids[k] \in 1 .. Len(made)
        BY <2>1
    <2>3. \A k \in 1 .. Len(file.ids) : made'[file.ids[k]].of = k
        BY <1>0, <2>2 DEF RecordedInOrder, MadeGrows
    <2>4. Len(file'.ids) <= Split!N'
        BY <1>0, <1>5 DEF RecordedInOrder, Split!N
    <2> QED BY <1>5, <2>3, <2>4 DEF RecordedInOrder
<1>6. ASSUME AllMade PROVE AllMade'
    <2>1. ASSUME NEW k \in 1 .. Split!N PROVE \E c \in 1 .. Len(made') : made'[c].of = k
        <3>1. PICK c \in 1 .. Len(made) : made[c].of = k
            BY <1>6, <2>1 DEF AllMade
        <3>2. c \in 1 .. Len(made') /\ made'[c].of = k
            BY <1>2, <3>1 DEF MadeGrows
        <3> QED BY <3>2
    <2> QED BY <2>1 DEF AllMade, Split!N
<1> QED BY <1>1, <1>3, <1>4, <1>5, <1>6

LEMMA InitSplitInv == Split!ConstantsOK /\ Split!Init => SplitInv
<1> SUFFICES ASSUME Split!ConstantsOK, Split!Init PROVE SplitInv
    OBVIOUS
<1>1. /\ plan \in Plans /\ file = Split!NoFile /\ made = <<>> /\ ids = <<>>
      /\ parent = [open |-> TRUE, asks |-> TRUE, processed |-> FALSE]
      /\ step = <<"idle", 0>> /\ breaks = 0
    BY DEF Split!Init, Split!Idle
<1>2. /\ Split!N \in Nat /\ 0 \in 0 .. MaxBreaks /\ 0 \in 0 .. Split!N
    BY <1>1, SplitSizes
<1>3. step \in Places /\ Cut = "idle"
    BY <1>1, <1>2, PlaceKinds DEF Cuts, Cut
<1>4. Len(made) = 0 /\ made \in Seq(Kidset(0)) /\ ids \in Seq(1 .. 0)
    BY <1>1
<1>5. file \in Papers(0) /\ file.on = FALSE /\ file.ids = <<>>
    BY <1>1 DEF Papers, Split!NoFile
<1>6. Split!TypeOK
    BY <1>1, <1>2, <1>3, <1>4, <1>5, SplitTypes DEF Parents
<1>7. RecordedInOrder
    BY <1>2, <1>5 DEF RecordedInOrder
<1>8. BreaksPay
    BY <1>1, <1>2, <1>4, <1>5 DEF BreaksPay
<1> QED BY <1>1, <1>3, <1>4, <1>6, <1>7, <1>8
        DEF SplitInv, NoneBeforeDecision, MemoryIsFile, UnsavedIsNext, LinkedWhenComplete,
            Working, Linking

(* A step that leaves the children alone.                                  *)
LEMMA AfterMove ==
    ASSUME Split!ConstantsOK, SplitInv, plan' = plan, file' = file, made' = made,
           parent' \in Parents, parent'.asks => parent.asks,
           parent'.processed => parent.processed,
           step' \in Places, ids' \in {ids, file.ids, <<>>}, breaks' \in 0 .. MaxBreaks
    PROVE  Split!TypeOK' /\ NoneBeforeDecision' /\ RecordedInOrder'
             /\ (parent'.processed => AllMade')
<1>1. /\ plan \in Plans /\ file \in Papers(Len(made))
      /\ made \in Seq(Kidset(Len(made))) /\ ids \in Seq(1 .. Len(made))
    BY SplitTypes DEF SplitInv
<1>2. MadeGrows
    BY <1>1, SameGrows
<1>3. file.ids \in Seq(1 .. Len(made)) /\ <<>> \in Seq(1 .. Len(made))
    BY <1>1 DEF Papers
<1>4. ids' \in Seq(1 .. Len(made))
    BY <1>1, <1>3
<1>5. made' \in Seq(Kidset(Len(made')))
    BY <1>2 DEF MadeGrows
<1>6. Split!TypeOK'
    BY <1>1, <1>4, <1>5, SplitTypesAfter
<1>7. RecordedInOrder' /\ (AllMade => AllMade')
    BY <1>2, RecordStays
<1> QED BY <1>6, <1>7 DEF SplitInv, NoneBeforeDecision

(* What all steps start from.                                              *)
LEMMA SplitFacts ==
    ASSUME Split!ConstantsOK, SplitInv
    PROVE  /\ plan \in Plans /\ file \in Papers(Len(made))
           /\ made \in Seq(Kidset(Len(made))) /\ parent \in Parents
           /\ step \in Places /\ ids \in Seq(1 .. Len(made))
           /\ breaks \in 0 .. MaxBreaks /\ MaxBreaks \in Nat
           /\ Split!N \in Nat /\ Split!N > 0 /\ 0 \in 0 .. Split!N /\ Len(made) \in Nat
           /\ Len(file.ids) \in Nat /\ Len(ids) \in Nat
           /\ file.on \in BOOLEAN /\ file.ids \in Seq(1 .. Len(made))
           /\ step[1] \in Cuts /\ step[2] \in 0 .. Split!N
           /\ NoneBeforeDecision /\ MemoryIsFile /\ UnsavedIsNext /\ RecordedInOrder
           /\ LinkedWhenComplete /\ BreaksPay /\ (parent.processed => AllMade)
<1>1. /\ plan \in Plans /\ file \in Papers(Len(made))
      /\ made \in Seq(Kidset(Len(made))) /\ parent \in Parents
      /\ step \in Places /\ ids \in Seq(1 .. Len(made))
      /\ breaks \in 0 .. MaxBreaks
    BY SplitTypes DEF SplitInv
<1>2. MaxBreaks \in Nat /\ Split!N \in Nat /\ Split!N > 0 /\ 0 \in 0 .. Split!N
    BY <1>1, SplitSizes
<1>3. file.on \in BOOLEAN /\ file.ids \in Seq(1 .. Len(made))
    BY <1>1 DEF Papers
<1>4. Len(made) \in Nat /\ Len(file.ids) \in Nat /\ Len(ids) \in Nat
    BY <1>1, <1>3
<1>5. step[1] \in Cuts /\ step[2] \in 0 .. Split!N
    BY <1>1, PlaceKinds
<1> QED BY <1>1, <1>2, <1>3, <1>4, <1>5 DEF SplitInv

LEMMA BreakIs ==
    ASSUME Split!ConstantsOK, SplitInv, Split!Break
    PROVE  breaks' \in 0 .. MaxBreaks /\ breaks' = breaks + 1
BY SplitFacts DEF Split!Break

LEMMA ProcessMoves ==
    ASSUME Split!ConstantsOK, SplitInv
    PROVE  /\ Split!Fails => SplitInv'
           /\ Split!Resume => SplitInv'
           /\ Split!Created => SplitInv'
           /\ Split!Tell => SplitInv'
           /\ Split!Unask => SplitInv'
           /\ Split!Close => SplitInv'
           /\ Split!Stale => SplitInv'
           /\ Split!HumanCloses => SplitInv'
           /\ Split!Kill => SplitInv'
           /\ Split!Restart => SplitInv'
           /\ UNCHANGED splitVars => SplitInv'
<1>0. /\ parent \in Parents /\ step \in Places
      /\ breaks \in 0 .. MaxBreaks /\ MaxBreaks \in Nat
      /\ Split!N \in Nat /\ Split!N > 0 /\ 0 \in 0 .. Split!N /\ 1 \in 0 .. Split!N
      /\ Len(made) \in Nat /\ Len(file.ids) \in Nat
      /\ step[1] \in Cuts
      /\ NoneBeforeDecision /\ MemoryIsFile /\ UnsavedIsNext /\ RecordedInOrder
      /\ LinkedWhenComplete /\ BreaksPay /\ (parent.processed => AllMade)
    BY SplitFacts
<1>p. /\ [parent EXCEPT !.open = FALSE] \in Parents
      /\ [parent EXCEPT !.open = FALSE].asks = parent.asks
      /\ [parent EXCEPT !.open = FALSE].processed = parent.processed
      /\ [parent EXCEPT !.asks = FALSE] \in Parents
      /\ [parent EXCEPT !.asks = FALSE].asks = FALSE
      /\ [parent EXCEPT !.asks = FALSE].processed = parent.processed
    BY <1>0 DEF Parents
(* The process rests, is gone, or takes up the checkpoint: all that is     *)
(* left to show is that the children are paid for.                         *)
<1>r. ASSUME plan' = plan, file' = file, made' = made,
             parent' \in {parent, [parent EXCEPT !.open = FALSE]},
             ids' \in {ids, file.ids, <<>>},
             \/ breaks' = breaks /\ Cut \notin {"block", "save"}
             \/ breaks' = breaks + 1 /\ breaks' \in 0 .. MaxBreaks,
             \/ step' \in {<<"idle", 0>>, <<"off", 0>>}
             \/ step' = <<"create", 0>> /\ file.on /\ ids' = file.ids
      PROVE  SplitInv'
    <2>1. step' \in Places /\ step'[1] \in {"idle", "off", "create"}
        BY <1>0, <1>r, PlaceKinds DEF Cuts
    <2>2. Cut' \in {"idle", "off"} \/ (Cut' = "create" /\ file.on /\ ids' = file.ids)
        BY <1>r, <2>1 DEF Cut
    <2>3. breaks' \in 0 .. MaxBreaks
        BY <1>0, <1>r
    <2>4. /\ Split!TypeOK' /\ NoneBeforeDecision' /\ RecordedInOrder'
          /\ (parent'.processed => AllMade')
        BY <1>0, <1>p, <1>r, <2>1, <2>3, AfterMove
    <2>5. BreaksPay'
        BY <1>0, <1>r, <2>2 DEF BreaksPay, Split!N
    <2>6. MemoryIsFile' /\ UnsavedIsNext' /\ LinkedWhenComplete'
        BY <1>r, <2>2 DEF MemoryIsFile, UnsavedIsNext, LinkedWhenComplete, Working, Linking
    <2> QED BY <2>4, <2>5, <2>6 DEF SplitInv
<1>1. ASSUME Split!Fails PROVE SplitInv'
    BY <1>1, <1>r, BreakIs DEF Split!Fails, Split!Idle
<1>2. ASSUME Split!Resume PROVE SplitInv'
    BY <1>2, <1>r DEF Split!Resume, Split!Idle, Split!Goto, Cut
<1>3. ASSUME Split!Created PROVE SplitInv'
    <2>1. /\ Cut = "create" /\ Len(ids) = Split!N /\ step' = <<"link", 1>>
          /\ UNCHANGED <<plan, file, made, parent, ids, breaks>>
        BY <1>3 DEF Split!Created, Split!At, Cut
    <2>2. step' \in Places /\ Cut' = "link" /\ step'[2] = 1
        BY <1>0, <2>1, PlaceKinds DEF Cuts, Cut
    <2>3. /\ Split!TypeOK' /\ NoneBeforeDecision' /\ RecordedInOrder'
          /\ (parent'.processed => AllMade')
        BY <1>0, <2>1, <2>2, AfterMove
    <2> QED BY <1>0, <2>1, <2>2, <2>3
            DEF SplitInv, MemoryIsFile, UnsavedIsNext, LinkedWhenComplete, BreaksPay,
                Working, Linking, Split!N
<1>4. ASSUME Split!Tell PROVE SplitInv'
    <2>1. /\ Cut = "told" /\ step' = <<"asked", 0>>
          /\ UNCHANGED <<plan, file, made, parent, ids, breaks>>
        BY <1>4 DEF Split!Tell, Split!At, Split!Goto, Cut
    <2>2. step' \in Places /\ Cut' = "asked"
        BY <1>0, <2>1, PlaceKinds DEF Cuts, Cut
    <2>3. /\ Split!TypeOK' /\ NoneBeforeDecision' /\ RecordedInOrder'
          /\ (parent'.processed => AllMade')
        BY <1>0, <2>1, <2>2, AfterMove
    <2> QED BY <1>0, <2>1, <2>2, <2>3
            DEF SplitInv, MemoryIsFile, UnsavedIsNext, LinkedWhenComplete, BreaksPay,
                Working, Linking, Split!N
<1>5. ASSUME Split!Unask PROVE SplitInv'
    <2>1. /\ Cut = "asked" /\ step' = <<"processed", 0>>
          /\ parent' = [parent EXCEPT !.asks = FALSE]
          /\ UNCHANGED <<plan, file, made, ids, breaks>>
        BY <1>5 DEF Split!Unask, Split!At, Split!Goto, Cut
    <2>2. step' \in Places /\ Cut' = "processed"
        BY <1>0, <2>1, PlaceKinds DEF Cuts, Cut
    <2>3. /\ Split!TypeOK' /\ NoneBeforeDecision' /\ RecordedInOrder'
          /\ (parent'.processed => AllMade')
        BY <1>0, <1>p, <2>1, <2>2, AfterMove
    <2> QED BY <1>0, <1>p, <2>1, <2>2, <2>3
            DEF SplitInv, MemoryIsFile, UnsavedIsNext, LinkedWhenComplete, BreaksPay,
                Working, Linking, Split!N
<1>6. ASSUME Split!Close PROVE SplitInv'
    BY <1>6, <1>r, BreakIs DEF Split!Close, Split!Idle, Split!At, Cut
<1>7. ASSUME Split!Stale PROVE SplitInv'
    BY <1>7, <1>r DEF Split!Stale, Split!Idle, Cut
<1>8. ASSUME Split!HumanCloses PROVE SplitInv'
    <2>1. /\ parent' = [parent EXCEPT !.open = FALSE]
          /\ UNCHANGED <<plan, file, made, step, ids, breaks>>
        BY <1>8 DEF Split!HumanCloses
    <2>2. /\ Split!TypeOK' /\ NoneBeforeDecision' /\ RecordedInOrder'
          /\ (parent'.processed => AllMade')
        BY <1>0, <1>p, <2>1, AfterMove
    <2> QED BY <1>0, <1>p, <2>1, <2>2
            DEF SplitInv, MemoryIsFile, UnsavedIsNext, LinkedWhenComplete, BreaksPay,
                Working, Linking, Split!N, Cut
<1>9. ASSUME Split!Kill PROVE SplitInv'
    BY <1>9, <1>r, BreakIs DEF Split!Kill, Split!Off
<1>10. ASSUME Split!Restart PROVE SplitInv'
    BY <1>10, <1>r DEF Split!Restart, Split!Idle, Split!At, Cut
<1>11. ASSUME UNCHANGED splitVars PROVE SplitInv'
    <2>1. UNCHANGED <<plan, file, made, parent, step, ids, breaks>>
        BY <1>11 DEF splitVars
    <2>2. /\ Split!TypeOK' /\ NoneBeforeDecision' /\ RecordedInOrder'
          /\ (parent'.processed => AllMade')
        BY <1>0, <2>1, AfterMove
    <2> QED BY <1>0, <2>1, <2>2
            DEF SplitInv, MemoryIsFile, UnsavedIsNext, LinkedWhenComplete, BreaksPay,
                Working, Linking, Split!N, Cut
<1> QED BY <1>1, <1>2, <1>3, <1>4, <1>5, <1>6, <1>7, <1>8, <1>9, <1>10, <1>11

LEMMA CheckpointMoves ==
    ASSUME Split!ConstantsOK, SplitInv
    PROVE  /\ Split!Decide => SplitInv'
           /\ Split!Save => SplitInv'
           /\ Split!Processed => SplitInv'
           /\ Split!DeleteFile => SplitInv'
<1>0. /\ plan \in Plans /\ parent \in Parents /\ step \in Places
      /\ made \in Seq(Kidset(Len(made))) /\ ids \in Seq(1 .. Len(made))
      /\ file \in Papers(Len(made))
      /\ breaks \in 0 .. MaxBreaks /\ MaxBreaks \in Nat
      /\ Split!N \in Nat /\ Split!N > 0 /\ 0 \in 0 .. Split!N
      /\ Len(made) \in Nat /\ Len(ids) \in Nat
      /\ NoneBeforeDecision /\ MemoryIsFile /\ UnsavedIsNext /\ RecordedInOrder
      /\ LinkedWhenComplete /\ BreaksPay /\ (parent.processed => AllMade)
    BY SplitFacts
<1>g. ASSUME made' = made, plan' = plan
      PROVE  /\ made' \in Seq(Kidset(Len(made'))) /\ Len(made') = Len(made)
             /\ (AllMade => AllMade')
    BY <1>0, <1>g, SameGrows, RecordStays DEF MadeGrows
<1>1. ASSUME Split!Decide PROVE SplitInv'
    <2>1. /\ ~file.on /\ parent.asks /\ file' = [on |-> TRUE, ids |-> <<>>] /\ ids' = <<>>
          /\ step' = <<"create", 0>> /\ UNCHANGED <<plan, made, parent, breaks>>
        BY <1>1 DEF Split!Decide, Split!File, Split!Goto
    <2>2. step' \in Places /\ Cut' = "create"
        BY <1>0, <2>1, PlaceKinds DEF Cuts, Cut
    <2>3. file' \in Papers(Len(made)) /\ ids' \in Seq(1 .. Len(made))
        BY <2>1 DEF Papers
    <2>4. file'.on /\ file'.ids = <<>> /\ Len(file'.ids) = 0
        BY <2>1
    <2>5. Split!TypeOK'
        BY <1>0, <1>g, <2>1, <2>2, <2>3, SplitTypesAfter
    <2>6. Len(made) = 0
        BY <1>0, <2>1 DEF NoneBeforeDecision
    <2>7. RecordedInOrder'
        BY <1>0, <2>1, <2>4 DEF RecordedInOrder, Split!N
    <2>8. BreaksPay'
        BY <1>0, <2>1, <2>2, <2>4, <2>6 DEF BreaksPay
    <2> QED BY <1>0, <1>g, <2>1, <2>2, <2>4, <2>5, <2>7, <2>8
            DEF SplitInv, NoneBeforeDecision, MemoryIsFile, UnsavedIsNext, LinkedWhenComplete,
                Working, Linking
<1>2. ASSUME Split!Save PROVE SplitInv'
    <2> DEFINE new == Append(ids, Len(made))
    <2>1. /\ Cut = "save" /\ file' = [on |-> TRUE, ids |-> new] /\ ids' = new
          /\ step' = <<"create", 0>> /\ UNCHANGED <<plan, made, parent, breaks>>
        BY <1>2 DEF Split!Save, Split!File, Split!Goto, Split!At, Cut
    <2>2. step' \in Places /\ Cut' = "create"
        BY <1>0, <2>1, PlaceKinds DEF Cuts, Cut
    <2>3. /\ file.on /\ ids = file.ids
          /\ Len(ids) < Split!N /\ Len(made) > 0 /\ made[Len(made)].of = Len(ids) + 1
        BY <1>0, <2>1 DEF MemoryIsFile, UnsavedIsNext, Working
    <2>4. Len(made) \in 1 .. Len(made)
        BY <1>0, <2>3
    <2>5. /\ new \in Seq(1 .. Len(made)) /\ Len(new) = Len(ids) + 1
          /\ new[Len(ids) + 1] = Len(made)
          /\ \A k \in 1 .. Len(ids) : new[k] = ids[k]
        BY <1>0, <2>4
    <2> HIDE DEF new
    <2>6. file' \in Papers(Len(made)) /\ ids' \in Seq(1 .. Len(made)) /\ file'.on /\ file'.ids = new
        BY <2>1, <2>5 DEF Papers
    <2>7. Split!TypeOK'
        BY <1>0, <1>g, <2>1, <2>2, <2>6, SplitTypesAfter
    <2>8. RecordedInOrder'
        <3>1. ASSUME NEW k \in 1 .. Len(new) PROVE made[new[k]].of = k
            <4>1. CASE k = Len(ids) + 1
                BY <2>3, <2>5, <4>1
            <4>2. CASE k # Len(ids) + 1
                <5>1. k \in 1 .. Len(ids)
                    BY <1>0, <2>5, <4>2
                <5> QED BY <1>0, <2>3, <2>5, <5>1 DEF RecordedInOrder
            <4> QED BY <4>1, <4>2
        <3>2. Len(new) <= Split!N
            BY <1>0, <2>3, <2>5
        <3> QED BY <2>1, <2>6, <3>1, <3>2 DEF RecordedInOrder, Split!N
    <2>9. BreaksPay'
        BY <1>0, <2>1, <2>2, <2>3, <2>5, <2>6 DEF BreaksPay
    <2> QED BY <1>0, <1>g, <2>1, <2>2, <2>6, <2>7, <2>8, <2>9
            DEF SplitInv, NoneBeforeDecision, MemoryIsFile, UnsavedIsNext, LinkedWhenComplete,
                Working, Linking
<1>3. ASSUME Split!Processed PROVE SplitInv'
    <2>1. /\ Cut = "processed" /\ parent' = [parent EXCEPT !.processed = TRUE]
          /\ UNCHANGED <<plan, file, made, step, ids, breaks>>
        BY <1>3 DEF Split!Processed, Split!At, Cut
    <2>2. parent' \in Parents /\ parent'.asks = parent.asks
        BY <1>0, <2>1 DEF Parents
    <2>3. file.on /\ ids = file.ids /\ Len(ids) = Split!N
        BY <1>0, <2>1 DEF MemoryIsFile, LinkedWhenComplete, Working, Linking
    <2>4. AllMade
        <3>1. ASSUME NEW k \in 1 .. Split!N PROVE \E c \in 1 .. Len(made) : made[c].of = k
            <4>1. ids[k] \in 1 .. Len(made) /\ made[ids[k]].of = k
                BY <1>0, <2>3 DEF RecordedInOrder
            <4> QED BY <4>1
        <3> QED BY <3>1 DEF AllMade
    <2>5. Split!TypeOK'
        BY <1>0, <1>g, <2>1, <2>2, SplitTypesAfter
    <2>6. RecordedInOrder'
        BY <1>0, <2>1 DEF RecordedInOrder, Split!N
    <2> QED BY <1>0, <1>g, <2>1, <2>2, <2>4, <2>5, <2>6
            DEF SplitInv, NoneBeforeDecision, MemoryIsFile, UnsavedIsNext, LinkedWhenComplete,
                Working, Linking, BreaksPay, Split!N, Cut
<1>4. ASSUME Split!DeleteFile PROVE SplitInv'
    <2>1. /\ Cut = "processed" /\ file' = [on |-> FALSE, ids |-> <<>>]
          /\ step' = <<"done", 0>> /\ UNCHANGED <<plan, made, parent, ids, breaks>>
        BY <1>4 DEF Split!DeleteFile, Split!NoFile, Split!Goto, Split!At, Cut
    <2>2. step' \in Places /\ Cut' = "done"
        BY <1>0, <2>1, PlaceKinds DEF Cuts, Cut
    <2>3. file' \in Papers(Len(made)) /\ ~file'.on /\ file'.ids = <<>> /\ Len(file'.ids) = 0
        BY <2>1 DEF Papers
    <2>4. file.on /\ ids = file.ids /\ Len(ids) = Split!N /\ ~parent.asks
        BY <1>0, <2>1 DEF MemoryIsFile, LinkedWhenComplete, Working, Linking
    <2>5. Split!TypeOK'
        BY <1>0, <1>g, <2>1, <2>2, <2>3, SplitTypesAfter
    <2>6. RecordedInOrder'
        BY <1>0, <2>1, <2>3 DEF RecordedInOrder, Split!N
    <2>7. BreaksPay'
        BY <1>0, <2>1, <2>3, <2>4 DEF BreaksPay, Split!N
    <2> QED BY <1>0, <1>g, <2>1, <2>2, <2>3, <2>4, <2>5, <2>6, <2>7
            DEF SplitInv, NoneBeforeDecision, MemoryIsFile, UnsavedIsNext, LinkedWhenComplete,
                Working, Linking
<1> QED BY <1>1, <1>2, <1>3, <1>4

(* A step that changes one child, or none, and nobody's part.              *)
LEMMA AfterEdit ==
    ASSUME Split!ConstantsOK, SplitInv, plan' = plan, file' = file, parent' = parent,
           ids' = ids, MadeGrows, Len(made') = Len(made), step' \in Places,
           breaks' \in 0 .. MaxBreaks, breaks' >= breaks
    PROVE  /\ Split!TypeOK' /\ NoneBeforeDecision' /\ RecordedInOrder'
           /\ (parent'.processed => AllMade')
           /\ (Cut' \notin {"block", "save"} /\ Cut \notin {"block", "save"})
                 \/ (Cut' \in {"block", "save"} /\ Cut \in {"block", "save"}) => BreaksPay'
           /\ (Cut' \in {"block", "save"} /\ Cut \in {"block", "save"})
                 \/ Cut' \notin {"block", "save"} => UnsavedIsNext'
<1>0. /\ plan \in Plans /\ parent \in Parents
      /\ made \in Seq(Kidset(Len(made))) /\ ids \in Seq(1 .. Len(made))
      /\ file \in Papers(Len(made)) /\ breaks \in 0 .. MaxBreaks /\ MaxBreaks \in Nat
      /\ Split!N \in Nat /\ Len(made) \in Nat /\ Len(file.ids) \in Nat /\ Len(ids) \in Nat
      /\ NoneBeforeDecision /\ UnsavedIsNext /\ BreaksPay /\ (parent.processed => AllMade)
    BY SplitFacts
<1>1. made' \in Seq(Kidset(Len(made')))
    BY DEF MadeGrows
<1>2. Split!TypeOK'
    BY <1>0, <1>1, SplitTypesAfter
<1>3. RecordedInOrder' /\ (AllMade => AllMade')
    BY RecordStays
<1>4. ASSUME (Cut' \notin {"block", "save"} /\ Cut \notin {"block", "save"})
                 \/ (Cut' \in {"block", "save"} /\ Cut \in {"block", "save"})
      PROVE  BreaksPay'
    <2>1. breaks' \in Nat /\ breaks \in Nat
        BY <1>0
    <2>2. Split!N' = Split!N
        BY DEF Split!N
    <2>3. CASE Cut' \notin {"block", "save"} /\ Cut \notin {"block", "save"}
        BY <1>0, <2>1, <2>2, <2>3 DEF BreaksPay
    <2>4. CASE Cut' \in {"block", "save"} /\ Cut \in {"block", "save"}
        BY <1>0, <2>1, <2>2, <2>4 DEF BreaksPay
    <2> QED BY <1>4, <2>3, <2>4
<1>5. ASSUME (Cut' \in {"block", "save"} /\ Cut \in {"block", "save"})
                 \/ Cut' \notin {"block", "save"}
      PROVE  UnsavedIsNext'
    BY <1>0, <1>5 DEF UnsavedIsNext, MadeGrows, Split!N
<1> QED BY <1>0, <1>2, <1>3, <1>4, <1>5 DEF NoneBeforeDecision

LEMMA ChildMoves ==
    ASSUME Split!ConstantsOK, SplitInv
    PROVE  /\ Split!Block => SplitInv'
           /\ Split!Link => SplitInv'
           /\ Split!WaitLabel => SplitInv'
           /\ \A c \in Split!Iids : Split!Take(c) => SplitInv'
           /\ \A c \in Split!Iids : Split!Implement(c) => SplitInv'
<1>0. /\ plan \in Plans /\ parent \in Parents /\ step \in Places
      /\ made \in Seq(Kidset(Len(made))) /\ ids \in Seq(1 .. Len(made))
      /\ breaks \in 0 .. MaxBreaks /\ MaxBreaks \in Nat
      /\ Split!N \in Nat /\ Split!N > 0 /\ 0 \in 0 .. Split!N
      /\ Len(made) \in Nat /\ Len(ids) \in Nat /\ step[2] \in 0 .. Split!N
      /\ MemoryIsFile /\ UnsavedIsNext /\ LinkedWhenComplete
    BY SplitFacts
<1>p. \A k \in 1 .. Split!N : plan[k] \in 0 .. Split!N
    BY <1>0, SplitSizes
(* A child is changed in one of its fields, or nothing is.                 *)
<1>e. ASSUME NEW c \in 1 .. Len(made), NEW r \in Kidset(Len(made)), r.of = made[c].of,
             made' = [made EXCEPT ![c] = r]
      PROVE  MadeGrows /\ Len(made') = Len(made)
    BY <1>0, <1>e, EditGrows
<1>s. ASSUME made' = made
      PROVE  MadeGrows /\ Len(made') = Len(made)
    BY <1>0, <1>s, SameGrows
<1>k. ASSUME NEW c \in 1 .. Len(made) PROVE made[c] \in Kidset(Len(made))
    BY <1>0, <1>k
<1>b. ASSUME breaks' = breaks \/ Split!Break
      PROVE  breaks' \in 0 .. MaxBreaks /\ breaks' >= breaks
    <2>1. CASE breaks' = breaks
        BY <1>0, <2>1
    <2>2. CASE Split!Break
        BY <1>0, <2>2, BreakIs
    <2> QED BY <1>b, <2>1, <2>2
<1>f. ASSUME NEW c \in 1 .. Len(made), NEW b \in BOOLEAN,
             made' = [made EXCEPT ![c].blocked = b]
      PROVE  MadeGrows /\ Len(made') = Len(made)
    <2> DEFINE r == [made[c] EXCEPT !.blocked = b]
    <2>1. r \in Kidset(Len(made)) /\ r.of = made[c].of
        BY <1>0, <1>k, KidKinds
    <2>2. made' = [made EXCEPT ![c] = r]
        BY <1>f
    <2> HIDE DEF r
    <2> QED BY <1>e, <2>1, <2>2
<1>w. ASSUME NEW c \in 1 .. Len(made), NEW d \in 1 .. Len(made),
             made' = [made EXCEPT ![c].waits = d]
      PROVE  MadeGrows /\ Len(made') = Len(made)
    <2> DEFINE r == [made[c] EXCEPT !.waits = d]
    <2>1. r \in Kidset(Len(made)) /\ r.of = made[c].of
        BY <1>0, <1>k, KidKinds
    <2>2. made' = [made EXCEPT ![c] = r]
        BY <1>w
    <2> HIDE DEF r
    <2> QED BY <1>e, <2>1, <2>2
<1>t. ASSUME NEW c \in 1 .. Len(made), NEW t \in Split!ChildStates,
             made' = [made EXCEPT ![c].state = t]
      PROVE  MadeGrows /\ Len(made') = Len(made)
    <2> DEFINE r == [made[c] EXCEPT !.state = t]
    <2>1. r \in Kidset(Len(made)) /\ r.of = made[c].of
        BY <1>0, <1>k, KidKinds
    <2>2. made' = [made EXCEPT ![c] = r]
        BY <1>t
    <2> HIDE DEF r
    <2> QED BY <1>e, <2>1, <2>2
<1>1. ASSUME Split!Block PROVE SplitInv'
    <2>1. /\ Cut = "block" /\ step' = <<"save", 0>>
          /\ UNCHANGED <<plan, file, parent, ids>>
          /\ breaks' = breaks \/ Split!Break
          /\ made' \in {made, [made EXCEPT ![Len(made)].blocked = TRUE]}
        BY <1>1 DEF Split!Block, Split!At, Split!Goto, Cut
    <2>2. step' \in Places /\ Cut' = "save"
        BY <1>0, <2>1, PlaceKinds DEF Cuts, Cut
    <2>3. Len(made) \in 1 .. Len(made)
        BY <1>0, <2>1 DEF UnsavedIsNext
    <2>4. MadeGrows /\ Len(made') = Len(made)
        BY <1>s, <1>f, <2>1, <2>3
    <2>5. /\ Split!TypeOK' /\ NoneBeforeDecision' /\ RecordedInOrder'
          /\ (parent'.processed => AllMade') /\ BreaksPay' /\ UnsavedIsNext'
        BY <1>b, <2>1, <2>2, <2>4, AfterEdit
    <2> QED BY <1>0, <2>1, <2>2, <2>5
            DEF SplitInv, MemoryIsFile, LinkedWhenComplete, Working, Linking
<1>2. ASSUME Split!Link PROVE SplitInv'
    <2> DEFINE k == step[2]
    <2>1. /\ Cut = "link" /\ k <= Split!N
          /\ UNCHANGED <<plan, file, parent, ids>>
          /\ breaks' = breaks \/ Split!Break
          /\ made' \in {made, [made EXCEPT ![ids[k]].blocked = FALSE]}
          /\ step' = IF plan[k] = 0
                     THEN IF k < Split!N THEN <<"link", k + 1>> ELSE <<"told", 0>>
                     ELSE <<"label", k>>
        BY <1>2 DEF Split!Link, Split!At, Cut
    <2>2. k \in 1 .. Split!N /\ Len(ids) = Split!N /\ file.on /\ ids = file.ids
        BY <1>0, <2>1 DEF LinkedWhenComplete, MemoryIsFile, Working, Linking
    <2> HIDE DEF k
    <2>3. /\ step' \in Places /\ Cut' \in {"link", "label", "told"}
          /\ Cut' \in {"link", "label"} => step'[2] > 0
          /\ Cut' = "label" => plan[step'[2]] # 0
        <3>1. CASE plan[k] = 0 /\ k < Split!N
            <4>1. step' = <<"link", k + 1>> /\ k + 1 \in 0 .. Split!N /\ k + 1 > 0
                BY <1>0, <2>1, <2>2, <3>1
            <4> QED BY <4>1, PlaceKinds DEF Cuts, Cut
        <3>2. CASE plan[k] = 0 /\ ~(k < Split!N)
            BY <1>0, <2>1, <3>2, PlaceKinds DEF Cuts, Cut
        <3>3. CASE plan[k] # 0
            <4>1. step' = <<"label", k>> /\ k \in 0 .. Split!N /\ k > 0
                BY <1>0, <2>1, <2>2, <3>3
            <4> QED BY <3>3, <4>1, PlaceKinds DEF Cuts, Cut
        <3> QED BY <3>1, <3>2, <3>3
    <2>4. ids[k] \in 1 .. Len(made)
        BY <1>0, <2>2
    <2>5. MadeGrows /\ Len(made') = Len(made)
        BY <1>s, <1>f, <2>1, <2>4
    <2>6. /\ Split!TypeOK' /\ NoneBeforeDecision' /\ RecordedInOrder'
          /\ (parent'.processed => AllMade') /\ BreaksPay' /\ UnsavedIsNext'
        BY <1>b, <2>1, <2>3, <2>5, AfterEdit
    <2> QED BY <1>0, <2>1, <2>2, <2>3, <2>6
            DEF SplitInv, MemoryIsFile, LinkedWhenComplete, Working, Linking, Split!N
<1>3. ASSUME Split!WaitLabel PROVE SplitInv'
    <2> DEFINE k == step[2]
    <2>1. /\ Cut = "label"
          /\ UNCHANGED <<plan, file, parent, ids>>
          /\ breaks' = breaks \/ Split!Break
          /\ made' \in {made, [made EXCEPT ![ids[k]].waits = ids[plan[k]]]}
          /\ step' = IF k < Split!N THEN <<"link", k + 1>> ELSE <<"told", 0>>
        BY <1>3 DEF Split!WaitLabel, Split!At, Cut
    <2>2. /\ k \in 1 .. Split!N /\ Len(ids) = Split!N /\ file.on /\ ids = file.ids
          /\ plan[k] # 0
        BY <1>0, <2>1 DEF LinkedWhenComplete, MemoryIsFile, Working, Linking
    <2> HIDE DEF k
    <2>3. /\ step' \in Places /\ Cut' \in {"link", "told"}
          /\ Cut' = "link" => step'[2] > 0
        <3>1. CASE k < Split!N
            <4>1. step' = <<"link", k + 1>> /\ k + 1 \in 0 .. Split!N /\ k + 1 > 0
                BY <1>0, <2>1, <2>2, <3>1
            <4> QED BY <4>1, PlaceKinds DEF Cuts, Cut
        <3>2. CASE ~(k < Split!N)
            BY <1>0, <2>1, <3>2, PlaceKinds DEF Cuts, Cut
        <3> QED BY <3>1, <3>2
    <2>4. plan[k] \in 1 .. Split!N
        BY <1>0, <1>p, <2>2
    <2>5. ids[k] \in 1 .. Len(made) /\ ids[plan[k]] \in 1 .. Len(made)
        <3>1. ids \in Seq(1 .. Len(made)) /\ Len(ids) = Split!N
            BY <1>0, <2>2
        <3>2. \A j \in 1 .. Split!N : ids[j] \in 1 .. Len(made)
            BY <3>1
        <3> QED BY <2>2, <2>4, <3>2
    <2>6. MadeGrows /\ Len(made') = Len(made)
        BY <1>s, <1>w, <2>1, <2>5
    <2>7. /\ Split!TypeOK' /\ NoneBeforeDecision' /\ RecordedInOrder'
          /\ (parent'.processed => AllMade') /\ BreaksPay' /\ UnsavedIsNext'
        BY <1>b, <2>1, <2>3, <2>6, AfterEdit
    <2> QED BY <1>0, <2>1, <2>2, <2>3, <2>7
            DEF SplitInv, MemoryIsFile, LinkedWhenComplete, Working, Linking, Split!N
<1>4. ASSUME NEW c \in Split!Iids, Split!Take(c) \/ Split!Implement(c) PROVE SplitInv'
    <2>1. /\ UNCHANGED <<plan, file, parent, step, ids, breaks>> /\ c \in 1 .. Len(made)
          /\ \/ made' = [made EXCEPT ![c].state = "taken"]
             \/ made' = [made EXCEPT ![c].state = "closed"]
        BY <1>0, <1>4 DEF Split!Take, Split!Implement, Split!Iids
    <2>2. MadeGrows /\ Len(made') = Len(made)
        BY <1>t, <2>1 DEF Split!ChildStates
    <2>3. Cut' = Cut /\ step' \in Places
        BY <1>0, <2>1 DEF Cut
    <2>4. /\ Split!TypeOK' /\ NoneBeforeDecision' /\ RecordedInOrder'
          /\ (parent'.processed => AllMade') /\ BreaksPay' /\ UnsavedIsNext'
        BY <1>b, <2>1, <2>2, <2>3, AfterEdit
    <2> QED BY <1>0, <2>1, <2>3, <2>4
            DEF SplitInv, MemoryIsFile, LinkedWhenComplete, Split!N
<1> QED BY <1>1, <1>2, <1>3, <1>4

LEMMA ChildIsCreated ==
    ASSUME Split!ConstantsOK, SplitInv, Split!Create
    PROVE  SplitInv'
<1>0. /\ plan \in Plans /\ parent \in Parents /\ step \in Places
      /\ made \in Seq(Kidset(Len(made))) /\ ids \in Seq(1 .. Len(made))
      /\ file \in Papers(Len(made))
      /\ breaks \in 0 .. MaxBreaks /\ MaxBreaks \in Nat
      /\ Split!N \in Nat /\ Split!N > 0 /\ 0 \in 0 .. Split!N
      /\ Len(made) \in Nat /\ Len(ids) \in Nat /\ Len(file.ids) \in Nat
      /\ MemoryIsFile /\ UnsavedIsNext /\ LinkedWhenComplete /\ BreaksPay
      /\ (parent.processed => AllMade)
    BY SplitFacts
<1> DEFINE k == Len(ids) + 1
           new == Split!Child(k)
<1>1. /\ Cut = "create" /\ Len(ids) < Split!N /\ made' = Append(made, new)
      /\ step' \in {<<"block", 0>>, <<"save", 0>>}
      /\ UNCHANGED <<plan, file, parent, ids, breaks>>
    BY DEF Split!Create, Split!At, Split!Goto, Cut
<1>2. step' \in Places /\ Cut' \in {"block", "save"}
    BY <1>0, <1>1, PlaceKinds DEF Cuts, Cut
<1>3. k \in 1 .. Split!N /\ 0 \in 0 .. (Len(made) + 1)
    BY <1>0, <1>1
<1>4. new \in Kidset(Len(made) + 1) /\ new.of = k
    BY <1>3 DEF Kidset, Split!Child, Split!ChildStates
<1> HIDE DEF new
<1>5. made \in Seq(Kidset(Len(made) + 1))
    <2>1. Kidset(Len(made)) \subseteq Kidset(Len(made) + 1)
        BY <1>0, KidKinds
    <2> QED BY <1>0, <2>1, SeqMonotonic
<1>6. /\ Len(made') = Len(made) + 1 /\ made' \in Seq(Kidset(Len(made')))
      /\ made'[Len(made')] = new
      /\ \A c \in 1 .. Len(made) : made'[c] = made[c]
    BY <1>1, <1>4, <1>5
<1>7. MadeGrows
    BY <1>0, <1>6 DEF MadeGrows
<1>8. /\ Papers(Len(made)) \subseteq Papers(Len(made'))
      /\ Seq(1 .. Len(made)) \subseteq Seq(1 .. Len(made'))
      /\ RecordedInOrder' /\ (AllMade => AllMade')
    BY <1>1, <1>7, RecordStays
<1>9. Split!TypeOK'
    BY <1>0, <1>1, <1>2, <1>6, <1>8, SplitTypesAfter
<1>10. file.on /\ ids = file.ids
    BY <1>0, <1>1 DEF MemoryIsFile, Working
<1>11. BreaksPay'
    BY <1>0, <1>1, <1>2, <1>6, <1>10 DEF BreaksPay
<1>12. UnsavedIsNext'
    <2>1. Len(made') > 0 /\ made'[Len(made')].of = Len(ids) + 1
        BY <1>0, <1>4, <1>6
    <2> QED BY <1>1, <2>1 DEF UnsavedIsNext, Split!N
<1> QED BY <1>0, <1>1, <1>2, <1>8, <1>9, <1>10, <1>11, <1>12
        DEF SplitInv, NoneBeforeDecision, MemoryIsFile, LinkedWhenComplete, Working, Linking

LEMMA NextSplitInv == Split!ConstantsOK /\ SplitInv /\ [Split!Next]_splitVars => SplitInv'
BY ProcessMoves, CheckpointMoves, ChildMoves, ChildIsCreated DEF Split!Next, Split!Pmo

LEMMA SplitInvIsEnough ==
    ASSUME Split!ConstantsOK, SplitInv
    PROVE  Split!TypeOK /\ Split!OneExtraPerBreak /\ Split!ProcessedIsComplete
<1>0. /\ made \in Seq(Kidset(Len(made))) /\ Len(made) \in Nat /\ Split!N \in Nat
      /\ file.on \in BOOLEAN /\ Len(file.ids) \in Nat /\ Len(ids) \in Nat
      /\ breaks \in 0 .. MaxBreaks /\ MaxBreaks \in Nat
      /\ RecordedInOrder /\ MemoryIsFile /\ UnsavedIsNext /\ BreaksPay
      /\ (parent.processed => AllMade)
    BY SplitFacts
<1>1. Split!OneExtraPerBreak
    <2>1. Len(file.ids) <= Split!N /\ (Cut \in {"block", "save"} => Len(file.ids) < Split!N)
        BY <1>0 DEF RecordedInOrder, MemoryIsFile, UnsavedIsNext, Working
    <2>2. breaks \in Nat
        BY <1>0
    <2>3. CASE Cut \in {"block", "save"}
        BY <1>0, <2>1, <2>2, <2>3 DEF BreaksPay, Split!OneExtraPerBreak
    <2>4. CASE Cut \notin {"block", "save"}
        BY <1>0, <2>1, <2>2, <2>4 DEF BreaksPay, Split!OneExtraPerBreak
    <2> QED BY <2>3, <2>4
<1>2. Split!ProcessedIsComplete
    <2> SUFFICES ASSUME parent.processed
                 PROVE  {made[c].of : c \in Split!Iids} = 1 .. Split!N
        BY DEF Split!ProcessedIsComplete
    <2>1. Split!Iids = 1 .. Len(made)
        BY <1>0 DEF Split!Iids
    <2>2. \A c \in 1 .. Len(made) : made[c].of \in 1 .. Split!N
        <3>1. ASSUME NEW c \in 1 .. Len(made) PROVE made[c] \in Kidset(Len(made))
            BY <1>0
        <3> QED BY <3>1 DEF Kidset
    <2>3. \A k \in 1 .. Split!N : \E c \in 1 .. Len(made) : made[c].of = k
        BY <1>0 DEF AllMade
    <2> QED BY <2>1, <2>2, <2>3
<1> QED BY <1>1, <1>2 DEF SplitInv
-----------------------------------------------------------------------------
(* The PMO's triage.                                                       *)

Pcs == {"off", "idle", "drop", "list", "pick", "won", "model", "ask", "apply", "release"}
Minds == [pc : Pcs, held : Issues \cup {NoIssue}, cand : SUBSET Issues]
Talks == [issue : Issues, planning : BOOLEAN, later : SUBSET Pmo!Kinds,
          does : Pmo!Decisions \cup {"nothing"}]
Cursors == [issue : Issues \cup {NoIssue}, news : SUBSET Pmo!Kinds]
LabelSets == SUBSET {"action-required", "pmo-planning", "pmo-pending"}

(* While a session or its decision is under way, the state file is about   *)
(* the session's issue.                                                    *)
FileFollowsTalk ==
    \A p \in Pmos : triage[p].pc \in {"model", "ask", "apply"} =>
        model[p] \in Talks /\ state[p].issue = model[p].issue

(* A decision that did not see every human comment has one beyond the      *)
(* cursor.                                                                 *)
UnseenIsNews ==
    \A p \in Pmos : triage[p].pc = "apply" /\ model[p].issue \in unread =>
        "human" \in state[p].news

WonIsHeld == \A p \in Pmos : triage[p].pc = "won" => triage[p].held \in Issues

TriageInv == Pmo!TypeOK /\ FileFollowsTalk /\ UnseenIsNews /\ WonIsHeld

(* The forge's part of the types, and the PMO's.                           *)
ForgeOK ==
    /\ open \in [Issues -> BOOLEAN]
    /\ labels \in [Issues -> LabelSets]
    /\ claim \in [Issues -> Pmos \cup {Nobody}]
    /\ said \in [Issues -> SUBSET Pmo!Kinds]
    /\ unread \subseteq Issues

MindsOK ==
    /\ triage \in [Pmos -> Minds]
    /\ model \in [Pmos -> {Pmo!NoRun} \cup Talks]
    /\ state \in [Pmos -> Cursors]

BoundsOK ==
    /\ stray \subseteq Issues
    /\ faults \in 0 .. MaxFaults /\ kills \in 0 .. MaxKills /\ moves \in 0 .. MaxMoves

LEMMA PmoTypes == Pmo!TypeOK <=> ForgeOK /\ MindsOK /\ BoundsOK
BY DEF Pmo!TypeOK, ForgeOK, MindsOK, BoundsOK, Minds, Pcs, Talks, Cursors, LabelSets

LEMMA PmoTypesAfter == ForgeOK' /\ MindsOK' /\ BoundsOK' => Pmo!TypeOK'
BY DEF Pmo!TypeOK, ForgeOK, MindsOK, BoundsOK, Minds, Pcs, Talks, Cursors, LabelSets

LEMMA MindKinds ==
    /\ Pmo!Idle \in Minds /\ Pmo!Idle.pc = "idle"
    /\ Pmo!Off \in Minds /\ Pmo!Off.pc = "off"
    /\ [Pmo!Idle EXCEPT !.pc = "list"] \in Minds /\ [Pmo!Idle EXCEPT !.pc = "list"].pc = "list"
    /\ \A i \in Issues : LET m == [Pmo!Idle EXCEPT !.held = i]
                         IN m \in Minds /\ m.pc = "idle"
    /\ \A i \in Issues, x \in {"won", "model"} :
          LET m == [pc |-> x, held |-> i, cand |-> {}]
          IN m \in Minds /\ m.pc = x /\ m.held = i
<1>1. /\ Pmo!Idle \in Minds /\ Pmo!Idle.pc = "idle"
      /\ Pmo!Off \in Minds /\ Pmo!Off.pc = "off"
      /\ [Pmo!Idle EXCEPT !.pc = "list"] \in Minds /\ [Pmo!Idle EXCEPT !.pc = "list"].pc = "list"
    BY DEF Minds, Pcs, Pmo!Idle, Pmo!Off
<1>2. ASSUME NEW i \in Issues
      PROVE  LET m == [Pmo!Idle EXCEPT !.held = i] IN m \in Minds /\ m.pc = "idle"
    BY DEF Minds, Pcs, Pmo!Idle
<1>3. ASSUME NEW i \in Issues, NEW x \in {"won", "model"}
      PROVE  LET m == [pc |-> x, held |-> i, cand |-> {}]
             IN m \in Minds /\ m.pc = x /\ m.held = i
    BY DEF Minds, Pcs
<1> QED BY <1>1, <1>2, <1>3

LEMMA TalkKinds ==
    ASSUME Pmo!ConstantsOK
    PROVE  /\ \A t \in {Pmo!NoRun} \cup Talks : t.issue \in Issues <=> t \in Talks
           /\ \A i \in Issues, b \in BOOLEAN :
                 LET t == [issue |-> i, planning |-> b, later |-> {}, does |-> "nothing"]
                 IN t \in Talks /\ t.issue = i
           /\ \A t \in Talks, k \in SUBSET Pmo!Kinds :
                 LET u == [t EXCEPT !.later = k] IN u \in Talks /\ u.issue = t.issue
           /\ \A t \in Talks, d \in Pmo!Decisions :
                 LET u == [t EXCEPT !.does = d] IN u \in Talks /\ u.issue = t.issue
           /\ \A t \in Talks : t.later \in SUBSET Pmo!Kinds
<1>1. ASSUME NEW t \in {Pmo!NoRun} \cup Talks PROVE t.issue \in Issues <=> t \in Talks
    BY DEF Talks, Pmo!NoRun, Pmo!ConstantsOK
<1>2. ASSUME NEW i \in Issues, NEW b \in BOOLEAN
      PROVE  LET t == [issue |-> i, planning |-> b, later |-> {}, does |-> "nothing"]
             IN t \in Talks /\ t.issue = i
    BY DEF Talks
<1>3. ASSUME NEW t \in Talks, NEW k \in SUBSET Pmo!Kinds
      PROVE  LET u == [t EXCEPT !.later = k] IN u \in Talks /\ u.issue = t.issue
    BY DEF Talks
<1>4. ASSUME NEW t \in Talks, NEW d \in Pmo!Decisions
      PROVE  LET u == [t EXCEPT !.does = d] IN u \in Talks /\ u.issue = t.issue
    BY DEF Talks
<1>5. ASSUME NEW t \in Talks PROVE t.later \in SUBSET Pmo!Kinds
    BY DEF Talks
<1> QED BY <1>1, <1>2, <1>3, <1>4, <1>5

LEMMA CursorKinds ==
    /\ Pmo!NoFile \in Cursors
    /\ \A i \in Issues, k \in SUBSET Pmo!Kinds :
          LET c == [issue |-> i, news |-> k] IN c \in Cursors /\ c.issue = i /\ c.news = k
    /\ \A c \in Cursors, k \in SUBSET Pmo!Kinds :
          LET d == [c EXCEPT !.news = k] IN d \in Cursors /\ d.issue = c.issue /\ d.news = k
    /\ \A c \in Cursors : c.news \in SUBSET Pmo!Kinds
<1>1. Pmo!NoFile \in Cursors
    BY DEF Cursors, Pmo!NoFile
<1>2. ASSUME NEW i \in Issues, NEW k \in SUBSET Pmo!Kinds
      PROVE  LET c == [issue |-> i, news |-> k] IN c \in Cursors /\ c.issue = i /\ c.news = k
    BY DEF Cursors
<1>3. ASSUME NEW c \in Cursors, NEW k \in SUBSET Pmo!Kinds
      PROVE  LET d == [c EXCEPT !.news = k] IN d \in Cursors /\ d.issue = c.issue /\ d.news = k
    BY DEF Cursors
<1>4. ASSUME NEW c \in Cursors PROVE c.news \in SUBSET Pmo!Kinds
    BY DEF Cursors
<1> QED BY <1>1, <1>2, <1>3, <1>4

(* A step that is about one PMO alone: r, t and c are its mind, its        *)
(* session and its file afterwards.                                        *)
Becomes(p, r, t, c) ==
    /\ triage' = [triage EXCEPT ![p] = r]
    /\ model' = [model EXCEPT ![p] = t]
    /\ state' = [state EXCEPT ![p] = c]

LEMMA AfterBecoming ==
    ASSUME TriageInv, NEW p \in Pmos, NEW r \in Minds, NEW t \in {Pmo!NoRun} \cup Talks,
           NEW c \in Cursors, Becomes(p, r, t, c), unread' \subseteq unread,
           r.pc \in {"model", "ask", "apply"} => t \in Talks /\ c.issue = t.issue,
           r.pc = "apply" /\ t.issue \in unread' => "human" \in c.news,
           r.pc = "won" => r.held \in Issues
    PROVE  MindsOK' /\ FileFollowsTalk' /\ UnseenIsNews' /\ WonIsHeld'
<1>0. MindsOK /\ FileFollowsTalk /\ UnseenIsNews /\ WonIsHeld
    BY PmoTypes DEF TriageInv
<1>1. /\ triage' \in [Pmos -> Minds] /\ model' \in [Pmos -> {Pmo!NoRun} \cup Talks]
      /\ state' \in [Pmos -> Cursors]
    BY <1>0 DEF MindsOK, Becomes
<1>2. /\ triage'[p] = r /\ model'[p] = t /\ state'[p] = c
      /\ \A q \in Pmos : q # p =>
            triage'[q] = triage[q] /\ model'[q] = model[q] /\ state'[q] = state[q]
    BY <1>0 DEF MindsOK, Becomes
<1>3. FileFollowsTalk'
    BY <1>0, <1>2 DEF FileFollowsTalk
<1>4. UnseenIsNews'
    BY <1>0, <1>2 DEF UnseenIsNews
<1>5. WonIsHeld'
    BY <1>0, <1>2 DEF WonIsHeld
<1> QED BY <1>1, <1>3, <1>4, <1>5 DEF MindsOK

(* A step that leaves the PMOs alone.                                      *)
LEMMA AfterWorld ==
    ASSUME TriageInv, UNCHANGED <<triage, model, state>>, unread' = unread
    PROVE  MindsOK' /\ FileFollowsTalk' /\ UnseenIsNews' /\ WonIsHeld'
BY PmoTypes DEF TriageInv, MindsOK, FileFollowsTalk, UnseenIsNews, WonIsHeld

LEMMA StaysItself ==
    ASSUME MindsOK, NEW p \in Pmos
    PROVE  /\ triage[p] \in Minds /\ model[p] \in {Pmo!NoRun} \cup Talks /\ state[p] \in Cursors
           /\ triage = [triage EXCEPT ![p] = triage[p]]
           /\ model = [model EXCEPT ![p] = model[p]]
           /\ state = [state EXCEPT ![p] = state[p]]
<1>1. triage = [triage EXCEPT ![p] = triage[p]]
    BY DEF MindsOK
<1>2. model = [model EXCEPT ![p] = model[p]]
    BY DEF MindsOK
<1>3. state = [state EXCEPT ![p] = state[p]]
    BY DEF MindsOK
<1> QED BY <1>1, <1>2, <1>3 DEF MindsOK

LEMMA FaultIs ==
    ASSUME BoundsOK, Pmo!ConstantsOK
    PROVE  /\ \A new \in SUBSET Issues : Pmo!Strays(new) => BoundsOK'
           /\ Pmo!Fault => BoundsOK'
           /\ Pmo!NoFault => BoundsOK'
<1>1. MaxFaults \in Nat /\ MaxKills \in Nat /\ MaxMoves \in Nat
    BY DEF Pmo!ConstantsOK
<1>2. ASSUME NEW new \in SUBSET Issues, Pmo!Strays(new) PROVE BoundsOK'
    BY <1>1, <1>2 DEF BoundsOK, Pmo!Strays
<1>3. Pmo!Fault => BoundsOK'
    BY <1>2 DEF Pmo!Fault
<1>4. Pmo!NoFault => BoundsOK'
    BY DEF BoundsOK, Pmo!NoFault
<1> QED BY <1>2, <1>3, <1>4

LEMMA InitTriageInv == Pmo!ConstantsOK /\ Pmo!Init => TriageInv
<1> SUFFICES ASSUME Pmo!ConstantsOK, Pmo!Init PROVE TriageInv
    OBVIOUS
<1>1. ForgeOK
    BY DEF Pmo!Init, ForgeOK, LabelSets
<1>2. MindsOK
    BY MindKinds, CursorKinds DEF Pmo!Init, MindsOK
<1>3. BoundsOK
    <2>1. MaxFaults \in Nat /\ MaxKills \in Nat /\ MaxMoves \in Nat
        BY DEF Pmo!ConstantsOK
    <2>2. stray = {} /\ faults = 0 /\ kills = 0 /\ moves = 0
        BY DEF Pmo!Init
    <2> QED BY <2>1, <2>2 DEF BoundsOK
<1>4. \A p \in Pmos : triage[p].pc = "idle"
    BY MindKinds DEF Pmo!Init
<1> QED BY <1>1, <1>2, <1>3, <1>4, PmoTypes
        DEF TriageInv, FileFollowsTalk, UnseenIsNews, WonIsHeld

(* A step that takes a PMO away from its session, if it had one.           *)
LEMMA AfterRest ==
    ASSUME TriageInv, NEW p \in Pmos, NEW r \in Minds,
           r.pc \notin {"model", "ask", "apply", "won"},
           triage' = [triage EXCEPT ![p] = r],
           model' \in {model, [model EXCEPT ![p] = Pmo!NoRun]},
           state' \in {state, [state EXCEPT ![p] = Pmo!NoFile]}, unread' = unread
    PROVE  MindsOK' /\ FileFollowsTalk' /\ UnseenIsNews' /\ WonIsHeld'
<1>0. MindsOK
    BY PmoTypes DEF TriageInv
<1>1. PICK t \in {Pmo!NoRun} \cup Talks : model' = [model EXCEPT ![p] = t]
    BY <1>0, StaysItself
<1>2. PICK c \in Cursors : state' = [state EXCEPT ![p] = c]
    BY <1>0, StaysItself, CursorKinds
<1> QED BY <1>1, <1>2, AfterBecoming DEF Becomes

LEMMA AfterNow ==
    ASSUME TriageInv, NEW p \in Pmos, NEW x \in Pcs \ {"model", "ask", "apply", "won"},
           Pmo!Now(p, x),
           model' \in {model, [model EXCEPT ![p] = Pmo!NoRun]},
           state' \in {state, [state EXCEPT ![p] = Pmo!NoFile]}, unread' = unread
    PROVE  MindsOK' /\ FileFollowsTalk' /\ UnseenIsNews' /\ WonIsHeld'
<1>0. triage[p] \in Minds
    BY PmoTypes, StaysItself DEF TriageInv
<1> DEFINE r == [triage[p] EXCEPT !.pc = x]
<1>1. r \in Minds /\ r.pc = x
    BY <1>0 DEF Minds
<1>2. triage' = [triage EXCEPT ![p] = r]
    BY DEF Pmo!Now
<1> HIDE DEF r
<1> QED BY <1>1, <1>2, AfterRest

(* save_claim_state and the begin of a session.                            *)
LEMMA AfterProcess ==
    ASSUME Pmo!ConstantsOK, TriageInv, NEW p \in Pmos, NEW i \in Issues, NEW b \in BOOLEAN,
           Pmo!Process(p, i, b), unread' = unread
    PROVE  MindsOK' /\ FileFollowsTalk' /\ UnseenIsNews' /\ WonIsHeld'
<1> DEFINE r == [pc |-> "model", held |-> i, cand |-> {}]
           t == [issue |-> i, planning |-> b, later |-> {}, does |-> "nothing"]
           c == [issue |-> i, news |-> {}]
<1>1. r \in Minds /\ r.pc = "model"
    BY MindKinds
<1>2. t \in Talks /\ t.issue = i
    BY TalkKinds
<1>3. c \in Cursors /\ c.issue = i
    BY CursorKinds
<1>4. Becomes(p, r, t, c)
    BY DEF Becomes, Pmo!Process
<1> HIDE DEF r, t, c
<1> QED BY <1>1, <1>2, <1>3, <1>4, AfterBecoming

LEMMA TriageFacts ==
    ASSUME TriageInv
    PROVE  /\ ForgeOK /\ MindsOK /\ BoundsOK
           /\ FileFollowsTalk /\ UnseenIsNews /\ WonIsHeld
           /\ UNCHANGED <<open, labels, claim, said, unread>> => ForgeOK'
<1>1. ForgeOK /\ MindsOK /\ BoundsOK /\ FileFollowsTalk /\ UnseenIsNews /\ WonIsHeld
    BY PmoTypes DEF TriageInv
<1> QED BY <1>1 DEF ForgeOK

LEMMA Together ==
    ForgeOK' /\ BoundsOK' /\ MindsOK' /\ FileFollowsTalk' /\ UnseenIsNews' /\ WonIsHeld'
    => TriageInv'
BY PmoTypesAfter DEF TriageInv

(* The label of a claim goes on or comes off, and nothing else changes.    *)
LEMMA ClaimStaysTyped ==
    ASSUME ForgeOK, NEW p \in Pmos, UNCHANGED <<open, labels, said, unread>>,
           \/ claim' = claim
           \/ \E i \in Issues : claim' = [claim EXCEPT ![i] = p]
           \/ \E i \in Issues \cup {NoIssue} :
                 claim' = [claim EXCEPT ![i] = IF @ = p THEN Nobody ELSE @]
    PROVE  ForgeOK'
<1>1. claim' \in [Issues -> Pmos \cup {Nobody}]
    BY DEF ForgeOK
<1> QED BY <1>1 DEF ForgeOK

LEMMA CycleMoves ==
    ASSUME Pmo!ConstantsOK, TriageInv, NEW p \in Pmos
    PROVE  /\ Pmo!Held(p) => TriageInv'
           /\ Pmo!Unworkable(p) => TriageInv'
           /\ Pmo!Drop(p) => TriageInv'
           /\ Pmo!List(p) => TriageInv'
           /\ Pmo!ListNone(p) => TriageInv'
           /\ \A i \in Issues : Pmo!Acquire(p, i) => TriageInv'
           /\ \A i \in Issues : Pmo!AcquireFails(p, i) => TriageInv'
           /\ \A i \in Issues : Pmo!Lose(p, i) => TriageInv'
           /\ Pmo!PickedNone(p) => TriageInv'
           /\ Pmo!Won(p) => TriageInv'
<1>0. /\ ForgeOK /\ MindsOK /\ BoundsOK
      /\ FileFollowsTalk /\ UnseenIsNews /\ WonIsHeld
      /\ triage[p] \in Minds /\ state[p] \in Cursors
      /\ triage[p].held \in Issues \cup {NoIssue} /\ triage[p].cand \in SUBSET Issues
    BY TriageFacts, StaysItself DEF Minds
<1>1. ASSUME Pmo!Held(p) PROVE TriageInv'
    <2>1. /\ triage[p].held \in Issues
          /\ Pmo!Process(p, triage[p].held, "pmo-planning" \in labels[triage[p].held])
          /\ Pmo!NoFault /\ UNCHANGED <<open, labels, claim, said, unread>>
        BY <1>0, <1>1 DEF Pmo!Held, Pmo!World
    <2>2. ("pmo-planning" \in labels[triage[p].held]) \in BOOLEAN
        OBVIOUS
    <2>3. MindsOK' /\ FileFollowsTalk' /\ UnseenIsNews' /\ WonIsHeld'
        BY <2>1, <2>2, AfterProcess
    <2> QED BY <1>0, <2>1, <2>3, FaultIs, TriageFacts, Together
<1>2. ASSUME Pmo!Unworkable(p) PROVE TriageInv'
    <2>1. /\ Pmo!Fault \/ Pmo!NoFault
          /\ Pmo!Now(p, "drop") /\ UNCHANGED <<open, labels, claim, said, unread, model, state>>
        BY <1>2 DEF Pmo!Unworkable, Pmo!World
    <2>2. MindsOK' /\ FileFollowsTalk' /\ UnseenIsNews' /\ WonIsHeld'
        BY <2>1, AfterNow DEF Pcs
    <2> QED BY <1>0, <2>1, <2>2, FaultIs, TriageFacts, Together
<1>3. ASSUME Pmo!Drop(p) PROVE TriageInv'
    <2>1. CASE /\ triage' = [triage EXCEPT ![p] = [Pmo!Idle EXCEPT !.pc = "list"]]
               /\ claim' = [claim EXCEPT ![triage[p].held] = IF @ = p THEN Nobody ELSE @]
               /\ state' = [state EXCEPT ![p] = Pmo!NoFile]
               /\ Pmo!NoFault /\ UNCHANGED <<open, labels, said, unread, model>>
        <3>1. MindsOK' /\ FileFollowsTalk' /\ UnseenIsNews' /\ WonIsHeld'
            BY <2>1, MindKinds, AfterRest
        <3> QED BY <1>0, <2>1, <3>1, FaultIs, ClaimStaysTyped, Together
    <2>2. CASE /\ Pmo!Now(p, "list") /\ Pmo!Fault
               /\ UNCHANGED <<open, labels, claim, said, unread, model, state>>
        <3>1. MindsOK' /\ FileFollowsTalk' /\ UnseenIsNews' /\ WonIsHeld'
            BY <2>2, AfterNow DEF Pcs
        <3> QED BY <1>0, <2>2, <3>1, FaultIs, TriageFacts, Together
    <2> QED BY <1>3, <2>1, <2>2 DEF Pmo!Drop
<1>4. ASSUME Pmo!List(p) PROVE TriageInv'
    <2> DEFINE cs == {i \in Issues : Pmo!Eligible(i)}
               r == [triage[p] EXCEPT !.pc = "pick", !.cand = cs]
    <2>1. /\ triage' = [triage EXCEPT ![p] = r]
          /\ Pmo!NoFault /\ UNCHANGED <<open, labels, claim, said, unread, model, state>>
        BY <1>4 DEF Pmo!List, Pmo!World
    <2>2. cs \in SUBSET Issues
        OBVIOUS
    <2> HIDE DEF cs
    <2>3. r \in Minds /\ r.pc = "pick"
        BY <1>0, <2>2 DEF Minds, Pcs
    <2> HIDE DEF r
    <2>4. MindsOK' /\ FileFollowsTalk' /\ UnseenIsNews' /\ WonIsHeld'
        BY <2>1, <2>3, AfterRest
    <2> QED BY <1>0, <2>1, <2>4, FaultIs, TriageFacts, Together
<1>5. ASSUME Pmo!ListNone(p) \/ Pmo!PickedNone(p) PROVE TriageInv'
    <2>1. /\ Pmo!Now(p, "idle")
          /\ Pmo!NoFault /\ UNCHANGED <<open, labels, claim, said, unread, model, state>>
        BY <1>5 DEF Pmo!ListNone, Pmo!PickedNone, Pmo!World
    <2>2. MindsOK' /\ FileFollowsTalk' /\ UnseenIsNews' /\ WonIsHeld'
        BY <2>1, AfterNow DEF Pcs
    <2> QED BY <1>0, <2>1, <2>2, FaultIs, TriageFacts, Together
<1>6. ASSUME NEW i \in Issues, Pmo!Acquire(p, i) PROVE TriageInv'
    <2> DEFINE r == [pc |-> "won", held |-> i, cand |-> {}]
    <2>1. /\ triage' = [triage EXCEPT ![p] = r] /\ claim' = [claim EXCEPT ![i] = p]
          /\ Pmo!NoFault /\ UNCHANGED <<open, labels, said, unread, model, state>>
        BY <1>6 DEF Pmo!Acquire
    <2>2. r \in Minds /\ r.pc = "won" /\ r.held = i
        BY MindKinds
    <2> HIDE DEF r
    <2>3. Becomes(p, r, model[p], state[p])
        BY <1>0, <2>1, StaysItself DEF Becomes
    <2>4. MindsOK' /\ FileFollowsTalk' /\ UnseenIsNews' /\ WonIsHeld'
        BY <1>0, <2>1, <2>2, <2>3, StaysItself, AfterBecoming
    <2> QED BY <1>0, <2>1, <2>4, FaultIs, ClaimStaysTyped, Together
<1>7. ASSUME NEW i \in Issues, Pmo!AcquireFails(p, i) PROVE TriageInv'
    <2>1. /\ triage' = [triage EXCEPT ![p] = Pmo!Idle]
          /\ claim' = [claim EXCEPT ![i] = p] \/ claim' = claim
          /\ Pmo!Strays({i}) \/ Pmo!Fault
          /\ UNCHANGED <<open, labels, said, unread, model, state>>
        BY <1>7 DEF Pmo!AcquireFails
    <2>2. MindsOK' /\ FileFollowsTalk' /\ UnseenIsNews' /\ WonIsHeld'
        BY <2>1, MindKinds, AfterRest
    <2>3. BoundsOK'
        BY <1>0, <2>1, FaultIs
    <2> QED BY <1>0, <2>1, <2>2, <2>3, ClaimStaysTyped, Together
<1>8. ASSUME NEW i \in Issues, Pmo!Lose(p, i) PROVE TriageInv'
    <2> DEFINE r == [triage[p] EXCEPT !.cand = @ \ {i}]
    <2>1. /\ triage' = [triage EXCEPT ![p] = r] /\ triage[p].pc = "pick"
          /\ Pmo!NoFault /\ UNCHANGED <<open, labels, claim, said, unread, model, state>>
        BY <1>8 DEF Pmo!Lose, Pmo!World, Pmo!At
    <2>2. triage[p].cand \ {i} \in SUBSET Issues
        BY <1>0
    <2>3. r \in Minds /\ r.pc = "pick"
        BY <1>0, <2>1, <2>2 DEF Minds
    <2> HIDE DEF r
    <2>4. MindsOK' /\ FileFollowsTalk' /\ UnseenIsNews' /\ WonIsHeld'
        BY <2>1, <2>3, AfterRest
    <2> QED BY <1>0, <2>1, <2>4, FaultIs, TriageFacts, Together
<1>9. ASSUME Pmo!Won(p) PROVE TriageInv'
    <2>1. /\ triage[p].held \in Issues /\ Pmo!Process(p, triage[p].held, FALSE)
          /\ Pmo!NoFault /\ UNCHANGED <<open, labels, claim, said, unread>>
        BY <1>0, <1>9 DEF Pmo!Won, Pmo!World, Pmo!At, WonIsHeld
    <2>2. MindsOK' /\ FileFollowsTalk' /\ UnseenIsNews' /\ WonIsHeld'
        BY <2>1, AfterProcess
    <2> QED BY <1>0, <2>1, <2>2, FaultIs, TriageFacts, Together
<1> QED BY <1>1, <1>2, <1>3, <1>4, <1>5, <1>6, <1>7, <1>8, <1>9

(* The issue of a session that is under way.                               *)
LEMMA TalkIs ==
    ASSUME Pmo!ConstantsOK, TriageInv, NEW p \in Pmos,
           triage[p].pc \in {"model", "ask", "apply"}
    PROVE  /\ model[p] \in Talks /\ model[p].issue \in Issues
           /\ state[p].issue = model[p].issue /\ model[p].later \in SUBSET Pmo!Kinds
BY TriageFacts, TalkKinds DEF FileFollowsTalk, Talks

LEMMA LabelsStayTyped ==
    ASSUME ForgeOK, UNCHANGED <<open, claim, said, unread>>, NEW i \in Issues,
           NEW l \in {"action-required", "pmo-planning", "pmo-pending"},
           \/ labels' = [labels EXCEPT ![i] = @ \cup {l}]
           \/ labels' = [labels EXCEPT ![i] = @ \ {l}]
    PROVE  ForgeOK'
<1>1. labels \in [Issues -> LabelSets] /\ labels[i] \in LabelSets
    BY DEF ForgeOK
<1>2. labels[i] \cup {l} \in LabelSets /\ labels[i] \ {l} \in LabelSets
    BY <1>1 DEF LabelSets
<1>3. labels' \in [Issues -> LabelSets]
    BY <1>1, <1>2
<1> QED BY <1>3 DEF ForgeOK

LEMMA TalkMoves ==
    ASSUME Pmo!ConstantsOK, TriageInv, NEW p \in Pmos
    PROVE  /\ Pmo!Inject(p) => TriageInv'
           /\ Pmo!Ask(p) => TriageInv'
           /\ Pmo!AskEnds(p) => TriageInv'
           /\ Pmo!SessionEnds(p) => TriageInv'
           /\ \A d \in Pmo!Decisions : Pmo!Decide(p, d) => TriageInv'
<1>0. /\ ForgeOK /\ MindsOK /\ BoundsOK
      /\ FileFollowsTalk /\ UnseenIsNews /\ WonIsHeld
      /\ triage[p] \in Minds /\ state[p] \in Cursors /\ model[p] \in {Pmo!NoRun} \cup Talks
    BY TriageFacts, StaysItself
<1>s. /\ triage = [triage EXCEPT ![p] = triage[p]]
      /\ model = [model EXCEPT ![p] = model[p]]
      /\ state = [state EXCEPT ![p] = state[p]]
    BY <1>0, StaysItself
<1>1. ASSUME Pmo!Inject(p) PROVE TriageInv'
    <2> DEFINE t == [model[p] EXCEPT !.later = {}]
    <2>1. /\ triage[p].pc = "model" /\ model' = [model EXCEPT ![p] = t]
          /\ Pmo!NoFault /\ UNCHANGED <<open, labels, claim, said, unread, triage, state>>
        BY <1>1 DEF Pmo!Inject, Pmo!World, Pmo!At
    <2>2. model[p] \in Talks /\ state[p].issue = model[p].issue
        BY <2>1, TalkIs
    <2>3. t \in Talks /\ t.issue = model[p].issue
        BY <2>2 DEF Talks
    <2> HIDE DEF t
    <2>4. Becomes(p, triage[p], t, state[p])
        BY <1>s, <2>1 DEF Becomes
    <2>5. MindsOK' /\ FileFollowsTalk' /\ UnseenIsNews' /\ WonIsHeld'
        BY <1>0, <2>1, <2>2, <2>3, <2>4, AfterBecoming
    <2> QED BY <1>0, <2>1, <2>5, FaultIs, TriageFacts, Together
<1>2. ASSUME Pmo!Ask(p) \/ Pmo!AskEnds(p) PROVE TriageInv'
    <2>1. /\ triage[p].pc \in {"model", "ask"}
          /\ Pmo!Now(p, "ask") \/ Pmo!Now(p, "model")
          /\ \/ labels' = [labels EXCEPT ![model[p].issue] = @ \cup {"pmo-pending"}]
             \/ labels' = [labels EXCEPT ![model[p].issue] = @ \ {"pmo-pending"}]
          /\ Pmo!NoFault /\ UNCHANGED <<open, claim, said, unread, model, state>>
        BY <1>2 DEF Pmo!Ask, Pmo!AskEnds, Pmo!At
    <2>2. /\ model[p] \in Talks /\ model[p].issue \in Issues
          /\ state[p].issue = model[p].issue
        BY <2>1, TalkIs
    <2>3. PICK r \in Minds : r.pc \in {"model", "ask"} /\ triage' = [triage EXCEPT ![p] = r]
        <3>1. /\ [triage[p] EXCEPT !.pc = "ask"] \in Minds
              /\ [triage[p] EXCEPT !.pc = "ask"].pc = "ask"
              /\ [triage[p] EXCEPT !.pc = "model"] \in Minds
              /\ [triage[p] EXCEPT !.pc = "model"].pc = "model"
            BY <1>0 DEF Minds, Pcs
        <3> QED BY <2>1, <3>1 DEF Pmo!Now
    <2>4. Becomes(p, r, model[p], state[p])
        BY <1>s, <2>1, <2>3 DEF Becomes
    <2>5. MindsOK' /\ FileFollowsTalk' /\ UnseenIsNews' /\ WonIsHeld'
        BY <1>0, <2>1, <2>2, <2>3, <2>4, AfterBecoming
    <2>6. ForgeOK'
        BY <1>0, <2>1, <2>2, LabelsStayTyped
    <2> QED BY <1>0, <2>1, <2>5, <2>6, FaultIs, Together
<1>3. ASSUME Pmo!SessionEnds(p) PROVE TriageInv'
    <2>1. /\ Pmo!Now(p, "release") /\ model' = [model EXCEPT ![p] = Pmo!NoRun]
          /\ Pmo!NoFault \/ Pmo!Fault
          /\ UNCHANGED <<open, labels, claim, said, unread, state>>
        BY <1>3 DEF Pmo!SessionEnds, Pmo!World, Pmo!Now
    <2>2. MindsOK' /\ FileFollowsTalk' /\ UnseenIsNews' /\ WonIsHeld'
        BY <2>1, AfterNow DEF Pcs
    <2> QED BY <1>0, <2>1, <2>2, FaultIs, TriageFacts, Together
<1>4. ASSUME NEW d \in Pmo!Decisions, Pmo!Decide(p, d) PROVE TriageInv'
    <2> DEFINE r == [triage[p] EXCEPT !.pc = "apply"]
               t == [model[p] EXCEPT !.does = d]
               c == [state[p] EXCEPT !.news = model[p].later]
    <2>1. /\ triage[p].pc = "model" /\ triage' = [triage EXCEPT ![p] = r]
          /\ model' = [model EXCEPT ![p] = t] /\ state' = [state EXCEPT ![p] = c]
          /\ unread' = IF "human" \in model[p].later THEN unread
                       ELSE unread \ {model[p].issue}
          /\ Pmo!NoFault /\ UNCHANGED <<open, labels, claim, said>>
        BY <1>4 DEF Pmo!Decide, Pmo!At
    <2>2. /\ model[p] \in Talks /\ state[p].issue = model[p].issue
          /\ model[p].later \in SUBSET Pmo!Kinds
        BY <2>1, TalkIs
    <2>3. r \in Minds /\ r.pc = "apply"
        BY <1>0 DEF Minds, Pcs
    <2>4. t \in Talks /\ t.issue = model[p].issue
        BY <2>2 DEF Talks
    <2>5. c \in Cursors /\ c.issue = state[p].issue /\ c.news = model[p].later
        BY <1>0, <2>2 DEF Cursors
    <2> HIDE DEF r, t, c
    <2>6. Becomes(p, r, t, c) /\ unread' \subseteq unread
        BY <2>1 DEF Becomes
    <2>7. t.issue \in unread' => "human" \in c.news
        BY <2>1, <2>4, <2>5
    <2>8. MindsOK' /\ FileFollowsTalk' /\ UnseenIsNews' /\ WonIsHeld'
        BY <2>2, <2>3, <2>4, <2>5, <2>6, <2>7, AfterBecoming
    <2>9. ForgeOK'
        BY <1>0, <2>1, <2>6 DEF ForgeOK
    <2> QED BY <1>0, <2>1, <2>8, <2>9, FaultIs, Together
<1> QED BY <1>1, <1>2, <1>3, <1>4

LEMMA DecisionMoves ==
    ASSUME Pmo!ConstantsOK, TriageInv, NEW p \in Pmos
    PROVE  /\ Pmo!Clarify(p) => TriageInv'
           /\ Pmo!ProposePlan(p) => TriageInv'
           /\ Pmo!KeepPlan(p) => TriageInv'
           /\ Pmo!HandOver(p) => TriageInv'
           /\ Pmo!ApplyFails(p) => TriageInv'
           /\ Pmo!Release(p) => TriageInv'
<1>0. /\ ForgeOK /\ MindsOK /\ BoundsOK
      /\ FileFollowsTalk /\ UnseenIsNews /\ WonIsHeld
      /\ triage[p] \in Minds /\ state[p] \in Cursors
      /\ triage[p].held \in Issues \cup {NoIssue}
    BY TriageFacts, StaysItself DEF Minds
<1>a. ASSUME NEW d, Pmo!Applies(p, d)
      PROVE  /\ triage[p].pc = "apply" /\ model[p].issue \in Issues
             /\ model' = [model EXCEPT ![p] = Pmo!NoRun]
    BY <1>a, TalkIs DEF Pmo!Applies, Pmo!At
<1>1. ASSUME Pmo!Clarify(p) PROVE TriageInv'
    <2>1. /\ model[p].issue \in Issues
          /\ Pmo!Now(p, "release") /\ model' = [model EXCEPT ![p] = Pmo!NoRun]
          /\ labels' = [labels EXCEPT ![model[p].issue] = @ \cup {"pmo-pending"}]
          /\ Pmo!NoFault /\ UNCHANGED <<open, claim, said, unread, state>>
        BY <1>1, <1>a DEF Pmo!Clarify
    <2>2. MindsOK' /\ FileFollowsTalk' /\ UnseenIsNews' /\ WonIsHeld'
        BY <2>1, AfterNow DEF Pcs
    <2> QED BY <1>0, <2>1, <2>2, FaultIs, LabelsStayTyped, Together
<1>2. ASSUME Pmo!ProposePlan(p) PROVE TriageInv'
    <2> DEFINE i == model[p].issue
               r == [triage[p] EXCEPT !.pc = "idle"]
    <2>1. /\ i \in Issues /\ Pmo!Now(p, "idle")
          /\ model' = [model EXCEPT ![p] = Pmo!NoRun]
          /\ labels' = [labels EXCEPT ![i] = @ \cup {"pmo-planning"}]
          /\ said' \in {said, [said EXCEPT ![i] = @ \cup {"plan"}]}
          /\ state' \in {state, [state EXCEPT ![p].news = @ \cup {"plan"}]}
          /\ Pmo!NoFault \/ Pmo!Fault
          /\ UNCHANGED <<open, claim, unread>>
        BY <1>2, <1>a DEF Pmo!ProposePlan
    <2>2. triage' = [triage EXCEPT ![p] = r] /\ r \in Minds /\ r.pc = "idle"
        BY <1>0, <2>1 DEF Pmo!Now, Minds, Pcs
    <2> HIDE DEF r
    <2>3. PICK c \in Cursors : state' = [state EXCEPT ![p] = c]
        <3>1. [state[p] EXCEPT !.news = @ \cup {"plan"}] \in Cursors
            BY <1>0 DEF Cursors, Pmo!Kinds
        <3> QED BY <1>0, <2>1, <3>1, StaysItself
    <2>4. MindsOK' /\ FileFollowsTalk' /\ UnseenIsNews' /\ WonIsHeld'
        BY <2>1, <2>2, <2>3, AfterBecoming DEF Becomes
    <2>5. said' \in [Issues -> SUBSET Pmo!Kinds]
        <3>1. said[i] \cup {"plan"} \in SUBSET Pmo!Kinds
            BY <1>0, <2>1 DEF ForgeOK, Pmo!Kinds
        <3> QED BY <1>0, <2>1, <3>1 DEF ForgeOK
    <2>6. labels' \in [Issues -> LabelSets]
        <3>1. labels[i] \cup {"pmo-planning"} \in LabelSets
            BY <1>0, <2>1 DEF ForgeOK, LabelSets
        <3> QED BY <1>0, <2>1, <3>1 DEF ForgeOK
    <2>7. ForgeOK'
        BY <1>0, <2>1, <2>5, <2>6 DEF ForgeOK
    <2> QED BY <1>0, <2>1, <2>4, <2>7, FaultIs, Together
<1>3. ASSUME Pmo!KeepPlan(p) PROVE TriageInv'
    <2>1. /\ Pmo!Now(p, "idle") /\ model' = [model EXCEPT ![p] = Pmo!NoRun]
          /\ Pmo!NoFault /\ UNCHANGED <<open, labels, claim, said, unread, state>>
        BY <1>3, <1>a DEF Pmo!KeepPlan, Pmo!World
    <2>2. MindsOK' /\ FileFollowsTalk' /\ UnseenIsNews' /\ WonIsHeld'
        BY <2>1, AfterNow DEF Pcs
    <2> QED BY <1>0, <2>1, <2>2, FaultIs, TriageFacts, Together
<1>4. ASSUME Pmo!HandOver(p) PROVE TriageInv'
    <2> DEFINE i == model[p].issue
    <2>1. /\ i \in Issues /\ Pmo!Now(p, "release")
          /\ model' = [model EXCEPT ![p] = Pmo!NoRun]
          /\ open' \in {open, [open EXCEPT ![i] = FALSE]}
          /\ labels' = [labels EXCEPT ![i] = @ \ {"action-required"}]
          /\ Pmo!NoFault /\ UNCHANGED <<claim, said, unread, state>>
        BY <1>4, <1>a DEF Pmo!HandOver
    <2> HIDE DEF i
    <2>2. MindsOK' /\ FileFollowsTalk' /\ UnseenIsNews' /\ WonIsHeld'
        BY <2>1, AfterNow DEF Pcs
    <2>3. open' \in [Issues -> BOOLEAN]
        BY <1>0, <2>1 DEF ForgeOK
    <2>4. labels' \in [Issues -> LabelSets]
        <3>1. labels[i] \ {"action-required"} \in LabelSets
            BY <1>0, <2>1 DEF ForgeOK, LabelSets
        <3> QED BY <1>0, <2>1, <3>1 DEF ForgeOK
    <2>5. ForgeOK'
        BY <1>0, <2>1, <2>3, <2>4 DEF ForgeOK
    <2> QED BY <1>0, <2>1, <2>2, <2>5, FaultIs, Together
<1>5. ASSUME Pmo!ApplyFails(p) PROVE TriageInv'
    <2>1. /\ Pmo!Now(p, "release") /\ model' = [model EXCEPT ![p] = Pmo!NoRun]
          /\ Pmo!Fault /\ UNCHANGED <<open, labels, claim, said, unread, state>>
        BY <1>5 DEF Pmo!ApplyFails, Pmo!World
    <2>2. MindsOK' /\ FileFollowsTalk' /\ UnseenIsNews' /\ WonIsHeld'
        BY <2>1, AfterNow DEF Pcs
    <2> QED BY <1>0, <2>1, <2>2, FaultIs, TriageFacts, Together
<1>6. ASSUME Pmo!Release(p) PROVE TriageInv'
    <2>1. CASE /\ triage' = [triage EXCEPT ![p] = Pmo!Idle]
               /\ claim' = [claim EXCEPT ![triage[p].held] = IF @ = p THEN Nobody ELSE @]
               /\ state' = [state EXCEPT ![p] = Pmo!NoFile]
               /\ Pmo!NoFault /\ UNCHANGED <<open, labels, said, unread, model>>
        <3>1. MindsOK' /\ FileFollowsTalk' /\ UnseenIsNews' /\ WonIsHeld'
            BY <2>1, MindKinds, AfterRest
        <3> QED BY <1>0, <2>1, <3>1, FaultIs, ClaimStaysTyped, Together
    <2>2. CASE /\ Pmo!Now(p, "idle") /\ Pmo!Fault
               /\ UNCHANGED <<open, labels, claim, said, unread, model, state>>
        <3>1. MindsOK' /\ FileFollowsTalk' /\ UnseenIsNews' /\ WonIsHeld'
            BY <2>2, AfterNow DEF Pcs
        <3> QED BY <1>0, <2>2, <3>1, FaultIs, TriageFacts, Together
    <2> QED BY <1>6, <2>1, <2>2 DEF Pmo!Release
<1> QED BY <1>1, <1>2, <1>3, <1>4, <1>5, <1>6

LEMMA RecoveryMoves ==
    ASSUME Pmo!ConstantsOK, TriageInv, NEW p \in Pmos
    PROVE  /\ Pmo!Stop(p) => TriageInv'
           /\ Pmo!Restart(p) => TriageInv'
<1>0. /\ ForgeOK /\ MindsOK /\ BoundsOK
      /\ FileFollowsTalk /\ UnseenIsNews /\ WonIsHeld
      /\ triage[p] \in Minds /\ state[p] \in Cursors
    BY TriageFacts, StaysItself
<1>1. ASSUME Pmo!Stop(p) PROVE TriageInv'
    <2>1. /\ kills < MaxKills /\ kills' = kills + 1
          /\ triage' = [triage EXCEPT ![p] = Pmo!Off]
          /\ model' = [model EXCEPT ![p] = Pmo!NoRun]
          /\ UNCHANGED <<open, labels, claim, said, unread, state, stray, faults, moves>>
        BY <1>1 DEF Pmo!Stop, Pmo!World
    <2>2. MindsOK' /\ FileFollowsTalk' /\ UnseenIsNews' /\ WonIsHeld'
        BY <2>1, MindKinds, AfterRest
    <2>3. BoundsOK'
        BY <1>0, <2>1 DEF BoundsOK, Pmo!ConstantsOK
    <2> QED BY <1>0, <2>1, <2>2, <2>3, TriageFacts, Together
(* A claim is taken up: an idle mind that holds it, and a file about it.   *)
<1>r. ASSUME NEW i \in Issues, Pmo!Resumes(p, i), UNCHANGED <<model, unread>>
      PROVE  MindsOK' /\ FileFollowsTalk' /\ UnseenIsNews' /\ WonIsHeld'
    <2> DEFINE r == [Pmo!Idle EXCEPT !.held = i]
               c == [issue |-> i, news |-> Pmo!News(p, i)]
    <2>1. r \in Minds /\ r.pc = "idle"
        BY MindKinds
    <2>2. Pmo!News(p, i) \in SUBSET Pmo!Kinds
        <3>1. state[p].news \in SUBSET Pmo!Kinds /\ said[i] \in SUBSET Pmo!Kinds
            BY <1>0, CursorKinds DEF ForgeOK
        <3> QED BY <3>1 DEF Pmo!News
    <2>3. c \in Cursors
        BY <2>2, CursorKinds
    <2>4. triage' = [triage EXCEPT ![p] = r] /\ state' = [state EXCEPT ![p] = c]
        BY <1>r DEF Pmo!Resumes
    <2> HIDE DEF r, c
    <2>5. Becomes(p, r, model[p], c)
        BY <1>0, <1>r, <2>4, StaysItself DEF Becomes
    <2> QED BY <1>0, <1>r, <2>1, <2>3, <2>5, StaysItself, AfterBecoming
<1>c. ASSUME NEW i \in Issues, Pmo!LetGo(p, i) \/ claim' = claim
      PROVE  claim' \in [Issues -> Pmos \cup {Nobody}]
    BY <1>0, <1>c DEF ForgeOK, Pmo!LetGo
<1>m. Pmo!Mine(p) \in SUBSET Issues /\ Pmo!Recovered(p) \in SUBSET Issues
    BY DEF Pmo!Mine, Pmo!Recovered
<1>2. ASSUME Pmo!Restart(p) PROVE TriageInv'
    <2>0. UNCHANGED <<open, labels, said, unread, model>>
        BY <1>2 DEF Pmo!Restart
    <2>1. CASE /\ triage' = [triage EXCEPT ![p] = Pmo!Idle]
               /\ state' = [state EXCEPT ![p] = Pmo!NoFile]
               /\ claim' = claim
               /\ Pmo!NoFault \/ Pmo!Strays(Pmo!Mine(p))
        <3>1. MindsOK' /\ FileFollowsTalk' /\ UnseenIsNews' /\ WonIsHeld'
            BY <2>0, <2>1, MindKinds, AfterRest
        <3>2. BoundsOK'
            BY <1>0, <1>m, <2>1, FaultIs
        <3> QED BY <1>0, <2>0, <2>1, <3>1, <3>2, TriageFacts, Together
    <2>2. ASSUME NEW i \in Issues, Pmo!Resumes(p, i), Pmo!LetGo(p, i) \/ claim' = claim,
                 Pmo!NoFault \/ Pmo!Fault
          PROVE  TriageInv'
        <3>1. MindsOK' /\ FileFollowsTalk' /\ UnseenIsNews' /\ WonIsHeld'
            BY <1>r, <2>0, <2>2
        <3>2. ForgeOK'
            BY <1>0, <1>c, <2>0, <2>2 DEF ForgeOK
        <3> QED BY <1>0, <2>2, <3>1, <3>2, FaultIs, Together
    <2>3. \/ /\ triage' = [triage EXCEPT ![p] = Pmo!Idle]
             /\ state' = [state EXCEPT ![p] = Pmo!NoFile]
             /\ claim' = claim
             /\ Pmo!NoFault \/ Pmo!Strays(Pmo!Mine(p))
          \/ \E i \in Issues : /\ Pmo!Resumes(p, i) /\ (Pmo!LetGo(p, i) \/ claim' = claim)
                               /\ Pmo!NoFault \/ Pmo!Fault
        BY <1>2, <1>m DEF Pmo!Restart
    <2> QED BY <2>1, <2>2, <2>3
<1> QED BY <1>1, <1>2

LEMMA HumanMoves ==
    ASSUME Pmo!ConstantsOK, TriageInv
    PROVE  /\ \A i \in Issues : Pmo!Comment(i) => TriageInv'
           /\ \A i \in Issues : Pmo!Approve(i) => TriageInv'
           /\ \A i \in Issues : Pmo!Answer(i) => TriageInv'
           /\ \A i \in Issues : Pmo!TakeOver(i) => TriageInv'
           /\ \A i \in Issues : Pmo!Close(i) => TriageInv'
           /\ \A i \in Issues : Pmo!WorkerAsks(i) => TriageInv'
           /\ UNCHANGED pmoVars => TriageInv'
<1>0. /\ ForgeOK /\ MindsOK /\ BoundsOK
      /\ FileFollowsTalk /\ UnseenIsNews /\ WonIsHeld
    BY TriageFacts
<1>m. ASSUME Pmo!Move PROVE BoundsOK' /\ triage' = triage
    BY <1>0, <1>m DEF Pmo!Move, BoundsOK, Pmo!ConstantsOK
<1>1. ASSUME NEW i \in Issues, Pmo!Comment(i) PROVE TriageInv'
    <2> DEFINE s(q) == IF state[q].issue = i
                       THEN [state[q] EXCEPT !.news = @ \cup {"human"}] ELSE state[q]
               t(q) == IF model[q].issue = i /\ triage[q].pc # "apply"
                       THEN [model[q] EXCEPT !.later = @ \cup {"human"}] ELSE model[q]
    <2>1. /\ Pmo!Move /\ said' = [said EXCEPT ![i] = @ \cup {"human"}]
          /\ unread' = unread \cup {i}
          /\ state' = [q \in Pmos |-> s(q)] /\ model' = [q \in Pmos |-> t(q)]
          /\ UNCHANGED <<open, labels, claim>>
        BY <1>1 DEF Pmo!Comment, Pmo!At
    <2>2. triage' = triage /\ BoundsOK'
        BY <1>m, <2>1
    <2>3. ASSUME NEW q \in Pmos
          PROVE  /\ state'[q] \in Cursors /\ state'[q].issue = state[q].issue
                 /\ state[q].news \subseteq state'[q].news
                 /\ state[q].issue = i => "human" \in state'[q].news
        <3>1. state[q] \in Cursors /\ state'[q] = s(q)
            BY <1>0, <2>1 DEF MindsOK
        <3>2. CASE state[q].issue = i
            BY <3>1, <3>2 DEF Cursors, Pmo!Kinds
        <3>3. CASE state[q].issue # i
            BY <3>1, <3>3
        <3> QED BY <3>2, <3>3
    <2>4. ASSUME NEW q \in Pmos
          PROVE  /\ model'[q] \in {Pmo!NoRun} \cup Talks
                 /\ model'[q].issue = model[q].issue
                 /\ model[q] \in Talks => model'[q] \in Talks
        <3>1. model[q] \in {Pmo!NoRun} \cup Talks /\ model'[q] = t(q)
            BY <1>0, <2>1 DEF MindsOK
        <3>2. CASE model[q].issue = i /\ triage[q].pc # "apply"
            <4>1. model[q] \in Talks
                BY <3>1, <3>2, TalkKinds
            <4> QED BY <3>1, <3>2, <4>1 DEF Talks, Pmo!Kinds
        <3>3. CASE ~(model[q].issue = i /\ triage[q].pc # "apply")
            BY <3>1, <3>3
        <3> QED BY <3>2, <3>3
    <2> HIDE DEF s, t
    <2>5. MindsOK'
        BY <1>0, <2>1, <2>2, <2>3, <2>4 DEF MindsOK
    <2>6. FileFollowsTalk' /\ WonIsHeld'
        BY <1>0, <2>2, <2>3, <2>4 DEF FileFollowsTalk, WonIsHeld
    <2>7. UnseenIsNews'
        <3>1. ASSUME NEW q \in Pmos, triage[q].pc = "apply", model[q].issue \in unread \cup {i}
              PROVE  "human" \in state'[q].news
            <4>1. state[q].issue = model[q].issue
                BY <1>0, <3>1 DEF FileFollowsTalk
            <4>2. CASE model[q].issue \in unread
                BY <1>0, <2>3, <3>1, <4>2 DEF UnseenIsNews
            <4>3. CASE model[q].issue = i
                BY <2>3, <4>1, <4>3
            <4> QED BY <3>1, <4>2, <4>3
        <3> QED BY <2>1, <2>2, <2>4, <3>1 DEF UnseenIsNews
    <2>8. ForgeOK'
        <3>1. said[i] \cup {"human"} \in SUBSET Pmo!Kinds
            BY <1>0 DEF ForgeOK, Pmo!Kinds
        <3>2. said' \in [Issues -> SUBSET Pmo!Kinds]
            BY <1>0, <2>1, <3>1 DEF ForgeOK
        <3> QED BY <1>0, <2>1, <3>2 DEF ForgeOK
    <2> QED BY <2>2, <2>5, <2>6, <2>7, <2>8, Together
<1>2. ASSUME NEW i \in Issues, Pmo!Approve(i) \/ Pmo!Answer(i) PROVE TriageInv'
    <2>1. /\ \/ labels' = [labels EXCEPT ![i] = @ \ {"pmo-planning"}]
             \/ labels' = [labels EXCEPT ![i] = @ \ {"pmo-pending"}]
          /\ Pmo!NoFault /\ UNCHANGED <<open, claim, said, unread, triage, model, state>>
        BY <1>2 DEF Pmo!Approve, Pmo!Answer
    <2>2. ForgeOK'
        BY <1>0, <2>1, LabelsStayTyped
    <2> QED BY <1>0, <2>1, <2>2, AfterWorld, FaultIs, Together
<1>3. ASSUME NEW i \in Issues, Pmo!TakeOver(i) PROVE TriageInv'
    <2>1. /\ claim' = [claim EXCEPT ![i] = Nobody]
          /\ Pmo!Move /\ UNCHANGED <<open, labels, said, unread, model, state>>
        BY <1>3 DEF Pmo!TakeOver
    <2>2. ForgeOK'
        <3>1. claim' \in [Issues -> Pmos \cup {Nobody}]
            BY <1>0, <2>1 DEF ForgeOK
        <3> QED BY <1>0, <2>1, <3>1 DEF ForgeOK
    <2> QED BY <1>m, <2>1, <2>2, AfterWorld, Together
<1>4. ASSUME NEW i \in Issues, Pmo!Close(i) PROVE TriageInv'
    <2>1. /\ open' = [open EXCEPT ![i] = FALSE]
          /\ Pmo!Move /\ UNCHANGED <<labels, claim, said, unread, model, state>>
        BY <1>4 DEF Pmo!Close
    <2>2. ForgeOK'
        <3>1. open' \in [Issues -> BOOLEAN]
            BY <1>0, <2>1 DEF ForgeOK
        <3> QED BY <1>0, <2>1, <3>1 DEF ForgeOK
    <2> QED BY <1>m, <2>1, <2>2, AfterWorld, Together
<1>5. ASSUME NEW i \in Issues, Pmo!WorkerAsks(i) PROVE TriageInv'
    <2>1. /\ labels' = [labels EXCEPT ![i] = @ \cup {"action-required"}]
          /\ Pmo!Move /\ UNCHANGED <<open, claim, said, unread, model, state>>
        BY <1>5 DEF Pmo!WorkerAsks
    <2>2. ForgeOK'
        BY <1>0, <2>1, LabelsStayTyped
    <2> QED BY <1>m, <2>1, <2>2, AfterWorld, Together
<1>6. ASSUME UNCHANGED pmoVars PROVE TriageInv'
    <2>1. /\ UNCHANGED <<open, labels, claim, said, unread, triage, model, state>>
          /\ UNCHANGED <<stray, faults, kills, moves>>
        BY <1>6 DEF pmoVars
    <2>2. BoundsOK'
        BY <1>0, <2>1 DEF BoundsOK
    <2> QED BY <2>1, <2>2, AfterWorld, TriageFacts, Together
<1> QED BY <1>1, <1>2, <1>3, <1>4, <1>5, <1>6

LEMMA NextTriageInv == Pmo!ConstantsOK /\ TriageInv /\ [Pmo!Next]_pmoVars => TriageInv'
<1> SUFFICES ASSUME Pmo!ConstantsOK, TriageInv, [Pmo!Next]_pmoVars PROVE TriageInv'
    OBVIOUS
<1>1. ASSUME NEW p \in Pmos, Pmo!Step(p) PROVE TriageInv'
    BY <1>1, CycleMoves, TalkMoves, DecisionMoves, RecoveryMoves DEF Pmo!Step
<1>2. ASSUME NEW p \in Pmos, Pmo!Inject(p) \/ Pmo!Ask(p) \/ Pmo!Stop(p) PROVE TriageInv'
    BY <1>2, TalkMoves, RecoveryMoves
<1>3. ASSUME UNCHANGED pmoVars PROVE TriageInv'
    BY <1>3, HumanMoves
<1>4. ASSUME NEW i \in Issues,
             \/ Pmo!Comment(i) \/ Pmo!Approve(i) \/ Pmo!Answer(i)
             \/ Pmo!TakeOver(i) \/ Pmo!Close(i) \/ Pmo!WorkerAsks(i)
      PROVE  TriageInv'
    BY <1>4, HumanMoves
<1> QED BY <1>1, <1>2, <1>3, <1>4 DEF Pmo!Next

(* A decision that leaves its PMO idle is a plan, proposed or kept.        *)
LEMMA OnlyPlansIdle ==
    ASSUME Pmo!ConstantsOK, TriageInv, Pmo!Next, NEW p \in Pmos,
           triage[p].pc = "apply", triage'[p].pc = "idle"
    PROVE  Pmo!ProposePlan(p) \/ Pmo!KeepPlan(p)
<1>0. triage \in [Pmos -> Minds]
    BY TriageFacts DEF MindsOK
<1>1. ASSUME NEW i \in Issues,
             \/ Pmo!Comment(i) \/ Pmo!Approve(i) \/ Pmo!Answer(i)
             \/ Pmo!TakeOver(i) \/ Pmo!Close(i) \/ Pmo!WorkerAsks(i)
      PROVE  FALSE
    BY <1>1 DEF Pmo!Comment, Pmo!Approve, Pmo!Answer, Pmo!TakeOver, Pmo!Close, Pmo!WorkerAsks,
            Pmo!Move
<1>2. ASSUME NEW q \in Pmos, q # p, Pmo!Step(q) \/ Pmo!Inject(q) \/ Pmo!Ask(q) \/ Pmo!Stop(q)
      PROVE  FALSE
    <2>1. triage'[p] = triage[p]
        <3>1. ASSUME NEW r, triage' = [triage EXCEPT ![q] = r] PROVE triage'[p] = triage[p]
            BY <1>0, <1>2, <3>1
        <3>2. ASSUME NEW x, Pmo!Now(q, x) PROVE triage'[p] = triage[p]
            BY <3>1, <3>2 DEF Pmo!Now
        <3>3. CASE Pmo!Held(q) \/ Pmo!Unworkable(q) \/ Pmo!Drop(q) \/ Pmo!Won(q) \/ Pmo!List(q)
                     \/ Pmo!ListNone(q) \/ Pmo!PickedNone(q)
            BY <3>1, <3>2, <3>3
               DEF Pmo!Held, Pmo!Unworkable, Pmo!Drop, Pmo!Won, Pmo!List, Pmo!ListNone,
                   Pmo!PickedNone, Pmo!Process
        <3>4. CASE \E i \in Issues : Pmo!Acquire(q, i) \/ Pmo!AcquireFails(q, i) \/ Pmo!Lose(q, i)
            BY <3>1, <3>4 DEF Pmo!Acquire, Pmo!AcquireFails, Pmo!Lose
        <3>5. CASE \/ Pmo!SessionEnds(q) \/ Pmo!AskEnds(q) \/ Pmo!Inject(q) \/ Pmo!Ask(q)
                   \/ \E d \in Pmo!Decisions : Pmo!Decide(q, d)
            BY <3>1, <3>2, <3>5
               DEF Pmo!SessionEnds, Pmo!AskEnds, Pmo!Inject, Pmo!Ask, Pmo!Decide
        <3>6. CASE Pmo!Clarify(q) \/ Pmo!ProposePlan(q) \/ Pmo!KeepPlan(q) \/ Pmo!HandOver(q)
                     \/ Pmo!ApplyFails(q) \/ Pmo!Release(q)
            BY <3>1, <3>2, <3>6
               DEF Pmo!Clarify, Pmo!ProposePlan, Pmo!KeepPlan, Pmo!HandOver, Pmo!ApplyFails,
                   Pmo!Release
        <3>7. CASE Pmo!Stop(q) \/ Pmo!Restart(q)
            BY <3>1, <3>7 DEF Pmo!Stop, Pmo!Restart, Pmo!Resumes
        <3> QED BY <1>2, <3>3, <3>4, <3>5, <3>6, <3>7 DEF Pmo!Step
    <2> QED BY <2>1
<1>3. ASSUME Pmo!Step(p) \/ Pmo!Inject(p) \/ Pmo!Ask(p) \/ Pmo!Stop(p)
      PROVE  Pmo!ProposePlan(p) \/ Pmo!KeepPlan(p)
    <2>1. ASSUME Pmo!Now(p, "release") PROVE FALSE
        BY <1>0, <2>1 DEF Pmo!Now, Minds
    <2>2. ~Pmo!Stop(p)
        BY <1>0, MindKinds DEF Pmo!Stop
    <2>3. ~Pmo!Clarify(p) /\ ~Pmo!HandOver(p) /\ ~Pmo!ApplyFails(p)
        BY <2>1 DEF Pmo!Clarify, Pmo!HandOver, Pmo!ApplyFails
    <2>4. /\ ~Pmo!Held(p) /\ ~Pmo!Unworkable(p) /\ ~Pmo!Drop(p) /\ ~Pmo!Won(p) /\ ~Pmo!List(p)
          /\ ~Pmo!ListNone(p) /\ ~Pmo!PickedNone(p) /\ ~Pmo!Restart(p) /\ ~Pmo!Release(p)
          /\ \A i \in Issues : ~Pmo!Acquire(p, i) /\ ~Pmo!AcquireFails(p, i) /\ ~Pmo!Lose(p, i)
        BY DEF Pmo!At, Pmo!Held, Pmo!Unworkable, Pmo!Drop, Pmo!Won, Pmo!List, Pmo!ListNone,
               Pmo!PickedNone, Pmo!Restart, Pmo!Release, Pmo!Acquire, Pmo!AcquireFails, Pmo!Lose
    <2>5. /\ ~Pmo!SessionEnds(p) /\ ~Pmo!AskEnds(p) /\ ~Pmo!Inject(p) /\ ~Pmo!Ask(p)
          /\ \A d \in Pmo!Decisions : ~Pmo!Decide(p, d)
        BY DEF Pmo!At, Pmo!SessionEnds, Pmo!AskEnds, Pmo!Inject, Pmo!Ask, Pmo!Decide
    <2> QED BY <1>3, <2>2, <2>3, <2>4, <2>5 DEF Pmo!Step
<1> QED BY <1>1, <1>2, <1>3 DEF Pmo!Next

LEMMA PlansKeepNews ==
    ASSUME Pmo!ConstantsOK, TriageInv, Pmo!Next
    PROVE  \A p \in Pmos : Pmo!At(p, "apply") /\ triage'[p].pc = "idle"
                             /\ model[p].issue \in unread => "human" \in state'[p].news
<1> SUFFICES ASSUME NEW p \in Pmos, triage[p].pc = "apply", triage'[p].pc = "idle",
                    model[p].issue \in unread
             PROVE  "human" \in state'[p].news
    BY DEF Pmo!At
<1>1. "human" \in state[p].news /\ state \in [Pmos -> Cursors]
    BY TriageFacts DEF UnseenIsNews, MindsOK
<1>2. \/ state' = state
      \/ state' = [state EXCEPT ![p].news = @ \cup {"plan"}]
    BY OnlyPlansIdle DEF Pmo!ProposePlan, Pmo!KeepPlan
<1> QED BY <1>1, <1>2 DEF Cursors

(* For any number of PMOs and issues, whatever fails, stops or is written  *)
(* meanwhile: when a plan leaves an issue waiting, a human comment that    *)
(* the session did not have in view is beyond the saved cursor.            *)
THEOREM CommentsAreSeen == Spec => NothingSlipsPast
<1>1. Init => TriageInv
    BY ConstantsOK, InitTriageInv DEF Init
<1>2. TriageInv /\ [Next]_vars => TriageInv'
    BY ConstantsOK, StepsApart, NextTriageInv
<1>3. TriageInv /\ [Next]_vars =>
        [\A p \in Pmos : Pmo!At(p, "apply") /\ triage'[p].pc = "idle"
                          /\ model[p].issue \in unread => "human" \in state'[p].news]_(Pmo!vars)
    <2>1. TriageInv /\ Pmo!Next =>
            \A p \in Pmos : Pmo!At(p, "apply") /\ triage'[p].pc = "idle"
                              /\ model[p].issue \in unread => "human" \in state'[p].news
        BY ConstantsOK, PlansKeepNews
    <2>2. [Next]_vars => Pmo!Next \/ UNCHANGED Pmo!vars
        BY StepsApart DEF pmoVars, Pmo!vars
    <2> QED BY <2>1, <2>2
<1> QED BY <1>1, <1>2, <1>3, PTL DEF Spec, NothingSlipsPast, Pmo!NothingSlipsPast

(* A split that breaks and is gone on with creates no part twice but for   *)
(* one per break, and marks its parent only when every part is an issue,   *)
(* for any plans and any number of breaks; the triage stays well typed.    *)
THEOREM PartsAreCreatedOnce == Spec => []EachPartOnce
<1>1. Init => TriageInv /\ SplitInv
    BY ConstantsOK, InitTriageInv, InitSplitInv DEF Init
<1>2. TriageInv /\ SplitInv /\ [Next]_vars => TriageInv' /\ SplitInv'
    BY ConstantsOK, StepsApart, NextTriageInv, NextSplitInv
<1>3. TriageInv /\ SplitInv => EachPartOnce
    BY ConstantsOK, SplitInvIsEnough DEF EachPartOnce, TriageInv
<1> QED BY <1>1, <1>2, <1>3, PTL DEF Spec
=============================================================================
