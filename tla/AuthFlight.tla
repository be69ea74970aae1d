----------------------------- MODULE AuthFlight -----------------------------
(***************************************************************************)
(* The cross-process single flight of the auth provider                    *)
(* (src/harness/auth_provider.rs): harness processes that want headers for *)
(* one endpoint, the lock file, and the result the last leader published.  *)
(***************************************************************************)
EXTENDS Naturals, FiniteSets

CONSTANTS
    Harnesses,  \* harness processes bound to the endpoint
    Nobody,
    MaxKills    \* harness processes that are killed

ConstantsOK == Nobody \notin Harnesses /\ MaxKills \in Nat

VARIABLES
    at,      \* [Harnesses -> what its headers() does]
    cache,   \* [Harnesses -> the headers it holds in memory]
    lock,    \* the holder of run.lock
    file,    \* run.json: nothing readable, headers, or an error
    runs,    \* the provider commands that run, as those who started them
    outcome, \* how the last run ended, while that still counts (for the properties)
    kills

vars == <<at, cache, lock, file, runs, outcome, kills>>

TypeOK ==
    /\ at \in [Harnesses -> {"idle", "hold", "locked", "run", "dead"}]
    /\ cache \in [Harnesses -> {"none", "fresh", "old"}]
    /\ lock \in Harnesses \cup {Nobody}
    /\ file \in {"none", "fresh", "old", "error"}
    /\ runs \subseteq Harnesses
    /\ outcome \in {"none", "fresh", "error"}
    /\ kills \in 0 .. MaxKills

Init ==
    /\ at = [h \in Harnesses |-> "idle"]
    /\ cache = [h \in Harnesses |-> "none"]
    /\ lock = Nobody /\ file = "none" /\ runs = {} /\ outcome = "none" /\ kills = 0

Goto(h, label) == at' = [at EXCEPT ![h] = label]

(* The flock goes with its open file: when headers() returns, or the       *)
(* process ends.                                                           *)
Unlock(h) == lock' = IF lock = h THEN Nobody ELSE lock
-----------------------------------------------------------------------------
(* headers(): nothing cached, or at or near its expiry.                    *)
Ask(h) ==
    /\ at[h] = "idle" /\ cache[h] # "fresh"
    /\ Goto(h, "hold")
    /\ UNCHANGED <<cache, lock, file, runs, outcome, kills>>

(* try_lock_exclusive, every 200 ms.                                       *)
TakeLock(h) ==
    /\ at[h] = "hold" /\ lock = Nobody
    /\ lock' = h
    /\ Goto(h, "locked")
    /\ UNCHANGED <<cache, file, runs, outcome, kills>>

(* FOLLOWER_WAIT is over.                                                  *)
GivesUp(h) ==
    /\ at[h] = "hold" /\ lock # Nobody
    /\ Goto(h, "idle")
    /\ UNCHANGED <<cache, lock, file, runs, outcome, kills>>

(* Mutant: a published error is not looked at. *)
UsableHeaders(f) == f = "fresh"

(* load_published: the last leader's headers, or its recent error.         *)
Usable(f) == f \in {"fresh", "error"}

(* With the lock: what the last holder published, if that will do ...      *)
Reuse(h) ==
    /\ at[h] = "locked" /\ Usable(file)
    /\ cache' = IF file = "fresh" THEN [cache EXCEPT ![h] = "fresh"] ELSE cache
    /\ Goto(h, "idle") /\ Unlock(h)
    /\ UNCHANGED <<file, runs, outcome, kills>>

(* ... and otherwise the provider command is started.                      *)
StartRun(h) ==
    /\ at[h] = "locked" /\ ~Usable(file)
    /\ Goto(h, "run")
    /\ runs' = runs \cup {h}
    /\ UNCHANGED <<cache, lock, file, outcome, kills>>

(* The provider printed headers and its leader publishes them; a write     *)
(* that fails leaves what was there, or half of the new.                   *)
RunSucceeds(h) ==
    /\ at[h] = "run"
    /\ cache' = [cache EXCEPT ![h] = "fresh"]
    /\ \/ file' = "fresh" /\ outcome' = "fresh"
       \/ file' \in {file, "none"} /\ outcome' = "none"
    /\ Goto(h, "idle") /\ Unlock(h)
    /\ runs' = runs \ {h}
    /\ UNCHANGED kills

(* It failed, printed nothing usable, or was killed after PROVIDER_TIMEOUT.*)
RunFails(h) ==
    /\ at[h] = "run"
    /\ \/ file' = "error" /\ outcome' = "error"
       \/ file' \in {file, "none"} /\ outcome' = "none"
    /\ Goto(h, "idle") /\ Unlock(h)
    /\ runs' = runs \ {h}
    /\ UNCHANGED <<cache, kills>>
-----------------------------------------------------------------------------
(* Time: headers come near their expiry, an error is ERROR_REPUBLISH_TTL   *)
(* old.                                                                    *)
Expire ==
    /\ cache' = [h \in Harnesses |-> IF cache[h] = "fresh" THEN "old" ELSE cache[h]]
    /\ file' = IF file = "fresh" THEN "old" ELSE file
    /\ outcome' = IF outcome = "fresh" THEN "none" ELSE outcome
    /\ UNCHANGED <<at, lock, runs, kills>>

Lapse ==
    /\ file = "error" /\ file' = "none" /\ outcome' = "none"
    /\ UNCHANGED <<at, cache, lock, runs, kills>>

(* A harness process is killed, perhaps while it writes.  Its provider     *)
(* command goes on ...                                                     *)
KillHarness(h) ==
    /\ at[h] # "dead" /\ kills < MaxKills /\ kills' = kills + 1
    /\ Goto(h, "dead") /\ Unlock(h)
    /\ file' \in {file} \cup (IF at[h] = "run" THEN {"none"} ELSE {})
    /\ UNCHANGED <<cache, runs, outcome>>

(* ... until it ends by itself.                                            *)
OrphanEnds(h) ==
    /\ at[h] = "dead" /\ h \in runs
    /\ runs' = runs \ {h}
    /\ UNCHANGED <<at, cache, lock, file, outcome, kills>>

Step(h) ==
    \/ TakeLock(h) \/ Reuse(h) \/ StartRun(h) \/ RunSucceeds(h) \/ RunFails(h)

Next ==
    \/ \E h \in Harnesses :
          Ask(h) \/ GivesUp(h) \/ Step(h) \/ KillHarness(h) \/ OrphanEnds(h)
    \/ Expire \/ Lapse

Spec == Init /\ [][Next]_vars
-----------------------------------------------------------------------------
(* "Without the guard, ten workers hitting an expired token would open ten *)
(* OAuth browser flows": whoever waited while another ran the provider     *)
(* does not run it again, whether that run succeeded or failed, until the  *)
(* headers expire, the error lapses, or its result could not be published. *)
RunsAreNeeded ==
    [][\A h \in Harnesses : h \in runs' \ runs => outcome = "none"]_vars

(* No two living harness processes run the provider at once.               *)
OneLeader ==
    \A g, h \in runs : at[g] # "dead" /\ at[h] # "dead" => g = h

(* "Only ONE of them runs the provider command at any moment."             *)
OneProvider == Cardinality(runs) <= 1
=============================================================================
