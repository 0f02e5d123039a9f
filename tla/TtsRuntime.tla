----------------------------- MODULE TtsRuntime -----------------------------
(***************************************************************************)
(* PocketTtsRuntime (audio/tts.rs): concurrent requests to speak a phrase, *)
(* the background synthesis a request launches when nobody else has, and   *)
(* the availability state that keeps a failing TTS service from being      *)
(* called.  Each step does what the code does under one of the three       *)
(* mutexes (cache, in_flight, runtime_state), so another task may run      *)
(* between any two of them.                                                *)
(*                                                                         *)
(* A request r that launches a synthesis gives it its own watch channel;   *)
(* r names the job and the channel too.                                    *)
(***************************************************************************)
EXTENDS LruCache

CONSTANTS Requests, Phrases, None,
          RetryAttempts     \* POST_FAILURE_RETRY_ATTEMPTS

ASSUME RequestsAssumption == None \notin Requests \cup Phrases
ASSUME RetryAssumption == RetryAttempts \in Nat \ {0}

VARIABLES
    pc,             \* where synthesize_phrase is, per request
    phrase,         \* its argument
    waitsOn,        \* the channel whose receiver it holds
    jobPc,          \* where run_background_synthesis is, per job
    jobOk,          \* its result
    attempts,       \* health checks of its retry burst that failed
    channel,        \* what the job's watch channel holds
    inFlight,       \* in_flight: phrase -> channel
    cache,          \* cache
    availability,   \* runtime_state.availability
    expired         \* has the instant of Cooldown(until) passed?

requestVars == <<pc, phrase, waitsOn>>
jobVars     == <<jobPc, jobOk, attempts, channel>>
stateVars   == <<availability, expired>>
vars == <<requestVars, jobVars, inFlight, cache, stateVars>>

-----------------------------------------------------------------------------
RequestPcs == {"idle", "cache", "inflight", "assert", "launch", "wait", "ok", "err"}

\* From "post" to "remove" the job runs.
RunningPcs == {"post", "insert", "healthy", "failure", "burst", "recovered", "down",
               "send", "remove"}
JobPcs == RunningPcs \cup {"none", "done"}

TypeOK ==
    /\ pc \in [Requests -> RequestPcs]
    /\ phrase \in [Requests -> Phrases \cup {None}]
    /\ waitsOn \in [Requests -> Requests \cup {None}]
    /\ jobPc \in [Requests -> JobPcs]
    /\ jobOk \in [Requests -> BOOLEAN]
    /\ attempts \in [Requests -> 0..RetryAttempts]
    /\ channel \in [Requests -> {"pending", "ok", "err"}]
    /\ inFlight \in [Phrases -> Requests \cup {None}]
    /\ cache.values \subseteq Phrases /\ cache.order \in Seq(Phrases)
    /\ availability \in {"healthy", "recovering", "cooldown"}
    /\ expired \in BOOLEAN

Init ==
    /\ pc = [r \in Requests |-> "idle"]
    /\ phrase = [r \in Requests |-> None]
    /\ waitsOn = [r \in Requests |-> None]
    /\ jobPc = [r \in Requests |-> "none"]
    /\ jobOk = [r \in Requests |-> FALSE]
    /\ attempts = [r \in Requests |-> 0]
    /\ channel = [r \in Requests |-> "pending"]
    /\ inFlight = [p \in Phrases |-> None]
    /\ cache = EmptyCache
    /\ availability = "healthy"
    /\ expired = FALSE

Goto(r, from, to) ==
    /\ pc[r] = from
    /\ pc' = [pc EXCEPT ![r] = to]

JobGoto(j, from, to) ==
    /\ jobPc[j] = from
    /\ jobPc' = [jobPc EXCEPT ![j] = to]

-----------------------------------------------------------------------------
(* synthesize_phrase *)

Request(r, p) ==
    /\ Goto(r, "idle", "cache")
    /\ phrase' = [phrase EXCEPT ![r] = p]
    /\ UNCHANGED <<waitsOn, jobVars, inFlight, cache, stateVars>>

CacheHit(r) ==
    /\ Goto(r, "cache", "ok")
    /\ phrase[r] \in cache.values
    /\ cache' = CacheGet(cache, phrase[r])
    /\ UNCHANGED <<phrase, waitsOn, jobVars, inFlight, stateVars>>

CacheMiss(r) ==
    /\ Goto(r, "cache", "inflight")
    /\ phrase[r] \notin cache.values
    /\ UNCHANGED <<phrase, waitsOn, jobVars, inFlight, cache, stateVars>>

\* Wait for the synthesis of the same phrase that is in flight.
Join(r, from) ==
    /\ Goto(r, from, "wait")
    /\ inFlight[phrase[r]] # None
    /\ waitsOn' = [waitsOn EXCEPT ![r] = inFlight[phrase[r]]]
    /\ UNCHANGED <<phrase, jobVars, inFlight, cache, stateVars>>

NotInFlight(r) ==
    /\ Goto(r, "inflight", "assert")
    /\ inFlight[phrase[r]] = None
    /\ UNCHANGED <<phrase, waitsOn, jobVars, inFlight, cache, stateVars>>

\* assert_runtime_available_for_new_synthesis; a cooldown that is over ends here.
Available(r) ==
    /\ Goto(r, "assert", "launch")
    /\ availability = "healthy" \/ (availability = "cooldown" /\ expired)
    /\ availability' = "healthy"
    /\ expired' = FALSE
    /\ UNCHANGED <<phrase, waitsOn, jobVars, inFlight, cache>>

Unavailable(r) ==
    /\ Goto(r, "assert", "err")
    /\ availability = "recovering" \/ (availability = "cooldown" /\ ~expired)
    /\ UNCHANGED <<phrase, waitsOn, jobVars, inFlight, cache, stateVars>>

\* Mutant: the second look into in_flight is left out.
LaunchUnchecked(r) ==
    /\ Goto(r, "launch", "wait")
    /\ inFlight' = [inFlight EXCEPT ![phrase[r]] = r]
    /\ waitsOn' = [waitsOn EXCEPT ![r] = r]
    /\ jobPc' = [jobPc EXCEPT ![r] = "post"]
    /\ UNCHANGED <<phrase, jobOk, attempts, channel, cache, stateVars>>

\* Nobody else is synthesizing: register a channel, spawn the job, and wait.
Launch(r) ==
    /\ Goto(r, "launch", "wait")
    /\ inFlight[phrase[r]] = None
    /\ inFlight' = [inFlight EXCEPT ![phrase[r]] = r]
    /\ waitsOn' = [waitsOn EXCEPT ![r] = r]
    /\ jobPc' = [jobPc EXCEPT ![r] = "post"]
    /\ UNCHANGED <<phrase, jobOk, attempts, channel, cache, stateVars>>

\* wait_for_in_flight_result
Answered(r) ==
    /\ pc[r] = "wait"
    /\ channel[waitsOn[r]] # "pending"
    /\ Goto(r, "wait", channel[waitsOn[r]])
    /\ UNCHANGED <<phrase, waitsOn, jobVars, inFlight, cache, stateVars>>

RequestStep(r) ==
    \/ CacheHit(r) \/ CacheMiss(r)
    \/ Join(r, "inflight") \/ NotInFlight(r)
    \/ Available(r) \/ Unavailable(r)
    \/ Join(r, "launch") \/ Launch(r)
    \/ Answered(r)

-----------------------------------------------------------------------------
(* run_background_synthesis *)

\* The /tts request comes back, or fails or times out.
Posted(j) ==
    /\ JobGoto(j, "post", "insert") \/ JobGoto(j, "post", "failure")
    /\ jobOk' = [jobOk EXCEPT ![j] = (jobPc'[j] = "insert")]
    /\ UNCHANGED <<requestVars, attempts, channel, inFlight, cache, stateVars>>

InsertInCache(j) ==
    /\ JobGoto(j, "insert", "healthy")
    /\ cache' = CacheInsert(cache, phrase[j])
    /\ UNCHANGED <<requestVars, jobOk, attempts, channel, inFlight, stateVars>>

MarkHealthy(j) ==
    /\ JobGoto(j, "healthy", "send")
    /\ availability' = "healthy"
    /\ expired' = FALSE
    /\ UNCHANGED <<requestVars, jobOk, attempts, channel, inFlight, cache>>

\* handle_runtime_failure: the first to see the failure runs the retry burst.
StartRecovery(j) ==
    /\ JobGoto(j, "failure", "burst")
    /\ availability = "healthy" \/ (availability = "cooldown" /\ expired)
    /\ availability' = "recovering"
    /\ expired' = FALSE
    /\ UNCHANGED <<requestVars, jobOk, attempts, channel, inFlight, cache>>

LeaveRecoveryToOthers(j) ==
    /\ JobGoto(j, "failure", "send")
    /\ availability = "recovering" \/ (availability = "cooldown" /\ ~expired)
    /\ UNCHANGED <<requestVars, jobOk, attempts, channel, inFlight, cache, stateVars>>

HealthCheckOk(j) ==
    /\ JobGoto(j, "burst", "recovered")
    /\ UNCHANGED <<requestVars, jobOk, attempts, channel, inFlight, cache, stateVars>>

HealthCheckFails(j) ==
    /\ attempts' = [attempts EXCEPT ![j] = @ + 1]
    /\ JobGoto(j, "burst", IF attempts'[j] < RetryAttempts THEN "burst" ELSE "down")
    /\ UNCHANGED <<requestVars, jobOk, channel, inFlight, cache, stateVars>>

\* Mutant: the outcome of the burst is recorded only when it is bad.
RecoveredForgotten(j) ==
    /\ JobGoto(j, "recovered", "send")
    /\ UNCHANGED <<requestVars, jobOk, attempts, channel, inFlight, cache, stateVars>>

Recovered(j) ==
    /\ JobGoto(j, "recovered", "send")
    /\ availability' = "healthy"
    /\ expired' = FALSE
    /\ UNCHANGED <<requestVars, jobOk, attempts, channel, inFlight, cache>>

\* Mutant: the failed burst leaves the state to somebody else.
EnterCooldownForgotten(j) ==
    /\ JobGoto(j, "down", "send")
    /\ UNCHANGED <<requestVars, jobOk, attempts, channel, inFlight, cache, stateVars>>

EnterCooldown(j) ==
    /\ JobGoto(j, "down", "send")
    /\ availability' = "cooldown"
    /\ expired' = FALSE
    /\ UNCHANGED <<requestVars, jobOk, attempts, channel, inFlight, cache>>

\* Mutant: a failed job returns without telling its waiters.
SendResultOnlyIfOk(j) ==
    /\ JobGoto(j, "send", "remove")
    /\ channel' = [channel EXCEPT ![j] = IF jobOk[j] THEN "ok" ELSE @]
    /\ UNCHANGED <<requestVars, jobOk, attempts, inFlight, cache, stateVars>>

SendResult(j) ==
    /\ JobGoto(j, "send", "remove")
    /\ channel' = [channel EXCEPT ![j] = IF jobOk[j] THEN "ok" ELSE "err"]
    /\ UNCHANGED <<requestVars, jobOk, attempts, inFlight, cache, stateVars>>

RemoveInFlight(j) ==
    /\ JobGoto(j, "remove", "done")
    /\ inFlight' = [inFlight EXCEPT ![phrase[j]] = None]
    /\ UNCHANGED <<requestVars, jobOk, attempts, channel, cache, stateVars>>

JobStep(j) ==
    \/ Posted(j) \/ InsertInCache(j) \/ MarkHealthy(j)
    \/ StartRecovery(j) \/ LeaveRecoveryToOthers(j)
    \/ HealthCheckOk(j) \/ HealthCheckFails(j) \/ Recovered(j) \/ EnterCooldown(j)
    \/ SendResult(j) \/ RemoveInFlight(j)

\* POST_FAILURE_COOLDOWN goes by.
CooldownExpires ==
    /\ availability = "cooldown" /\ ~expired
    /\ expired' = TRUE
    /\ UNCHANGED <<requestVars, jobVars, inFlight, cache, availability>>

Next ==
    \/ \E r \in Requests :
         \/ \E p \in Phrases : Request(r, p)
         \/ RequestStep(r)
         \/ JobStep(r)
    \/ CooldownExpires

Spec == Init /\ [][Next]_vars

\* tokio runs every task that can run, and the HTTP client's timeout ends every
\* request it makes.
Fairness == \A r \in Requests : WF_vars(RequestStep(r)) /\ WF_vars(JobStep(r))

FairSpec == Spec /\ Fairness

-----------------------------------------------------------------------------
Running(j) == jobPc[j] \in RunningPcs

\* Two concurrent syntheses never speak the same phrase: the second look into
\* in_flight, under the lock that inserts, makes the first one's gap harmless
\* (tts.rs:150-165).
OneSynthesisPerPhrase ==
    \A i, j \in Requests :
      Running(i) /\ Running(j) /\ phrase[i] = phrase[j] => i = j

\* A request waits on a channel that speaks its own phrase, and whose job still
\* runs unless the answer is already there: nobody waits for a job that is gone
\* (tts.rs:205-216 sends before it removes the entry).
WaitersAreServed ==
    \A r \in Requests :
      pc[r] = "wait" =>
        LET j == waitsOn[r] IN
        /\ phrase[j] = phrase[r]
        /\ Running(j) \/ channel[j] # "pending"

\* The runtime says it is recovering only while some job runs a retry burst that
\* will say otherwise: with the burst gone it would refuse every new phrase for
\* good (tts.rs:288-343).
RecoveringHasBurst ==
    availability = "recovering" =>
      \E j \in Requests : jobPc[j] \in {"burst", "recovered", "down"}

\* The map of the cache and the queue that orders it hold the same keys, each once,
\* and never more than CACHE_CAPACITY, through hits and insertions of concurrent tasks
\* (tts.rs:33-60 updates the two separately; a key left in the queue would make an
\* eviction free nothing).
QueueMatchesMap ==
    /\ ToSet(cache.order) = cache.values
    /\ Len(cache.order) = Cardinality(cache.values)
    /\ Cardinality(cache.values) <= Capacity

\* Every request to speak ends with audio or an error, even when the service is
\* down and others wait for the same phrase.
RequestsAnswered == \A r \in Requests : pc[r] # "idle" ~> pc[r] \in {"ok", "err"}

\* The runtime never stays in recovery.
RecoveryEnds == availability = "recovering" ~> availability # "recovering"
=============================================================================
