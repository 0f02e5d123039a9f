-------------------------- MODULE TtsRuntime_proofs --------------------------
(***************************************************************************)
(* Proofs about TtsRuntime for any number of requests and phrases, any     *)
(* cache capacity and any length of the retry burst.                       *)
(***************************************************************************)
EXTENDS TtsRuntime, FiniteSetTheorems, SequenceTheorems, TLAPS

\* TypeOK without the cache, which decides only whether a request ends early.
TasksOK ==
    /\ pc \in [Requests -> RequestPcs]
    /\ phrase \in [Requests -> Phrases \cup {None}]
    /\ waitsOn \in [Requests -> Requests \cup {None}]
    /\ jobPc \in [Requests -> JobPcs]
    /\ jobOk \in [Requests -> BOOLEAN]
    /\ channel \in [Requests -> {"pending", "ok", "err"}]
    /\ inFlight \in [Phrases -> Requests \cup {None}]
    /\ availability \in {"healthy", "recovering", "cooldown"}

\* in_flight holds exactly the running jobs, each under its own phrase; a job
\* belongs to a request that waits or has its answer; and a job that has told
\* its result has it in its channel.
InFlightOK ==
    /\ \A r \in Requests : pc[r] # "idle" => phrase[r] \in Phrases
    /\ \A r \in Requests : jobPc[r] # "none" => pc[r] \in {"wait", "ok", "err"}
    /\ \A r \in Requests : Running(r) => inFlight[phrase[r]] = r
    /\ \A p \in Phrases, r \in Requests :
          inFlight[p] = r => Running(r) /\ phrase[r] = p
    /\ \A r \in Requests : jobPc[r] \in {"remove", "done"} => channel[r] # "pending"
    /\ \A r \in Requests : pc[r] = "wait" =>
          waitsOn[r] \in Requests /\ jobPc[waitsOn[r]] # "none"
    /\ WaitersAreServed

RuntimeInv == TasksOK /\ InFlightOK /\ RecoveringHasBurst

\* PocketTtsRuntime::new: nothing in flight, no recovery.
LEMMA RuntimeInvInit == Init => RuntimeInv
  BY RequestsAssumption
     DEF Init, RuntimeInv, TasksOK, InFlightOK, RequestPcs, JobPcs, RunningPcs, Running,
         WaitersAreServed, RecoveringHasBurst

\* Every step of a request, of a background synthesis or of the cooldown keeps the
\* in-flight table in step with the jobs, and Recovering with its burst.
LEMMA RuntimeInvStep == RuntimeInv /\ [Next]_vars => RuntimeInv'
<1> SUFFICES ASSUME RuntimeInv, [Next]_vars
             PROVE  RuntimeInv'
  OBVIOUS
<1> USE RequestsAssumption
    DEF RuntimeInv, TasksOK, InFlightOK, RequestPcs, JobPcs, RunningPcs, Running,
        WaitersAreServed, RecoveringHasBurst, Goto, JobGoto, requestVars, jobVars, stateVars
<1>1. ASSUME NEW r \in Requests, NEW p \in Phrases, Request(r, p)
      PROVE  RuntimeInv'
  BY <1>1 DEF Request
<1>2. ASSUME NEW r \in Requests, CacheHit(r)
      PROVE  RuntimeInv'
  BY <1>2 DEF CacheHit
<1>3. ASSUME NEW r \in Requests, CacheMiss(r)
      PROVE  RuntimeInv'
  BY <1>3 DEF CacheMiss
<1>4. ASSUME NEW r \in Requests, NotInFlight(r)
      PROVE  RuntimeInv'
  BY <1>4 DEF NotInFlight
<1>5. ASSUME NEW r \in Requests, Available(r)
      PROVE  RuntimeInv'
  BY <1>5 DEF Available
<1>6. ASSUME NEW r \in Requests, Unavailable(r)
      PROVE  RuntimeInv'
  BY <1>6 DEF Unavailable
<1>7. ASSUME NEW r \in Requests, Launch(r)
      PROVE  RuntimeInv'
  BY <1>7 DEF Launch
<1>8. ASSUME NEW r \in Requests, Answered(r)
      PROVE  RuntimeInv'
  BY <1>8 DEF Answered
<1>9. ASSUME NEW j \in Requests, Posted(j)
      PROVE  RuntimeInv'
  BY <1>9 DEF Posted
<1>10. ASSUME NEW j \in Requests, InsertInCache(j)
      PROVE  RuntimeInv'
  BY <1>10 DEF InsertInCache
<1>11. ASSUME NEW j \in Requests, MarkHealthy(j)
      PROVE  RuntimeInv'
  BY <1>11 DEF MarkHealthy
<1>12. ASSUME NEW j \in Requests, StartRecovery(j)
      PROVE  RuntimeInv'
  BY <1>12 DEF StartRecovery
<1>13. ASSUME NEW j \in Requests, LeaveRecoveryToOthers(j)
      PROVE  RuntimeInv'
  BY <1>13 DEF LeaveRecoveryToOthers
<1>14. ASSUME NEW j \in Requests, HealthCheckOk(j)
      PROVE  RuntimeInv'
  BY <1>14 DEF HealthCheckOk
<1>15. ASSUME NEW j \in Requests, HealthCheckFails(j)
      PROVE  RuntimeInv'
  BY <1>15 DEF HealthCheckFails
<1>16. ASSUME NEW j \in Requests, Recovered(j)
      PROVE  RuntimeInv'
  BY <1>16 DEF Recovered
<1>17. ASSUME NEW j \in Requests, EnterCooldown(j)
      PROVE  RuntimeInv'
  BY <1>17 DEF EnterCooldown
<1>18. ASSUME NEW j \in Requests, SendResult(j)
      PROVE  RuntimeInv'
  BY <1>18 DEF SendResult
<1>19. ASSUME NEW j \in Requests, RemoveInFlight(j)
      PROVE  RuntimeInv'
  BY <1>19 DEF RemoveInFlight
<1>20. ASSUME NEW r \in Requests, Join(r, "inflight")
      PROVE  RuntimeInv'
  BY <1>20 DEF Join
<1>21. ASSUME NEW r \in Requests, Join(r, "launch")
      PROVE  RuntimeInv'
  BY <1>21 DEF Join
<1>22. ASSUME CooldownExpires
      PROVE  RuntimeInv'
  BY <1>22 DEF CooldownExpires
<1>23. ASSUME UNCHANGED vars
      PROVE  RuntimeInv'
  BY <1>23 DEF vars
<1> QED
  BY <1>1, <1>2, <1>3, <1>4, <1>5, <1>6, <1>7, <1>8, <1>9, <1>10, <1>11, <1>12, <1>13, <1>14,
     <1>15, <1>16, <1>17, <1>18, <1>19, <1>20, <1>21, <1>22, <1>23 DEF Next, RequestStep,
     JobStep

\* What the theorems below rest on, in every reachable state (tts.rs:130-343).
LEMMA RuntimeInvariant == Spec => []RuntimeInv
  BY RuntimeInvInit, RuntimeInvStep, PTL DEF Spec

\* However many requests ask for a phrase at once, at most one synthesis of it
\* runs (tts.rs:150-165).
THEOREM SynthesisIsDeduplicated == Spec => []OneSynthesisPerPhrase
<1>1. RuntimeInv => OneSynthesisPerPhrase
  BY DEF RuntimeInv, InFlightOK, OneSynthesisPerPhrase
<1> QED
  BY <1>1, RuntimeInvariant, PTL

\* No request waits on a job that has gone without telling its result, or on a
\* job that speaks something else (tts.rs:205-216).
THEOREM NobodyWaitsForNothing == Spec => []WaitersAreServed
<1>1. RuntimeInv => WaitersAreServed
  BY DEF RuntimeInv, InFlightOK
<1> QED
  BY <1>1, RuntimeInvariant, PTL

\* The runtime refuses phrases as "recovering" only while a burst is on its way
\* to say otherwise (tts.rs:312-343).
THEOREM RecoveryIsUnderWay == Spec => []RecoveringHasBurst
<1>1. RuntimeInv => RecoveringHasBurst
  BY DEF RuntimeInv
<1> QED
  BY <1>1, RuntimeInvariant, PTL

-----------------------------------------------------------------------------
(* The cache *)

Once(s) == \A i, j \in 1..Len(s) : s[i] = s[j] => i = j

\* A queue that holds each key once loses exactly the key removed.
LEMMA RemoveFirstKeepsOrder ==
    ASSUME NEW S, NEW s \in Seq(S), Once(s), NEW k \in ToSet(s)
    PROVE  /\ RemoveFirst(s, k) \in Seq(S)
           /\ Len(RemoveFirst(s, k)) = Len(s) - 1
           /\ Once(RemoveFirst(s, k))
           /\ ToSet(RemoveFirst(s, k)) = ToSet(s) \ {k}
<1>1. PICK n \in 1..Len(s) : s[n] = k
  BY DEF ToSet
<1>2. {i \in 1..Len(s) : s[i] = k} = {n}
  BY <1>1 DEF Once
<1>3. SelectInSeq(s, LAMBDA v : v = k) = n
  BY <1>2 DEF SelectInSeq, Min
<1> DEFINE p == SubSeq(s, 1, n - 1)
           q == SubSeq(s, n + 1, Len(s))
           r == p \o q
<1>4. RemoveFirst(s, k) = r
  BY <1>1, <1>3 DEF RemoveFirst, RemoveAt
<1>p. p \in Seq(S) /\ Len(p) = n - 1 /\ \A j \in 1..n - 1 : p[j] = s[j]
  BY <1>1, SubSeqProperties
<1>q. q \in Seq(S) /\ Len(q) = Len(s) - n /\ \A j \in 1..Len(s) - n : q[j] = s[n + j]
  BY <1>1, SubSeqProperties
<1> HIDE DEF p, q
<1>5. r \in Seq(S) /\ Len(r) = Len(s) - 1
  BY <1>1, <1>p, <1>q, ConcatProperties
<1>6. \A j \in 1..Len(s) - 1 : r[j] = IF j < n THEN s[j] ELSE s[j + 1]
  BY <1>1, <1>p, <1>q, ConcatProperties
<1> HIDE DEF r
<1>7. Once(r)
  BY <1>5, <1>6 DEF Once
<1>8. k \notin ToSet(r)
  BY <1>1, <1>5, <1>6 DEF Once, ToSet
<1>9. ToSet(r) \subseteq ToSet(s)
  BY <1>1, <1>5, <1>6 DEF ToSet
<1>10. ASSUME NEW e \in ToSet(s) \ {k}
       PROVE  e \in ToSet(r)
  <2>1. PICK i \in 1..Len(s) : s[i] = e
    BY DEF ToSet
  <2>2. i # n
    BY <1>1, <2>1
  <2>3. CASE i < n
    BY <1>1, <1>5, <1>6, <2>1, <2>3 DEF ToSet
  <2>4. CASE i > n
    <3>1. i - 1 \in 1..Len(r) /\ r[i - 1] = e
      BY <1>1, <1>5, <1>6, <2>1, <2>4
    <3> QED
      BY <3>1 DEF ToSet
  <2> QED
    BY <1>1, <2>1, <2>2, <2>3, <2>4
<1> QED
  BY <1>4, <1>5, <1>7, <1>8, <1>9, <1>10

\* A new key at the end of the queue.
LEMMA AppendKeepsOrder ==
    ASSUME NEW S, NEW s \in Seq(S), Once(s), NEW k \in S \ ToSet(s)
    PROVE  /\ Append(s, k) \in Seq(S)
           /\ Len(Append(s, k)) = Len(s) + 1
           /\ Once(Append(s, k))
           /\ ToSet(Append(s, k)) = ToSet(s) \cup {k}
<1> DEFINE a == Append(s, k)
<1>1. /\ a \in Seq(S) /\ Len(a) = Len(s) + 1
      /\ \A i \in 1..Len(s) : a[i] = s[i]
      /\ a[Len(s) + 1] = k
  OBVIOUS
<1> HIDE DEF a
<1>2. \A i \in 1..Len(s) : s[i] # k
  BY DEF ToSet
<1>3. Once(a)
  BY <1>1, <1>2 DEF Once
<1>4. ToSet(a) \subseteq ToSet(s) \cup {k}
  BY <1>1 DEF ToSet
<1>5. ToSet(s) \cup {k} \subseteq ToSet(a)
  <2>1. Len(s) + 1 \in 1..Len(a) /\ 1..Len(s) \subseteq 1..Len(a)
    BY <1>1
  <2> QED
    BY <1>1, <2>1 DEF ToSet
<1> QED
  BY <1>1, <1>3, <1>4, <1>5 DEF a

\* The oldest key leaves the queue.
LEMMA TailKeepsOrder ==
    ASSUME NEW S, NEW s \in Seq(S), Once(s), s # <<>>
    PROVE  /\ Tail(s) \in Seq(S)
           /\ Len(Tail(s)) = Len(s) - 1
           /\ Once(Tail(s))
           /\ Head(s) \in ToSet(s)
           /\ ToSet(Tail(s)) = ToSet(s) \ {Head(s)}
<1> DEFINE t == Tail(s)
<1>1. /\ t \in Seq(S) /\ Len(t) = Len(s) - 1 /\ DOMAIN t = 1..Len(t)
      /\ \A i \in 1..Len(s) - 1 : t[i] = s[i + 1]
      /\ Len(s) >= 1 /\ Head(s) = s[1]
  OBVIOUS
<1> HIDE DEF t
<1>2. Once(t)
  BY <1>1 DEF Once
<1>3. Head(s) \in ToSet(s)
  BY <1>1 DEF ToSet
<1>4. ToSet(t) \subseteq ToSet(s) \ {Head(s)}
  BY <1>1 DEF ToSet, Once
<1>5. ASSUME NEW e \in ToSet(s) \ {Head(s)}
      PROVE  e \in ToSet(t)
  <2>1. PICK i \in 1..Len(s) : s[i] = e
    BY DEF ToSet
  <2>2. i - 1 \in DOMAIN t /\ t[i - 1] = e
    BY <1>1, <2>1
  <2>3. t[i - 1] \in ToSet(t)
    BY <2>2 DEF ToSet
  <2> QED
    BY <2>2, <2>3
<1> QED
  BY <1>1, <1>2, <1>3, <1>4, <1>5 DEF t

\* The queue orders each key of the map once, and the map fits.
CacheOK(c) ==
    /\ c = [values |-> c.values, order |-> c.order]
    /\ c.order \in Seq(Phrases) /\ Once(c.order)
    /\ ToSet(c.order) = c.values
    /\ IsFiniteSet(c.values)
    /\ Len(c.order) = Cardinality(c.values)
    /\ Cardinality(c.values) <= Capacity

\* CacheState::get moves a key to the end and changes nothing else (tts.rs:33-40).
LEMMA GetKeepsCache ==
    ASSUME NEW c, CacheOK(c), NEW k \in c.values
    PROVE  CacheOK(CacheGet(c, k))
<1> DEFINE r == RemoveFirst(c.order, k)
           a == Append(r, k)
<1>1. k \in ToSet(c.order) /\ k \in Phrases
  BY DEF CacheOK, ToSet
<1>2. /\ r \in Seq(Phrases) /\ Len(r) = Len(c.order) - 1
      /\ Once(r) /\ ToSet(r) = c.values \ {k}
  BY <1>1, RemoveFirstKeepsOrder DEF CacheOK
<1> HIDE DEF r
<1>3. /\ a \in Seq(Phrases) /\ Len(a) = Len(r) + 1
      /\ Once(a) /\ ToSet(a) = ToSet(r) \cup {k}
  BY <1>1, <1>2, AppendKeepsOrder
<1> HIDE DEF a
<1>4. Len(a) = Len(c.order) /\ ToSet(a) = c.values
  BY <1>2, <1>3 DEF CacheOK
<1>5. CacheGet(c, k) = [values |-> c.values, order |-> a]
  <2>1. CacheGet(c, k) = [c EXCEPT !.order = a]
    BY DEF CacheGet, MoveToBack, a, r
  <2> QED
    BY <2>1 DEF CacheOK
<1> QED
  BY <1>3, <1>4, <1>5 DEF CacheOK

\* CacheState::insert refreshes, evicts or adds (tts.rs:42-60).
LEMMA InsertKeepsCache ==
    ASSUME NEW c, CacheOK(c), NEW k \in Phrases
    PROVE  CacheOK(CacheInsert(c, k))
<1>1. CASE k \in c.values
  BY <1>1, GetKeepsCache DEF CacheInsert
<1>2. CASE k \notin c.values /\ Cardinality(c.values) >= Capacity /\ c.order # <<>>
  <2> DEFINE t == Tail(c.order)
             v == c.values \ {Head(c.order)}
             a == Append(t, k)
  <2>1. /\ t \in Seq(Phrases) /\ Len(t) = Len(c.order) - 1 /\ Once(t)
        /\ Head(c.order) \in c.values /\ ToSet(t) = v
    BY <1>2, TailKeepsOrder DEF CacheOK
  <2>2. k \notin ToSet(t)
    BY <1>2, <2>1
  <2> HIDE DEF t
  <2>3. /\ a \in Seq(Phrases) /\ Len(a) = Len(t) + 1 /\ Once(a)
        /\ ToSet(a) = v \cup {k}
    BY <2>1, <2>2, AppendKeepsOrder
  <2>4. IsFiniteSet(v) /\ Cardinality(v) = Cardinality(c.values) - 1
    BY <2>1, FS_RemoveElement DEF CacheOK
  <2>5. k \notin v
    BY <1>2
  <2> HIDE DEF v, a
  <2>6. IsFiniteSet(v \cup {k}) /\ Cardinality(v \cup {k}) = Cardinality(v) + 1
    BY <2>4, <2>5, FS_AddElement
  <2>7. Cardinality(c.values) \in Nat
    BY FS_CardinalityType DEF CacheOK
  <2>8. CacheInsert(c, k) = [values |-> v \cup {k}, order |-> a]
    BY <1>2 DEF CacheInsert, CacheOK, v, a, t
  <2>9. Len(a) = Cardinality(v \cup {k}) /\ Cardinality(v \cup {k}) <= Capacity
    BY <2>1, <2>3, <2>4, <2>6, <2>7 DEF CacheOK
  <2> QED
    BY <2>3, <2>6, <2>8, <2>9 DEF CacheOK
<1>3. CASE k \notin c.values /\ (Cardinality(c.values) < Capacity \/ c.order = <<>>)
  <2> DEFINE a == Append(c.order, k)
  <2>1. /\ a \in Seq(Phrases) /\ Len(a) = Len(c.order) + 1 /\ Once(a)
        /\ ToSet(a) = c.values \cup {k}
    BY <1>3, AppendKeepsOrder DEF CacheOK
  <2>2. /\ IsFiniteSet(c.values \cup {k})
        /\ Cardinality(c.values \cup {k}) = Cardinality(c.values) + 1
    BY <1>3, FS_AddElement DEF CacheOK
  <2>3. Cardinality(c.values) \in Nat /\ Cardinality(c.values) < Capacity
    <3>1. Cardinality(c.values) \in Nat
      BY FS_CardinalityType DEF CacheOK
    <3>2. c.order = <<>> => Cardinality(c.values) = 0
      BY DEF CacheOK
    <3> QED
      BY <1>3, <3>1, <3>2, CapacityAssumption
  <2>4. CacheInsert(c, k) = [values |-> c.values \cup {k}, order |-> a]
    <3>1. ~(Cardinality(c.values) >= Capacity /\ c.order # <<>>)
      BY <2>3, CapacityAssumption
    <3> QED
      BY <1>3, <3>1 DEF CacheInsert
  <2> HIDE DEF a
  <2>5. Len(a) = Cardinality(c.values \cup {k}) /\ Cardinality(c.values \cup {k}) <= Capacity
    BY <2>1, <2>2, <2>3, CapacityAssumption DEF CacheOK
  <2> QED
    BY <2>1, <2>2, <2>4, <2>5 DEF CacheOK
<1> QED
  <2>1. Cardinality(c.values) \in Nat
    BY FS_CardinalityType DEF CacheOK
  <2> QED
    BY <1>1, <1>2, <1>3, <2>1, CapacityAssumption

\* Only hits and insertions touch the cache (tts.rs:142-149, 202-206).
LEMMA CacheStep == RuntimeInv /\ CacheOK(cache) /\ [Next]_vars => CacheOK(cache)'
<1> SUFFICES ASSUME RuntimeInv, CacheOK(cache), [Next]_vars
             PROVE  CacheOK(cache')
  BY DEF CacheOK
<1>1. ASSUME NEW r \in Requests, CacheHit(r)
      PROVE  CacheOK(cache')
  BY <1>1, GetKeepsCache DEF CacheHit
<1>2. ASSUME NEW j \in Requests, InsertInCache(j)
      PROVE  CacheOK(cache')
  <2>1. phrase[j] \in Phrases
    BY <1>2 DEF InsertInCache, JobGoto, RuntimeInv, TasksOK, InFlightOK
  <2> QED
    BY <1>2, <2>1, InsertKeepsCache DEF InsertInCache
<1>3. CASE UNCHANGED cache
  BY <1>3
<1> QED
  BY <1>1, <1>2, <1>3
     DEF Next, RequestStep, JobStep, vars, Request, CacheMiss, NotInFlight, Available,
         Unavailable, Launch, Answered, Posted, MarkHealthy, StartRecovery,
         LeaveRecoveryToOthers, HealthCheckOk, HealthCheckFails, Recovered, EnterCooldown,
         SendResult, RemoveInFlight, Join, CooldownExpires

\* CacheState as the code keeps it is in step from the empty cache on (tts.rs:22-60).
LEMMA CacheIsKept == Spec => []CacheOK(cache)
<1>1. Init => CacheOK(cache)
  <2>1. IsFiniteSet({}) /\ Cardinality({}) = 0
    BY FS_EmptySet
  <2> QED
    BY <2>1, CapacityAssumption DEF Init, EmptyCache, CacheOK, Once, ToSet
<1> QED
  BY <1>1, CacheStep, RuntimeInvariant, PTL DEF Spec

\* Map and eviction queue hold the same keys, each once, and never more than the
\* capacity, for any capacity and any number of tasks (tts.rs:33-60).
THEOREM CacheQueueMatchesMap == Spec => []QueueMatchesMap
<1>1. CacheOK(cache) => QueueMatchesMap
  BY DEF CacheOK, QueueMatchesMap
<1> QED
  BY <1>1, CacheIsKept, PTL

-----------------------------------------------------------------------------
(* Types *)

\* A burst goes on only below its limit, and only a full burst has failed.
AttemptsOK ==
    /\ attempts \in [Requests -> 0..RetryAttempts]
    /\ \A j \in Requests :
         /\ jobPc[j] \in {"none", "post", "insert", "healthy", "failure"} => attempts[j] = 0
         /\ jobPc[j] = "burst" => attempts[j] < RetryAttempts
         /\ jobPc[j] = "down" => attempts[j] = RetryAttempts

\* The checks of a burst are counted from its start (tts.rs:318-336).
LEMMA AttemptsStep == RuntimeInv /\ AttemptsOK /\ [Next]_vars => AttemptsOK'
<1> SUFFICES ASSUME RuntimeInv, AttemptsOK, [Next]_vars
             PROVE  AttemptsOK'
  OBVIOUS
<1>0. TasksOK /\ \A r \in Requests : pc[r] = "launch" => jobPc[r] = "none"
  BY DEF RuntimeInv, InFlightOK
<1> USE RetryAssumption DEF TasksOK, AttemptsOK, JobGoto, requestVars, jobVars
<1>1. CASE UNCHANGED <<jobPc, attempts>>
  BY <1>1
<1>2. CASE \/ \E r \in Requests : \/ \E p \in Phrases : Request(r, p)
                                 \/ CacheHit(r) \/ CacheMiss(r) \/ Join(r, "inflight")
                                 \/ NotInFlight(r) \/ Available(r) \/ Unavailable(r)
                                 \/ Join(r, "launch") \/ Answered(r)
           \/ CooldownExpires \/ UNCHANGED vars
  BY <1>1, <1>2
     DEF Request, CacheHit, CacheMiss, Join, NotInFlight, Available, Unavailable, Answered,
         CooldownExpires, vars
<1>3. ASSUME NEW r \in Requests, Launch(r)
      PROVE  AttemptsOK'
  <2>1. jobPc[r] = "none" /\ jobPc' = [jobPc EXCEPT ![r] = "post"] /\ attempts' = attempts
    BY <1>0, <1>3 DEF Launch, Goto
  <2> QED
    BY <1>0, <2>1
<1>4. ASSUME NEW j \in Requests, HealthCheckFails(j)
      PROVE  AttemptsOK'
  BY <1>0, <1>4 DEF HealthCheckFails
<1>5. ASSUME NEW j \in Requests, NEW from, NEW to, JobGoto(j, from, to), attempts' = attempts,
             \/ from \in {"post", "insert", "healthy", "failure"}
                  /\ to \in {"insert", "healthy", "failure", "send"}
             \/ from = "failure" /\ to = "burst"
             \/ to \in {"recovered", "send", "remove", "done"}
      PROVE  AttemptsOK'
  BY <1>0, <1>5
<1>6. ASSUME NEW j \in Requests,
             \/ Posted(j) \/ InsertInCache(j) \/ MarkHealthy(j) \/ StartRecovery(j)
             \/ LeaveRecoveryToOthers(j) \/ HealthCheckOk(j) \/ Recovered(j)
             \/ EnterCooldown(j) \/ SendResult(j) \/ RemoveInFlight(j)
      PROVE  AttemptsOK'
  <2>1. attempts' = attempts
    BY <1>6
       DEF Posted, InsertInCache, MarkHealthy, StartRecovery, LeaveRecoveryToOthers,
           HealthCheckOk, Recovered, EnterCooldown, SendResult, RemoveInFlight
  <2>2. \/ JobGoto(j, "post", "insert") \/ JobGoto(j, "post", "failure")
        \/ JobGoto(j, "insert", "healthy") \/ JobGoto(j, "healthy", "send")
        \/ JobGoto(j, "failure", "burst") \/ JobGoto(j, "failure", "send")
        \/ JobGoto(j, "burst", "recovered") \/ JobGoto(j, "recovered", "send")
        \/ JobGoto(j, "down", "send") \/ JobGoto(j, "send", "remove")
        \/ JobGoto(j, "remove", "done")
    BY <1>6
       DEF Posted, InsertInCache, MarkHealthy, StartRecovery, LeaveRecoveryToOthers,
           HealthCheckOk, Recovered, EnterCooldown, SendResult, RemoveInFlight
  <2> HIDE DEF JobGoto, AttemptsOK
  <2> QED
    BY <1>5, <2>1, <2>2
<1> QED
  BY <1>2, <1>3, <1>4, <1>6 DEF Next, RequestStep, JobStep

\* A cooldown has passed or has not.
LEMMA ExpiredStep == expired \in BOOLEAN /\ [Next]_vars => (expired \in BOOLEAN)'
  BY DEF Next, RequestStep, JobStep, vars, stateVars, Request, CacheHit, CacheMiss, Join,
    NotInFlight, Available, Unavailable, Launch, Answered, Posted, InsertInCache, MarkHealthy,
    StartRecovery, LeaveRecoveryToOthers, HealthCheckOk, HealthCheckFails, Recovered,
    EnterCooldown, SendResult, RemoveInFlight, CooldownExpires

\* Requests, jobs, cache and availability keep their types; a burst never makes more than
\* POST_FAILURE_RETRY_ATTEMPTS checks (tts.rs:318-336).
THEOREM RuntimeTypes == Spec => []TypeOK
<1>1. Init => AttemptsOK /\ expired \in BOOLEAN
  <2> SUFFICES ASSUME Init PROVE AttemptsOK /\ expired \in BOOLEAN
    OBVIOUS
  <2>1. 0 \in 0..RetryAttempts
    BY RetryAssumption
  <2>2. /\ attempts \in [Requests -> 0..RetryAttempts]
        /\ \A j \in Requests : jobPc[j] = "none" /\ attempts[j] = 0
    BY <2>1 DEF Init
  <2>3. expired \in BOOLEAN
    BY DEF Init
  <2> QED
    BY <2>2, <2>3 DEF AttemptsOK
<1>2. RuntimeInv => TasksOK
  BY DEF RuntimeInv
<1>3. TasksOK /\ AttemptsOK /\ expired \in BOOLEAN /\ CacheOK(cache) => TypeOK
  <2> SUFFICES ASSUME TasksOK, AttemptsOK, expired \in BOOLEAN, CacheOK(cache) PROVE TypeOK
    OBVIOUS
  <2>1. cache.order \in Seq(Phrases) /\ cache.values \subseteq Phrases
    BY DEF CacheOK, ToSet
  <2> QED
    BY <2>1 DEF TasksOK, AttemptsOK, TypeOK
<1> QED
  BY <1>1, <1>2, <1>3, AttemptsStep, ExpiredStep, CacheIsKept, RuntimeInvariant, PTL DEF Spec
=============================================================================
