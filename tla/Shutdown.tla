------------------------------ MODULE Shutdown ------------------------------
(***************************************************************************)
(* The beginning and the end of the process.  main waits for Pocket-TTS,   *)
(* opens the database and starts the SIP endpoint, which accepts calls     *)
(* while the account is still being registered.  A signal stops the main   *)
(* loop, every call is hung up, the DISCONNECTED events are drained while  *)
(* sessions remain, the writes the teardowns spawned are awaited, and main *)
(* returns.  Meanwhile the tasks of calls in setup and pjsip go on.        *)
(***************************************************************************)
EXTENDS Naturals, FiniteSets, SequencesExt

CONSTANTS
    Calls,      \* the SIP calls of a behaviour
    Numbered,   \* those with a phone number in From
    MaxCalls    \* max_concurrent_calls

ASSUME CallsAssumption == IsFiniteSet(Calls)
ASSUME ShutdownAssumption == Numbered \subseteq Calls /\ MaxCalls \in Nat

VARIABLES
    stage,      \* of main: "probe" and "retry" wait for Pocket-TTS, "store" opens the
                \* database, "endpoint" and "register" are PjsuaEndpoint::init
    forced,     \* a deadline passed: 10 s of draining or 60 s of flushing
    sip,        \* the call in pjsip
    call,       \* the call in the bridge
    cancelled,  \* the calls whose setup token is cancelled
    events,     \* sip_events
    writes,     \* the calls whose channel is being written
    pending,    \* pending_writes: those whose handle the manager keeps
    awaited,    \* those whose handle drain_pending_writes has taken
    written,    \* the calls whose channel is in the database
    refused,    \* the calls whose channel it did not take
    (* history *)
    established \* the calls active when the signal came, or torn down

bridgeVars == <<call, cancelled>>
writeVars == <<writes, pending, awaited, written, refused, established>>
vars == <<stage, forced, sip, bridgeVars, events, writeVars>>

Events == [type : {"incoming", "disconnected"}, call : Calls]
Startup == {"probe", "retry", "store", "endpoint", "register"}
Stages == Startup \cup {"run", "drain", "flush", "exit"}

TypeOK ==
    /\ stage \in Stages /\ forced \in BOOLEAN
    /\ sip \in [Calls -> {"none", "up", "closing", "down"}]
    /\ call \in [Calls -> {"none", "setup", "active", "gone"}]
    /\ cancelled \subseteq Calls
    /\ events \in Seq(Events)
    /\ writes \subseteq pending \cup awaited
    /\ {pending, awaited, written, refused, established} \subseteq SUBSET Calls

\* TTS may be disabled, or its HTTP client impossible to build.
Init ==
    /\ stage \in {"probe", "store"} /\ forced = FALSE
    /\ sip = [c \in Calls |-> "none"]
    /\ call = [c \in Calls |-> "none"]
    /\ cancelled = {}
    /\ events = <<>>
    /\ writes = {} /\ pending = {} /\ awaited = {} /\ written = {} /\ refused = {}
    /\ established = {}

Event(type, c) == events' = Append(events, [type |-> type, call |-> c])

-----------------------------------------------------------------------------
(* Startup *)

Advance(from, to) ==
    /\ stage = from
    /\ stage' = to
    /\ UNCHANGED <<forced, sip, bridgeVars, events, writeVars>>

\* ensure_server_ready_startup: a check, then checks until the deadline.
ProbeFails == Advance("probe", "retry")
ServiceUp  == Advance("probe", "store") \/ Advance("retry", "store")

\* Mutant: the loop waits for the service only.
ProbeTimeoutNever == FALSE /\ UNCHANGED vars

\* Only a warning: chimes will take the place of speech.
ProbeTimeout == Advance("retry", "store")

StoreOpens == Advance("store", "endpoint")

\* pjsua_start: from now on on_incoming_call fires and its events queue up.
EndpointStarts == Advance("endpoint", "register")

\* Mutant: the channel of events is made when the endpoint is ready.
RegisteredForgets ==
    /\ stage = "register" /\ stage' = "run"
    /\ events' = <<>>
    /\ UNCHANGED <<forced, sip, bridgeVars, writeVars>>

Registered == Advance("register", "run")

\* Without a database or an endpoint main returns an error; before the handlers are
\* registered, a signal kills the process.
StartupFails == \E from \in {"store", "endpoint", "register"} : Advance(from, "exit")
Killed       == \E from \in Startup : Advance(from, "exit")

Boot ==
    \/ ProbeFails \/ ProbeTimeout \/ StoreOpens
    \/ EndpointStarts \/ Registered \/ StartupFails

-----------------------------------------------------------------------------
(* pjsip, from pjsua_start to pjsua_destroy *)

Listening == stage \in {"register", "run", "drain", "flush"}

Invite(c) ==
    /\ Listening /\ sip[c] = "none"
    /\ sip' = [sip EXCEPT ![c] = "up"]
    /\ Event("incoming", c)
    /\ UNCHANGED <<stage, forced, bridgeVars, writeVars>>

\* The caller hangs up, or answers the BYE.
Disconnected(c) ==
    /\ Listening /\ sip[c] \in {"up", "closing"}
    /\ sip' = [sip EXCEPT ![c] = "down"]
    /\ Event("disconnected", c)
    /\ UNCHANGED <<stage, forced, bridgeVars, writeVars>>

-----------------------------------------------------------------------------
(* The setup tasks and the writes, on the runtime's threads *)

SetupDone(c) ==
    /\ stage # "exit" /\ call[c] = "setup"
    /\ call' = [call EXCEPT ![c] = IF c \in cancelled THEN "gone" ELSE "active"]
    /\ UNCHANGED <<stage, forced, sip, cancelled, events, writeVars>>

\* The Mumble server cannot be reached: the setup gives up and hangs up.
SetupFails(c) ==
    /\ stage # "exit" /\ call[c] = "setup"
    /\ call' = [call EXCEPT ![c] = "gone"]
    /\ sip' = [sip EXCEPT ![c] = IF @ = "up" THEN "closing" ELSE @]
    /\ UNCHANGED <<stage, forced, cancelled, events, writeVars>>

\* A write ends; reap_completed_writes may forget its handle from now on.
WriteEnds(c) ==
    /\ stage # "exit" /\ c \in writes
    /\ writes' = writes \ {c}
    /\ UNCHANGED <<stage, forced, sip, bridgeVars, events, pending, awaited, established>>

WriteDone(c) ==
    /\ WriteEnds(c)
    /\ written' = written \cup {c}
    /\ UNCHANGED refused

\* set_last_channel_id fails, as for a caller without a row: only a warning.
WriteFails(c) ==
    /\ WriteEnds(c)
    /\ refused' = refused \cup {c}
    /\ UNCHANGED written

-----------------------------------------------------------------------------
(* main *)

\* Mutant: the handles of writes still under way are forgotten.
TeardownForgets(c) ==
    /\ call' = [call EXCEPT ![c] = "gone"]
    /\ writes' = writes \cup ({c} \cap Numbered)
    /\ pending' = {c} \cap Numbered
    /\ established' = established \cup {c}
    /\ UNCHANGED <<cancelled, awaited, written, refused>>

\* on_call_disconnected of a session: completed writes are reaped, its own begins if
\* the caller has a number.
Teardown(c) ==
    /\ call' = [call EXCEPT ![c] = "gone"]
    /\ writes' = writes \cup ({c} \cap Numbered)
    /\ pending' = (pending \cap writes) \cup ({c} \cap Numbered)
    /\ established' = established \cup {c}
    /\ UNCHANGED <<cancelled, awaited, written, refused>>

\* on_call_disconnected; without a session the setup, if any, is cancelled.
CallDisconnected(c) ==
    IF call[c] = "active" THEN Teardown(c)
    ELSE /\ cancelled' = IF call[c] = "setup" THEN cancelled \cup {c} ELSE cancelled
         /\ UNCHANGED <<call, writeVars>>

ActiveCallCount == Cardinality({c \in Calls : call[c] = "active"})

\* The most that sessions.len() + pending.len() can be.
Total == Cardinality({c \in Calls : call[c] \in {"setup", "active"}})

\* The setup begins; at the limit the call is rejected with 486.  A setup under way is
\* counted or not, as it is in pending_setups for a part of its time.
HandleIncoming ==
    /\ stage = "run"
    /\ events # <<>> /\ Head(events).type = "incoming"
    /\ events' = Tail(events)
    /\ LET c == Head(events).call IN
         \/ /\ ActiveCallCount < MaxCalls
            /\ call' = [call EXCEPT ![c] = "setup"]
            /\ UNCHANGED sip
         \/ /\ Total >= MaxCalls
            /\ call' = [call EXCEPT ![c] = "gone"]
            /\ sip' = [sip EXCEPT ![c] = IF @ = "up" THEN "closing" ELSE @]
    /\ UNCHANGED <<stage, forced, cancelled, writeVars>>

\* While draining, a new call is dropped from the channel unanswered.
IgnoreIncoming ==
    /\ stage = "drain"
    /\ events # <<>> /\ Head(events).type = "incoming"
    /\ events' = Tail(events)
    /\ UNCHANGED <<stage, forced, sip, bridgeVars, writeVars>>

HandleDisconnected ==
    /\ stage \in {"run", "drain"}
    /\ events # <<>> /\ Head(events).type = "disconnected"
    /\ events' = Tail(events)
    /\ CallDisconnected(Head(events).call)
    /\ UNCHANGED <<stage, forced, sip>>

\* SIGTERM or SIGINT: hangup_all_calls.
Signal ==
    /\ stage = "run"
    /\ stage' = "drain"
    /\ sip' = [c \in Calls |-> IF sip[c] = "up" THEN "closing" ELSE sip[c]]
    /\ established' = established \cup {c \in Calls : call[c] = "active"}
    /\ UNCHANGED <<forced, bridgeVars, events, writes, pending, awaited, written, refused>>

\* active_call_count() == 0; drain_pending_writes takes the handles there are.
Drained ==
    /\ stage = "drain" /\ ActiveCallCount = 0
    /\ stage' = "flush"
    /\ awaited' = pending /\ pending' = {}
    /\ UNCHANGED <<forced, sip, bridgeVars, events, writes, written, refused, established>>

\* Mutant: the deadline moves with every event, and never comes.
DrainTimeoutNever == FALSE /\ UNCHANGED vars

DrainTimeout ==
    /\ stage = "drain" /\ ActiveCallCount > 0
    /\ stage' = "flush"
    /\ forced' = TRUE
    /\ awaited' = pending /\ pending' = {}
    /\ UNCHANGED <<sip, bridgeVars, events, writes, written, refused, established>>

Flushed ==
    /\ stage = "flush" /\ awaited \cap writes = {}
    /\ stage' = "exit"
    /\ UNCHANGED <<forced, sip, bridgeVars, events, writeVars>>

FlushTimeout ==
    /\ stage = "flush" /\ awaited \cap writes # {}
    /\ stage' = "exit"
    /\ forced' = TRUE
    /\ UNCHANGED <<sip, bridgeVars, events, writeVars>>

Main ==
    \/ HandleIncoming \/ IgnoreIncoming \/ HandleDisconnected
    \/ Drained \/ DrainTimeout \/ Flushed \/ FlushTimeout

Next ==
    \/ \E c \in Calls : \/ Invite(c) \/ Disconnected(c)
                        \/ SetupDone(c) \/ SetupFails(c)
                        \/ WriteDone(c) \/ WriteFails(c)
    \/ ServiceUp \/ Killed \/ Signal \/ Boot \/ Main

Spec == Init /\ [][Next]_vars

\* main runs, its deadlines pass, and what it calls at startup returns; nothing is
\* assumed of callers or of servers, Pocket-TTS among them.
FairSpec == Spec /\ WF_vars(Boot) /\ WF_vars(Main)

-----------------------------------------------------------------------------
\* Unless a deadline forced the exit, every call with a number whose session was
\* established when the signal came, or was torn down before, has had its channel
\* written or refused by the database: teardown, reaping, draining and flushing
\* together cut off no write, whatever setup tasks and callers do meanwhile
\* (session.rs:787-801, 879-890, main.rs:132-166).
NoWriteCutOff ==
    stage = "exit" /\ ~forced => established \cap Numbered \subseteq written \cup refused

\* Startup comes to an end without Pocket-TTS: main runs or has given up
\* (tts.rs:372-387, main.rs:45-54).
StartupEnds == stage \in Startup ~> stage \in {"run", "exit"}

\* "we only accept calls after TTS and the database are ready" (main.rs:73-74): a
\* call that comes while the account is still being registered is not lost; its
\* setup begins, or it is rejected at the limit, unless the process stops first.
EarlyCallsHeard ==
    \A c \in Calls :
        stage = "register" /\ sip[c] # "none"
          ~> call[c] # "none" \/ stage \notin {"register", "run"}

\* After a signal the process ends, whether callers answer the BYE or not, and
\* whatever the setup tasks do (main.rs:131-166).
SignalEnds == stage = "drain" ~> stage = "exit"
=============================================================================
