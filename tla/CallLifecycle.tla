---------------------------- MODULE CallLifecycle ----------------------------
(***************************************************************************)
(* The life of a bridged call: the setup task that SessionManager runs for *)
(* every INVITE, the main loop that tears sessions down, and the pjsip     *)
(* callbacks that attach the call's media port to the conference bridge.   *)
(*                                                                         *)
(* These actors share seven tables (session.rs:89-105, callbacks.rs:48-99) *)
(* that are all keyed by the pjsua call id, a small integer that pjsua     *)
(* reuses.  An element k of Calls stands for one SIP call; since each call *)
(* gets its own setup task, generation, cancellation token, one-shot       *)
(* sender and media port, k names those too, and the conference slot that  *)
(* k's port occupies while it is attached.  An element of Slots is a       *)
(* pjsua call id.  A step of an actor is what it does under one lock.      *)
(***************************************************************************)
EXTENDS Naturals, FiniteSets, Sequences

CONSTANTS
    Calls,      \* the SIP calls of a behaviour
    Slots,      \* the pjsua call ids; pjsua has sip.max_concurrent_calls of them
    None,       \* no entry
    MaxCalls,   \* sip.max_concurrent_calls
    Recycle,    \* may pjsua reuse an id while the bridge still has state under it?
    Faults      \* which pjsua calls may fail

ASSUME CallsAssumption == None \notin Calls \cup Slots
ASSUME MaxCallsAssumption == MaxCalls \in Nat \ {0}
ASSUME RecycleAssumption == Recycle \in BOOLEAN
ASSUME FaultsAssumption == Faults \subseteq {"add_port", "remove_port", "remove_op", "get_info"}

VARIABLES
    (* pjsip *)
    sip,            \* state of each call's INVITE session
    slotOf,         \* the call id pjsua gave the call
    attached,       \* ports that occupy a slot of the conference bridge
    removing,       \* ports whose REMOVE_PORT operation is under way
    cbStage,        \* how far on_call_media_state has come, per call id
    cbPort,         \* its local variable `port`
    (* statics of sip/callbacks.rs *)
    pendingPorts,   \* PENDING_PORTS: the port waiting for media
    activeMedia,    \* ACTIVE_MEDIA: the conference slot of the call's port
    mediaReadyTx,   \* MEDIA_READY_TX: whose one-shot sender is registered
    pendingCleanup, \* PENDING_CLEANUP: conference slot -> port to destroy
    (* SessionManager *)
    sessions,       \* sessions: the call whose session is stored
    pendingSetups,  \* pending_setups: the generation that owns the call id
    cancelled,      \* generations whose token has been cancelled
    (* setup tasks *)
    pc,             \* where the task is
    reason,         \* which exit of on_incoming_call runs abort_setup
    owns,           \* local `owns`
    wasPending,     \* local `was_pending`
    fired,          \* tasks whose one-shot receiver has its message
    (* main loop *)
    events,         \* the SipEvent channel
    loopPc,         \* where on_call_disconnected is
    loopSlot,       \* its argument call_id
    loopSession,    \* the session it removed
    loopPending,    \* its local `pending_port`, as a Boolean
    (* memory *)
    deferred,       \* ports handed to DeferredCleanup
    freed           \* ports destroyed

pjsipVars   == <<sip, slotOf, attached, removing, cbStage, cbPort>>
staticVars  == <<pendingPorts, activeMedia, mediaReadyTx, pendingCleanup>>
managerVars == <<sessions, pendingSetups, cancelled>>
taskVars    == <<pc, reason, owns, wasPending, fired>>
loopVars    == <<loopPc, loopSlot, loopSession, loopPending>>
memoryVars  == <<deferred, freed>>
vars == <<pjsipVars, staticVars, managerVars, taskVars, loopVars, events, memoryVars>>

-----------------------------------------------------------------------------
SipStates == {"new", "ringing", "answered", "closing", "ended"}
Live      == {"ringing", "answered", "closing"}

\* The task's program counter.  From "register" to "clean2" the task holds its
\* port: it alone decides who will destroy it.
PortPcs == {"register", "ready", "insert", "answer", "media", "intro",
            "connect", "commit", "store", "late", "abort", "clean1", "clean2"}
Pcs == PortPcs \cup {"none", "spawned", "lookup", "post", "done", "rejected"}

Reasons == {"none", "answer", "dropped", "media", "setup", "connect"}

Event == [kind : {"incoming"}, slot : Slots, call : Calls]
           \cup [kind : {"disconnected"}, slot : Slots]

TypeOK ==
    /\ sip \in [Calls -> SipStates]
    /\ slotOf \in [Calls -> Slots \cup {None}]
    /\ attached \subseteq Calls
    /\ removing \subseteq Calls
    /\ cbStage \in [Slots -> {"idle", "taken", "added", "published"}]
    /\ cbPort \in [Slots -> Calls \cup {None}]
    /\ pendingPorts \in [Slots -> Calls \cup {None}]
    /\ activeMedia \in [Slots -> Calls \cup {None}]
    /\ mediaReadyTx \in [Slots -> Calls \cup {None}]
    /\ pendingCleanup \in [Calls -> Calls \cup {None}]
    /\ sessions \in [Slots -> Calls \cup {None}]
    /\ pendingSetups \in [Slots -> Calls \cup {None}]
    /\ cancelled \subseteq Calls
    /\ pc \in [Calls -> Pcs]
    /\ reason \in [Calls -> Reasons]
    /\ owns \in [Calls -> BOOLEAN]
    /\ wasPending \in [Calls -> BOOLEAN]
    /\ fired \subseteq Calls
    /\ events \in Seq(Event)
    /\ loopPc \in {"idle", "cancel", "take_pending", "take_active"}
    /\ loopSlot \in Slots \cup {None}
    /\ loopSession \in Calls \cup {None}
    /\ loopPending \in BOOLEAN
    /\ deferred \subseteq Calls
    /\ freed \subseteq Calls

Init ==
    /\ sip = [k \in Calls |-> "new"]
    /\ slotOf = [k \in Calls |-> None]
    /\ attached = {}
    /\ removing = {}
    /\ cbStage = [s \in Slots |-> "idle"]
    /\ cbPort = [s \in Slots |-> None]
    /\ pendingPorts = [s \in Slots |-> None]
    /\ activeMedia = [s \in Slots |-> None]
    /\ mediaReadyTx = [s \in Slots |-> None]
    /\ pendingCleanup = [c \in Calls |-> None]
    /\ sessions = [s \in Slots |-> None]
    /\ pendingSetups = [s \in Slots |-> None]
    /\ cancelled = {}
    /\ pc = [k \in Calls |-> "none"]
    /\ reason = [k \in Calls |-> "none"]
    /\ owns = [k \in Calls |-> FALSE]
    /\ wasPending = [k \in Calls |-> FALSE]
    /\ fired = {}
    /\ events = <<>>
    /\ loopPc = "idle"
    /\ loopSlot = None
    /\ loopSession = None
    /\ loopPending = FALSE
    /\ deferred = {}
    /\ freed = {}

-----------------------------------------------------------------------------
(* pjsip *)

\* The call that pjsua currently knows under the id s, if any.
Occupies(k, s) == slotOf[k] = s /\ sip[k] \in Live
Occupied(s) == \E k \in Calls : Occupies(k, s)

\* The setup task of j has returned.
Returned(j) == pc[j] \in {"done", "rejected"}

\* The bridge keeps nothing under the id s of a call that had it before.
Quiet(s) ==
    /\ \A j \in Calls : slotOf[j] = s => Returned(j)
    /\ sessions[s] = None
    /\ loopSlot # s

\* An INVITE arrives; pjsua picks a free id and on_incoming_call queues the
\* event.  pjsua knows nothing of the bridge's own state under the id: only
\* without Recycle, which stands for many more ids than calls, is it Quiet.
Invite(k, s) ==
    /\ sip[k] = "new"
    /\ ~Occupied(s)
    /\ Recycle \/ Quiet(s)
    /\ sip' = [sip EXCEPT ![k] = "ringing"]
    /\ slotOf' = [slotOf EXCEPT ![k] = s]
    /\ events' = Append(events, [kind |-> "incoming", slot |-> s, call |-> k])
    /\ UNCHANGED <<attached, removing, cbStage, cbPort, staticVars, managerVars,
                   taskVars, loopVars, memoryVars>>

\* The call ends, because the caller hung up or because the bridge did; the
\* dialog lock keeps this out of a running on_call_media_state for the id.
Disconnected(k) ==
    /\ sip[k] \in Live
    /\ cbStage[slotOf[k]] = "idle"
    /\ sip' = [sip EXCEPT ![k] = "ended"]
    /\ events' = Append(events, [kind |-> "disconnected", slot |-> slotOf[k]])
    /\ UNCHANGED <<slotOf, attached, removing, cbStage, cbPort, staticVars,
                   managerVars, taskVars, loopVars, memoryVars>>

\* pjsua_call_get_info fails in on_call_state: nobody is told that the call ended, and
\* its session, if it has one, stays behind when the id is used again.
DisconnectedUnseen(k) ==
    /\ "get_info" \in Faults
    /\ sip[k] \in Live
    /\ cbStage[slotOf[k]] = "idle"
    /\ sip' = [sip EXCEPT ![k] = "ended"]
    /\ UNCHANGED <<slotOf, attached, removing, cbStage, cbPort, staticVars,
                   managerVars, taskVars, loopVars, memoryVars, events>>

\* pjsua_call_hangup(s): whatever call has the id now starts closing.
Hangup(s) == [k \in Calls |-> IF Occupies(k, s) THEN "closing" ELSE sip[k]]

\* on_call_media_state: take the pending port out of its table.
MediaTake(k) ==
    LET s == slotOf[k] IN
    /\ sip[k] = "answered"
    /\ cbStage[s] = "idle"
    /\ pendingPorts[s] # None
    /\ cbStage' = [cbStage EXCEPT ![s] = "taken"]
    /\ cbPort' = [cbPort EXCEPT ![s] = pendingPorts[s]]
    /\ pendingPorts' = [pendingPorts EXCEPT ![s] = None]
    /\ UNCHANGED <<sip, slotOf, attached, removing, activeMedia, mediaReadyTx,
                   pendingCleanup, managerVars, taskVars, loopVars, events, memoryVars>>

\* Mutant: the early return forgets the port.
MediaPutBackForgotten(s) ==
    /\ cbStage[s] = "taken"
    /\ "add_port" \in Faults \/ \E k \in Calls : slotOf[k] = s /\ sip[k] = "closing"
    /\ cbStage' = [cbStage EXCEPT ![s] = "idle"]
    /\ cbPort' = [cbPort EXCEPT ![s] = None]
    /\ UNCHANGED <<sip, slotOf, attached, removing, staticVars, managerVars,
                   taskVars, loopVars, events, memoryVars>>

\* No conference port, no pool, or pjsua_conf_add_port failed: put it back.
MediaPutBack(s) ==
    /\ cbStage[s] = "taken"
    /\ "add_port" \in Faults \/ \E k \in Calls : slotOf[k] = s /\ sip[k] = "closing"
    /\ pendingPorts' = [pendingPorts EXCEPT ![s] = cbPort[s]]
    /\ cbStage' = [cbStage EXCEPT ![s] = "idle"]
    /\ cbPort' = [cbPort EXCEPT ![s] = None]
    /\ UNCHANGED <<sip, slotOf, attached, removing, activeMedia, mediaReadyTx,
                   pendingCleanup, managerVars, taskVars, loopVars, events, memoryVars>>

\* The port gets a slot of the conference bridge and is connected to the call.
MediaAdd(s) ==
    /\ cbStage[s] = "taken"
    /\ attached' = attached \cup {cbPort[s]}
    /\ cbStage' = [cbStage EXCEPT ![s] = "added"]
    /\ UNCHANGED <<sip, slotOf, removing, cbPort, staticVars, managerVars,
                   taskVars, loopVars, events, memoryVars>>

MediaPublish(s) ==
    /\ cbStage[s] = "added"
    /\ activeMedia' = [activeMedia EXCEPT ![s] = cbPort[s]]
    /\ cbStage' = [cbStage EXCEPT ![s] = "published"]
    /\ UNCHANGED <<sip, slotOf, attached, removing, cbPort, pendingPorts,
                   mediaReadyTx, pendingCleanup, managerVars, taskVars, loopVars,
                   events, memoryVars>>

\* Fire the one-shot sender that is registered for the call id, if any.
MediaNotify(s) ==
    /\ cbStage[s] = "published"
    /\ fired' = fired \cup ({mediaReadyTx[s]} \ {None})
    /\ mediaReadyTx' = [mediaReadyTx EXCEPT ![s] = None]
    /\ cbStage' = [cbStage EXCEPT ![s] = "idle"]
    /\ cbPort' = [cbPort EXCEPT ![s] = None]
    /\ UNCHANGED <<sip, slotOf, attached, removing, pendingPorts, activeMedia,
                   pendingCleanup, managerVars, pc, reason, owns, wasPending,
                   loopVars, events, memoryVars>>

\* Mutant: the entry is taken, the port is not destroyed.
RemovePortDoneLeaks(c) ==
    /\ c \in removing
    /\ removing' = removing \ {c}
    /\ attached' = attached \ {c}
    /\ pendingCleanup' = [pendingCleanup EXCEPT ![c] = None]
    /\ UNCHANGED <<sip, slotOf, cbStage, cbPort, pendingPorts, activeMedia,
                   mediaReadyTx, managerVars, taskVars, loopVars, events, memoryVars>>

\* on_conf_op_completed for a REMOVE_PORT of conference slot c that succeeded:
\* destroy the port registered for it.
RemovePortDone(c) ==
    /\ c \in removing
    /\ removing' = removing \ {c}
    /\ attached' = attached \ {c}
    /\ pendingCleanup' = [pendingCleanup EXCEPT ![c] = None]
    /\ freed' = freed \cup ({pendingCleanup[c]} \ {None})
    /\ UNCHANGED <<sip, slotOf, cbStage, cbPort, pendingPorts, activeMedia,
                   mediaReadyTx, managerVars, taskVars, loopVars, events, deferred>>

\* The same callback with a failure status: the entry is taken and forgotten.
RemovePortFailed(c) ==
    /\ "remove_op" \in Faults
    /\ c \in removing
    /\ removing' = removing \ {c}
    /\ pendingCleanup' = [pendingCleanup EXCEPT ![c] = None]
    /\ UNCHANGED <<sip, slotOf, attached, cbStage, cbPort, pendingPorts,
                   activeMedia, mediaReadyTx, managerVars, taskVars, loopVars,
                   events, memoryVars>>

\* DeferredCleanup::spawn_deferred: 250 ms later the port is destroyed.  A
\* callback that holds the port returns well within that time.
DeferredDestroy(k) ==
    /\ k \in deferred
    /\ \A s \in Slots : cbPort[s] # k
    /\ deferred' = deferred \ {k}
    /\ freed' = freed \cup {k}
    /\ UNCHANGED <<pjsipVars, staticVars, managerVars, taskVars, loopVars, events>>

-----------------------------------------------------------------------------
(* Retiring a port.  The three teardown paths of session.rs end the same way: *)
(* the entry c of ACTIVE_MEDIA[s] is taken, port k is registered as what to   *)
(* destroy once REMOVE_PORT of c completes, and the removal is started.  When *)
(* it cannot be started, the registration is taken back and k is deferred.    *)

\* Mutant: the removal is asynchronous, the destruction does not wait for it.
StartRemovalNow(s, k) ==
    LET c == activeMedia[s] IN
    /\ c # None
    /\ activeMedia' = [activeMedia EXCEPT ![s] = None]
    /\ removing' = removing \cup {c}
    /\ freed' = freed \cup {k}
    /\ UNCHANGED <<pendingCleanup, deferred>>

StartRemoval(s, k) ==
    LET c == activeMedia[s] IN
    /\ c # None
    /\ activeMedia' = [activeMedia EXCEPT ![s] = None]
    /\ \/ /\ c \in attached
          /\ pendingCleanup' = [pendingCleanup EXCEPT ![c] = k]
          /\ removing' = removing \cup {c}
          /\ UNCHANGED deferred
       \/ /\ c \notin attached \/ "remove_port" \in Faults
          /\ pendingCleanup' = [pendingCleanup EXCEPT ![c] = None]
          /\ deferred' = deferred \cup {k}
          /\ UNCHANGED removing
    /\ UNCHANGED freed

\* cleanup_media_port after unregister_pending_port: destroy the port now, or
\* hand it to the conference bridge, or defer it.
RetireOwned(s, k) ==
    \/ /\ wasPending[k]
       /\ activeMedia' = [activeMedia EXCEPT ![s] = None]
       /\ freed' = freed \cup {k}
       /\ UNCHANGED <<removing, pendingCleanup, deferred>>
    \/ /\ ~wasPending[k]
       /\ StartRemoval(s, k)
    \/ /\ ~wasPending[k]
       /\ activeMedia[s] = None
       /\ deferred' = deferred \cup {k}
       /\ UNCHANGED <<removing, activeMedia, pendingCleanup, freed>>

-----------------------------------------------------------------------------
(* The setup task: SessionManager::on_incoming_call *)

Goto(k, from, to) ==
    /\ pc[k] = from
    /\ pc' = [pc EXCEPT ![k] = to]

\* sessions.len() + pending.len(), read under both locks.
Total == Cardinality({s \in Slots : sessions[s] # None})
           + Cardinality({s \in Slots : pendingSetups[s] # None})

GateReject(k) ==
    /\ Goto(k, "spawned", "rejected")
    /\ Total >= MaxCalls
    /\ sip' = Hangup(slotOf[k])
    /\ UNCHANGED <<slotOf, attached, removing, cbStage, cbPort, staticVars,
                   managerVars, reason, owns, wasPending, fired, loopVars, events,
                   memoryVars>>

GateAdmit(k) ==
    /\ Goto(k, "spawned", "lookup")
    /\ Total < MaxCalls
    /\ UNCHANGED <<pjsipVars, staticVars, managerVars, reason, owns, wasPending,
                   fired, loopVars, events, memoryVars>>

\* The caller-store awaits are over; buffers, port and decoder are created.  The `?` on
\* create_custom_port never returns: all that could fail there is a NUL in a name that
\* is a constant (media_port.rs:83).
CreatePort(k) ==
    /\ Goto(k, "lookup", "register")
    /\ UNCHANGED <<pjsipVars, staticVars, managerVars, reason, owns, wasPending,
                   fired, loopVars, events, memoryVars>>

RegisterPendingPort(k) ==
    /\ Goto(k, "register", "ready")
    /\ pendingPorts' = [pendingPorts EXCEPT ![slotOf[k]] = k]
    /\ UNCHANGED <<pjsipVars, activeMedia, mediaReadyTx, pendingCleanup, managerVars,
                   reason, owns, wasPending, fired, loopVars, events, memoryVars>>

RegisterMediaReady(k) ==
    /\ Goto(k, "ready", "insert")
    /\ mediaReadyTx' = [mediaReadyTx EXCEPT ![slotOf[k]] = k]
    /\ UNCHANGED <<pjsipVars, pendingPorts, activeMedia, pendingCleanup, managerVars,
                   reason, owns, wasPending, fired, loopVars, events, memoryVars>>

InsertPendingSetup(k) ==
    /\ Goto(k, "insert", "answer")
    /\ pendingSetups' = [pendingSetups EXCEPT ![slotOf[k]] = k]
    /\ UNCHANGED <<pjsipVars, staticVars, sessions, cancelled, reason, owns,
                   wasPending, fired, loopVars, events, memoryVars>>

\* pjsua_call_answer(200) acts on the call that has the id now.
Answer(k) ==
    /\ Goto(k, "answer", "media")
    /\ \E j \in Calls : Occupies(j, slotOf[k]) /\ sip[j] = "ringing"
    /\ sip' = [j \in Calls |-> IF Occupies(j, slotOf[k]) THEN "answered" ELSE sip[j]]
    /\ UNCHANGED <<slotOf, attached, removing, cbStage, cbPort, staticVars,
                   managerVars, reason, owns, wasPending, fired, loopVars, events,
                   memoryVars>>

Abort(k, from, why) ==
    /\ Goto(k, from, "abort")
    /\ reason' = [reason EXCEPT ![k] = why]
    /\ UNCHANGED <<pjsipVars, staticVars, managerVars, owns, wasPending, fired,
                   loopVars, events, memoryVars>>

AnswerFails(k) ==
    /\ ~ \E j \in Calls : Occupies(j, slotOf[k]) /\ sip[j] = "ringing"
    /\ Abort(k, "answer", "answer")

\* Mutant: the sounds start without waiting for the audio path.
MediaReadyUnawaited(k) ==
    /\ Goto(k, "media", "intro") \/ Goto(k, "media", "connect")
    /\ UNCHANGED <<pjsipVars, staticVars, managerVars, reason, owns, wasPending,
                   fired, loopVars, events, memoryVars>>

\* The select! over the one-shot receiver and the token.  With an intro the
\* task sleeps first, without one it goes straight on to connect.
MediaReady(k) ==
    /\ k \in fired
    /\ Goto(k, "media", "intro") \/ Goto(k, "media", "connect")
    /\ UNCHANGED <<pjsipVars, staticVars, managerVars, reason, owns, wasPending,
                   fired, loopVars, events, memoryVars>>

\* The sender was dropped without sending: the receiver resolves to an error.
SenderDropped(k) ==
    pc[k] = "media" /\ k \notin fired /\ mediaReadyTx[slotOf[k]] # k

MediaDropped(k) == SenderDropped(k) /\ Abort(k, "media", "dropped")

MediaCancelled(k) == k \in cancelled /\ Abort(k, "media", "media")

IntroDone(k) ==
    /\ Goto(k, "intro", "connect")
    /\ UNCHANGED <<pjsipVars, staticVars, managerVars, reason, owns, wasPending,
                   fired, loopVars, events, memoryVars>>

SetupCancelled(k) ==
    /\ k \in cancelled
    /\ Abort(k, "intro", "setup") \/ Abort(k, "connect", "setup")

\* MumbleClient::connect returned a client; the bridge tasks are spawned.
ConnectOk(k) ==
    /\ Goto(k, "connect", "commit")
    /\ UNCHANGED <<pjsipVars, staticVars, managerVars, reason, owns, wasPending,
                   fired, loopVars, events, memoryVars>>

ConnectFails(k) == Abort(k, "connect", "connect")

\* remove_pending_setup: only an entry of this generation is removed.
OwnsCallId(k) == pendingSetups[slotOf[k]] = k

RemovePendingSetup(k) ==
    pendingSetups' = [pendingSetups EXCEPT ![slotOf[k]] = IF OwnsCallId(k) THEN None ELSE @]

\* Mutant: the token is not looked at again before the session is stored.
CommitUnchecked(k) ==
    /\ Goto(k, "commit", "store")
    /\ RemovePendingSetup(k)
    /\ owns' = [owns EXCEPT ![k] = OwnsCallId(k)]
    /\ UNCHANGED <<pjsipVars, staticVars, sessions, cancelled, reason, wasPending,
                   fired, loopVars, events, memoryVars>>

\* The transition from pending to active.  Nobody can cancel the token between
\* the removal and the is_cancelled() test: cancel_pending_setup needs the entry.
Commit(k) ==
    /\ Goto(k, "commit", IF k \in cancelled THEN "late" ELSE "store")
    /\ RemovePendingSetup(k)
    /\ owns' = [owns EXCEPT ![k] = OwnsCallId(k)]
    /\ UNCHANGED <<pjsipVars, staticVars, sessions, cancelled, reason, wasPending,
                   fired, loopVars, events, memoryVars>>

StoreSession(k) ==
    /\ Goto(k, "store", "done")
    /\ sessions' = [sessions EXCEPT ![slotOf[k]] = k]
    /\ owns' = [owns EXCEPT ![k] = FALSE]
    /\ UNCHANGED <<pjsipVars, staticVars, pendingSetups, cancelled, reason,
                   wasPending, fired, loopVars, events, memoryVars>>

\* Torn down after Mumble connect.  With no active media the port is left alone.
LateTeardown(k) ==
    /\ Goto(k, "late", "done")
    /\ \/ /\ ~owns[k]
          /\ deferred' = deferred \cup {k}
          /\ UNCHANGED <<removing, activeMedia, pendingCleanup, freed>>
       \/ /\ owns[k]
          /\ StartRemoval(slotOf[k], k)
       \/ /\ owns[k]
          /\ activeMedia[slotOf[k]] = None
          /\ UNCHANGED <<removing, activeMedia, pendingCleanup, memoryVars>>
    /\ owns' = [owns EXCEPT ![k] = FALSE]
    /\ UNCHANGED <<sip, slotOf, attached, cbStage, cbPort, pendingPorts, mediaReadyTx,
                   managerVars, reason, wasPending, fired, loopVars, events>>

\* Mutant: cleanup_media_port defers the port and does not return.
AbortRecycledFallsThrough(k) ==
    /\ Goto(k, "abort", "clean1")
    /\ ~OwnsCallId(k)
    /\ deferred' = deferred \cup {k}
    /\ UNCHANGED <<pjsipVars, staticVars, managerVars, reason, owns, wasPending,
                   fired, loopVars, events, freed>>

\* abort_setup: give up the pending entry and clean up the media port, at once
\* when the call id has been recycled, and through the tables otherwise.
AbortRecycled(k) ==
    /\ Goto(k, "abort", "post")
    /\ ~OwnsCallId(k)
    /\ deferred' = deferred \cup {k}
    /\ UNCHANGED <<pjsipVars, staticVars, managerVars, reason, owns, wasPending,
                   fired, loopVars, events, freed>>

AbortOwned(k) ==
    /\ Goto(k, "abort", "clean1")
    /\ OwnsCallId(k)
    /\ RemovePendingSetup(k)
    /\ owns' = [owns EXCEPT ![k] = TRUE]
    /\ UNCHANGED <<pjsipVars, staticVars, sessions, cancelled, reason, wasPending,
                   fired, loopVars, events, memoryVars>>

\* Mutant: the entry is read, not removed.
UnregisterPendingPortPeeks(k) ==
    /\ Goto(k, "clean1", "clean2")
    /\ wasPending' = [wasPending EXCEPT ![k] = pendingPorts[slotOf[k]] # None]
    /\ UNCHANGED <<pjsipVars, staticVars, managerVars, reason, owns, fired,
                   loopVars, events, memoryVars>>

UnregisterPendingPort(k) ==
    /\ Goto(k, "clean1", "clean2")
    /\ wasPending' = [wasPending EXCEPT ![k] = pendingPorts[slotOf[k]] # None]
    /\ pendingPorts' = [pendingPorts EXCEPT ![slotOf[k]] = None]
    /\ UNCHANGED <<pjsipVars, activeMedia, mediaReadyTx, pendingCleanup, managerVars,
                   reason, owns, fired, loopVars, events, memoryVars>>

CleanupMediaPort(k) ==
    /\ Goto(k, "clean2", "post")
    /\ RetireOwned(slotOf[k], k)
    /\ wasPending' = [wasPending EXCEPT ![k] = FALSE]
    /\ UNCHANGED <<sip, slotOf, attached, cbStage, cbPort, pendingPorts, mediaReadyTx,
                   managerVars, reason, owns, fired, loopVars, events>>

\* What the exit that called abort_setup does with its answer.
AfterAbort(k) ==
    /\ Goto(k, "post", "done")
    /\ mediaReadyTx' = [mediaReadyTx EXCEPT ![slotOf[k]] =
                          IF owns[k] /\ reason[k] \in {"answer", "media"} THEN None ELSE @]
    /\ sip' = IF owns[k] /\ reason[k] = "connect" THEN Hangup(slotOf[k]) ELSE sip
    /\ owns' = [owns EXCEPT ![k] = FALSE]
    /\ reason' = [reason EXCEPT ![k] = "none"]
    /\ UNCHANGED <<slotOf, attached, removing, cbStage, cbPort, pendingPorts,
                   activeMedia, pendingCleanup, managerVars, wasPending, fired,
                   loopVars, events, memoryVars>>

SetupStep(k) ==
    \/ GateReject(k) \/ GateAdmit(k)
    \/ CreatePort(k) \/ RegisterPendingPort(k) \/ RegisterMediaReady(k)
    \/ InsertPendingSetup(k)
    \/ Answer(k) \/ AnswerFails(k)
    \/ MediaReady(k) \/ MediaDropped(k) \/ MediaCancelled(k)
    \/ IntroDone(k) \/ SetupCancelled(k)
    \/ ConnectOk(k) \/ ConnectFails(k)
    \/ Commit(k) \/ StoreSession(k) \/ LateTeardown(k)
    \/ AbortRecycled(k) \/ AbortOwned(k)
    \/ UnregisterPendingPort(k) \/ CleanupMediaPort(k) \/ AfterAbort(k)

-----------------------------------------------------------------------------
(* The main loop of main.rs, which runs on_call_disconnected inline *)

HandleIncoming ==
    /\ loopPc = "idle" /\ events # <<>>
    /\ Head(events).kind = "incoming"
    /\ events' = Tail(events)
    /\ pc' = [pc EXCEPT ![Head(events).call] = "spawned"]
    /\ UNCHANGED <<pjsipVars, staticVars, managerVars, reason, owns, wasPending,
                   fired, loopVars, memoryVars>>

\* Mutant: the session is looked up and stays in the map.
HandleDisconnectedKeeps ==
    /\ loopPc = "idle" /\ events # <<>>
    /\ Head(events).kind = "disconnected"
    /\ sessions[Head(events).slot] # None
    /\ events' = Tail(events)
    /\ loopSlot' = Head(events).slot
    /\ loopSession' = sessions[Head(events).slot]
    /\ loopPc' = "take_pending"
    /\ UNCHANGED <<pjsipVars, staticVars, managerVars, taskVars, loopPending,
                   memoryVars>>

\* sessions.remove(&call_id) finds a session: its teardown begins.
HandleDisconnected ==
    /\ loopPc = "idle" /\ events # <<>>
    /\ Head(events).kind = "disconnected"
    /\ sessions[Head(events).slot] # None
    /\ events' = Tail(events)
    /\ loopSlot' = Head(events).slot
    /\ loopSession' = sessions[Head(events).slot]
    /\ sessions' = [sessions EXCEPT ![Head(events).slot] = None]
    /\ loopPc' = "take_pending"
    /\ UNCHANGED <<pjsipVars, staticVars, pendingSetups, cancelled, taskVars,
                   loopPending, memoryVars>>

\* It finds none, releases the lock and turns to pending_setups.
HandleDisconnectedNoSession ==
    /\ loopPc = "idle" /\ events # <<>>
    /\ Head(events).kind = "disconnected"
    /\ sessions[Head(events).slot] = None
    /\ events' = Tail(events)
    /\ loopSlot' = Head(events).slot
    /\ loopPc' = "cancel"
    /\ UNCHANGED <<pjsipVars, staticVars, managerVars, taskVars, loopSession,
                   loopPending, memoryVars>>

\* Mutant: the entry is removed and the token is left alone.
CancelPendingSetupRemoves ==
    /\ loopPc = "cancel"
    /\ pendingSetups' = [pendingSetups EXCEPT ![loopSlot] = None]
    /\ loopPc' = "idle"
    /\ loopSlot' = None
    /\ UNCHANGED <<pjsipVars, staticVars, sessions, cancelled, taskVars,
                   loopSession, loopPending, events, memoryVars>>

\* cancel_pending_setup: cancel the token and leave the entry to its task.
CancelPendingSetup ==
    /\ loopPc = "cancel"
    /\ cancelled' = cancelled \cup ({pendingSetups[loopSlot]} \ {None})
    /\ loopPc' = "idle"
    /\ loopSlot' = None
    /\ UNCHANGED <<pjsipVars, staticVars, sessions, pendingSetups, taskVars,
                   loopSession, loopPending, events, memoryVars>>

TeardownTakePending ==
    /\ loopPc = "take_pending"
    /\ loopPending' = (pendingPorts[loopSlot] # None)
    /\ pendingPorts' = [pendingPorts EXCEPT ![loopSlot] = None]
    /\ loopPc' = "take_active"
    /\ UNCHANGED <<pjsipVars, activeMedia, mediaReadyTx, pendingCleanup, managerVars,
                   taskVars, loopSlot, loopSession, events, memoryVars>>

\* Take the active media, abort the session's tasks and retire its port.  With
\* neither a pending nor an active entry the port is left alone.
TeardownRetire ==
    /\ loopPc = "take_active"
    /\ \/ /\ loopPending
          /\ activeMedia' = [activeMedia EXCEPT ![loopSlot] = None]
          /\ freed' = freed \cup {loopSession}
          /\ UNCHANGED <<removing, pendingCleanup, deferred>>
       \/ /\ ~loopPending
          /\ StartRemoval(loopSlot, loopSession)
       \/ /\ ~loopPending
          /\ activeMedia[loopSlot] = None
          /\ UNCHANGED <<removing, activeMedia, pendingCleanup, memoryVars>>
    /\ loopPc' = "idle"
    /\ loopSlot' = None
    /\ loopSession' = None
    /\ loopPending' = FALSE
    /\ UNCHANGED <<sip, slotOf, attached, cbStage, cbPort, pendingPorts,
                   mediaReadyTx, managerVars, taskVars, events>>

LoopStep ==
    \/ HandleIncoming \/ HandleDisconnected \/ HandleDisconnectedNoSession
    \/ CancelPendingSetup \/ TeardownTakePending \/ TeardownRetire

MediaStep(s) == MediaPutBack(s) \/ MediaAdd(s) \/ MediaPublish(s) \/ MediaNotify(s)

Next ==
    \/ \E k \in Calls :
         \/ \E s \in Slots : Invite(k, s)
         \/ Disconnected(k) \/ DisconnectedUnseen(k)
         \/ MediaTake(k)
         \/ RemovePortDone(k) \/ RemovePortFailed(k)
         \/ DeferredDestroy(k)
         \/ SetupStep(k)
    \/ \E s \in Slots : MediaStep(s)
    \/ LoopStep

Spec == Init /\ [][Next]_vars

\* tokio runs every task that can run and the main loop; pjsip's workers finish
\* callbacks, conference operations and hangups; an answered call's media comes
\* up; timers fire.  Nobody promises that a caller hangs up or that an INVITE
\* comes.
Fairness ==
    /\ \A k \in Calls :
         /\ WF_vars(SetupStep(k))
         /\ WF_vars(MediaTake(k))
         /\ WF_vars(RemovePortDone(k) \/ RemovePortFailed(k))
         /\ WF_vars(DeferredDestroy(k))
         /\ WF_vars(sip[k] = "closing" /\ Disconnected(k))
    /\ \A s \in Slots : WF_vars(MediaStep(s))
    /\ WF_vars(LoopStep)

FairSpec == Spec /\ Fairness

-----------------------------------------------------------------------------
(* Who will destroy port k *)

TaskHolds(k)    == pc[k] \in PortPcs
SessionHolds(k) == \E s \in Slots : sessions[s] = k
LoopHolds(k)    == loopPc \in {"take_pending", "take_active"} /\ loopSession = k
CleanupHolds(k) == \E c \in Calls : pendingCleanup[c] = k

\* Every media port has at most one actor that will destroy it (its setup task,
\* its stored session, the main loop, a registered conference cleanup or a
\* deferred cleanup), and nobody once it is destroyed: destroy_custom_port
\* (media_port.rs:131) frees the Box, so a second call would be a double free.
PortHeldOnce ==
    \A k \in Calls :
      /\ TaskHolds(k) => ~(SessionHolds(k) \/ LoopHolds(k) \/ CleanupHolds(k)
                            \/ k \in deferred \/ k \in freed)
      /\ SessionHolds(k) => ~(LoopHolds(k) \/ CleanupHolds(k)
                               \/ k \in deferred \/ k \in freed)
      /\ LoopHolds(k) => ~(CleanupHolds(k) \/ k \in deferred \/ k \in freed)
      /\ CleanupHolds(k) => ~(k \in deferred \/ k \in freed)
      /\ ~(k \in deferred /\ k \in freed)
      /\ \A c, d \in Calls : pendingCleanup[c] = k /\ pendingCleanup[d] = k => c = d

\* Nor is a port left to nobody, as long as no REMOVE_PORT operation fails and no id is
\* reused under the bridge: once its setup task has let go of it, its session, the main
\* loop, the conference bridge's callback or a timer will destroy it, or it is
\* destroyed.  Both teardowns that find neither a pending nor an active entry leave the
\* port alone (session.rs:655-660, 938-945), and that would be for good.
PortNeverLost ==
    \A k \in Calls :
      pc[k] \in {"post", "done"} =>
        SessionHolds(k) \/ LoopHolds(k) \/ CleanupHolds(k) \/ k \in deferred \/ k \in freed

\* A setup whose token was cancelled never becomes a session (session.rs:602-605).
CancelledNeverActive ==
    \A s \in Slots : \A k \in Calls : sessions[s] = k => k \notin cancelled

\* "The caller MUST call pjsua_conf_remove_port() ... first" (media_port.rs:126):
\* no port is destroyed while it still has a slot of the conference bridge,
\* whose clock thread would call into the freed memory.
NoFreeWhileAttached == freed \cap attached = {}

\* Nobody will still use a destroyed port: neither PENDING_PORTS nor an
\* on_call_media_state that is about to add it holds its pointer ("The `port`
\* pointer must remain valid until it is consumed", callbacks.rs:108).
NoDanglingPort ==
    \A s \in Slots :
      /\ pendingPorts[s] \notin freed
      /\ cbStage[s] = "taken" => cbPort[s] \notin freed

\* A session of a call that is still up has its audio path: the entry of
\* ACTIVE_MEDIA under its call id is its own, and its port is on the bridge.  So
\* teardown finds something to remove (session.rs:941 never leaks its port).
EstablishedHasMedia ==
    \A s \in Slots : \A k \in Calls :
      sessions[s] = k /\ sip[k] = "answered" => activeMedia[s] = k /\ k \in attached

\* A setup task that waits for media can be woken: its sender is registered, its
\* token is the one cancel_pending_setup would cancel, and its port is where
\* on_call_media_state finds it (session.rs:97-102, 289-306).
WaitingSetupReachable ==
    \A k \in Calls :
      pc[k] = "media" /\ k \notin fired =>
        LET s == slotOf[k] IN
        /\ pendingSetups[s] = k
        /\ mediaReadyTx[s] = k
        /\ pendingPorts[s] = k \/ cbPort[s] = k

\* "If pjsua recycles the call_id before our cleanup finishes, the new call gets
\* a different generation and our cleanup will not clobber its state"
\* (session.rs:252-255): a cleanup step of k's setup changes no entry and no
\* INVITE session that belongs to another call.
CleanupSparesNewCall ==
    [][\A k \in Calls :
         pc[k] \in {"abort", "clean1", "clean2", "post", "late"} /\ pc'[k] # pc[k] =>
           /\ \A s \in Slots :
                /\ pendingPorts'[s] # pendingPorts[s] => pendingPorts[s] = k
                /\ mediaReadyTx'[s] # mediaReadyTx[s] => mediaReadyTx[s] = k
                /\ activeMedia'[s] # activeMedia[s] => activeMedia[s] = k
           /\ \A j \in Calls \ {k} : sip'[j] = sip[j]]_vars

\* The main loop has handled everything that pjsip told it about id s.
Handled(s) ==
    /\ \A i \in 1..Len(events) : events[i].slot # s
    /\ loopSlot # s

Orphan(k) ==
    LET s == slotOf[k] IN sip[k] = "ended" /\ sessions[s] = k /\ Handled(s)

\* "... instead of inserting an orphaned session that no future disconnect event
\* will clean up" (session.rs:602-605): no session is stored for a call that has
\* ended and whose disconnect event has been handled.
NoOrphanSession == \A k \in Calls : slotOf[k] # None => ~Orphan(k)

\* What pjsip asks of a media port's owner, and how this state shows it.
PortStatus ==
    [k \in Calls |->
       IF k \in freed THEN "destroyed"
       ELSE IF k \in removing THEN "removing"
       ELSE IF k \in attached THEN "attached"
       ELSE IF pc[k] \in {"none", "spawned", "lookup", "rejected"} THEN "none"
       ELSE "created"]

Contract == INSTANCE MediaPortContract WITH Ports <- Calls, status <- PortStatus

\* Every port goes through the life that media_port.rs:126-130 and the comments
\* of session.rs:743-777 promise to pjsip: it is destroyed once, and only when it
\* was never attached or after its REMOVE_PORT operation has completed.
ImplementsPortContract == Contract!Spec

\* Once a call has ended, its setup task returns: no wait for media, intro or
\* Mumble outlives the caller.
SetupTerminates ==
    \A k \in Calls : sip[k] = "ended" ~> Returned(k)

\* Once a call has ended, its port is destroyed and its conference slot given
\* back, unless its session was orphaned: the three teardown paths leak nothing
\* when no removal fails.
PortReclaimed ==
    \A k \in Calls :
      sip[k] = "ended" ~> \/ pc[k] = "rejected"
                          \/ k \in freed /\ k \notin attached
                          \/ slotOf[k] # None /\ Orphan(k)
=============================================================================
