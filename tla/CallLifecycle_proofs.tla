------------------------ MODULE CallLifecycle_proofs ------------------------
(***************************************************************************)
(* Proofs about CallLifecycle.  The types and the ownership of ports hold  *)
(* for every set of calls and call ids, every limit, every set of faults,  *)
(* and whether or not pjsua reuses call ids under the bridge.  What is     *)
(* said of memory needs NoReuse, and where it is about the conference      *)
(* bridge RemovalsStart, both stated there.                                *)
(***************************************************************************)
EXTENDS CallLifecycle, TLAPS

\* Where local variables have values: a running callback has a port, a call
\* that has arrived has an id, and a teardown has its arguments.
LocalsOK ==
    /\ \A s \in Slots : cbStage[s] # "idle" => cbPort[s] \in Calls
    /\ \A k \in Calls : sip[k] # "new" => slotOf[k] \in Slots
    /\ \A k \in Calls : pc[k] # "none" => sip[k] # "new"
    /\ \A i \in 1..Len(events) : events[i].kind = "incoming" => sip[events[i].call] # "new"
    /\ loopPc # "idle" => loopSlot \in Slots
    /\ loopPc \in {"take_pending", "take_active"} => loopSession \in Calls

TypeInv == TypeOK /\ LocalsOK

\* SessionManager starts with empty tables, every local unset.
LEMMA TypeInvInit == Init => TypeInv
<1> SUFFICES ASSUME Init PROVE TypeInv
  OBVIOUS
<1>1. events \in Seq(Event) /\ Len(events) = 0
  BY DEF Init
<1>2. TypeOK
  BY <1>1 DEF Init, TypeOK, SipStates, Pcs, PortPcs, Reasons
<1>3. LocalsOK
  BY <1>1 DEF Init, LocalsOK
<1> QED
  BY <1>2, <1>3 DEF TypeInv

\* The call of a queued "incoming" event is a call.
LEMMA EventCalls ==
  ASSUME events \in Seq(Event), NEW i \in 1..Len(events), events[i].kind = "incoming"
  PROVE  events[i].call \in Calls /\ events[i].slot \in Slots
<1>1. events[i] \in Event
  OBVIOUS
<1> QED
  BY <1>1 DEF Event

\* StartRemoval keeps the tables it changes well-typed.
LEMMA StartRemovalType ==
  ASSUME TypeOK, NEW s \in Slots, NEW k \in Calls, StartRemoval(s, k)
  PROVE  /\ activeMedia' \in [Slots -> Calls \cup {None}]
         /\ pendingCleanup' \in [Calls -> Calls \cup {None}]
         /\ removing' \subseteq Calls
         /\ deferred' \subseteq Calls
         /\ freed' = freed
  BY CallsAssumption DEF TypeOK, StartRemoval

\* RetireOwned keeps the tables it changes well-typed, on each of its paths.
LEMMA RetireOwnedType ==
  ASSUME TypeOK, NEW s \in Slots, NEW k \in Calls, RetireOwned(s, k)
  PROVE  /\ activeMedia' \in [Slots -> Calls \cup {None}]
         /\ pendingCleanup' \in [Calls -> Calls \cup {None}]
         /\ removing' \subseteq Calls
         /\ deferred' \subseteq Calls
         /\ freed' \subseteq Calls
<1>1. CASE StartRemoval(s, k)
  BY <1>1, StartRemovalType DEF TypeOK
<1>2. CASE ~StartRemoval(s, k)
  BY <1>2 DEF TypeOK, RetireOwned
<1> QED
  BY <1>1, <1>2

\* A hangup only moves live calls to "closing".
LEMMA HangupType ==
  ASSUME TypeOK, NEW s
  PROVE  /\ Hangup(s) \in [Calls -> SipStates]
         /\ \A k \in Calls : Hangup(s)[k] = "new" <=> sip[k] = "new"
  BY DEF TypeOK, Hangup, Occupies, Live, SipStates

\* Every step of a setup task, the main loop, pjsip's callbacks and the network
\* keeps the types, and the locals in use have values (LocalsOK).
LEMMA TypeInvStep == TypeInv /\ [Next]_vars => TypeInv'
<1> SUFFICES ASSUME TypeInv, [Next]_vars
             PROVE  TypeInv'
  OBVIOUS
<1> USE CallsAssumption DEF TypeInv, TypeOK, LocalsOK, SipStates, Pcs, PortPcs, Reasons,
        pjsipVars, staticVars, managerVars, taskVars, loopVars, memoryVars
<1>0. \A i \in 1..Len(events) : events[i].kind = "incoming" =>
          events[i].call \in Calls /\ events[i].slot \in Slots
  BY EventCalls
<1>1. ASSUME NEW k \in Calls, NEW s \in Slots, Invite(k, s)
      PROVE  TypeInv'
  <2> DEFINE e == [kind |-> "incoming", slot |-> s, call |-> k]
  <2>1. e \in Event /\ e.call = k
    BY DEF Event
  <2>2. events' = Append(events, e)
    BY <1>1 DEF Invite
  <2>3. /\ events' \in Seq(Event) /\ Len(events') = Len(events) + 1
        /\ \A i \in 1..Len(events) : events'[i] = events[i]
        /\ events'[Len(events) + 1] = e
    BY <2>1, <2>2
  <2>4. \A i \in 1..Len(events') : events'[i].kind = "incoming" => sip'[events'[i].call] # "new"
    <3> SUFFICES ASSUME NEW i \in 1..Len(events'), events'[i].kind = "incoming"
                 PROVE  sip'[events'[i].call] # "new"
      OBVIOUS
    <3>1. CASE i = Len(events) + 1
      BY <1>1, <2>1, <2>3, <3>1 DEF Invite
    <3>2. CASE i \in 1..Len(events)
      BY <1>0, <1>1, <2>3, <3>2 DEF Invite
    <3> QED
      BY <2>3, <3>1, <3>2
  <2> QED
    BY <1>1, <2>3, <2>4 DEF Invite
<1>2. ASSUME NEW k \in Calls, Disconnected(k)
      PROVE  TypeInv'
  <2> DEFINE e == [kind |-> "disconnected", slot |-> slotOf[k]]
  <2>1. e \in Event /\ e.kind # "incoming"
    BY <1>2 DEF Event, Disconnected, Live
  <2>2. events' = Append(events, e)
    BY <1>2 DEF Disconnected
  <2>3. /\ events' \in Seq(Event) /\ Len(events') = Len(events) + 1
        /\ \A i \in 1..Len(events) : events'[i] = events[i]
        /\ events'[Len(events) + 1] = e
    BY <2>1, <2>2
  <2>4. \A i \in 1..Len(events') : events'[i].kind = "incoming" => sip'[events'[i].call] # "new"
    <3> SUFFICES ASSUME NEW i \in 1..Len(events'), events'[i].kind = "incoming"
                 PROVE  sip'[events'[i].call] # "new"
      OBVIOUS
    <3>1. i \in 1..Len(events)
      BY <2>1, <2>3
    <3> QED
      BY <1>0, <1>2, <2>3, <3>1 DEF Disconnected
  <2>5. UNCHANGED <<slotOf, attached, removing, cbStage, cbPort, staticVars,
                    managerVars, taskVars, loopVars, memoryVars>>
        /\ sip' = [sip EXCEPT ![k] = "ended"] /\ sip[k] # "new"
    BY <1>2 DEF Disconnected, Live
  <2> QED
    BY <2>3, <2>4, <2>5
<1>3. ASSUME NEW k \in Calls, MediaTake(k)
      PROVE  TypeInv'
  BY <1>3 DEF MediaTake
<1>4. ASSUME NEW s \in Slots, MediaPutBack(s)
      PROVE  TypeInv'
  BY <1>4 DEF MediaPutBack
<1>5. ASSUME NEW s \in Slots, MediaAdd(s)
      PROVE  TypeInv'
  BY <1>5 DEF MediaAdd
<1>6. ASSUME NEW s \in Slots, MediaPublish(s)
      PROVE  TypeInv'
  BY <1>6 DEF MediaPublish
<1>7. ASSUME NEW s \in Slots, MediaNotify(s)
      PROVE  TypeInv'
  BY <1>7 DEF MediaNotify
<1>8. ASSUME NEW k \in Calls, RemovePortDone(k)
      PROVE  TypeInv'
  BY <1>8 DEF RemovePortDone
<1>9. ASSUME NEW k \in Calls, RemovePortFailed(k)
      PROVE  TypeInv'
  BY <1>9 DEF RemovePortFailed
<1>10. ASSUME NEW k \in Calls, DeferredDestroy(k)
      PROVE  TypeInv'
  BY <1>10 DEF DeferredDestroy
<1>11. ASSUME NEW k \in Calls, GateReject(k)
      PROVE  TypeInv'
  BY <1>0, <1>11, HangupType DEF GateReject, Goto
<1>12. ASSUME NEW k \in Calls, GateAdmit(k)
      PROVE  TypeInv'
  BY <1>12 DEF GateAdmit, Goto
<1>13. ASSUME NEW k \in Calls, CreatePort(k)
      PROVE  TypeInv'
  BY <1>13 DEF CreatePort, Goto
<1>14. ASSUME NEW k \in Calls, RegisterPendingPort(k)
      PROVE  TypeInv'
  BY <1>14 DEF RegisterPendingPort, Goto
<1>15. ASSUME NEW k \in Calls, RegisterMediaReady(k)
      PROVE  TypeInv'
  BY <1>15 DEF RegisterMediaReady, Goto
<1>16. ASSUME NEW k \in Calls, InsertPendingSetup(k)
      PROVE  TypeInv'
  BY <1>16 DEF InsertPendingSetup, Goto
<1>17. ASSUME NEW k \in Calls, Answer(k)
      PROVE  TypeInv'
  BY <1>0, <1>17 DEF Answer, Goto, Occupies
<1>18. ASSUME NEW k \in Calls, AnswerFails(k)
      PROVE  TypeInv'
  BY <1>18 DEF AnswerFails, Abort, Goto
<1>19. ASSUME NEW k \in Calls, MediaReady(k)
      PROVE  TypeInv'
  BY <1>19 DEF MediaReady, Goto
<1>20. ASSUME NEW k \in Calls, MediaDropped(k)
      PROVE  TypeInv'
  BY <1>20 DEF MediaDropped, Abort, Goto
<1>21. ASSUME NEW k \in Calls, MediaCancelled(k)
      PROVE  TypeInv'
  BY <1>21 DEF MediaCancelled, Abort, Goto
<1>22. ASSUME NEW k \in Calls, IntroDone(k)
      PROVE  TypeInv'
  BY <1>22 DEF IntroDone, Goto
<1>23. ASSUME NEW k \in Calls, SetupCancelled(k)
      PROVE  TypeInv'
  BY <1>23 DEF SetupCancelled, Abort, Goto
<1>24. ASSUME NEW k \in Calls, ConnectOk(k)
      PROVE  TypeInv'
  BY <1>24 DEF ConnectOk, Goto
<1>25. ASSUME NEW k \in Calls, ConnectFails(k)
      PROVE  TypeInv'
  BY <1>25 DEF ConnectFails, Abort, Goto
<1>26. ASSUME NEW k \in Calls, Commit(k)
      PROVE  TypeInv'
  BY <1>26 DEF Commit, Goto, RemovePendingSetup, OwnsCallId
<1>27. ASSUME NEW k \in Calls, StoreSession(k)
      PROVE  TypeInv'
  BY <1>27 DEF StoreSession, Goto
<1>28. ASSUME NEW k \in Calls, LateTeardown(k)
      PROVE  TypeInv'
  <2>1. slotOf[k] \in Slots
    BY <1>28 DEF LateTeardown, Goto
  <2>2. CASE owns[k] /\ StartRemoval(slotOf[k], k)
    BY <1>28, <2>1, <2>2, StartRemovalType DEF LateTeardown, Goto
  <2>3. CASE ~StartRemoval(slotOf[k], k)
    BY <1>28, <2>3 DEF LateTeardown, Goto
  <2>4. CASE ~owns[k]
    BY <1>28, <2>4 DEF LateTeardown, Goto
  <2> QED
    BY <2>2, <2>3, <2>4
<1>29. ASSUME NEW k \in Calls, AbortRecycled(k)
      PROVE  TypeInv'
  BY <1>29 DEF AbortRecycled, Goto, OwnsCallId
<1>30. ASSUME NEW k \in Calls, AbortOwned(k)
      PROVE  TypeInv'
  BY <1>30 DEF AbortOwned, Goto, OwnsCallId, RemovePendingSetup
<1>31. ASSUME NEW k \in Calls, UnregisterPendingPort(k)
      PROVE  TypeInv'
  BY <1>31 DEF UnregisterPendingPort, Goto
<1>32. ASSUME NEW k \in Calls, CleanupMediaPort(k)
      PROVE  TypeInv'
  <2>1. slotOf[k] \in Slots
    BY <1>32 DEF CleanupMediaPort, Goto
  <2> QED
    BY <1>32, <2>1, RetireOwnedType DEF CleanupMediaPort, Goto
<1>33. ASSUME NEW k \in Calls, AfterAbort(k)
      PROVE  TypeInv'
  <2>1. pc[k] # "none" /\ slotOf[k] \in Slots
    BY <1>33 DEF AfterAbort, Goto
  <2>2. CASE sip' = Hangup(slotOf[k])
    BY <1>0, <1>33, <2>1, <2>2, HangupType DEF AfterAbort, Goto
  <2>3. CASE sip' = sip
    BY <1>33, <2>1, <2>3 DEF AfterAbort, Goto
  <2> QED
    BY <1>33, <2>2, <2>3 DEF AfterAbort
<1>34. ASSUME CancelPendingSetup
      PROVE  TypeInv'
  BY <1>34 DEF CancelPendingSetup
<1>35. ASSUME TeardownTakePending
      PROVE  TypeInv'
  BY <1>35 DEF TeardownTakePending
<1>36. ASSUME TeardownRetire
      PROVE  TypeInv'
  <2>1. loopSlot \in Slots /\ loopSession \in Calls
    BY <1>36 DEF TeardownRetire
  <2>2. CASE ~loopPending /\ StartRemoval(loopSlot, loopSession)
    BY <1>36, <2>1, <2>2, StartRemovalType DEF TeardownRetire
  <2>3. CASE loopPending \/ ~StartRemoval(loopSlot, loopSession)
    BY <1>36, <2>1, <2>3 DEF TeardownRetire
  <2> QED
    BY <2>2, <2>3
<1>37. ASSUME HandleIncoming
      PROVE  TypeInv'
  <2>1. events' = Tail(events) /\ events # <<>> /\ Head(events) \in Event
    BY <1>37 DEF HandleIncoming
  <2>2. /\ events' \in Seq(Event) /\ Len(events') = Len(events) - 1
        /\ \A i \in 1..Len(events') : events'[i] = events[i + 1] /\ i + 1 \in 1..Len(events)
        /\ Head(events) = events[1] /\ 1 \in 1..Len(events)
    BY <2>1
  <2> QED
    BY <1>0, <1>37, <2>1, <2>2 DEF HandleIncoming, Event
<1>38. ASSUME HandleDisconnected
      PROVE  TypeInv'
  <2>1. events' = Tail(events) /\ events # <<>> /\ Head(events) \in Event
    BY <1>38 DEF HandleDisconnected
  <2>2. /\ events' \in Seq(Event) /\ Len(events') = Len(events) - 1
        /\ \A i \in 1..Len(events') : events'[i] = events[i + 1] /\ i + 1 \in 1..Len(events)
        /\ Head(events) = events[1] /\ 1 \in 1..Len(events)
    BY <2>1
  <2> QED
    BY <1>0, <1>38, <2>1, <2>2 DEF HandleDisconnected, Event
<1>39. ASSUME HandleDisconnectedNoSession
      PROVE  TypeInv'
  <2>1. events' = Tail(events) /\ events # <<>> /\ Head(events) \in Event
    BY <1>39 DEF HandleDisconnectedNoSession
  <2>2. /\ events' \in Seq(Event) /\ Len(events') = Len(events) - 1
        /\ \A i \in 1..Len(events') : events'[i] = events[i + 1] /\ i + 1 \in 1..Len(events)
        /\ Head(events) = events[1] /\ 1 \in 1..Len(events)
    BY <2>1
  <2> QED
    BY <1>0, <1>39, <2>1, <2>2 DEF HandleDisconnectedNoSession, Event
<1>40. ASSUME UNCHANGED vars
      PROVE  TypeInv'
  BY <1>40 DEF vars
<1>41. ASSUME NEW k \in Calls, DisconnectedUnseen(k)
      PROVE  TypeInv'
  <2>1. UNCHANGED <<slotOf, attached, removing, cbStage, cbPort, staticVars,
                    managerVars, taskVars, loopVars, memoryVars, events>>
        /\ sip' = [sip EXCEPT ![k] = "ended"] /\ sip[k] # "new"
    BY <1>41 DEF DisconnectedUnseen, Live
  <2> QED
    BY <1>0, <2>1
<1> QED
  BY <1>1, <1>2, <1>3, <1>4, <1>5, <1>6, <1>7, <1>8, <1>9, <1>10, <1>11, <1>12, <1>13, <1>14,
     <1>15, <1>16, <1>17, <1>18, <1>19, <1>20, <1>21, <1>22, <1>23, <1>24, <1>25, <1>26,
     <1>27, <1>28, <1>29, <1>30, <1>31, <1>32, <1>33, <1>34, <1>35, <1>36, <1>37, <1>38,
     <1>39, <1>40, <1>41 DEF Next, SetupStep, MediaStep, LoopStep

\* The tables of SessionManager and callbacks.rs hold what their types say, in
\* every interleaving and under every fault.
THEOREM TypeCorrect == Spec => []TypeOK
<1>1. TypeInv /\ UNCHANGED vars => TypeInv'
  BY TypeInvStep
<1> QED
  BY TypeInvInit, TypeInvStep, PTL DEF Spec, TypeInv

-----------------------------------------------------------------------------
\* A queued "incoming" event is the only one of its call, whose setup task has
\* not been spawned yet.
EventsOnce ==
    /\ \A i \in 1..Len(events) : events[i].kind = "incoming" => pc[events[i].call] = "none"
    /\ \A i, j \in 1..Len(events) :
          events[i].kind = "incoming" /\ events[j].kind = "incoming"
            /\ events[i].call = events[j].call => i = j

\* Where a call can be when the tables mention it.
RegisteredPcs == {"answer", "media", "intro", "connect", "commit", "abort"}

TablesOK ==
    /\ \A s \in Slots, k \in Calls :
          pendingSetups[s] = k => slotOf[k] = s /\ pc[k] \in RegisteredPcs
    /\ \A s \in Slots, k \in Calls :
          sessions[s] = k => slotOf[k] = s /\ pc[k] = "done" /\ k \notin cancelled
    /\ \A k \in Calls : pc[k] = "store" => k \notin cancelled

\* A port that a session, the main loop or a cleanup holds has left its task.
HandedOver ==
    \A k \in Calls :
      /\ LoopHolds(k) => pc[k] = "done"
      /\ CleanupHolds(k) \/ k \in deferred \/ k \in freed => pc[k] \in {"post", "done"}

CallInv == TypeInv /\ EventsOnce /\ TablesOK

HoldInv == CallInv /\ HandedOver /\ PortHeldOnce

\* A setup step moves its own task on, which has been spawned and has not
\* returned, and leaves the event channel alone.
LEMMA SetupMoves ==
  ASSUME TypeOK, NEW k \in Calls, SetupStep(k)
  PROVE  /\ pc[k] \notin {"none", "done", "rejected"}
         /\ pc' = [pc EXCEPT ![k] = pc'[k]]
         /\ events' = events
         /\ slotOf' = slotOf
<1> USE DEF TypeOK, Goto, pjsipVars, taskVars
<1>1. CASE GateReject(k)
  BY <1>1 DEF GateReject
<1>2. CASE GateAdmit(k)
  BY <1>2 DEF GateAdmit
<1>3. CASE CreatePort(k)
  BY <1>3 DEF CreatePort
<1>4. CASE RegisterPendingPort(k)
  BY <1>4 DEF RegisterPendingPort
<1>5. CASE RegisterMediaReady(k)
  BY <1>5 DEF RegisterMediaReady
<1>6. CASE InsertPendingSetup(k)
  BY <1>6 DEF InsertPendingSetup
<1>7. CASE Answer(k)
  BY <1>7 DEF Answer
<1>8. CASE AnswerFails(k)
  BY <1>8 DEF AnswerFails, Abort
<1>9. CASE MediaReady(k)
  BY <1>9 DEF MediaReady
<1>10. CASE MediaDropped(k)
  BY <1>10 DEF MediaDropped, Abort
<1>11. CASE MediaCancelled(k)
  BY <1>11 DEF MediaCancelled, Abort
<1>12. CASE IntroDone(k)
  BY <1>12 DEF IntroDone
<1>13. CASE SetupCancelled(k)
  BY <1>13 DEF SetupCancelled, Abort
<1>14. CASE ConnectOk(k)
  BY <1>14 DEF ConnectOk
<1>15. CASE ConnectFails(k)
  BY <1>15 DEF ConnectFails, Abort
<1>16. CASE Commit(k)
  BY <1>16 DEF Commit
<1>17. CASE StoreSession(k)
  BY <1>17 DEF StoreSession
<1>18. CASE LateTeardown(k)
  BY <1>18 DEF LateTeardown
<1>19. CASE AbortRecycled(k)
  BY <1>19 DEF AbortRecycled
<1>20. CASE AbortOwned(k)
  BY <1>20 DEF AbortOwned
<1>21. CASE UnregisterPendingPort(k)
  BY <1>21 DEF UnregisterPendingPort
<1>22. CASE CleanupMediaPort(k)
  BY <1>22 DEF CleanupMediaPort
<1>23. CASE AfterAbort(k)
  BY <1>23 DEF AfterAbort
<1> QED
  BY <1>1, <1>2, <1>3, <1>4, <1>5, <1>6, <1>7, <1>8, <1>9, <1>10, <1>11, <1>12, <1>13, <1>14,
     <1>15, <1>16, <1>17, <1>18, <1>19, <1>20, <1>21, <1>22, <1>23 DEF SetupStep

\* The event channel carries one INVITE of a call (callbacks.rs:276-281), whose
\* handling spawns its only setup task (main.rs:102-109).
LEMMA EventsOnceStep == TypeInv /\ EventsOnce /\ [Next]_vars => EventsOnce'
<1> SUFFICES ASSUME TypeInv, EventsOnce, [Next]_vars
             PROVE  EventsOnce'
  OBVIOUS
<1> USE DEF TypeInv, EventsOnce
<1>0. \A i \in 1..Len(events) : events[i].kind = "incoming" => events[i].call \in Calls
  BY EventCalls DEF TypeOK
<1>1. ASSUME NEW k \in Calls, NEW s \in Slots, Invite(k, s)
      PROVE  EventsOnce'
  <2> DEFINE e == [kind |-> "incoming", slot |-> s, call |-> k]
  <2>1. events' = Append(events, e) /\ sip[k] = "new" /\ pc' = pc
    BY <1>1 DEF Invite, taskVars
  <2>2. /\ Len(events') = Len(events) + 1 /\ Len(events) \in Nat
        /\ \A i \in 1..Len(events) : events'[i] = events[i]
        /\ events'[Len(events) + 1] = e
    BY <2>1 DEF TypeOK
  <2>3. pc[k] = "none"
    BY <2>1 DEF LocalsOK
  <2>4. \A i \in 1..Len(events) : events[i].kind = "incoming" => events[i].call # k
    BY <2>1 DEF LocalsOK
  <2>5. e.call = k
    OBVIOUS
  <2>6. \A i \in 1..Len(events') : i = Len(events) + 1 \/ i \in 1..Len(events)
    BY <2>2
  <2> QED
    BY <2>1, <2>2, <2>3, <2>4, <2>5, <2>6
<1>2. ASSUME NEW k \in Calls, Disconnected(k)
      PROVE  EventsOnce'
  <2> DEFINE e == [kind |-> "disconnected", slot |-> slotOf[k]]
  <2>1. events' = Append(events, e) /\ pc' = pc
    BY <1>2 DEF Disconnected, taskVars
  <2>2. /\ Len(events') = Len(events) + 1 /\ Len(events) \in Nat
        /\ \A i \in 1..Len(events) : events'[i] = events[i]
        /\ events'[Len(events) + 1] = e
    BY <2>1 DEF TypeOK
  <2>3. \A i \in 1..Len(events') : events'[i].kind = "incoming" => i \in 1..Len(events)
    BY <2>2
  <2> QED
    BY <2>1, <2>2, <2>3
<1>3. ASSUME NEW k \in Calls, SetupStep(k)
      PROVE  EventsOnce'
  BY <1>0, <1>3, SetupMoves DEF TypeOK
<1>4. ASSUME HandleIncoming
      PROVE  EventsOnce'
  <2>1. events' = Tail(events) /\ events # <<>> /\ Head(events).kind = "incoming"
        /\ pc' = [pc EXCEPT ![Head(events).call] = "spawned"]
    BY <1>4 DEF HandleIncoming
  <2>2. /\ Len(events') = Len(events) - 1 /\ Len(events) \in Nat
        /\ \A i \in 1..Len(events') : events'[i] = events[i + 1] /\ i + 1 \in 1..Len(events)
        /\ Head(events) = events[1] /\ 1 \in 1..Len(events)
    BY <2>1 DEF TypeOK
  <2>3. \A i \in 1..Len(events') : events'[i].kind = "incoming" =>
            events'[i].call # events[1].call /\ events'[i].call \in Calls
    BY <1>0, <2>1, <2>2
  <2> QED
    BY <2>1, <2>2, <2>3 DEF TypeOK
<1>5. ASSUME HandleDisconnected \/ HandleDisconnectedNoSession
      PROVE  EventsOnce'
  <2>1. events' = Tail(events) /\ events # <<>> /\ pc' = pc
    BY <1>5 DEF HandleDisconnected, HandleDisconnectedNoSession, taskVars
  <2>2. /\ Len(events') = Len(events) - 1 /\ Len(events) \in Nat
        /\ \A i \in 1..Len(events') : events'[i] = events[i + 1] /\ i + 1 \in 1..Len(events)
    BY <2>1 DEF TypeOK
  <2> QED
    BY <2>1, <2>2
<1>6. CASE events' = events /\ pc' = pc
  BY <1>6
<1>7. ASSUME NEW k \in Calls,
             \/ DisconnectedUnseen(k) \/ MediaTake(k) \/ RemovePortDone(k)
             \/ RemovePortFailed(k) \/ DeferredDestroy(k)
      PROVE  events' = events /\ pc' = pc
  BY <1>7 DEF DisconnectedUnseen, MediaTake, RemovePortDone, RemovePortFailed, DeferredDestroy,
              taskVars
<1>8. ASSUME NEW s \in Slots, MediaStep(s)
      PROVE  events' = events /\ pc' = pc
  BY <1>8 DEF MediaStep, MediaPutBack, MediaAdd, MediaPublish, MediaNotify, taskVars
<1>9. ASSUME CancelPendingSetup \/ TeardownTakePending \/ TeardownRetire
      PROVE  events' = events /\ pc' = pc
  BY <1>9 DEF CancelPendingSetup, TeardownTakePending, TeardownRetire, taskVars
<1>10. CASE UNCHANGED vars
  BY <1>6, <1>10 DEF vars, taskVars
<1> QED
  BY <1>1, <1>2, <1>3, <1>4, <1>5, <1>6, <1>7, <1>8, <1>9, <1>10 DEF Next, LoopStep

\* pending_setups and sessions name a call only at the steps of its setup at which
\* session.rs:256-261 has inserted it and session.rs:602-606 has not removed it.
LEMMA TablesOKStep == CallInv /\ [Next]_vars => TablesOK'
<1> SUFFICES ASSUME CallInv, [Next]_vars
             PROVE  TablesOK'
  OBVIOUS
<1> USE CallsAssumption DEF CallInv, TypeInv, TypeOK, LocalsOK, TablesOK, RegisteredPcs,
        pjsipVars, staticVars, managerVars, taskVars, loopVars, memoryVars
<1>1. ASSUME NEW k \in Calls, AnswerFails(k)
      PROVE  TablesOK'
  BY <1>1 DEF AnswerFails, Abort, Goto
<1>2. ASSUME NEW k \in Calls, MediaReady(k)
      PROVE  TablesOK'
  <2>1. pc[k] = "media" /\ (pc' = [pc EXCEPT ![k] = "intro"] \/ pc' = [pc EXCEPT ![k] = "connect"])
    BY <1>2 DEF MediaReady, Goto
  <2>2. UNCHANGED <<slotOf, sessions, pendingSetups, cancelled>>
    BY <1>2 DEF MediaReady
  <2> QED
    BY <2>1, <2>2
<1>3. ASSUME NEW k \in Calls, MediaDropped(k)
      PROVE  TablesOK'
  BY <1>3 DEF MediaDropped, Abort, Goto
<1>4. ASSUME NEW k \in Calls, MediaCancelled(k)
      PROVE  TablesOK'
  BY <1>4 DEF MediaCancelled, Abort, Goto
<1>5. ASSUME NEW k \in Calls, IntroDone(k)
      PROVE  TablesOK'
  BY <1>5 DEF IntroDone, Goto
<1>6. ASSUME NEW k \in Calls, SetupCancelled(k)
      PROVE  TablesOK'
  BY <1>6 DEF SetupCancelled, Abort, Goto
<1>7. ASSUME NEW k \in Calls, ConnectOk(k)
      PROVE  TablesOK'
  BY <1>7 DEF ConnectOk, Goto
<1>8. ASSUME NEW k \in Calls, ConnectFails(k)
      PROVE  TablesOK'
  BY <1>8 DEF ConnectFails, Abort, Goto
<1>9. ASSUME NEW k \in Calls, GateReject(k)
      PROVE  TablesOK'
  BY <1>9 DEF GateReject, Goto
<1>10. ASSUME NEW k \in Calls, GateAdmit(k)
      PROVE  TablesOK'
  BY <1>10 DEF GateAdmit, Goto
<1>11. ASSUME NEW k \in Calls, CreatePort(k)
      PROVE  TablesOK'
  BY <1>11 DEF CreatePort, Goto
<1>12. ASSUME NEW k \in Calls, RegisterPendingPort(k)
      PROVE  TablesOK'
  BY <1>12 DEF RegisterPendingPort, Goto
<1>13. ASSUME NEW k \in Calls, RegisterMediaReady(k)
      PROVE  TablesOK'
  BY <1>13 DEF RegisterMediaReady, Goto
<1>14. ASSUME NEW k \in Calls, Answer(k)
      PROVE  TablesOK'
  BY <1>14 DEF Answer, Goto
<1>15. ASSUME NEW k \in Calls, LateTeardown(k)
      PROVE  TablesOK'
  BY <1>15 DEF LateTeardown, Goto
<1>16. ASSUME NEW k \in Calls, UnregisterPendingPort(k)
      PROVE  TablesOK'
  BY <1>16 DEF UnregisterPendingPort, Goto
<1>17. ASSUME NEW k \in Calls, CleanupMediaPort(k)
      PROVE  TablesOK'
  BY <1>17 DEF CleanupMediaPort, Goto
<1>18. ASSUME NEW k \in Calls, AfterAbort(k)
      PROVE  TablesOK'
  BY <1>18 DEF AfterAbort, Goto
<1>19. ASSUME NEW k \in Calls, InsertPendingSetup(k)
      PROVE  TablesOK'
  BY <1>19 DEF InsertPendingSetup, Goto
<1>20. ASSUME NEW k \in Calls, Commit(k)
      PROVE  TablesOK'
  BY <1>20 DEF Commit, Goto, RemovePendingSetup, OwnsCallId
<1>21. ASSUME NEW k \in Calls, StoreSession(k)
      PROVE  TablesOK'
  BY <1>21 DEF StoreSession, Goto
<1>22. ASSUME NEW k \in Calls, AbortRecycled(k)
      PROVE  TablesOK'
  BY <1>22 DEF AbortRecycled, Goto, OwnsCallId
<1>23. ASSUME NEW k \in Calls, AbortOwned(k)
      PROVE  TablesOK'
  BY <1>23 DEF AbortOwned, Goto, OwnsCallId, RemovePendingSetup
<1>24. ASSUME NEW k \in Calls, NEW s \in Slots, Invite(k, s)
      PROVE  TablesOK'
  BY <1>24 DEF Invite
<1>25. ASSUME HandleIncoming
      PROVE  TablesOK'
  <2>1. 1 \in 1..Len(events) /\ events[1] = Head(events) /\ Head(events).kind = "incoming"
    BY <1>25 DEF HandleIncoming
  <2>2. Head(events).call \in Calls /\ pc[Head(events).call] = "none"
    BY <2>1, EventCalls DEF EventsOnce
  <2> QED
    BY <1>25, <2>2 DEF HandleIncoming
<1>26. ASSUME HandleDisconnected
      PROVE  TablesOK'
  BY <1>26 DEF HandleDisconnected
<1>27. ASSUME CancelPendingSetup
      PROVE  TablesOK'
  BY <1>27 DEF CancelPendingSetup
<1>28. CASE UNCHANGED <<pc, slotOf, sessions, pendingSetups, cancelled>>
  BY <1>28
<1>29. ASSUME NEW k \in Calls,
             \/ Disconnected(k) \/ DisconnectedUnseen(k) \/ MediaTake(k) \/ RemovePortDone(k)
             \/ RemovePortFailed(k) \/ DeferredDestroy(k)
      PROVE  UNCHANGED <<pc, slotOf, sessions, pendingSetups, cancelled>>
  BY <1>29 DEF Disconnected, DisconnectedUnseen, MediaTake, RemovePortDone, RemovePortFailed,
     DeferredDestroy
<1>30. ASSUME NEW s \in Slots, MediaStep(s)
      PROVE  UNCHANGED <<pc, slotOf, sessions, pendingSetups, cancelled>>
  BY <1>30 DEF MediaStep, MediaPutBack, MediaAdd, MediaPublish, MediaNotify
<1>31. ASSUME HandleDisconnectedNoSession \/ TeardownTakePending \/ TeardownRetire
      PROVE  UNCHANGED <<pc, slotOf, sessions, pendingSetups, cancelled>>
  BY <1>31 DEF HandleDisconnectedNoSession, TeardownTakePending, TeardownRetire
<1>32. CASE UNCHANGED vars
  BY <1>28, <1>32 DEF vars
<1> QED
  BY <1>1, <1>2, <1>3, <1>4, <1>5, <1>6, <1>7, <1>8, <1>9, <1>10, <1>11, <1>12, <1>13, <1>14,
     <1>15, <1>16, <1>17, <1>18, <1>19, <1>20, <1>21, <1>22, <1>23, <1>24, <1>25, <1>26,
     <1>27, <1>28, <1>29, <1>30, <1>31, <1>32 DEF Next, SetupStep, LoopStep

\* The state the tables can be in, whatever the interleaving.
LEMMA CallInvariant == Spec => []CallInv
<1>1. Init => EventsOnce /\ TablesOK
  <2>1. Init => Len(events) = 0
    BY DEF Init
  <2> QED
    BY <2>1, CallsAssumption DEF Init, EventsOnce, TablesOK, RegisteredPcs
<1>2. Init => CallInv
  BY <1>1, TypeInvInit DEF CallInv
<1>3. CallInv /\ [Next]_vars => CallInv'
  BY TypeInvStep, EventsOnceStep, TablesOKStep DEF CallInv
<1> QED
  BY <1>2, <1>3, PTL DEF Spec

\* No setup whose token was cancelled ever becomes a session: the test of the
\* token in the transition from pending to active suffices, because the entry
\* that cancel_pending_setup needs is removed before it (session.rs:602-608).
THEOREM CancelledSetupsNeverActive == Spec => []CancelledNeverActive
<1>1. CallInv => CancelledNeverActive
  BY DEF CallInv, TablesOK, CancelledNeverActive
<1> QED
  BY <1>1, CallInvariant, PTL

-----------------------------------------------------------------------------
(* Who destroys a port *)

\* StartRemoval hands port k to exactly one cleanup and nothing else moves.
LEMMA StartRemovalHolds ==
  ASSUME TypeOK, NEW s \in Slots, NEW k \in Calls, StartRemoval(s, k)
  PROVE  /\ freed' = freed
         /\ \/ /\ deferred' = deferred
               /\ \E c \in Calls : pendingCleanup' = [pendingCleanup EXCEPT ![c] = k]
            \/ /\ deferred' = deferred \cup {k}
               /\ \E c \in Calls : pendingCleanup' = [pendingCleanup EXCEPT ![c] = None]
  BY DEF TypeOK, StartRemoval

\* What a step that retires port k may do to those who hold ports.
Retires(k) ==
    \/ UNCHANGED <<pendingCleanup, deferred, freed>>
    \/ UNCHANGED <<pendingCleanup, deferred>> /\ freed' = freed \cup {k}
    \/ UNCHANGED <<pendingCleanup, freed>> /\ deferred' = deferred \cup {k}
    \/ /\ UNCHANGED <<deferred, freed>>
       /\ \E c \in Calls : pendingCleanup' = [pendingCleanup EXCEPT ![c] = k]
    \/ /\ UNCHANGED freed /\ deferred' = deferred \cup {k}
       /\ \E c \in Calls : pendingCleanup' = [pendingCleanup EXCEPT ![c] = None]

\* A port that its task or the main loop holds, and that this step retires, ends
\* up with one holder at most; every other port keeps its own.
LEMMA RetirePreserves ==
  ASSUME HoldInv, NEW k \in Calls, Retires(k),
         ~CleanupHolds(k), k \notin deferred, k \notin freed,
         ~SessionHolds(k), ~TaskHolds(k)', ~LoopHolds(k)',
         pc'[k] \in {"post", "done"}, sessions' = sessions,
         \A j \in Calls \ {k} : pc'[j] = pc[j] /\ (LoopHolds(j)' => LoopHolds(j))
  PROVE  HandedOver' /\ PortHeldOnce'
<1> USE CallsAssumption DEF HoldInv, CallInv, TypeInv, TypeOK
<1>1. \A j \in Calls \ {k} : /\ CleanupHolds(j)' => CleanupHolds(j)
                             /\ j \in deferred' <=> j \in deferred
                             /\ j \in freed' <=> j \in freed
                             /\ TaskHolds(j)' <=> TaskHolds(j)
                             /\ SessionHolds(j)' <=> SessionHolds(j)
  BY DEF Retires, CleanupHolds, TaskHolds, SessionHolds
<1>2. \A j, c, d \in Calls : pendingCleanup'[c] = j /\ pendingCleanup'[d] = j => c = d
  BY DEF Retires, CleanupHolds, PortHeldOnce
<1>3. /\ CleanupHolds(k)' => ~(k \in deferred' \/ k \in freed')
      /\ ~(k \in deferred' /\ k \in freed')
  BY DEF Retires, CleanupHolds
<1>4. ~SessionHolds(k)'
  BY DEF SessionHolds
<1>5. PortHeldOnce'
  BY <1>1, <1>2, <1>3, <1>4 DEF PortHeldOnce
<1>6. HandedOver'
  BY <1>1 DEF HandedOver
<1> QED
  BY <1>5, <1>6

\* A task that moves on without handing its port over changes nobody's holding.
LEMMA MovePreserves ==
  ASSUME HoldInv, NEW k \in Calls,
         UNCHANGED <<sessions, loopPc, loopSession, pendingCleanup, deferred, freed>>,
         pc[k] # "done", pc[k] = "post" => pc'[k] = "done",
         \A j \in Calls \ {k} : pc'[j] = pc[j]
  PROVE  HandedOver' /\ PortHeldOnce'
<1>1. \A j \in Calls : /\ CleanupHolds(j)' <=> CleanupHolds(j)
                       /\ SessionHolds(j)' <=> SessionHolds(j)
                       /\ LoopHolds(j)' <=> LoopHolds(j)
  BY DEF CleanupHolds, SessionHolds, LoopHolds
<1>2. \A j \in Calls \ {k} : TaskHolds(j)' <=> TaskHolds(j)
  BY DEF TaskHolds
<1>3. ~SessionHolds(k) /\ ~LoopHolds(k)
  BY DEF HoldInv, CallInv, TablesOK, HandedOver, SessionHolds
<1>4. CleanupHolds(k) \/ k \in deferred \/ k \in freed => pc'[k] = "done"
  BY DEF HoldInv, HandedOver
<1>5. pc'[k] = "done" => ~TaskHolds(k)'
  BY DEF TaskHolds, PortPcs
<1>6. PortHeldOnce'
  BY <1>1, <1>2, <1>3, <1>4, <1>5 DEF HoldInv, PortHeldOnce
<1>7. HandedOver'
  BY <1>1, <1>3, <1>4 DEF HoldInv, HandedOver
<1> QED
  BY <1>6, <1>7

\* Every step leaves each port with one holder at most: whoever gives a port to a
\* cleanup, a session or the main loop no longer destroys it (session.rs:736-778,
\* 892-945).
LEMMA HoldStep == HoldInv /\ [Next]_vars => HandedOver' /\ PortHeldOnce'
<1> SUFFICES ASSUME HoldInv, [Next]_vars
             PROVE  HandedOver' /\ PortHeldOnce'
  OBVIOUS
<1>0. TypeOK /\ LocalsOK /\ TablesOK
  BY DEF HoldInv, CallInv, TypeInv
<1>1. ASSUME NEW k \in Calls,
             \/ GateReject(k) \/ GateAdmit(k) \/ CreatePort(k)
             \/ RegisterPendingPort(k) \/ RegisterMediaReady(k) \/ InsertPendingSetup(k)
             \/ Answer(k) \/ AnswerFails(k) \/ MediaReady(k)
             \/ MediaDropped(k) \/ MediaCancelled(k) \/ IntroDone(k)
             \/ SetupCancelled(k) \/ ConnectOk(k) \/ ConnectFails(k)
             \/ Commit(k) \/ AbortOwned(k) \/ UnregisterPendingPort(k)
             \/ AfterAbort(k)
      PROVE  HandedOver' /\ PortHeldOnce'
  <2>1. UNCHANGED <<sessions, loopPc, loopSession, pendingCleanup, deferred, freed>>
    BY <1>1
       DEF GateReject, GateAdmit, CreatePort, RegisterPendingPort, RegisterMediaReady,
           InsertPendingSetup, Answer, AnswerFails, MediaReady, MediaDropped, MediaCancelled,
           IntroDone, SetupCancelled, ConnectOk, ConnectFails, Commit, AbortOwned,
           UnregisterPendingPort, AfterAbort, Abort, managerVars, staticVars, loopVars,
           memoryVars
  <2>2. pc[k] = "post" => pc'[k] = "done"
    BY <1>0, <1>1
       DEF GateReject, GateAdmit, CreatePort, RegisterPendingPort, RegisterMediaReady,
           InsertPendingSetup, Answer, AnswerFails, MediaReady, MediaDropped, MediaCancelled,
           IntroDone, SetupCancelled, ConnectOk, ConnectFails, Commit, AbortOwned,
           UnregisterPendingPort, AfterAbort, Abort, Goto, TypeOK
  <2>3. SetupStep(k)
    BY <1>1 DEF SetupStep
  <2>4. pc[k] # "done" /\ \A j \in Calls \ {k} : pc'[j] = pc[j]
    BY <1>0, <2>3, SetupMoves DEF TypeOK
  <2> QED
    BY <2>1, <2>2, <2>4, MovePreserves
<1>2. ASSUME NEW k \in Calls, StoreSession(k)
      PROVE  HandedOver' /\ PortHeldOnce'
  <2>1. /\ pc[k] = "store" /\ pc' = [pc EXCEPT ![k] = "done"] /\ slotOf[k] \in Slots
        /\ sessions' = [sessions EXCEPT ![slotOf[k]] = k]
        /\ UNCHANGED <<loopPc, loopSession, pendingCleanup, deferred, freed>>
    BY <1>0, <1>2 DEF StoreSession, Goto, LocalsOK, staticVars, loopVars, memoryVars
  <2>2. \A j \in Calls : /\ CleanupHolds(j)' <=> CleanupHolds(j)
                         /\ LoopHolds(j)' <=> LoopHolds(j)
                         /\ SessionHolds(j)' => SessionHolds(j) \/ j = k
    BY <1>0, <2>1 DEF CleanupHolds, SessionHolds, LoopHolds, TypeOK
  <2>3. \A j \in Calls \ {k} : TaskHolds(j)' <=> TaskHolds(j)
    BY <1>0, <2>1 DEF TaskHolds, TypeOK
  <2>4. TaskHolds(k) /\ ~TaskHolds(k)'
    BY <1>0, <2>1 DEF TaskHolds, PortPcs, TypeOK
  <2>5. PortHeldOnce'
    BY <2>1, <2>2, <2>3, <2>4 DEF HoldInv, PortHeldOnce
  <2>6. HandedOver'
    BY <1>0, <2>1, <2>2 DEF HoldInv, HandedOver, TypeOK
  <2> QED
    BY <2>5, <2>6
<1>3. ASSUME NEW k \in Calls, LateTeardown(k)
      PROVE  HandedOver' /\ PortHeldOnce'
  <2>1. /\ pc[k] = "late" /\ pc' = [pc EXCEPT ![k] = "done"] /\ slotOf[k] \in Slots
        /\ UNCHANGED <<sessions, loopPc, loopSession>>
    BY <1>0, <1>3 DEF LateTeardown, Goto, LocalsOK, managerVars, loopVars
  <2>2. Retires(k)
    <3>1. CASE owns[k] /\ StartRemoval(slotOf[k], k)
      BY <1>0, <2>1, <3>1, StartRemovalHolds DEF Retires
    <3>2. CASE ~StartRemoval(slotOf[k], k)
      BY <1>3, <3>2 DEF LateTeardown, Retires, memoryVars
    <3>3. CASE ~owns[k]
      BY <1>3, <3>3 DEF LateTeardown, Retires, memoryVars
    <3> QED
      BY <3>1, <3>2, <3>3
  <2>3. TaskHolds(k) /\ ~TaskHolds(k)' /\ pc'[k] = "done"
    BY <1>0, <2>1 DEF TaskHolds, PortPcs, TypeOK
  <2>4. ~SessionHolds(k) /\ ~LoopHolds(k) /\ ~CleanupHolds(k) /\ k \notin deferred /\ k \notin freed
    BY <2>3 DEF HoldInv, PortHeldOnce
  <2>5. \A j \in Calls : LoopHolds(j)' <=> LoopHolds(j)
    BY <2>1 DEF LoopHolds
  <2>6. \A j \in Calls \ {k} : pc'[j] = pc[j]
    BY <1>0, <2>1 DEF TypeOK
  <2> QED
    BY <2>1, <2>2, <2>3, <2>4, <2>5, <2>6, RetirePreserves
<1>4. ASSUME NEW k \in Calls, AbortRecycled(k)
      PROVE  HandedOver' /\ PortHeldOnce'
  <2>1. /\ pc[k] = "abort" /\ pc' = [pc EXCEPT ![k] = "post"] /\ slotOf[k] \in Slots
        /\ UNCHANGED <<sessions, loopPc, loopSession>>
    BY <1>0, <1>4 DEF AbortRecycled, Goto, LocalsOK, managerVars, loopVars
  <2>2. Retires(k)
    BY <1>4 DEF AbortRecycled, Retires, staticVars
  <2>3. TaskHolds(k) /\ ~TaskHolds(k)' /\ pc'[k] = "post"
    BY <1>0, <2>1 DEF TaskHolds, PortPcs, TypeOK
  <2>4. ~SessionHolds(k) /\ ~LoopHolds(k) /\ ~CleanupHolds(k) /\ k \notin deferred /\ k \notin freed
    BY <2>3 DEF HoldInv, PortHeldOnce
  <2>5. \A j \in Calls : LoopHolds(j)' <=> LoopHolds(j)
    BY <2>1 DEF LoopHolds
  <2>6. \A j \in Calls \ {k} : pc'[j] = pc[j]
    BY <1>0, <2>1 DEF TypeOK
  <2> QED
    BY <2>1, <2>2, <2>3, <2>4, <2>5, <2>6, RetirePreserves
<1>5. ASSUME NEW k \in Calls, CleanupMediaPort(k)
      PROVE  HandedOver' /\ PortHeldOnce'
  <2>1. /\ pc[k] = "clean2" /\ pc' = [pc EXCEPT ![k] = "post"] /\ slotOf[k] \in Slots
        /\ UNCHANGED <<sessions, loopPc, loopSession>>
    BY <1>0, <1>5 DEF CleanupMediaPort, Goto, LocalsOK, managerVars, loopVars
  <2>2. Retires(k)
    <3>1. CASE StartRemoval(slotOf[k], k)
      BY <1>0, <2>1, <3>1, StartRemovalHolds DEF Retires
    <3>2. CASE ~StartRemoval(slotOf[k], k)
      BY <1>5, <3>2 DEF CleanupMediaPort, RetireOwned, Retires
    <3> QED
      BY <3>1, <3>2
  <2>3. TaskHolds(k) /\ ~TaskHolds(k)' /\ pc'[k] = "post"
    BY <1>0, <2>1 DEF TaskHolds, PortPcs, TypeOK
  <2>4. ~SessionHolds(k) /\ ~LoopHolds(k) /\ ~CleanupHolds(k) /\ k \notin deferred /\ k \notin freed
    BY <2>3 DEF HoldInv, PortHeldOnce
  <2>5. \A j \in Calls : LoopHolds(j)' <=> LoopHolds(j)
    BY <2>1 DEF LoopHolds
  <2>6. \A j \in Calls \ {k} : pc'[j] = pc[j]
    BY <1>0, <2>1 DEF TypeOK
  <2> QED
    BY <2>1, <2>2, <2>3, <2>4, <2>5, <2>6, RetirePreserves
<1>6. ASSUME TeardownRetire
      PROVE  HandedOver' /\ PortHeldOnce'
  <2>1. PICK k \in Calls : /\ k = loopSession /\ loopSlot \in Slots
                          /\ loopPc = "take_active" /\ loopPc' = "idle"
                          /\ UNCHANGED <<pc, sessions>>
    BY <1>0, <1>6 DEF TeardownRetire, LocalsOK, managerVars, taskVars
  <2>2. Retires(k)
    <3>1. CASE StartRemoval(loopSlot, loopSession)
      BY <1>0, <2>1, <3>1, StartRemovalHolds DEF Retires
    <3>2. CASE ~StartRemoval(loopSlot, loopSession)
      BY <1>6, <2>1, <3>2 DEF TeardownRetire, Retires, memoryVars
    <3> QED
      BY <3>1, <3>2
  <2>3. LoopHolds(k) /\ pc'[k] = "done"
    BY <2>1 DEF LoopHolds, HoldInv, HandedOver
  <2>4. ~SessionHolds(k) /\ ~CleanupHolds(k) /\ k \notin deferred /\ k \notin freed
    BY <2>1, <2>3 DEF HoldInv, PortHeldOnce
  <2>5. \A j \in Calls : ~LoopHolds(j)'
    BY <2>1 DEF LoopHolds
  <2>6. ~TaskHolds(k)'
    BY <2>3 DEF TaskHolds, PortPcs
  <2> QED
    BY <2>1, <2>2, <2>3, <2>4, <2>5, <2>6, RetirePreserves
<1>7. ASSUME HandleDisconnected
      PROVE  HandedOver' /\ PortHeldOnce'
  <2>1. PICK s \in Slots, k \in Calls :
              /\ sessions[s] = k
              /\ sessions' = [sessions EXCEPT ![s] = None]
              /\ loopPc = "idle" /\ loopSession' = k
              /\ UNCHANGED <<pc, pendingCleanup, deferred, freed>>
    <3>1. Head(events) \in Event
      BY <1>0, <1>7 DEF HandleDisconnected, TypeOK
    <3> QED
      BY <1>0, <1>7, <3>1 DEF HandleDisconnected, TypeOK, Event, staticVars, taskVars, memoryVars
  <2>2. SessionHolds(k) /\ pc[k] = "done"
    BY <1>0, <2>1 DEF SessionHolds, TablesOK
  <2>3. ~SessionHolds(k)'
    BY <1>0, <2>1, CallsAssumption DEF SessionHolds, TablesOK, TypeOK
  <2>4. \A j \in Calls : /\ CleanupHolds(j)' <=> CleanupHolds(j)
                         /\ TaskHolds(j)' <=> TaskHolds(j)
                         /\ SessionHolds(j)' => SessionHolds(j)
                         /\ LoopHolds(j)' => j = k
    BY <1>0, <2>1, CallsAssumption DEF CleanupHolds, TaskHolds, SessionHolds, LoopHolds, TypeOK
  <2>5. PortHeldOnce'
    BY <2>1, <2>2, <2>3, <2>4 DEF HoldInv, PortHeldOnce
  <2>6. HandedOver'
    BY <2>1, <2>2, <2>4 DEF HoldInv, HandedOver
  <2> QED
    BY <2>5, <2>6
<1>8. ASSUME NEW c \in Calls, RemovePortDone(c)
      PROVE  HandedOver' /\ PortHeldOnce'
  <2>1. /\ pendingCleanup' = [pendingCleanup EXCEPT ![c] = None]
        /\ freed' = freed \cup ({pendingCleanup[c]} \ {None})
        /\ UNCHANGED <<pc, sessions, loopPc, loopSession, deferred>>
    BY <1>8 DEF RemovePortDone, managerVars, taskVars, loopVars
  <2>2. \A j \in Calls : /\ SessionHolds(j)' <=> SessionHolds(j)
                         /\ TaskHolds(j)' <=> TaskHolds(j)
                         /\ LoopHolds(j)' <=> LoopHolds(j)
                         /\ CleanupHolds(j)' => CleanupHolds(j) /\ j # pendingCleanup[c]
                         /\ j \in freed' => j \in freed \/ (CleanupHolds(j) /\ ~CleanupHolds(j)')
    BY <1>0, <2>1, CallsAssumption
       DEF CleanupHolds, TaskHolds, SessionHolds, LoopHolds, TypeOK, HoldInv, PortHeldOnce
  <2>3. \A j, d, e \in Calls : pendingCleanup'[d] = j /\ pendingCleanup'[e] = j => d = e
    BY <1>0, <2>1, CallsAssumption DEF HoldInv, PortHeldOnce, TypeOK
  <2>4. PortHeldOnce'
    BY <2>1, <2>2, <2>3 DEF HoldInv, PortHeldOnce
  <2>5. HandedOver'
    BY <2>1, <2>2 DEF HoldInv, HandedOver
  <2> QED
    BY <2>4, <2>5
<1>9. ASSUME NEW c \in Calls, RemovePortFailed(c)
      PROVE  HandedOver' /\ PortHeldOnce'
  <2>1. /\ pendingCleanup' = [pendingCleanup EXCEPT ![c] = None]
        /\ UNCHANGED <<pc, sessions, loopPc, loopSession, deferred, freed>>
    BY <1>9 DEF RemovePortFailed, managerVars, taskVars, loopVars, memoryVars
  <2>2. \A j \in Calls : /\ SessionHolds(j)' <=> SessionHolds(j)
                         /\ TaskHolds(j)' <=> TaskHolds(j)
                         /\ LoopHolds(j)' <=> LoopHolds(j)
                         /\ CleanupHolds(j)' => CleanupHolds(j)
    BY <1>0, <2>1, CallsAssumption DEF CleanupHolds, TaskHolds, SessionHolds, LoopHolds, TypeOK
  <2>3. \A j, d, e \in Calls : pendingCleanup'[d] = j /\ pendingCleanup'[e] = j => d = e
    BY <1>0, <2>1, CallsAssumption DEF HoldInv, PortHeldOnce, TypeOK
  <2>4. PortHeldOnce'
    BY <2>1, <2>2, <2>3 DEF HoldInv, PortHeldOnce
  <2>5. HandedOver'
    BY <2>1, <2>2 DEF HoldInv, HandedOver
  <2> QED
    BY <2>4, <2>5
<1>10. ASSUME NEW k \in Calls, DeferredDestroy(k)
      PROVE  HandedOver' /\ PortHeldOnce'
  <2>1. /\ k \in deferred /\ deferred' = deferred \ {k} /\ freed' = freed \cup {k}
        /\ UNCHANGED <<pc, sessions, loopPc, loopSession, pendingCleanup>>
    BY <1>10 DEF DeferredDestroy, staticVars, managerVars, taskVars, loopVars
  <2>2. \A j \in Calls : /\ SessionHolds(j)' <=> SessionHolds(j)
                         /\ TaskHolds(j)' <=> TaskHolds(j)
                         /\ LoopHolds(j)' <=> LoopHolds(j)
                         /\ CleanupHolds(j)' <=> CleanupHolds(j)
    BY <2>1 DEF CleanupHolds, TaskHolds, SessionHolds, LoopHolds
  <2>3. PortHeldOnce'
    BY <2>1, <2>2 DEF HoldInv, PortHeldOnce
  <2>4. HandedOver'
    BY <2>1, <2>2 DEF HoldInv, HandedOver
  <2> QED
    BY <2>3, <2>4
<1>11. ASSUME HandleIncoming
      PROVE  HandedOver' /\ PortHeldOnce'
  <2> DEFINE k == Head(events).call
  <2>1. /\ k \in Calls /\ pc[k] = "none" /\ pc' = [pc EXCEPT ![k] = "spawned"]
        /\ UNCHANGED <<sessions, loopPc, loopSession, pendingCleanup, deferred, freed>>
    <3>1. 1 \in 1..Len(events) /\ events[1] = Head(events) /\ Head(events).kind = "incoming"
      BY <1>0, <1>11 DEF HandleIncoming, TypeOK
    <3>2. k \in Calls /\ pc[k] = "none"
      BY <1>0, <3>1, EventCalls DEF HoldInv, CallInv, EventsOnce, TypeOK
    <3> QED
      BY <1>11, <3>2 DEF HandleIncoming, staticVars, managerVars, loopVars, memoryVars
  <2>2. \A j \in Calls \ {k} : pc'[j] = pc[j]
    BY <1>0, <2>1 DEF TypeOK
  <2> QED
    BY <2>1, <2>2, MovePreserves
<1>12. CASE /\ UNCHANGED <<pc, sessions, pendingCleanup, deferred, freed>>
            /\ \A j \in Calls : LoopHolds(j)' => LoopHolds(j)
  <2>1. \A j \in Calls : /\ SessionHolds(j)' <=> SessionHolds(j)
                         /\ TaskHolds(j)' <=> TaskHolds(j)
                         /\ CleanupHolds(j)' <=> CleanupHolds(j)
    BY <1>12 DEF CleanupHolds, TaskHolds, SessionHolds
  <2> QED
    BY <1>12, <2>1 DEF HoldInv, PortHeldOnce, HandedOver
<1>13. ASSUME NEW k \in Calls, NEW s \in Slots, Invite(k, s)
       PROVE  HandedOver' /\ PortHeldOnce'
  <2>1. UNCHANGED <<pc, sessions, pendingCleanup, deferred, freed, loopPc, loopSession>>
    BY <1>13 DEF Invite, staticVars, managerVars, taskVars, loopVars, memoryVars
  <2> QED
    BY <1>12, <2>1 DEF LoopHolds
<1>14. ASSUME HandleDisconnectedNoSession \/ CancelPendingSetup \/ TeardownTakePending
       PROVE  HandedOver' /\ PortHeldOnce'
  <2>1. /\ UNCHANGED <<pc, sessions, pendingCleanup, deferred, freed, loopSession>>
        /\ loopPc' \in {"take_pending", "take_active"} => loopPc = "take_pending"
    BY <1>14 DEF HandleDisconnectedNoSession, CancelPendingSetup, TeardownTakePending,
                 staticVars, managerVars, taskVars, memoryVars
  <2> QED
    BY <1>12, <2>1 DEF LoopHolds
<1>15. CASE UNCHANGED vars
  BY <1>12, <1>15 DEF vars, taskVars, managerVars, staticVars, loopVars, memoryVars, LoopHolds
<1>16. ASSUME NEW k \in Calls, Disconnected(k) \/ DisconnectedUnseen(k) \/ MediaTake(k)
       PROVE  HandedOver' /\ PortHeldOnce'
  <2>1. UNCHANGED <<pc, sessions, pendingCleanup, deferred, freed, loopPc, loopSession>>
    BY <1>16 DEF Disconnected, DisconnectedUnseen, MediaTake, staticVars, managerVars, taskVars,
       loopVars, memoryVars
  <2> QED
    BY <1>12, <2>1 DEF LoopHolds
<1>17. ASSUME NEW s \in Slots, MediaStep(s)
       PROVE  HandedOver' /\ PortHeldOnce'
  <2>1. UNCHANGED <<pc, sessions, pendingCleanup, deferred, freed, loopPc, loopSession>>
    BY <1>17 DEF MediaStep, MediaPutBack, MediaAdd, MediaPublish, MediaNotify, staticVars,
                 managerVars, taskVars, loopVars, memoryVars
  <2> QED
    BY <1>12, <2>1 DEF LoopHolds
<1> QED
  BY <1>1, <1>2, <1>3, <1>4, <1>5, <1>6, <1>7, <1>8, <1>9, <1>10, <1>11, <1>13, <1>14, <1>15,
     <1>16, <1>17 DEF Next, SetupStep, LoopStep

\* Whatever the actors do, and even when pjsua reuses an id under them, no port
\* has two actors that will destroy it, and none that is destroyed has one.
THEOREM PortsHeldOnce == Spec => []PortHeldOnce
<1>1. Init => HandedOver /\ PortHeldOnce
  BY CallsAssumption DEF Init, HandedOver, PortHeldOnce, TaskHolds, SessionHolds, LoopHolds,
                         CleanupHolds, PortPcs
<1>2. CallInv /\ HandedOver /\ PortHeldOnce /\ [Next]_vars /\ CallInv'
        => (HandedOver /\ PortHeldOnce)'
  BY HoldStep DEF HoldInv
<1> QED
  BY <1>1, <1>2, CallInvariant, PTL DEF Spec

-----------------------------------------------------------------------------
(* Memory safety, when pjsua reuses an id only once the bridge keeps nothing *)
(* under it.                                                                 *)

NoReuse == ~Recycle

\* Every removal from the conference bridge that is asked for is started.
RemovalsStart == "remove_port" \notin Faults

\* Calls that pjsua knows under their id, or the bridge keeps something for.
UsesId(k) ==
    sip[k] # "new" /\ (sip[k] \in Live \/ ~Returned(k) \/ SessionHolds(k) \/ LoopHolds(k))

IdsOK ==
    /\ \A j, k \in Calls : UsesId(j) /\ UsesId(k) /\ slotOf[j] = slotOf[k] => j = k
    /\ \A k \in Calls : LoopHolds(k) => slotOf[k] = loopSlot

UnansweredPcs == {"none", "spawned", "lookup", "register", "ready", "insert", "answer"}

\* A setup that is cancelled is one whose call has ended, however long the main loop
\* takes to hear of it, and media come up only for a setup that has answered.
EndsOK ==
    /\ \A k \in Calls : \A i \in 1..Len(events) :
         events[i].kind = "disconnected" /\ events[i].slot = slotOf[k] /\ sip[k] # "new" =>
           \/ sip[k] = "ended"
           \/ \E j \in i + 1..Len(events) :
                events[j].kind = "incoming" /\ events[j].call = k
    /\ loopPc = "cancel" =>
         \A k \in Calls : slotOf[k] = loopSlot => sip[k] = "ended" \/ pc[k] = "none"
    /\ \A k \in cancelled : sip[k] = "ended"
    /\ \A k \in Calls : sip[k] = "answered" => pc[k] \notin UnansweredPcs

\* Where the port of call k can be: nowhere yet, in PENDING_PORTS, in the hands of
\* on_call_media_state, or on the conference bridge and in ACTIVE_MEDIA.
Idle(k) ==
    /\ cbStage[slotOf[k]] = "idle"
    /\ k \notin removing
Nowhere(k) ==
    /\ Idle(k) /\ k \notin attached
    /\ pendingPorts[slotOf[k]] = None /\ activeMedia[slotOf[k]] = None
Waits(k) ==
    /\ Idle(k) /\ k \notin attached
    /\ pendingPorts[slotOf[k]] = k /\ activeMedia[slotOf[k]] = None
InCallback(k) ==
    LET s == slotOf[k] IN
    /\ cbStage[s] # "idle" /\ cbPort[s] = k /\ sip[k] = "answered"
    /\ k \notin removing
    /\ k \in attached <=> cbStage[s] # "taken"
    /\ pendingPorts[s] = None
    /\ activeMedia[s] = IF cbStage[s] = "published" THEN k ELSE None
OnBridge(k) ==
    /\ Idle(k) /\ k \in attached
    /\ pendingPorts[slotOf[k]] = None /\ activeMedia[slotOf[k]] = k

\* Which of these it is, for every step of the task and after it.
Located(k) ==
    /\ pc[k] \in {"none", "rejected"} => k \notin attached /\ k \notin removing
    /\ pc[k] \in {"spawned", "lookup", "register"} => Nowhere(k)
    /\ pc[k] \in {"ready", "insert", "answer"} => Waits(k)
    /\ pc[k] = "media" => IF k \in fired THEN OnBridge(k) ELSE Waits(k) \/ InCallback(k)
    /\ pc[k] \in {"intro", "connect", "commit", "store", "late"} => OnBridge(k)
    /\ pc[k] \in {"abort", "clean1"} => OnBridge(k) \/ (Waits(k) /\ sip[k] # "answered")
    /\ pc[k] = "clean2" => IF wasPending[k] THEN Nowhere(k) ELSE OnBridge(k)
    /\ SessionHolds(k) \/ LoopHolds(k) => OnBridge(k)

\* Its sender and its entry of pending_setups are its own for as long as it needs them.
Registered(k) ==
    /\ pc[k] \in UnansweredPcs => k \notin fired
    /\ pc[k] \in {"insert", "answer", "media"} /\ k \notin fired => mediaReadyTx[slotOf[k]] = k
    /\ pc[k] \in RegisteredPcs => pendingSetups[slotOf[k]] = k
    /\ pc[k] = "late" => owns[k]

\* Its destruction waits for the removal of its own conference slot, if that was
\* started; only a removal that was not leaves a port to a timer.
CleanedUp(k) ==
    /\ RemovalsStart => k \notin deferred /\ (k \in freed => k \notin attached)
    /\ k \in removing => k \in attached /\ pendingCleanup[k] = k
    /\ k \notin removing => pendingCleanup[k] = None

PortOK(k) == Located(k) /\ Registered(k) /\ CleanedUp(k)

InTables(s, k) ==
    pendingPorts[s] = k \/ activeMedia[s] = k \/ (cbStage[s] # "idle" /\ cbPort[s] = k)
UsesPort(k) == pc[k] \in PortPcs \ {"register"} \/ SessionHolds(k) \/ LoopHolds(k)

PortsOK ==
    /\ \A k \in Calls : PortOK(k)
    /\ \A s \in Slots, k \in Calls : InTables(s, k) => slotOf[k] = s /\ UsesPort(k)
    /\ loopPc = "take_active" => ~loopPending

\* A step that concerns no call but k, and of the tables only what is under k's id.
OnlyOf(k) ==
    /\ slotOf' = slotOf
    /\ \A j \in Calls \ {k} :
         /\ pc'[j] = pc[j] /\ sip'[j] = sip[j]
         /\ wasPending'[j] = wasPending[j] /\ owns'[j] = owns[j]
         /\ pendingCleanup'[j] = pendingCleanup[j]
         /\ j \in attached' <=> j \in attached
         /\ j \in removing' <=> j \in removing
         /\ j \in fired' <=> j \in fired
         /\ j \in deferred' <=> j \in deferred
         /\ j \in freed' <=> j \in freed
         /\ SessionHolds(j)' <=> SessionHolds(j)
         /\ LoopHolds(j)' <=> LoopHolds(j)
    /\ \A s \in Slots : (UsesId(k) => s # slotOf[k]) =>
         /\ pendingPorts'[s] = pendingPorts[s] /\ activeMedia'[s] = activeMedia[s]
         /\ cbStage'[s] = cbStage[s] /\ cbPort'[s] = cbPort[s]
         /\ mediaReadyTx'[s] = mediaReadyTx[s] /\ pendingSetups'[s] = pendingSetups[s]
    /\ \A s \in Slots, j \in Calls \ {k} : InTables(s, j)' => InTables(s, j)

SafeInv == HoldInv /\ IdsOK /\ EndsOK /\ PortsOK

\* What a setup step does to calls, sessions and the main loop.
LEMMA SetupFrame ==
  ASSUME TypeOK, NEW k \in Calls, SetupStep(k)
  PROVE  /\ UNCHANGED <<loopPc, loopSlot, loopSession, loopPending, cancelled>>
         /\ \/ sessions' = sessions
            \/ pc[k] = "store" /\ sessions' = [sessions EXCEPT ![slotOf[k]] = k]
         /\ \A j \in Calls :
              \/ sip'[j] = sip[j]
              \/ Occupies(j, slotOf[k]) /\ sip'[j] = "closing"
              \/ Occupies(j, slotOf[k]) /\ sip'[j] = "answered" /\ pc'[k] = "media"
         /\ pc'[k] \in UnansweredPcs => pc[k] \in UnansweredPcs
<1> USE DEF TypeOK, UnansweredPcs, managerVars, loopVars
<1>1. CASE \/ GateAdmit(k) \/ CreatePort(k) \/ RegisterPendingPort(k)
           \/ RegisterMediaReady(k) \/ InsertPendingSetup(k) \/ MediaReady(k)
           \/ IntroDone(k) \/ ConnectOk(k) \/ Commit(k) \/ AbortRecycled(k) \/ AbortOwned(k)
           \/ UnregisterPendingPort(k)
  BY <1>1
     DEF GateAdmit, CreatePort, RegisterPendingPort, RegisterMediaReady, InsertPendingSetup,
         MediaReady, IntroDone, ConnectOk, Commit, AbortRecycled, AbortOwned,
         UnregisterPendingPort, Goto, pjsipVars
<1>2. CASE \/ AnswerFails(k) \/ MediaDropped(k) \/ MediaCancelled(k)
           \/ SetupCancelled(k) \/ ConnectFails(k)
  BY <1>2
     DEF AnswerFails, MediaDropped, MediaCancelled, SetupCancelled, ConnectFails, Abort, Goto,
         pjsipVars
<1>3. CASE GateReject(k) \/ AfterAbort(k)
  BY <1>3 DEF GateReject, AfterAbort, Hangup, Goto
<1>4. CASE Answer(k)
  BY <1>4 DEF Answer, Goto
<1>5. CASE StoreSession(k)
  BY <1>5 DEF StoreSession, Goto, pjsipVars
<1>6. CASE LateTeardown(k) \/ CleanupMediaPort(k)
  BY <1>6 DEF LateTeardown, CleanupMediaPort, Goto
<1> QED
  BY <1>1, <1>2, <1>3, <1>4, <1>5, <1>6 DEF SetupStep

\* Only an INVITE gives a call an id; no other step gives it a use for one.
LEMMA IdsKept ==
  ASSUME HoldInv, [Next]_vars, \A k \in Calls, s \in Slots : ~Invite(k, s)
  PROVE  /\ slotOf' = slotOf
         /\ \A k \in Calls : UsesId(k)' => UsesId(k)
<1>0. TypeOK /\ LocalsOK /\ TablesOK /\ EventsOnce /\ HandedOver
  BY DEF HoldInv, CallInv, TypeInv
<1>1. ASSUME slotOf' = slotOf, UNCHANGED <<pc, sessions, loopSession>>,
             loopPc' \in {"take_pending", "take_active"} => loopPc = "take_pending",
             \A j \in Calls : sip'[j] = sip[j] \/ (sip[j] \in Live /\ sip'[j] = "ended")
      PROVE  \A j \in Calls : UsesId(j)' => UsesId(j)
  BY <1>1 DEF UsesId, Live, Returned, SessionHolds, LoopHolds
<1>2. ASSUME NEW k \in Calls, SetupStep(k)
      PROVE  slotOf' = slotOf /\ \A j \in Calls : UsesId(j)' => UsesId(j)
  <2>1. slotOf' = slotOf /\ pc[k] \notin {"done", "rejected"}
        /\ \A j \in Calls \ {k} : pc'[j] = pc[j]
    BY <1>0, <1>2, SetupMoves DEF TypeOK
  <2>2. \A j \in Calls : LoopHolds(j)' => LoopHolds(j)
    BY <1>0, <1>2, SetupFrame DEF LoopHolds
  <2>3. \A j \in Calls : SessionHolds(j)' => SessionHolds(j) \/ j = k
    BY <1>0, <1>2, SetupFrame DEF SessionHolds, TypeOK
  <2>4. \A j \in Calls : (sip'[j] \in Live => sip[j] \in Live)
                         /\ (sip'[j] # "new" => sip[j] # "new")
    BY <1>0, <1>2, SetupFrame DEF Occupies, Live
  <2>5. sip[k] # "new" /\ ~Returned(k)
    BY <1>0, <1>2, <2>1, SetupMoves DEF LocalsOK, Returned
  <2> QED
    BY <2>1, <2>2, <2>3, <2>4, <2>5 DEF UsesId, Returned
<1>3. ASSUME NEW k \in Calls, Disconnected(k) \/ DisconnectedUnseen(k)
      PROVE  slotOf' = slotOf /\ \A j \in Calls : UsesId(j)' => UsesId(j)
  <2>1. UNCHANGED <<slotOf, pc, sessions, loopPc, loopSession>>
        /\ \A j \in Calls : sip'[j] = sip[j] \/ (sip[j] \in Live /\ sip'[j] = "ended")
    BY <1>0, <1>3 DEF Disconnected, DisconnectedUnseen, managerVars, taskVars, loopVars, TypeOK
  <2> QED
    BY <1>0, <1>1, <2>1 DEF TypeOK, UsesId, Live, Returned, SessionHolds, LoopHolds
<1>4. ASSUME HandleIncoming
      PROVE  slotOf' = slotOf /\ \A j \in Calls : UsesId(j)' => UsesId(j)
  <2>1. 1 \in 1..Len(events) /\ events[1] = Head(events) /\ Head(events).kind = "incoming"
    BY <1>0, <1>4 DEF HandleIncoming, TypeOK
  <2>2. Head(events).call \in Calls /\ pc[Head(events).call] = "none"
    BY <1>0, <2>1, EventCalls DEF EventsOnce, TypeOK
  <2>3. UNCHANGED <<slotOf, sip, sessions, loopPc, loopSession>>
        /\ pc' = [pc EXCEPT ![Head(events).call] = "spawned"]
    BY <1>4 DEF HandleIncoming, pjsipVars, managerVars, loopVars
  <2> QED
    BY <1>0, <2>2, <2>3 DEF TypeOK, UsesId, Returned, SessionHolds, LoopHolds
<1>5. ASSUME HandleDisconnected
      PROVE  slotOf' = slotOf /\ \A j \in Calls : UsesId(j)' => UsesId(j)
  <2>1. PICK s \in Slots : /\ loopSession' = sessions[s] /\ sessions[s] # None
                          /\ sessions' = [sessions EXCEPT ![s] = None]
    <3>1. Head(events) \in Event
      BY <1>0, <1>5 DEF HandleDisconnected, TypeOK
    <3> QED
      BY <1>5, <3>1 DEF HandleDisconnected, Event
  <2>2. UNCHANGED <<slotOf, sip, pc>>
    BY <1>5 DEF HandleDisconnected, pjsipVars, taskVars
  <2>3. \A j \in Calls : SessionHolds(j)' \/ LoopHolds(j)' => SessionHolds(j)
    BY <1>0, <2>1, CallsAssumption DEF SessionHolds, LoopHolds, TypeOK
  <2> QED
    BY <2>2, <2>3 DEF UsesId, Returned
<1>6. ASSUME \/ \E k \in Calls : \/ MediaTake(k) \/ RemovePortDone(k) \/ RemovePortFailed(k)
                                \/ DeferredDestroy(k)
             \/ \E s \in Slots : MediaStep(s)
             \/ HandleDisconnectedNoSession \/ CancelPendingSetup
             \/ TeardownTakePending \/ TeardownRetire
             \/ UNCHANGED vars
      PROVE  slotOf' = slotOf /\ \A j \in Calls : UsesId(j)' => UsesId(j)
  <2>1. UNCHANGED <<slotOf, sip, pc, sessions>>
    BY <1>6 DEF MediaTake, RemovePortDone, RemovePortFailed, DeferredDestroy, MediaStep,
      MediaPutBack, MediaAdd, MediaPublish, MediaNotify, HandleDisconnectedNoSession,
      CancelPendingSetup, TeardownTakePending, TeardownRetire, vars, pjsipVars, managerVars,
      taskVars
  <2>2. \A j \in Calls : LoopHolds(j)' => LoopHolds(j)
    BY <1>6 DEF LoopHolds, MediaTake, RemovePortDone, RemovePortFailed, DeferredDestroy,
      MediaStep, MediaPutBack, MediaAdd, MediaPublish, MediaNotify, HandleDisconnectedNoSession,
      CancelPendingSetup, TeardownTakePending, TeardownRetire, vars, loopVars
  <2> QED
    BY <2>1, <2>2 DEF UsesId, Returned, SessionHolds
<1> QED
  BY <1>2, <1>3, <1>4, <1>5, <1>6 DEF Next, LoopStep

\* A call that uses an id is the only one that pjsua may know under it.
LEMMA Occupant ==
  ASSUME IdsOK, NEW k \in Calls, UsesId(k), NEW j \in Calls, Occupies(j, slotOf[k])
  PROVE  j = k
  BY DEF IdsOK, UsesId, Occupies, Live

\* A setup task that runs uses the id of its call.
LEMMA RunningUsesId ==
  ASSUME CallInv, NEW k \in Calls, pc[k] \notin {"none", "done", "rejected"}
  PROVE  UsesId(k) /\ slotOf[k] \in Slots
  BY DEF CallInv, TypeInv, LocalsOK, UsesId, Returned

\* pjsua gives a call an id that is free, and for which the bridge keeps nothing
\* (Quiet): the calls that use ids never share one.
LEMMA IdsOKStep ==
  ASSUME ~Recycle, HoldInv, IdsOK, [Next]_vars
  PROVE  IdsOK'
<1>0. TypeOK /\ LocalsOK /\ TablesOK /\ HandedOver
  BY DEF HoldInv, CallInv, TypeInv
<1>1. ASSUME NEW k \in Calls, NEW s \in Slots, Invite(k, s)
      PROVE  IdsOK'
  <2>1. /\ slotOf' = [slotOf EXCEPT ![k] = s] /\ sip' = [sip EXCEPT ![k] = "ringing"]
        /\ sip[k] = "new" /\ ~Occupied(s) /\ Quiet(s)
        /\ UNCHANGED <<pc, sessions, loopPc, loopSlot, loopSession>>
    BY <1>1 DEF Invite, managerVars, taskVars, loopVars
  <2>2. \A j \in Calls : (SessionHolds(j)' <=> SessionHolds(j)) /\ (LoopHolds(j)' <=> LoopHolds(j))
    BY <2>1 DEF SessionHolds, LoopHolds
  <2>3. \A j \in Calls : UsesId(j) => slotOf[j] # s
    <3> SUFFICES ASSUME NEW j \in Calls, UsesId(j), slotOf[j] = s PROVE FALSE
      OBVIOUS
    <3>1. sip[j] \notin Live
      BY <2>1 DEF Occupied, Occupies
    <3>2. Returned(j) /\ ~SessionHolds(j) /\ ~LoopHolds(j)
      BY <1>0, <2>1, CallsAssumption DEF Quiet, SessionHolds, TablesOK, IdsOK
    <3> QED
      BY <3>1, <3>2 DEF UsesId
  <2>4. \A j \in Calls \ {k} : (UsesId(j)' <=> UsesId(j)) /\ slotOf'[j] = slotOf[j]
    BY <1>0, <2>1, <2>2 DEF UsesId, Returned, TypeOK
  <2>5. slotOf'[k] = s /\ ~LoopHolds(k)
    BY <1>0, <2>1 DEF TypeOK, HandedOver, LocalsOK
  <2> QED
    BY <2>1, <2>2, <2>3, <2>4, <2>5 DEF IdsOK
<1>2. CASE \A k \in Calls, s \in Slots : ~Invite(k, s)
  <2>1. slotOf' = slotOf /\ \A j \in Calls : UsesId(j)' => UsesId(j)
    BY <1>2, IdsKept
  <2>2. ASSUME NEW j \in Calls, LoopHolds(j)'
        PROVE  slotOf[j] = loopSlot'
    <3>1. CASE HandleDisconnected
      <4>1. Head(events) \in Event
        BY <1>0, <3>1 DEF HandleDisconnected, TypeOK
      <4>2. /\ Head(events).slot \in Slots /\ sessions[Head(events).slot] = j
            /\ loopSlot' = Head(events).slot
        BY <2>2, <3>1, <4>1 DEF HandleDisconnected, LoopHolds, Event
      <4> QED
        BY <1>0, <4>2 DEF TablesOK
    <3>2. CASE CancelPendingSetup \/ HandleDisconnectedNoSession \/ TeardownRetire
      BY <2>2, <3>2
         DEF CancelPendingSetup, HandleDisconnectedNoSession, TeardownRetire, LoopHolds
    <3>3. CASE TeardownTakePending
      BY <2>2, <3>3 DEF TeardownTakePending, LoopHolds, IdsOK
    <3>4. CASE UNCHANGED <<loopPc, loopSlot, loopSession>>
      BY <2>2, <3>4 DEF LoopHolds, IdsOK
    <3>5. ASSUME NEW k \in Calls, SetupStep(k)
          PROVE  UNCHANGED <<loopPc, loopSlot, loopSession>>
      BY <1>0, <3>5, SetupFrame
    <3>6. CASE \/ \E k \in Calls : \/ Disconnected(k) \/ DisconnectedUnseen(k) \/ MediaTake(k)
                                   \/ RemovePortDone(k) \/ RemovePortFailed(k)
                                   \/ DeferredDestroy(k)
               \/ \E s \in Slots : MediaStep(s)
               \/ HandleIncoming \/ UNCHANGED vars
      <4>1. UNCHANGED <<loopPc, loopSlot, loopSession>>
        BY <3>6 DEF Disconnected, DisconnectedUnseen, MediaTake, RemovePortDone, RemovePortFailed,
          DeferredDestroy, MediaStep, MediaPutBack, MediaAdd, MediaPublish, MediaNotify,
          HandleIncoming, vars, loopVars
      <4> QED
        BY <3>4, <4>1
    <3> QED
      BY <1>2, <3>1, <3>2, <3>3, <3>4, <3>5, <3>6 DEF Next, LoopStep
  <2> QED
    BY <2>1, <2>2 DEF IdsOK
<1> QED
  BY <1>1, <1>2

\* What the main loop takes from the event channel is gone, the rest keeps its order.
LEMMA EndsAfterTail ==
  ASSUME TypeOK, EndsOK, events # <<>>, events' = Tail(events), UNCHANGED <<sip, slotOf>>
  PROVE  \A k \in Calls : \A i \in 1..Len(events') :
           events'[i].kind = "disconnected" /\ events'[i].slot = slotOf[k] /\ sip[k] # "new" =>
             \/ sip[k] = "ended"
             \/ \E j \in i + 1..Len(events') :
                  events'[j].kind = "incoming" /\ events'[j].call = k
<1> SUFFICES ASSUME NEW k \in Calls, NEW i \in 1..Len(events')
             PROVE  /\ events'[i].kind = "disconnected" /\ events'[i].slot = slotOf[k]
                    /\ sip[k] # "new"
                    => \/ sip[k] = "ended"
                       \/ \E j \in i + 1..Len(events') :
                            events'[j].kind = "incoming" /\ events'[j].call = k
  OBVIOUS
<1> HAVE events'[i].kind = "disconnected" /\ events'[i].slot = slotOf[k] /\ sip[k] # "new"
<1> SUFFICES ASSUME sip[k] # "ended"
             PROVE  \E j \in i + 1..Len(events') :
                      events'[j].kind = "incoming" /\ events'[j].call = k
  OBVIOUS
<1>1. /\ Len(events) \in Nat /\ Len(events') = Len(events) - 1
      /\ \A n \in 1..Len(events') : events'[n] = events[n + 1]
  BY DEF TypeOK
<1>2. PICK j \in i + 2..Len(events) : events[j].kind = "incoming" /\ events[j].call = k
  <2>1. i + 1 \in 1..Len(events) /\ events[i + 1] = events'[i]
    BY <1>1
  <2> QED
    BY <2>1 DEF EndsOK
<1>3. j - 1 \in i + 1..Len(events') /\ events'[j - 1] = events[j]
  BY <1>1, <1>2
<1> QED
  BY <1>2, <1>3

\* The order of events in the channel keeps a disconnect of an earlier call from
\* cancelling the setup of a later one (session.rs:866-872).
LEMMA EndsOKStep ==
  ASSUME HoldInv, IdsOK, EndsOK, [Next]_vars
  PROVE  EndsOK'
<1>0. TypeOK /\ LocalsOK /\ TablesOK /\ EventsOnce /\ CallInv
  BY DEF HoldInv, CallInv, TypeInv
<1>1. ASSUME NEW k \in Calls, NEW s \in Slots, Invite(k, s)
      PROVE  EndsOK'
  <2> DEFINE e == [kind |-> "incoming", slot |-> s, call |-> k]
  <2>1. /\ events' = Append(events, e) /\ sip[k] = "new"
        /\ slotOf' = [slotOf EXCEPT ![k] = s] /\ sip' = [sip EXCEPT ![k] = "ringing"]
        /\ UNCHANGED <<pc, loopPc, loopSlot, cancelled>>
    BY <1>1 DEF Invite, managerVars, taskVars, loopVars
  <2>2. /\ Len(events) \in Nat /\ Len(events') = Len(events) + 1
        /\ \A i \in 1..Len(events) : events'[i] = events[i]
        /\ events'[Len(events) + 1] = e
    BY <1>0, <2>1 DEF TypeOK
  <2>3. e.kind = "incoming" /\ e.call = k
    OBVIOUS
  <2>4. ASSUME NEW j \in Calls, NEW i \in 1..Len(events'),
               events'[i].kind = "disconnected", events'[i].slot = slotOf'[j],
               sip'[j] # "new", sip'[j] # "ended"
        PROVE  \E n \in i + 1..Len(events') :
                 events'[n].kind = "incoming" /\ events'[n].call = j
    <3>1. i \in 1..Len(events) /\ events'[i] = events[i]
      <4>1. i # Len(events) + 1
        BY <2>2, <2>3, <2>4
      <4> QED
        BY <2>2, <4>1
    <3>2. CASE j = k
      BY <2>2, <2>3, <3>1, <3>2
    <3>3. CASE j # k
      <4>1. slotOf'[j] = slotOf[j] /\ sip'[j] = sip[j]
        BY <1>0, <2>1, <3>3 DEF TypeOK
      <4>2. PICK n \in i + 1..Len(events) : events[n].kind = "incoming" /\ events[n].call = j
        BY <2>4, <3>1, <4>1 DEF EndsOK
      <4>3. n \in i + 1..Len(events') /\ events'[n] = events[n]
        BY <2>2, <3>1, <4>2
      <4> QED
        BY <4>2, <4>3
    <3> QED
      BY <3>2, <3>3
  <2>5. pc[k] = "none" /\ k \notin cancelled
    BY <1>0, <2>1 DEF LocalsOK, EndsOK
  <2>6. \A j \in Calls \ {k} : slotOf'[j] = slotOf[j] /\ sip'[j] = sip[j]
    BY <1>0, <2>1 DEF TypeOK
  <2>7. sip'[k] = "ringing"
    BY <1>0, <2>1 DEF TypeOK
  <2>8. \A j \in Calls : sip'[j] = "answered" => pc'[j] \notin UnansweredPcs
    BY <2>1, <2>6, <2>7 DEF EndsOK
  <2>9. \A j \in cancelled' : sip'[j] = "ended"
    BY <1>0, <2>1, <2>5, <2>6 DEF EndsOK, TypeOK
  <2>10. loopPc' = "cancel" => \A j \in Calls :
            slotOf'[j] = loopSlot' => sip'[j] = "ended" \/ pc'[j] = "none"
    BY <2>1, <2>5, <2>6 DEF EndsOK
  <2> QED
    BY <2>4, <2>8, <2>9, <2>10 DEF EndsOK
<1>2. ASSUME NEW k \in Calls, Disconnected(k)
      PROVE  EndsOK'
  <2> DEFINE e == [kind |-> "disconnected", slot |-> slotOf[k]]
  <2>1. /\ events' = Append(events, e) /\ sip[k] \in Live /\ sip' = [sip EXCEPT ![k] = "ended"]
        /\ UNCHANGED <<pc, slotOf, loopPc, loopSlot, cancelled>>
    BY <1>2 DEF Disconnected, managerVars, taskVars, loopVars
  <2>2. /\ Len(events) \in Nat /\ Len(events') = Len(events) + 1
        /\ \A i \in 1..Len(events) : events'[i] = events[i]
        /\ events'[Len(events) + 1] = e
    BY <1>0, <2>1 DEF TypeOK
  <2>3. e.slot = slotOf[k]
    OBVIOUS
  <2>4. \A j \in Calls : sip'[j] = IF j = k THEN "ended" ELSE sip[j]
    BY <1>0, <2>1 DEF TypeOK
  <2>5. ASSUME NEW j \in Calls, NEW i \in 1..Len(events'),
               events'[i].kind = "disconnected", events'[i].slot = slotOf'[j],
               sip'[j] # "new", sip'[j] # "ended"
        PROVE  \E n \in i + 1..Len(events') :
                 events'[n].kind = "incoming" /\ events'[n].call = j
    <3>1. j # k /\ sip'[j] = sip[j] /\ sip[j] \in Live /\ slotOf'[j] = slotOf[j]
      BY <1>0, <2>1, <2>4, <2>5 DEF TypeOK, SipStates, Live
    <3>2. slotOf[j] # slotOf[k]
      BY <2>1, <3>1 DEF IdsOK, UsesId, Live
    <3>3. i \in 1..Len(events) /\ events'[i] = events[i]
      <4>1. i # Len(events) + 1
        BY <2>2, <2>3, <2>5, <3>1, <3>2
      <4> QED
        BY <2>2, <4>1
    <3>4. PICK n \in i + 1..Len(events) : events[n].kind = "incoming" /\ events[n].call = j
      BY <2>5, <3>1, <3>3 DEF EndsOK
    <3>5. n \in i + 1..Len(events') /\ events'[n] = events[n]
      BY <2>2, <3>3, <3>4
    <3> QED
      BY <3>4, <3>5
  <2>6. \A j \in Calls : sip'[j] = "answered" => pc'[j] \notin UnansweredPcs
    BY <2>1, <2>4 DEF EndsOK
  <2>7. \A j \in cancelled' : sip'[j] = "ended"
    BY <1>0, <2>1, <2>4 DEF EndsOK, TypeOK
  <2>8. loopPc' = "cancel" => \A j \in Calls :
            slotOf'[j] = loopSlot' => sip'[j] = "ended" \/ pc'[j] = "none"
    BY <2>1, <2>4 DEF EndsOK
  <2> QED
    BY <2>5, <2>6, <2>7, <2>8 DEF EndsOK
<1>3. ASSUME NEW k \in Calls, DisconnectedUnseen(k)
      PROVE  EndsOK'
  <2>1. /\ sip[k] \in Live /\ sip' = [sip EXCEPT ![k] = "ended"]
        /\ UNCHANGED <<pc, slotOf, loopPc, loopSlot, cancelled, events>>
    BY <1>3 DEF DisconnectedUnseen, managerVars, taskVars, loopVars
  <2>2. \A j \in Calls : sip'[j] = IF j = k THEN "ended" ELSE sip[j]
    BY <1>0, <2>1 DEF TypeOK
  <2>3. \A j \in cancelled' : sip'[j] = "ended"
    BY <1>0, <2>1, <2>2 DEF EndsOK, TypeOK
  <2>4. \A j \in Calls : sip'[j] = "answered" => pc'[j] \notin UnansweredPcs
    BY <2>1, <2>2 DEF EndsOK
  <2>5. /\ \A j \in Calls : sip[j] = "ended" => sip'[j] = "ended"
        /\ \A j \in Calls : sip[j] = "new" => sip'[j] = "new"
    BY <2>1, <2>2 DEF Live
  <2>6. loopPc' = "cancel" => \A j \in Calls :
            slotOf'[j] = loopSlot' => sip'[j] = "ended" \/ pc'[j] = "none"
    BY <2>1, <2>5 DEF EndsOK
  <2>7. \A j \in Calls : \A i \in 1..Len(events') :
           events'[i].kind = "disconnected" /\ events'[i].slot = slotOf'[j] /\ sip'[j] # "new" =>
             \/ sip'[j] = "ended"
             \/ \E n \in i + 1..Len(events') :
                  events'[n].kind = "incoming" /\ events'[n].call = j
    BY <2>1, <2>5 DEF EndsOK
  <2> QED
    BY <2>3, <2>4, <2>6, <2>7 DEF EndsOK
<1>4. ASSUME NEW k \in Calls, SetupStep(k)
      PROVE  EndsOK'
  <2>1. UsesId(k)
    BY <1>0, <1>4, SetupMoves, RunningUsesId
  <2>2. \A j \in Calls \ {k} : sip'[j] = sip[j] /\ pc'[j] = pc[j]
    BY <1>0, <1>4, <2>1, SetupFrame, SetupMoves, Occupant DEF TypeOK
  <2>3. /\ sip'[k] = "ended" <=> sip[k] = "ended"
        /\ sip'[k] # "new" /\ sip[k] # "new"
        /\ sip'[k] = "answered" => sip[k] = "answered" \/ pc'[k] = "media"
        /\ pc'[k] \in UnansweredPcs => pc[k] \in UnansweredPcs
    BY <1>0, <1>4, <2>1, SetupFrame DEF Occupies, Live, UsesId
  <2>4. UNCHANGED <<slotOf, events, loopPc, loopSlot, cancelled>> /\ pc[k] # "none"
    BY <1>0, <1>4, SetupMoves, SetupFrame
  <2>5. /\ \A j \in Calls : sip'[j] = "ended" <=> sip[j] = "ended"
        /\ \A j \in Calls : sip'[j] = "new" <=> sip[j] = "new"
    BY <2>2, <2>3
  <2>6. \A j \in Calls : sip'[j] = "answered" => pc'[j] \notin UnansweredPcs
    BY <2>2, <2>3 DEF EndsOK, UnansweredPcs
  <2>7. \A j \in Calls : pc[j] = "none" => pc'[j] = "none"
    BY <2>2, <2>4
  <2>8. \A j \in cancelled' : sip'[j] = "ended"
    BY <1>0, <2>4, <2>5 DEF EndsOK, TypeOK
  <2>9. loopPc' = "cancel" => \A j \in Calls :
            slotOf'[j] = loopSlot' => sip'[j] = "ended" \/ pc'[j] = "none"
    BY <2>4, <2>5, <2>7 DEF EndsOK
  <2>10. \A j \in Calls : \A i \in 1..Len(events') :
           events'[i].kind = "disconnected" /\ events'[i].slot = slotOf'[j] /\ sip'[j] # "new" =>
             \/ sip'[j] = "ended"
             \/ \E n \in i + 1..Len(events') :
                  events'[n].kind = "incoming" /\ events'[n].call = j
    BY <2>4, <2>5 DEF EndsOK
  <2> QED
    BY <2>6, <2>8, <2>9, <2>10 DEF EndsOK
<1>5. ASSUME HandleIncoming
      PROVE  EndsOK'
  <2>1. /\ loopPc = "idle" /\ events # <<>> /\ events' = Tail(events)
        /\ pc' = [pc EXCEPT ![Head(events).call] = "spawned"]
        /\ UNCHANGED <<sip, slotOf, loopPc, cancelled>>
    BY <1>5 DEF HandleIncoming, pjsipVars, managerVars, loopVars
  <2>2. 1 \in 1..Len(events) /\ events[1] = Head(events) /\ Head(events).kind = "incoming"
    BY <1>0, <1>5 DEF HandleIncoming, TypeOK
  <2>3. Head(events).call \in Calls /\ pc[Head(events).call] = "none"
    BY <1>0, <2>2, EventCalls DEF EventsOnce, TypeOK
  <2>4. \A j \in Calls : sip'[j] = "answered" => pc'[j] \notin UnansweredPcs
    BY <1>0, <2>1, <2>3 DEF EndsOK, UnansweredPcs, TypeOK
  <2>5. \A k \in Calls : \A i \in 1..Len(events') :
           events'[i].kind = "disconnected" /\ events'[i].slot = slotOf[k] /\ sip[k] # "new" =>
             \/ sip[k] = "ended"
             \/ \E j \in i + 1..Len(events') :
                  events'[j].kind = "incoming" /\ events'[j].call = k
    BY <1>0, <2>1, EndsAfterTail
  <2>6. \A k \in cancelled' : sip'[k] = "ended"
    BY <2>1 DEF EndsOK
  <2>7. loopPc' # "cancel" /\ sip' = sip /\ slotOf' = slotOf
    BY <2>1
  <2> QED
    BY <2>4, <2>5, <2>6, <2>7 DEF EndsOK
<1>6. ASSUME HandleDisconnected
      PROVE  EndsOK'
  <2>1. /\ events # <<>> /\ events' = Tail(events) /\ loopPc' = "take_pending"
        /\ UNCHANGED <<sip, slotOf, pc, cancelled>>
    BY <1>6 DEF HandleDisconnected, pjsipVars, taskVars
  <2>2. \A k \in Calls : \A i \in 1..Len(events') :
           events'[i].kind = "disconnected" /\ events'[i].slot = slotOf'[k] /\ sip'[k] # "new" =>
             \/ sip'[k] = "ended"
             \/ \E j \in i + 1..Len(events') :
                  events'[j].kind = "incoming" /\ events'[j].call = k
    BY <1>0, <2>1, EndsAfterTail
  <2> QED
    BY <2>1, <2>2 DEF EndsOK
<1>7. ASSUME HandleDisconnectedNoSession
      PROVE  EndsOK'
  <2>1. /\ events # <<>> /\ events' = Tail(events) /\ loopSlot' = Head(events).slot
        /\ Head(events).kind = "disconnected"
        /\ UNCHANGED <<sip, slotOf, pc, cancelled>>
    BY <1>7 DEF HandleDisconnectedNoSession, pjsipVars, managerVars, taskVars
  <2>2. 1 \in 1..Len(events) /\ events[1] = Head(events) /\ Len(events) \in Nat
    BY <1>0, <2>1 DEF TypeOK
  <2>3. ASSUME NEW k \in Calls, slotOf[k] = loopSlot', sip[k] # "ended"
        PROVE  pc[k] = "none"
    <3>1. CASE sip[k] = "new"
      BY <1>0, <3>1 DEF LocalsOK
    <3>2. CASE sip[k] # "new"
      <4>1. PICK j \in 1 + 1..Len(events) : events[j].kind = "incoming" /\ events[j].call = k
        BY <2>1, <2>2, <2>3, <3>2 DEF EndsOK
      <4>2. j \in 1..Len(events)
        BY <2>2, <4>1
      <4> QED
        BY <1>0, <4>1, <4>2 DEF EventsOnce
    <3> QED
      BY <3>1, <3>2
  <2> QED
    BY <1>0, <2>1, <2>3, EndsAfterTail DEF EndsOK
<1>8. ASSUME CancelPendingSetup
      PROVE  EndsOK'
  <2>1. /\ loopPc = "cancel" /\ loopPc' = "idle" /\ loopSlot \in Slots
        /\ cancelled' = cancelled \cup ({pendingSetups[loopSlot]} \ {None})
        /\ UNCHANGED <<sip, slotOf, pc, events>>
    BY <1>0, <1>8 DEF CancelPendingSetup, pjsipVars, taskVars, LocalsOK
  <2>2. ASSUME NEW k \in Calls, pendingSetups[loopSlot] = k
        PROVE  sip[k] = "ended"
    BY <1>0, <2>1, <2>2 DEF TablesOK, RegisteredPcs, EndsOK
  <2>3. \A k \in cancelled' : sip'[k] = "ended"
    BY <1>0, <2>1, <2>2 DEF EndsOK, TypeOK
  <2> QED
    BY <2>1, <2>3 DEF EndsOK
<1>9. CASE \/ \E k \in Calls : \/ MediaTake(k) \/ RemovePortDone(k) \/ RemovePortFailed(k)
                               \/ DeferredDestroy(k)
           \/ \E s \in Slots : MediaStep(s)
           \/ TeardownTakePending \/ TeardownRetire
           \/ UNCHANGED vars
  <2>1. UNCHANGED <<sip, slotOf, pc, events, cancelled>>
    BY <1>9 DEF MediaTake, RemovePortDone, RemovePortFailed, DeferredDestroy, MediaStep,
      MediaPutBack, MediaAdd, MediaPublish, MediaNotify, TeardownTakePending, TeardownRetire,
      vars, pjsipVars, managerVars, taskVars
  <2>2. loopPc' = "cancel" => loopPc = "cancel" /\ loopSlot' = loopSlot
    BY <1>9 DEF MediaTake, RemovePortDone, RemovePortFailed, DeferredDestroy, MediaStep,
      MediaPutBack, MediaAdd, MediaPublish, MediaNotify, TeardownTakePending, TeardownRetire,
      vars, loopVars
  <2> QED
    BY <2>1, <2>2 DEF EndsOK
<1> QED
  BY <1>1, <1>2, <1>3, <1>4, <1>5, <1>6, <1>7, <1>8, <1>9 DEF Next, LoopStep

\* Whoever has a port uses its id.
LEMMA PortUsers ==
  ASSUME HoldInv, NEW k \in Calls, UsesPort(k)
  PROVE  UsesId(k) /\ slotOf[k] \in Slots
  BY DEF HoldInv, CallInv, TypeInv, LocalsOK, TablesOK, HandedOver, UsesPort, UsesId, Returned,
         SessionHolds, PortPcs

\* Only a call that uses the id s is in the tables under s.
LEMMA TableEntry ==
  ASSUME HoldInv, IdsOK, PortsOK, NEW k \in Calls, UsesId(k), slotOf[k] \in Slots,
         NEW j \in Calls, InTables(slotOf[k], j)
  PROVE  j = k /\ UsesPort(k)
<1>1. slotOf[j] = slotOf[k] /\ UsesPort(j)
  BY DEF PortsOK
<1> QED
  BY <1>1, PortUsers DEF IdsOK

\* A step that concerns one call leaves the ports of all others where they are:
\* they are under other ids, or have no port.
LEMMA OthersKeep ==
  ASSUME HoldInv, IdsOK, PortsOK, NEW k \in Calls, OnlyOf(k), PortOK(k)',
         \A s \in Slots : InTables(s, k)' => s = slotOf[k] /\ UsesPort(k)'
  PROVE  /\ \A j \in Calls : PortOK(j)'
         /\ \A s \in Slots, j \in Calls : InTables(s, j)' => slotOf'[j] = s /\ UsesPort(j)'
<1>0. TypeOK /\ LocalsOK /\ TablesOK /\ HandedOver
  BY DEF HoldInv, CallInv, TypeInv
<1>1. ASSUME NEW j \in Calls \ {k}
      PROVE  PortOK(j)'
  <2>1. /\ PortOK(j) /\ slotOf'[j] = slotOf[j]
        /\ pc'[j] = pc[j] /\ sip'[j] = sip[j]
        /\ wasPending'[j] = wasPending[j] /\ owns'[j] = owns[j]
        /\ pendingCleanup'[j] = pendingCleanup[j]
        /\ j \in attached' <=> j \in attached
        /\ j \in removing' <=> j \in removing
        /\ j \in fired' <=> j \in fired
        /\ j \in deferred' <=> j \in deferred
        /\ j \in freed' <=> j \in freed
        /\ SessionHolds(j)' <=> SessionHolds(j)
        /\ LoopHolds(j)' <=> LoopHolds(j)
    BY <1>1 DEF PortsOK, OnlyOf
  <2>2. CleanedUp(j)'
    BY <2>1 DEF PortOK, CleanedUp
  <2>3. CASE UsesId(j)
    <3>1. slotOf[j] \in Slots
      BY <1>0, <2>3 DEF LocalsOK, UsesId
    <3>2. UsesId(k) => slotOf[j] # slotOf[k]
      BY <1>1, <2>3 DEF IdsOK
    <3>3. LET s == slotOf[j] IN
            /\ pendingPorts'[s] = pendingPorts[s] /\ activeMedia'[s] = activeMedia[s]
            /\ cbStage'[s] = cbStage[s] /\ cbPort'[s] = cbPort[s]
            /\ mediaReadyTx'[s] = mediaReadyTx[s] /\ pendingSetups'[s] = pendingSetups[s]
      BY <3>1, <3>2 DEF OnlyOf
    <3>4. /\ Nowhere(j)' <=> Nowhere(j)
          /\ Waits(j)' <=> Waits(j)
          /\ InCallback(j)' <=> InCallback(j)
          /\ OnBridge(j)' <=> OnBridge(j)
      BY <2>1, <3>3 DEF Nowhere, Waits, InCallback, OnBridge, Idle
    <3>5. Located(j)'
      BY <2>1, <3>4 DEF PortOK, Located
    <3>6. Registered(j)'
      BY <2>1, <3>3 DEF PortOK, Registered
    <3> QED
      BY <2>2, <3>5, <3>6 DEF PortOK
  <2>4. CASE ~UsesId(j)
    <3>1. pc[j] \in {"none", "done", "rejected"} /\ ~SessionHolds(j) /\ ~LoopHolds(j)
      BY <1>0, <2>4 DEF UsesId, Returned, LocalsOK, TablesOK, HandedOver, SessionHolds
    <3>2. Located(j)'
      BY <2>1, <3>1 DEF PortOK, Located
    <3>3. Registered(j)'
      BY <2>1, <3>1 DEF PortOK, Registered, RegisteredPcs, UnansweredPcs
    <3> QED
      BY <2>2, <3>2, <3>3 DEF PortOK
  <2> QED
    BY <2>3, <2>4
<1>2. ASSUME NEW s \in Slots, NEW j \in Calls \ {k}, InTables(s, j)'
      PROVE  slotOf'[j] = s /\ UsesPort(j)'
  <2>1. InTables(s, j) /\ slotOf' = slotOf /\ pc'[j] = pc[j]
        /\ (SessionHolds(j)' <=> SessionHolds(j)) /\ (LoopHolds(j)' <=> LoopHolds(j))
    BY <1>2 DEF OnlyOf
  <2> QED
    BY <2>1 DEF PortsOK, UsesPort
<1>3. slotOf' = slotOf
  BY DEF OnlyOf
<1> QED
  BY <1>1, <1>2, <1>3

\* The setup steps that leave every port where it is.
StaysPut(k) ==
    \/ GateReject(k) \/ GateAdmit(k) \/ CreatePort(k)
    \/ RegisterMediaReady(k) \/ InsertPendingSetup(k)
    \/ Answer(k) \/ AnswerFails(k)
    \/ MediaReady(k) \/ MediaDropped(k) \/ MediaCancelled(k)
    \/ IntroDone(k) \/ SetupCancelled(k) \/ ConnectOk(k) \/ ConnectFails(k)
    \/ Commit(k) \/ AbortOwned(k) \/ AfterAbort(k)

\* What they leave alone.
LEMMA StaysPutFrame ==
  ASSUME SafeInv, NEW k \in Calls, StaysPut(k)
  PROVE  /\ UNCHANGED <<slotOf, attached, removing, cbStage, cbPort, pendingPorts, activeMedia,
                        pendingCleanup, sessions, fired, loopPc, loopSession, loopPending,
                        wasPending, deferred, freed>>
         /\ \A s \in Slots \ {slotOf[k]} :
              mediaReadyTx'[s] = mediaReadyTx[s] /\ pendingSetups'[s] = pendingSetups[s]
         /\ \A j \in Calls \ {k} : pc'[j] = pc[j] /\ sip'[j] = sip[j] /\ owns'[j] = owns[j]
         /\ UsesId(k) /\ slotOf[k] \in Slots /\ pc[k] \notin {"none", "done", "rejected"}
<1>0. TypeOK /\ CallInv /\ SetupStep(k) /\ IdsOK
  BY DEF SafeInv, HoldInv, CallInv, TypeInv, StaysPut, SetupStep
<1>1. UNCHANGED <<slotOf, attached, removing, cbStage, cbPort, pendingPorts, activeMedia,
                  pendingCleanup, sessions, fired, loopPc, loopSession, loopPending,
                  wasPending, deferred, freed>>
  BY DEF StaysPut, GateReject, GateAdmit, CreatePort, RegisterMediaReady, InsertPendingSetup,
     Answer, AnswerFails, MediaReady, MediaDropped, MediaCancelled, IntroDone, SetupCancelled,
     ConnectOk, ConnectFails, Commit, AbortOwned, AfterAbort, Abort, pjsipVars, staticVars,
     managerVars, loopVars, memoryVars
<1>2. /\ \A s \in Slots \ {slotOf[k]} :
           mediaReadyTx'[s] = mediaReadyTx[s] /\ pendingSetups'[s] = pendingSetups[s]
      /\ \A j \in Calls \ {k} : owns'[j] = owns[j]
  BY <1>0 DEF TypeOK, StaysPut, GateReject, GateAdmit, CreatePort, RegisterMediaReady,
    InsertPendingSetup, Answer, AnswerFails, MediaReady, MediaDropped, MediaCancelled, IntroDone,
    SetupCancelled, ConnectOk, ConnectFails, Commit, AbortOwned, AfterAbort, Abort,
    RemovePendingSetup, staticVars, managerVars
<1>3. UsesId(k) /\ slotOf[k] \in Slots /\ pc[k] \notin {"none", "done", "rejected"}
  BY <1>0, SetupMoves, RunningUsesId
<1>4. \A j \in Calls \ {k} : pc'[j] = pc[j] /\ sip'[j] = sip[j]
  BY <1>0, <1>3, SetupMoves, SetupFrame, Occupant DEF TypeOK
<1> QED
  BY <1>1, <1>2, <1>3, <1>4

\* The setup task finds its port where its program counter says, its sender and its
\* entry of pending_setups (session.rs:244-306, 356-384, 601-612).
LEMMA StaysPutStep ==
  ASSUME SafeInv, NEW k \in Calls, StaysPut(k)
  PROVE  /\ PortOK(k)' /\ OnlyOf(k)
         /\ \A s \in Slots : InTables(s, k)' => s = slotOf[k] /\ UsesPort(k)'
<1>0. TypeOK /\ IdsOK /\ EndsOK /\ PortsOK /\ HoldInv /\ SetupStep(k)
      /\ PortOK(k) /\ Located(k) /\ Registered(k) /\ CleanedUp(k)
  BY DEF SafeInv, HoldInv, CallInv, TypeInv, StaysPut, SetupStep, PortsOK, PortOK
<1>1. /\ UNCHANGED <<slotOf, attached, removing, cbStage, cbPort, pendingPorts, activeMedia,
                     pendingCleanup, sessions, fired, loopPc, loopSession, loopPending,
                     wasPending, deferred, freed>>
      /\ \A s \in Slots \ {slotOf[k]} :
           mediaReadyTx'[s] = mediaReadyTx[s] /\ pendingSetups'[s] = pendingSetups[s]
      /\ \A j \in Calls \ {k} : pc'[j] = pc[j] /\ sip'[j] = sip[j] /\ owns'[j] = owns[j]
      /\ UsesId(k) /\ slotOf[k] \in Slots /\ pc[k] \notin {"none", "done", "rejected"}
  BY StaysPutFrame
<1>2. /\ \A j \in Calls : SessionHolds(j)' <=> SessionHolds(j)
      /\ \A j \in Calls : LoopHolds(j)' <=> LoopHolds(j)
      /\ \A s \in Slots, j \in Calls : InTables(s, j)' <=> InTables(s, j)
  BY <1>1 DEF SessionHolds, LoopHolds, InTables
<1>3. OnlyOf(k)
  BY <1>1, <1>2 DEF OnlyOf
<1>4. /\ Nowhere(k)' <=> Nowhere(k)
      /\ Waits(k)' <=> Waits(k)
      /\ OnBridge(k)' <=> OnBridge(k)
  BY <1>1 DEF Nowhere, Waits, OnBridge, Idle
<1>5. CleanedUp(k)'
  BY <1>0, <1>1 DEF CleanedUp
<1>6. ~SessionHolds(k) /\ ~LoopHolds(k)
  BY <1>0, <1>1 DEF HoldInv, CallInv, TablesOK, HandedOver, SessionHolds
<1>7. pc[k] \in PortPcs \ {"register"} => UsesPort(k)
  BY DEF UsesPort
<1>8. ASSUME pc[k] \in {"spawned", "lookup"} => pc'[k] \in {"lookup", "register", "rejected"},
             pc[k] \notin {"spawned", "lookup"} =>
               pc'[k] \in PortPcs \ {"register"} \/ pc[k] = "post"
      PROVE  \A s \in Slots : InTables(s, k)' => s = slotOf[k] /\ UsesPort(k)'
  <2>1. ASSUME NEW s \in Slots, InTables(s, k)
        PROVE  s = slotOf[k] /\ pc[k] \in PortPcs \ {"register"}
    BY <1>0, <1>6, <2>1 DEF PortsOK, UsesPort
  <2> QED
    BY <1>2, <1>8, <2>1 DEF UsesPort, PortPcs
<1>10. CASE GateReject(k) \/ GateAdmit(k) \/ CreatePort(k)
  <2>1. \/ pc[k] = "spawned" /\ pc'[k] \in {"lookup", "rejected"}
        \/ pc[k] = "lookup" /\ pc'[k] = "register"
    BY <1>0, <1>10 DEF GateReject, GateAdmit, CreatePort, Goto, TypeOK
  <2>2. Located(k)'
    BY <1>0, <1>1, <1>2, <1>4, <1>6, <2>1 DEF Located, Nowhere, Idle
  <2>3. Registered(k)'
    BY <1>0, <1>1, <2>1 DEF Registered, RegisteredPcs, UnansweredPcs
  <2> QED
    BY <1>3, <1>5, <1>8, <2>1, <2>2, <2>3 DEF PortOK
<1>11. CASE RegisterMediaReady(k) \/ InsertPendingSetup(k)
  <2>1. \/ pc[k] = "ready" /\ pc'[k] = "insert" /\ mediaReadyTx'[slotOf[k]] = k
        \/ pc[k] = "insert" /\ pc'[k] = "answer" /\ pendingSetups'[slotOf[k]] = k
             /\ mediaReadyTx' = mediaReadyTx
    BY <1>0, <1>1, <1>11 DEF RegisterMediaReady, InsertPendingSetup, Goto, TypeOK, staticVars
  <2>2. Located(k)'
    BY <1>0, <1>1, <1>2, <1>4, <1>6, <2>1 DEF Located
  <2>3. Registered(k)'
    BY <1>0, <1>1, <2>1 DEF Registered, RegisteredPcs, UnansweredPcs
  <2> QED
    BY <1>3, <1>5, <1>8, <2>1, <2>2, <2>3 DEF PortOK, PortPcs
<1>12. CASE Answer(k) \/ AnswerFails(k)
  <2>1. /\ pc[k] = "answer" /\ pc'[k] \in {"media", "abort"}
        /\ pc'[k] = "abort" => sip' = sip
        /\ UNCHANGED <<mediaReadyTx, pendingSetups>>
    BY <1>0, <1>12
       DEF Answer, AnswerFails, Abort, Goto, TypeOK, staticVars, managerVars, pjsipVars
  <2>2. sip[k] # "answered"
    BY <1>0, <2>1 DEF EndsOK, UnansweredPcs
  <2>3. Located(k)'
    BY <1>0, <1>1, <1>2, <1>4, <1>6, <2>1, <2>2 DEF Located, Registered, UnansweredPcs
  <2>4. Registered(k)'
    BY <1>0, <1>1, <2>1 DEF Registered, RegisteredPcs, UnansweredPcs
  <2> QED
    BY <1>3, <1>5, <1>8, <2>1, <2>3, <2>4 DEF PortOK, PortPcs
<1>13. CASE MediaReady(k) \/ MediaDropped(k) \/ MediaCancelled(k)
  <2>1. /\ pc[k] = "media" /\ sip' = sip
        /\ \/ pc'[k] \in {"intro", "connect"} /\ k \in fired
           \/ pc'[k] = "abort" /\ (k \notin fired => mediaReadyTx[slotOf[k]] # k \/ k \in cancelled)
        /\ UNCHANGED <<mediaReadyTx, pendingSetups>>
    BY <1>0, <1>13
       DEF MediaReady, MediaDropped, SenderDropped, MediaCancelled, Abort, Goto, TypeOK,
           staticVars, managerVars, pjsipVars
  <2>2. pc'[k] = "abort" => k \in fired \/ sip[k] = "ended"
    BY <1>0, <2>1 DEF Registered, EndsOK
  <2>3. sip[k] = "ended" => ~InCallback(k)
    BY DEF InCallback
  <2>4. Located(k)'
    BY <1>0, <1>1, <1>2, <1>4, <1>6, <2>1, <2>2, <2>3 DEF Located
  <2>5. Registered(k)'
    BY <1>0, <1>1, <2>1 DEF Registered, RegisteredPcs, UnansweredPcs
  <2> QED
    BY <1>3, <1>5, <1>8, <2>1, <2>4, <2>5 DEF PortOK, PortPcs
<1>14. CASE \/ IntroDone(k) \/ SetupCancelled(k) \/ ConnectOk(k) \/ ConnectFails(k)
  <2>1. /\ pc[k] \in {"intro", "connect"} /\ pc'[k] \in {"connect", "commit", "abort"}
        /\ UNCHANGED <<mediaReadyTx, pendingSetups>>
    BY <1>0, <1>14
       DEF IntroDone, SetupCancelled, ConnectOk, ConnectFails, Abort, Goto, TypeOK,
           staticVars, managerVars
  <2>2. Located(k)'
    BY <1>0, <1>1, <1>2, <1>4, <1>6, <2>1 DEF Located
  <2>3. Registered(k)'
    BY <1>0, <1>1, <2>1 DEF Registered, RegisteredPcs, UnansweredPcs
  <2> QED
    BY <1>3, <1>5, <1>8, <2>1, <2>2, <2>3 DEF PortOK, PortPcs
<1>15. CASE Commit(k)
  <2>1. /\ pc[k] = "commit" /\ pc'[k] \in {"late", "store"} /\ owns'[k] = OwnsCallId(k)
    BY <1>0, <1>15 DEF Commit, Goto, TypeOK
  <2>2. Located(k)'
    BY <1>0, <1>1, <1>2, <1>4, <1>6, <2>1 DEF Located
  <2>3. Registered(k)'
    BY <1>0, <1>1, <2>1 DEF Registered, RegisteredPcs, UnansweredPcs, OwnsCallId
  <2> QED
    BY <1>3, <1>5, <1>8, <2>1, <2>2, <2>3 DEF PortOK, PortPcs
<1>16. CASE AbortOwned(k)
  <2>1. pc[k] = "abort" /\ pc'[k] = "clean1" /\ sip' = sip
    BY <1>0, <1>16 DEF AbortOwned, Goto, TypeOK, pjsipVars
  <2>2. Located(k)'
    BY <1>0, <1>1, <1>2, <1>4, <1>6, <2>1 DEF Located
  <2>3. Registered(k)'
    BY <1>0, <1>1, <2>1 DEF Registered, RegisteredPcs, UnansweredPcs
  <2> QED
    BY <1>3, <1>5, <1>8, <2>1, <2>2, <2>3 DEF PortOK, PortPcs
<1>17. CASE AfterAbort(k)
  <2>1. pc[k] = "post" /\ pc'[k] = "done"
    BY <1>0, <1>17 DEF AfterAbort, Goto, TypeOK
  <2>2. Located(k)'
    BY <1>0, <1>1, <1>2, <1>4, <1>6, <2>1 DEF Located
  <2>3. Registered(k)'
    BY <1>0, <1>1, <2>1 DEF Registered, RegisteredPcs, UnansweredPcs
  <2> QED
    BY <1>3, <1>5, <1>8, <2>1, <2>2, <2>3 DEF PortOK, PortPcs
<1> QED
  BY <1>10, <1>11, <1>12, <1>13, <1>14, <1>15, <1>16, <1>17 DEF StaysPut

\* A removal that is asked for a port on the bridge is started, under the port's own
\* conference slot, or the port is left to a timer.
LEMMA StartRemovalOwn ==
  ASSUME TypeOK, NEW s \in Slots, NEW k \in Calls,
         activeMedia[s] = k, k \in attached, StartRemoval(s, k)
  PROVE  /\ activeMedia' = [activeMedia EXCEPT ![s] = None]
         /\ freed' = freed
         /\ \/ /\ pendingCleanup' = [pendingCleanup EXCEPT ![k] = k]
               /\ removing' = removing \cup {k}
               /\ deferred' = deferred
            \/ /\ ~RemovalsStart
               /\ pendingCleanup' = [pendingCleanup EXCEPT ![k] = None]
               /\ deferred' = deferred \cup {k}
               /\ removing' = removing
  BY DEF RemovalsStart, TypeOK, StartRemoval

\* What a task that retires its port under its own id does to the other calls.
LEMMA RetiredOwn ==
  ASSUME SafeInv, NEW k \in Calls, UsesId(k), slotOf[k] \in Slots, OnBridge(k),
         k \notin deferred, k \notin freed, k \notin removing, pendingCleanup[k] = None,
         StartRemoval(slotOf[k], k),
         UNCHANGED <<sip, slotOf, attached, cbStage, cbPort, pendingPorts>>
  PROVE  /\ CleanedUp(k)'
         /\ \A s \in Slots : ~InTables(s, k)'
         /\ \A j \in Calls \ {k} :
              /\ pendingCleanup'[j] = pendingCleanup[j]
              /\ j \in removing' <=> j \in removing
              /\ j \in deferred' <=> j \in deferred
              /\ j \in freed' <=> j \in freed
              /\ \A s \in Slots : InTables(s, j)' => InTables(s, j)
         /\ \A s \in Slots \ {slotOf[k]} : activeMedia'[s] = activeMedia[s]
<1>0. TypeOK /\ PortsOK
  BY DEF SafeInv, HoldInv, CallInv, TypeInv
<1>1. /\ activeMedia' = [activeMedia EXCEPT ![slotOf[k]] = None]
      /\ freed' = freed
      /\ \/ /\ pendingCleanup' = [pendingCleanup EXCEPT ![k] = k]
            /\ removing' = removing \cup {k}
            /\ deferred' = deferred
         \/ /\ ~RemovalsStart
            /\ pendingCleanup' = [pendingCleanup EXCEPT ![k] = None]
            /\ deferred' = deferred \cup {k}
            /\ removing' = removing
  BY <1>0, StartRemovalOwn DEF OnBridge
<1>2. CleanedUp(k)'
  BY <1>0, <1>1 DEF CleanedUp, OnBridge, TypeOK
<1>3. \A s \in Slots : ~InTables(s, k)'
  BY <1>0, <1>1, CallsAssumption DEF InTables, PortsOK, OnBridge, Idle, TypeOK
<1>4. \A j \in Calls : \A s \in Slots : InTables(s, j)' => InTables(s, j)
  BY <1>0, <1>1, CallsAssumption DEF InTables, TypeOK
<1>5. \A j \in Calls \ {k} :
        /\ pendingCleanup'[j] = pendingCleanup[j]
        /\ j \in removing' <=> j \in removing
        /\ j \in deferred' <=> j \in deferred
        /\ j \in freed' <=> j \in freed
  BY <1>0, <1>1 DEF TypeOK
<1>6. \A s \in Slots \ {slotOf[k]} : activeMedia'[s] = activeMedia[s]
  BY <1>0, <1>1 DEF TypeOK
<1> QED
  BY <1>2, <1>3, <1>4, <1>5, <1>6

\* The setup steps that move the port: into PENDING_PORTS, out of it, to a session,
\* and to whoever destroys it (session.rs:244, 617-662, 725-778).
MovesPort(k) ==
    \/ RegisterPendingPort(k) \/ UnregisterPendingPort(k) \/ CleanupMediaPort(k)
    \/ StoreSession(k) \/ LateTeardown(k)

\* What they leave alone.
LEMMA MovesPortFrame ==
  ASSUME SafeInv, NEW k \in Calls, MovesPort(k)
  PROVE  /\ UNCHANGED <<sip, slotOf, attached, cbStage, cbPort, mediaReadyTx, pendingSetups,
                        fired, loopPc, loopSession, loopPending>>
         /\ \A j \in Calls \ {k} :
              pc'[j] = pc[j] /\ owns'[j] = owns[j] /\ wasPending'[j] = wasPending[j]
         /\ \A j \in Calls : LoopHolds(j)' <=> LoopHolds(j)
         /\ ~SessionHolds(k) /\ ~LoopHolds(k)
         /\ UsesId(k) /\ slotOf[k] \in Slots /\ pc[k] \notin {"none", "done", "rejected"}
<1>0. TypeOK /\ CallInv /\ SetupStep(k) /\ TablesOK /\ HandedOver
  BY DEF SafeInv, HoldInv, CallInv, TypeInv, MovesPort, SetupStep
<1>1. UNCHANGED <<sip, slotOf, attached, cbStage, cbPort, mediaReadyTx, pendingSetups,
                  fired, loopPc, loopSession, loopPending>>
  BY DEF MovesPort, RegisterPendingPort, UnregisterPendingPort, CleanupMediaPort,
    StoreSession, LateTeardown, pjsipVars, staticVars, managerVars, loopVars
<1>2. \A j \in Calls \ {k} : owns'[j] = owns[j] /\ wasPending'[j] = wasPending[j]
  BY <1>0 DEF TypeOK, MovesPort, RegisterPendingPort, UnregisterPendingPort, CleanupMediaPort,
    StoreSession, LateTeardown
<1>3. UsesId(k) /\ slotOf[k] \in Slots /\ pc[k] \notin {"none", "done", "rejected"}
  BY <1>0, SetupMoves, RunningUsesId
<1>4. \A j \in Calls \ {k} : pc'[j] = pc[j]
  BY <1>0, SetupMoves DEF TypeOK
<1>5. ~SessionHolds(k) /\ ~LoopHolds(k)
  BY <1>0, <1>3 DEF TablesOK, HandedOver, SessionHolds
<1>6. \A j \in Calls : LoopHolds(j)' <=> LoopHolds(j)
  BY <1>1 DEF LoopHolds
<1> QED
  BY <1>1, <1>2, <1>3, <1>4, <1>5, <1>6

\* The port goes where the next step of its owner expects it.
LEMMA MovesPortStep ==
  ASSUME SafeInv, NEW k \in Calls, MovesPort(k)
  PROVE  /\ PortOK(k)' /\ OnlyOf(k)
         /\ \A s \in Slots : InTables(s, k)' => s = slotOf[k] /\ UsesPort(k)'
<1>0. TypeOK /\ IdsOK /\ PortsOK /\ LocalsOK /\ TablesOK
      /\ PortOK(k) /\ Located(k) /\ Registered(k) /\ CleanedUp(k)
  BY DEF SafeInv, HoldInv, CallInv, TypeInv, PortsOK, PortOK
<1>1. /\ UNCHANGED <<sip, slotOf, attached, cbStage, cbPort, mediaReadyTx, pendingSetups,
                     fired, loopPc, loopSession, loopPending>>
      /\ \A j \in Calls \ {k} :
           pc'[j] = pc[j] /\ owns'[j] = owns[j] /\ wasPending'[j] = wasPending[j]
      /\ \A j \in Calls : LoopHolds(j)' <=> LoopHolds(j)
      /\ ~SessionHolds(k) /\ ~LoopHolds(k)
      /\ UsesId(k) /\ slotOf[k] \in Slots /\ pc[k] \notin {"none", "done", "rejected"}
  BY MovesPortFrame
<1>2. sessions' = sessions => \A j \in Calls : SessionHolds(j)' <=> SessionHolds(j)
  BY DEF SessionHolds
<1>3. CASE RegisterPendingPort(k)
  <2>1. /\ pc[k] = "register" /\ pc'[k] = "ready"
        /\ pendingPorts' = [pendingPorts EXCEPT ![slotOf[k]] = k]
        /\ UNCHANGED <<activeMedia, removing, pendingCleanup, sessions, deferred, freed>>
    BY <1>0, <1>3
       DEF RegisterPendingPort, Goto, TypeOK, pjsipVars, managerVars, memoryVars
  <2>2. Waits(k)' /\ k \notin fired
    BY <1>0, <1>1, <2>1 DEF Located, Nowhere, Idle, Waits, Registered, UnansweredPcs, TypeOK
  <2>3. PortOK(k)'
    BY <1>0, <1>1, <1>2, <2>1, <2>2
       DEF PortOK, Located, Registered, CleanedUp, RegisteredPcs
  <2>4. \A s \in Slots : InTables(s, k)' => s = slotOf[k] /\ UsesPort(k)'
    <3>1. \A s \in Slots : InTables(s, k)' => s = slotOf[k] \/ InTables(s, k)
      BY <1>0, <1>1, <2>1 DEF InTables, TypeOK
    <3>2. UsesPort(k)'
      BY <2>1 DEF UsesPort, PortPcs
    <3> QED
      BY <1>0, <3>1, <3>2 DEF PortsOK
  <2>5. \A s \in Slots, j \in Calls \ {k} : InTables(s, j)' => InTables(s, j)
    BY <1>0, <1>1, <2>1 DEF InTables, TypeOK
  <2>6. \A s \in Slots \ {slotOf[k]} : pendingPorts'[s] = pendingPorts[s]
    BY <1>0, <2>1 DEF TypeOK
  <2>7. OnlyOf(k)
    BY <1>1, <1>2, <2>1, <2>5, <2>6 DEF OnlyOf
  <2> QED
    BY <2>3, <2>4, <2>7
<1>4. CASE UnregisterPendingPort(k)
  <2>1. /\ pc[k] = "clean1" /\ pc'[k] = "clean2"
        /\ wasPending'[k] = (pendingPorts[slotOf[k]] # None)
        /\ pendingPorts' = [pendingPorts EXCEPT ![slotOf[k]] = None]
        /\ UNCHANGED <<activeMedia, removing, pendingCleanup, sessions, deferred, freed>>
    BY <1>0, <1>4
       DEF UnregisterPendingPort, Goto, TypeOK, pjsipVars, managerVars, memoryVars
  <2>2. IF wasPending'[k] THEN Nowhere(k)' ELSE OnBridge(k)'
    <3>1. pendingPorts'[slotOf[k]] = None /\ k # None
      BY <1>0, <1>1, <2>1, CallsAssumption DEF TypeOK
    <3>2. CASE Waits(k)
      <4>1. wasPending'[k] /\ Nowhere(k)'
        BY <1>1, <2>1, <3>1, <3>2 DEF Waits, Nowhere, Idle
      <4> QED
        BY <4>1
    <3>3. CASE OnBridge(k)
      <4>1. ~wasPending'[k] /\ OnBridge(k)'
        BY <1>1, <2>1, <3>1, <3>3 DEF OnBridge, Idle
      <4> QED
        BY <4>1
    <3> QED
      BY <1>0, <2>1, <3>2, <3>3 DEF Located
  <2>3. PortOK(k)'
    BY <1>0, <1>1, <1>2, <2>1, <2>2
       DEF PortOK, Located, Registered, CleanedUp, RegisteredPcs, UnansweredPcs
  <2>4. \A s \in Slots, j \in Calls : InTables(s, j)' => InTables(s, j)
    BY <1>0, <1>1, <2>1, CallsAssumption DEF InTables, TypeOK
  <2>5. \A s \in Slots : InTables(s, k)' => s = slotOf[k] /\ UsesPort(k)'
    <3>1. UsesPort(k)'
      BY <2>1 DEF UsesPort, PortPcs
    <3> QED
      BY <1>0, <2>4, <3>1 DEF PortsOK
  <2>6. \A s \in Slots \ {slotOf[k]} : pendingPorts'[s] = pendingPorts[s]
    BY <1>0, <2>1 DEF TypeOK
  <2>7. OnlyOf(k)
    BY <1>1, <1>2, <2>1, <2>4, <2>6 DEF OnlyOf
  <2> QED
    BY <2>3, <2>5, <2>7
<1>5. CASE CleanupMediaPort(k)
  <2>1. /\ pc[k] = "clean2" /\ pc'[k] = "post" /\ RetireOwned(slotOf[k], k)
        /\ UNCHANGED <<pendingPorts, sessions>>
    BY <1>0, <1>5 DEF CleanupMediaPort, Goto, TypeOK, managerVars
  <2>2. Located(k)' /\ Registered(k)'
    BY <1>1, <1>2, <2>1 DEF Located, Registered, RegisteredPcs, UnansweredPcs
  <2>3. CASE wasPending[k]
    <3>1. /\ activeMedia' = [activeMedia EXCEPT ![slotOf[k]] = None]
          /\ freed' = freed \cup {k} /\ UNCHANGED <<removing, pendingCleanup, deferred>>
          /\ Nowhere(k)
      BY <1>0, <2>1, <2>3 DEF RetireOwned, Located
    <3>2. CleanedUp(k)'
      BY <1>0, <1>1, <3>1 DEF CleanedUp, Nowhere
    <3>3. \A s \in Slots, j \in Calls : InTables(s, j)' => InTables(s, j)
      BY <1>0, <1>1, <2>1, <3>1, CallsAssumption DEF InTables, TypeOK
    <3>4. \A s \in Slots : ~InTables(s, k)'
      BY <1>0, <1>1, <2>1, <3>1, <3>3, CallsAssumption
         DEF InTables, PortsOK, Nowhere, Idle, TypeOK
    <3>5. \A s \in Slots \ {slotOf[k]} : activeMedia'[s] = activeMedia[s]
      BY <1>0, <3>1 DEF TypeOK
    <3>6. OnlyOf(k)
      BY <1>1, <1>2, <2>1, <3>1, <3>3, <3>5 DEF OnlyOf
    <3> QED
      BY <2>2, <3>2, <3>4, <3>6 DEF PortOK
  <2>4. CASE ~wasPending[k]
    <3>1. OnBridge(k) /\ StartRemoval(slotOf[k], k)
      BY <1>0, <2>1, <2>4, CallsAssumption DEF RetireOwned, Located, OnBridge
    <3>2. /\ CleanedUp(k)'
          /\ \A s \in Slots : ~InTables(s, k)'
          /\ \A j \in Calls \ {k} :
               /\ pendingCleanup'[j] = pendingCleanup[j]
               /\ j \in removing' <=> j \in removing
               /\ j \in deferred' <=> j \in deferred
               /\ j \in freed' <=> j \in freed
               /\ \A s \in Slots : InTables(s, j)' => InTables(s, j)
          /\ \A s \in Slots \ {slotOf[k]} : activeMedia'[s] = activeMedia[s]
      <4>1. k \notin deferred /\ k \notin freed /\ k \notin removing /\ pendingCleanup[k] = None
        BY <1>0, <2>1, <3>1
           DEF CleanedUp, OnBridge, Idle, SafeInv, HoldInv, HandedOver
      <4> QED
        BY <1>1, <2>1, <3>1, <4>1, RetiredOwn
    <3>3. OnlyOf(k)
      BY <1>1, <1>2, <2>1, <3>2 DEF OnlyOf
    <3> QED
      BY <2>2, <3>2, <3>3 DEF PortOK
  <2> QED
    BY <2>3, <2>4
<1>6. CASE LateTeardown(k)
  <2>1. /\ pc[k] = "late" /\ pc'[k] = "done" /\ UNCHANGED <<pendingPorts, sessions>>
        /\ OnBridge(k) /\ StartRemoval(slotOf[k], k)
    BY <1>0, <1>6, CallsAssumption
       DEF LateTeardown, Goto, TypeOK, managerVars, Registered, Located, OnBridge
  <2>2. Located(k)' /\ Registered(k)'
    BY <1>1, <1>2, <2>1 DEF Located, Registered, RegisteredPcs, UnansweredPcs
  <2>3. /\ CleanedUp(k)'
        /\ \A s \in Slots : ~InTables(s, k)'
        /\ \A j \in Calls \ {k} :
             /\ pendingCleanup'[j] = pendingCleanup[j]
             /\ j \in removing' <=> j \in removing
             /\ j \in deferred' <=> j \in deferred
             /\ j \in freed' <=> j \in freed
             /\ \A s \in Slots : InTables(s, j)' => InTables(s, j)
        /\ \A s \in Slots \ {slotOf[k]} : activeMedia'[s] = activeMedia[s]
    <3>1. k \notin deferred /\ k \notin freed /\ k \notin removing /\ pendingCleanup[k] = None
      BY <1>0, <2>1 DEF CleanedUp, OnBridge, Idle, SafeInv, HoldInv, HandedOver
    <3> QED
      BY <1>1, <2>1, <3>1, RetiredOwn
  <2>4. OnlyOf(k)
    BY <1>1, <1>2, <2>1, <2>3 DEF OnlyOf
  <2> QED
    BY <2>2, <2>3, <2>4 DEF PortOK
<1>7. CASE StoreSession(k)
  <2>1. /\ pc[k] = "store" /\ pc'[k] = "done"
        /\ sessions' = [sessions EXCEPT ![slotOf[k]] = k]
        /\ UNCHANGED <<pendingPorts, activeMedia, removing, pendingCleanup, deferred, freed>>
    BY <1>0, <1>7 DEF StoreSession, Goto, TypeOK, pjsipVars, staticVars, memoryVars
  <2>2. \A j \in Calls \ {k} : sessions[slotOf[k]] # j
    <3> SUFFICES ASSUME NEW j \in Calls \ {k}, sessions[slotOf[k]] = j PROVE FALSE
      OBVIOUS
    <3>1. SessionHolds(j) /\ slotOf[j] = slotOf[k] /\ sip[j] # "new"
      BY <1>0, <1>1 DEF SessionHolds, TablesOK, LocalsOK
    <3> QED
      BY <1>0, <1>1, <3>1 DEF IdsOK, UsesId
  <2>3. \A j \in Calls \ {k} : SessionHolds(j)' <=> SessionHolds(j)
    BY <1>0, <1>1, <2>1, <2>2 DEF SessionHolds, TypeOK
  <2>4. SessionHolds(k)'
    BY <1>0, <1>1, <2>1 DEF SessionHolds, TypeOK
  <2>5. OnBridge(k)'
    BY <1>0, <1>1, <2>1 DEF Located, OnBridge, Idle
  <2>6. PortOK(k)'
    BY <1>0, <1>1, <2>1, <2>5
       DEF PortOK, Located, Registered, CleanedUp, RegisteredPcs, UnansweredPcs
  <2>7. \A s \in Slots, j \in Calls : InTables(s, j)' <=> InTables(s, j)
    BY <1>1, <2>1 DEF InTables
  <2>8. \A s \in Slots : InTables(s, k)' => s = slotOf[k] /\ UsesPort(k)'
    BY <1>0, <2>4, <2>7 DEF PortsOK, UsesPort
  <2>9. OnlyOf(k)
    BY <1>1, <2>1, <2>3, <2>7 DEF OnlyOf
  <2> QED
    BY <2>6, <2>8, <2>9
<1> QED
  BY <1>3, <1>4, <1>5, <1>6, <1>7 DEF MovesPort

\* AbortRecycled is the path of a task whose id has been reused: here there is none.
LEMMA SetupStepSafe ==
  ASSUME SafeInv, NEW k \in Calls, SetupStep(k)
  PROVE  PortsOK'
<1>0. HoldInv /\ IdsOK /\ PortsOK /\ CallInv /\ TypeOK
  BY DEF SafeInv, HoldInv, CallInv, TypeInv
<1>1. ~AbortRecycled(k)
  BY <1>0 DEF AbortRecycled, OwnsCallId, PortsOK, PortOK, Registered, RegisteredPcs, Goto
<1>2. StaysPut(k) \/ MovesPort(k)
  BY <1>1 DEF SetupStep, StaysPut, MovesPort
<1>3. PortOK(k)' /\ OnlyOf(k) /\ \A s \in Slots : InTables(s, k)' => s = slotOf[k] /\ UsesPort(k)'
  BY <1>2, StaysPutStep, MovesPortStep
<1>4. UNCHANGED <<loopPc, loopPending>>
  BY <1>0, SetupFrame
<1> QED
  BY <1>0, <1>3, <1>4, OthersKeep DEF PortsOK

\* What on_call_media_state leaves alone.
LEMMA CallbackFrame ==
  ASSUME \/ \E k \in Calls : MediaTake(k)
         \/ \E s \in Slots : MediaStep(s)
  PROVE  /\ UNCHANGED <<sip, slotOf, removing, pendingCleanup, sessions, pendingSetups, pc, owns,
                        wasPending, loopPc, loopSession, loopPending, deferred, freed>>
         /\ \A j \in Calls : /\ SessionHolds(j)' <=> SessionHolds(j)
                             /\ LoopHolds(j)' <=> LoopHolds(j)
<1>1. UNCHANGED <<sip, slotOf, removing, pendingCleanup, sessions, pendingSetups, pc, owns,
                  wasPending, loopPc, loopSession, loopPending, deferred, freed>>
  <2>1. CASE \E k \in Calls : MediaTake(k)
    BY <2>1 DEF MediaTake, managerVars, taskVars, loopVars, memoryVars
  <2>2. CASE \E s \in Slots : MediaStep(s)
    BY <2>2 DEF MediaStep, MediaPutBack, MediaAdd, MediaPublish, MediaNotify, staticVars,
      managerVars, taskVars, loopVars, memoryVars
  <2> QED
    BY <2>1, <2>2
<1> QED
  BY <1>1 DEF SessionHolds, LoopHolds

\* The port that media come up for waits for them: its setup has answered and is at
\* its select! (session.rs:289-306, callbacks.rs:211-221).
LEMMA TakenPort ==
  ASSUME SafeInv, NEW k \in Calls, MediaTake(k)
  PROVE  /\ slotOf[k] \in Slots /\ pendingPorts[slotOf[k]] = k /\ UsesId(k)
         /\ pc[k] = "media" /\ k \notin fired /\ Waits(k)
<1>0. TypeOK /\ LocalsOK /\ HoldInv /\ IdsOK /\ EndsOK /\ PortsOK /\ Located(k)
  BY DEF SafeInv, HoldInv, CallInv, TypeInv, PortsOK, PortOK
<1>1. /\ sip[k] = "answered" /\ cbStage[slotOf[k]] = "idle" /\ pendingPorts[slotOf[k]] # None
  BY DEF MediaTake
<1>2. slotOf[k] \in Slots /\ UsesId(k)
  BY <1>0, <1>1 DEF LocalsOK, UsesId, Live
<1>3. PICK j \in Calls : pendingPorts[slotOf[k]] = j
  BY <1>0, <1>1, <1>2 DEF TypeOK
<1>4. j = k /\ UsesPort(k)
  BY <1>0, <1>2, <1>3, TableEntry DEF InTables
<1>5. ~OnBridge(k) /\ ~Nowhere(k) /\ ~InCallback(k)
  BY <1>1 DEF OnBridge, Nowhere, InCallback
<1>6. pc[k] \notin {"ready", "insert", "answer"}
  BY <1>0, <1>1 DEF EndsOK, UnansweredPcs
<1> QED
  BY <1>0, <1>1, <1>2, <1>3, <1>4, <1>5, <1>6 DEF Located, UsesPort, PortPcs

\* The callback that runs for an id has the port of the call that waits under it.
LEMMA CallbackPort ==
  ASSUME SafeInv, NEW s \in Slots, cbStage[s] # "idle"
  PROVE  \E k \in Calls : /\ cbPort[s] = k /\ slotOf[k] = s /\ UsesId(k)
                          /\ pc[k] = "media" /\ k \notin fired /\ InCallback(k)
<1>0. TypeOK /\ LocalsOK /\ HoldInv /\ IdsOK /\ PortsOK
  BY DEF SafeInv, HoldInv, CallInv, TypeInv
<1>1. PICK k \in Calls : cbPort[s] = k
  BY <1>0 DEF LocalsOK
<1>2. slotOf[k] = s /\ UsesPort(k) /\ UsesId(k) /\ Located(k)
  BY <1>0, <1>1, PortUsers DEF PortsOK, PortOK, InTables
<1>3. ~OnBridge(k) /\ ~Nowhere(k) /\ ~Waits(k)
  BY <1>2 DEF OnBridge, Nowhere, Waits, Idle
<1> QED
  BY <1>1, <1>2, <1>3 DEF Located, UsesPort, PortPcs

\* Whatever the callback does, its port waits for media again, is in its hands, or is
\* on the bridge with its task told (callbacks.rs:211-330).
LEMMA CallbackStep ==
  ASSUME SafeInv,
         \/ \E k \in Calls : MediaTake(k)
         \/ \E s \in Slots : MediaStep(s)
  PROVE  PortsOK'
<1>0. TypeOK /\ LocalsOK /\ HoldInv /\ IdsOK /\ PortsOK /\ HandedOver /\ TablesOK
  BY DEF SafeInv, HoldInv, CallInv, TypeInv
<1>1. /\ UNCHANGED <<sip, slotOf, removing, pendingCleanup, sessions, pendingSetups, pc, owns,
                     wasPending, loopPc, loopSession, loopPending, deferred, freed>>
      /\ \A j \in Calls : /\ SessionHolds(j)' <=> SessionHolds(j)
                          /\ LoopHolds(j)' <=> LoopHolds(j)
  BY CallbackFrame
<1>2. ASSUME NEW k \in Calls, NEW s \in Slots, slotOf[k] = s, UsesId(k), pc[k] = "media",
             \A j \in Calls \ {k} : /\ j \in attached' <=> j \in attached
                                    /\ j \in fired' <=> j \in fired,
             \A t \in Slots \ {s} :
               /\ pendingPorts'[t] = pendingPorts[t] /\ activeMedia'[t] = activeMedia[t]
               /\ cbStage'[t] = cbStage[t] /\ cbPort'[t] = cbPort[t]
               /\ mediaReadyTx'[t] = mediaReadyTx[t],
             \A j \in Calls \ {k} : ~InTables(s, j)',
             IF k \in fired' THEN OnBridge(k)' ELSE Waits(k)' \/ InCallback(k)',
             k \notin fired' => mediaReadyTx'[s] = k
      PROVE  PortsOK'
  <2>1. PortOK(k) /\ k \notin freed
    BY <1>0, <1>2 DEF PortsOK, HandedOver
  <2>2. ~SessionHolds(k) /\ ~LoopHolds(k)
    BY <1>0, <1>2 DEF TablesOK, HandedOver, SessionHolds
  <2>3. k \notin removing
    BY <1>2, <2>1 DEF PortOK, Located, OnBridge, Waits, InCallback, Idle
  <2>4. PortOK(k)'
    BY <1>1, <1>2, <2>1, <2>2, <2>3
       DEF PortOK, Located, Registered, CleanedUp, RegisteredPcs, UnansweredPcs
  <2>5. \A t \in Slots, j \in Calls : t # s /\ InTables(t, j)' => InTables(t, j)
    BY <1>2 DEF InTables
  <2>6. OnlyOf(k)
    BY <1>1, <1>2, <2>5 DEF OnlyOf
  <2>7. \A t \in Slots : InTables(t, k)' => t = s /\ UsesPort(k)'
    BY <1>0, <1>1, <1>2, <2>5 DEF PortsOK, UsesPort, PortPcs
  <2> QED
    BY <1>0, <1>1, <1>2, <2>4, <2>6, <2>7, OthersKeep DEF PortsOK
<1>3. ASSUME NEW k \in Calls, MediaTake(k)
      PROVE  PortsOK'
  <2>1. /\ slotOf[k] \in Slots /\ pendingPorts[slotOf[k]] = k /\ UsesId(k)
        /\ pc[k] = "media" /\ k \notin fired /\ Waits(k)
    BY <1>3, TakenPort
  <2>2. /\ cbStage' = [cbStage EXCEPT ![slotOf[k]] = "taken"] /\ sip[k] = "answered"
        /\ cbPort' = [cbPort EXCEPT ![slotOf[k]] = k]
        /\ pendingPorts' = [pendingPorts EXCEPT ![slotOf[k]] = None]
        /\ UNCHANGED <<attached, activeMedia, mediaReadyTx, fired>>
    BY <1>3, <2>1 DEF MediaTake, taskVars
  <2>3. InCallback(k)'
    BY <1>0, <1>1, <2>1, <2>2, CallsAssumption DEF InCallback, Waits, Idle, TypeOK
  <2>4. mediaReadyTx'[slotOf[k]] = k
    BY <1>0, <2>1, <2>2 DEF PortsOK, PortOK, Registered
  <2>5. \A j \in Calls \ {k} : ~InTables(slotOf[k], j)'
    BY <1>0, <1>1, <2>1, <2>2, CallsAssumption DEF InTables, Waits, TypeOK
  <2>6. \A t \in Slots \ {slotOf[k]} :
               /\ pendingPorts'[t] = pendingPorts[t]
               /\ cbStage'[t] = cbStage[t] /\ cbPort'[t] = cbPort[t]
    BY <1>0, <2>2 DEF TypeOK
  <2> QED
    BY <1>1, <1>2, <2>1, <2>2, <2>3, <2>4, <2>5, <2>6
<1>4. ASSUME NEW s \in Slots, MediaStep(s)
      PROVE  PortsOK'
  <2>0. cbStage[s] # "idle"
    BY <1>4 DEF MediaStep, MediaPutBack, MediaAdd, MediaPublish, MediaNotify
  <2>1. PICK k \in Calls : /\ cbPort[s] = k /\ slotOf[k] = s /\ UsesId(k)
                          /\ pc[k] = "media" /\ k \notin fired /\ InCallback(k)
    BY <2>0, CallbackPort
  <2>2. mediaReadyTx[s] = k
    BY <1>0, <2>1 DEF PortsOK, PortOK, Registered
  <2>3. CASE MediaPutBack(s)
    <3>1. /\ cbStage[s] = "taken" /\ pendingPorts' = [pendingPorts EXCEPT ![s] = k]
          /\ cbStage' = [cbStage EXCEPT ![s] = "idle"]
          /\ cbPort' = [cbPort EXCEPT ![s] = None]
          /\ UNCHANGED <<attached, activeMedia, mediaReadyTx, fired>>
      BY <2>1, <2>3 DEF MediaPutBack, taskVars
    <3>2. Waits(k)'
      BY <1>0, <1>1, <2>1, <3>1, CallsAssumption DEF InCallback, Waits, Idle, TypeOK
    <3>3. \A j \in Calls \ {k} : ~InTables(s, j)'
      BY <1>0, <2>1, <3>1, CallsAssumption DEF InTables, InCallback, TypeOK
    <3>4. \A t \in Slots \ {s} :
               /\ pendingPorts'[t] = pendingPorts[t]
               /\ cbStage'[t] = cbStage[t] /\ cbPort'[t] = cbPort[t]
      BY <1>0, <3>1 DEF TypeOK
    <3> QED
      BY <1>2, <2>1, <2>2, <3>1, <3>2, <3>3, <3>4
  <2>4. CASE MediaAdd(s)
    <3>1. /\ cbStage[s] = "taken" /\ attached' = attached \cup {k}
          /\ cbStage' = [cbStage EXCEPT ![s] = "added"]
          /\ UNCHANGED <<cbPort, pendingPorts, activeMedia, mediaReadyTx, fired>>
      BY <2>1, <2>4 DEF MediaAdd, taskVars, staticVars
    <3>2. InCallback(k)'
      BY <1>0, <1>1, <2>1, <3>1 DEF InCallback, TypeOK
    <3>3. \A j \in Calls \ {k} : ~InTables(s, j)'
      BY <1>0, <2>1, <3>1, CallsAssumption DEF InTables, InCallback, TypeOK
    <3>4. \A t \in Slots \ {s} : cbStage'[t] = cbStage[t]
      BY <1>0, <3>1 DEF TypeOK
    <3> QED
      BY <1>2, <2>1, <2>2, <3>1, <3>2, <3>3, <3>4
  <2>5. CASE MediaPublish(s)
    <3>1. /\ cbStage[s] = "added" /\ activeMedia' = [activeMedia EXCEPT ![s] = k]
          /\ cbStage' = [cbStage EXCEPT ![s] = "published"]
          /\ UNCHANGED <<attached, cbPort, pendingPorts, mediaReadyTx, fired>>
      BY <2>1, <2>5 DEF MediaPublish, taskVars
    <3>2. InCallback(k)'
      BY <1>0, <1>1, <2>1, <3>1 DEF InCallback, TypeOK
    <3>3. \A j \in Calls \ {k} : ~InTables(s, j)'
      BY <1>0, <2>1, <3>1, CallsAssumption DEF InTables, InCallback, TypeOK
    <3>4. \A t \in Slots \ {s} : cbStage'[t] = cbStage[t] /\ activeMedia'[t] = activeMedia[t]
      BY <1>0, <3>1 DEF TypeOK
    <3> QED
      BY <1>2, <2>1, <2>2, <3>1, <3>2, <3>3, <3>4
  <2>6. CASE MediaNotify(s)
    <3>1. /\ cbStage[s] = "published" /\ fired' = fired \cup {k}
          /\ mediaReadyTx' = [mediaReadyTx EXCEPT ![s] = None]
          /\ cbStage' = [cbStage EXCEPT ![s] = "idle"]
          /\ cbPort' = [cbPort EXCEPT ![s] = None]
          /\ UNCHANGED <<attached, pendingPorts, activeMedia>>
      BY <2>1, <2>2, <2>6, CallsAssumption DEF MediaNotify
    <3>2. OnBridge(k)'
      BY <1>0, <1>1, <2>1, <3>1 DEF InCallback, OnBridge, Idle, TypeOK
    <3>3. \A j \in Calls \ {k} : ~InTables(s, j)'
      BY <1>0, <2>1, <3>1, CallsAssumption DEF InTables, InCallback, TypeOK
    <3>4. \A t \in Slots \ {s} : /\ cbStage'[t] = cbStage[t] /\ cbPort'[t] = cbPort[t]
                                 /\ mediaReadyTx'[t] = mediaReadyTx[t]
      BY <1>0, <3>1 DEF TypeOK
    <3> QED
      BY <1>2, <2>1, <3>1, <3>2, <3>3, <3>4
  <2> QED
    BY <1>4, <2>3, <2>4, <2>5, <2>6 DEF MediaStep
<1> QED
  BY <1>3, <1>4

\* A port whose removal is under way has left its task, its session and the main loop.
LEMMA RemovedPort ==
  ASSUME PortsOK, NEW k \in Calls, k \in removing
  PROVE  /\ pc[k] \notin PortPcs \cup {"none", "spawned", "lookup", "rejected"}
         /\ ~SessionHolds(k) /\ ~LoopHolds(k)
         /\ k \in attached /\ pendingCleanup[k] = k
<1>1. Located(k) /\ CleanedUp(k)
  BY DEF PortsOK, PortOK
<1>2. ~OnBridge(k) /\ ~Waits(k) /\ ~Nowhere(k) /\ ~InCallback(k)
  BY DEF OnBridge, Waits, Nowhere, InCallback, Idle
<1> QED
  BY <1>1, <1>2 DEF Located, CleanedUp, PortPcs

\* The callback of a finished removal destroys the port that had the conference slot,
\* and a removal that failed leaks it (callbacks.rs:389-418).
LEMMA RemovalStep ==
  ASSUME SafeInv, NEW k \in Calls, RemovePortDone(k) \/ RemovePortFailed(k)
  PROVE  PortsOK'
<1>0. TypeOK /\ HoldInv /\ IdsOK /\ PortsOK /\ PortOK(k)
  BY DEF SafeInv, HoldInv, CallInv, TypeInv, PortsOK
<1>1. /\ removing' = removing \ {k} /\ k \in removing
      /\ pendingCleanup' = [pendingCleanup EXCEPT ![k] = None]
      /\ UNCHANGED <<sip, slotOf, cbStage, cbPort, pendingPorts, activeMedia, mediaReadyTx,
                     sessions, pendingSetups, pc, owns, wasPending, fired, loopPc, loopSession,
                     loopPending, deferred>>
  BY DEF RemovePortDone, RemovePortFailed, staticVars, managerVars, taskVars, loopVars, memoryVars
<1>2. /\ pc[k] \notin PortPcs \cup {"none", "spawned", "lookup", "rejected"}
      /\ ~SessionHolds(k) /\ ~LoopHolds(k)
      /\ k \in attached /\ pendingCleanup[k] = k
  BY <1>0, <1>1, RemovedPort
<1>3. \/ attached' = attached \ {k} /\ freed' = freed \cup {k}
      \/ attached' = attached /\ freed' = freed
  BY <1>2, CallsAssumption DEF RemovePortDone, RemovePortFailed, memoryVars
<1>4. /\ \A j \in Calls : /\ SessionHolds(j)' <=> SessionHolds(j)
                          /\ LoopHolds(j)' <=> LoopHolds(j)
      /\ \A s \in Slots, j \in Calls : InTables(s, j)' <=> InTables(s, j)
  BY <1>1 DEF SessionHolds, LoopHolds, InTables
<1>5. CleanedUp(k)'
  BY <1>0, <1>1, <1>3 DEF PortOK, CleanedUp, TypeOK
<1>6. Located(k)' /\ Registered(k)'
  BY <1>1, <1>2, <1>4 DEF Located, Registered, RegisteredPcs, UnansweredPcs, PortPcs
<1>7. \A j \in Calls \ {k} :
        /\ pendingCleanup'[j] = pendingCleanup[j]
        /\ j \in removing' <=> j \in removing
        /\ j \in attached' <=> j \in attached
        /\ j \in freed' <=> j \in freed
  <2>1. \A j \in Calls \ {k} : pendingCleanup'[j] = pendingCleanup[j]
    BY <1>0, <1>1 DEF TypeOK
  <2> QED
    BY <1>1, <1>3, <2>1
<1>8. OnlyOf(k)
  BY <1>1, <1>4, <1>7 DEF OnlyOf
<1>9. \A s \in Slots : ~InTables(s, k)'
  BY <1>0, <1>2, <1>4 DEF PortsOK, UsesPort
<1> QED
  BY <1>0, <1>1, <1>5, <1>6, <1>8, <1>9, OthersKeep DEF PortsOK, PortOK

\* A call ends with its port wherever it was: on_call_state only sends an event, and
\* the dialog lock keeps it out of a running callback for the id (callbacks.rs:280-311).
LEMMA DisconnectStep ==
  ASSUME SafeInv, NEW k \in Calls, Disconnected(k) \/ DisconnectedUnseen(k)
  PROVE  PortsOK'
<1>0. TypeOK /\ HoldInv /\ IdsOK /\ PortsOK /\ PortOK(k)
  BY DEF SafeInv, HoldInv, CallInv, TypeInv, PortsOK
<1>1. /\ cbStage[slotOf[k]] = "idle" /\ sip' = [sip EXCEPT ![k] = "ended"]
      /\ UNCHANGED <<slotOf, attached, removing, cbStage, cbPort, pendingPorts, activeMedia,
                     mediaReadyTx, pendingCleanup, sessions, pendingSetups, pc, owns, wasPending,
                     fired, loopPc, loopSession, loopPending, deferred, freed>>
  BY DEF Disconnected, DisconnectedUnseen, staticVars, managerVars, taskVars, loopVars, memoryVars
<1>2. /\ \A j \in Calls : /\ SessionHolds(j)' <=> SessionHolds(j)
                          /\ LoopHolds(j)' <=> LoopHolds(j)
      /\ \A s \in Slots, j \in Calls : InTables(s, j)' <=> InTables(s, j)
  BY <1>1 DEF SessionHolds, LoopHolds, InTables
<1>3. /\ Nowhere(k)' <=> Nowhere(k)
      /\ Waits(k)' <=> Waits(k)
      /\ OnBridge(k)' <=> OnBridge(k)
      /\ ~InCallback(k)
  BY <1>1 DEF Nowhere, Waits, OnBridge, InCallback, Idle
<1>4. sip'[k] = "ended" /\ \A j \in Calls \ {k} : sip'[j] = sip[j]
  BY <1>0, <1>1 DEF TypeOK
<1>5. PortOK(k)'
  BY <1>0, <1>1, <1>2, <1>3, <1>4 DEF PortOK, Located, Registered, CleanedUp
<1>6. OnlyOf(k)
  BY <1>1, <1>2, <1>4 DEF OnlyOf
<1>7. \A s \in Slots : InTables(s, k)' => s = slotOf[k] /\ UsesPort(k)'
  BY <1>0, <1>1, <1>2 DEF PortsOK, UsesPort
<1> QED
  BY <1>0, <1>1, <1>5, <1>6, <1>7, OthersKeep DEF PortsOK

\* A call whose setup starts finds no entry under its id: whoever has one uses the id.
LEMMA HandleIncomingStep ==
  ASSUME SafeInv, HandleIncoming
  PROVE  PortsOK'
<1>0. TypeOK /\ LocalsOK /\ EventsOnce /\ TablesOK /\ HandedOver /\ HoldInv /\ IdsOK /\ PortsOK
  BY DEF SafeInv, HoldInv, CallInv, TypeInv
<1>1. PICK k \in Calls : k = Head(events).call /\ pc[k] = "none" /\ sip[k] # "new"
  <2>1. 1 \in 1..Len(events) /\ events[1] = Head(events) /\ Head(events).kind = "incoming"
    BY <1>0 DEF HandleIncoming, TypeOK
  <2> QED
    BY <1>0, <2>1, EventCalls DEF EventsOnce, LocalsOK, TypeOK
<1>2. /\ pc' = [pc EXCEPT ![k] = "spawned"]
      /\ UNCHANGED <<sip, slotOf, attached, removing, cbStage, cbPort, pendingPorts, activeMedia,
                     mediaReadyTx, pendingCleanup, sessions, pendingSetups, owns, wasPending,
                     fired, loopPc, loopSession, loopPending, deferred, freed>>
  BY <1>1 DEF HandleIncoming, pjsipVars, staticVars, managerVars, loopVars, memoryVars
<1>3. UsesId(k) /\ slotOf[k] \in Slots /\ ~SessionHolds(k) /\ ~LoopHolds(k)
  BY <1>0, <1>1 DEF UsesId, Returned, LocalsOK, TablesOK, HandedOver, SessionHolds
<1>4. ~UsesPort(k)
  BY <1>1, <1>3 DEF UsesPort, PortPcs
<1>5. \A j \in Calls : ~InTables(slotOf[k], j)
  BY <1>0, <1>1, <1>3, <1>4, TableEntry
<1>6. cbStage[slotOf[k]] = "idle" /\ pendingPorts[slotOf[k]] = None /\ activeMedia[slotOf[k]] = None
  BY <1>0, <1>3, <1>5 DEF InTables, TypeOK, LocalsOK
<1>7. PortOK(k)
  BY <1>0, <1>1 DEF PortsOK
<1>8. Nowhere(k)'
  BY <1>1, <1>2, <1>6, <1>7 DEF PortOK, Located, Nowhere, Idle
<1>9. /\ \A j \in Calls : /\ SessionHolds(j)' <=> SessionHolds(j)
                          /\ LoopHolds(j)' <=> LoopHolds(j)
      /\ \A s \in Slots, j \in Calls : InTables(s, j)' <=> InTables(s, j)
  BY <1>2 DEF SessionHolds, LoopHolds, InTables
<1>10. pc'[k] = "spawned" /\ \A j \in Calls \ {k} : pc'[j] = pc[j]
  BY <1>0, <1>1, <1>2 DEF TypeOK
<1>11. PortOK(k)'
  BY <1>1, <1>2, <1>3, <1>7, <1>8, <1>9, <1>10
     DEF PortOK, Located, Registered, CleanedUp, RegisteredPcs, UnansweredPcs
<1>12. OnlyOf(k)
  BY <1>2, <1>9, <1>10 DEF OnlyOf
<1>13. \A s \in Slots : ~InTables(s, k)'
  BY <1>0, <1>1, <1>4, <1>9 DEF PortsOK
<1> QED
  BY <1>0, <1>1, <1>2, <1>11, <1>12, <1>13, OthersKeep DEF PortsOK

\* An INVITE gives an id to a call that has no port and concerns no other.
LEMMA InviteStep ==
  ASSUME SafeInv, NEW k \in Calls, NEW s \in Slots, Invite(k, s)
  PROVE  PortsOK'
<1>0. TypeOK /\ LocalsOK /\ TablesOK /\ HandedOver /\ PortsOK /\ PortOK(k)
  BY DEF SafeInv, HoldInv, CallInv, TypeInv, PortsOK
<1>1. /\ slotOf' = [slotOf EXCEPT ![k] = s] /\ sip' = [sip EXCEPT ![k] = "ringing"]
      /\ sip[k] = "new"
      /\ UNCHANGED <<attached, removing, cbStage, cbPort, pendingPorts, activeMedia,
                     mediaReadyTx, pendingCleanup, sessions, pendingSetups, pc, owns, wasPending,
                     fired, loopPc, loopSession, loopPending, deferred, freed>>
  BY DEF Invite, staticVars, managerVars, taskVars, loopVars, memoryVars
<1>2. pc[k] = "none" /\ ~SessionHolds(k) /\ ~LoopHolds(k)
  BY <1>0, <1>1 DEF LocalsOK, TablesOK, HandedOver, SessionHolds
<1>3. /\ \A j \in Calls : /\ SessionHolds(j)' <=> SessionHolds(j)
                          /\ LoopHolds(j)' <=> LoopHolds(j)
      /\ \A t \in Slots, j \in Calls : InTables(t, j)' <=> InTables(t, j)
  BY <1>1 DEF SessionHolds, LoopHolds, InTables
<1>4. \A j \in Calls \ {k} : slotOf'[j] = slotOf[j] /\ sip'[j] = sip[j]
  BY <1>0, <1>1 DEF TypeOK
<1>5. PortOK(k)'
  BY <1>0, <1>1, <1>2, <1>3
     DEF PortOK, Located, Registered, CleanedUp, RegisteredPcs, UnansweredPcs
<1>6. ASSUME NEW j \in Calls \ {k}
      PROVE  PortOK(j)'
  <2>1. PortOK(j)
    BY <1>0 DEF PortsOK
  <2>2. /\ Nowhere(j)' <=> Nowhere(j)
        /\ Waits(j)' <=> Waits(j)
        /\ InCallback(j)' <=> InCallback(j)
        /\ OnBridge(j)' <=> OnBridge(j)
    BY <1>1, <1>4 DEF Nowhere, Waits, InCallback, OnBridge, Idle
  <2> QED
    BY <1>1, <1>3, <1>4, <2>1, <2>2 DEF PortOK, Located, Registered, CleanedUp
<1>7. ASSUME NEW t \in Slots, NEW j \in Calls, InTables(t, j)'
      PROVE  slotOf'[j] = t /\ UsesPort(j)'
  <2>1. InTables(t, j) /\ slotOf[j] = t /\ UsesPort(j)
    BY <1>0, <1>3, <1>7 DEF PortsOK
  <2>2. j # k
    BY <1>2, <2>1 DEF UsesPort, PortPcs
  <2> QED
    BY <1>1, <1>3, <1>4, <2>1, <2>2 DEF UsesPort
<1> QED
  BY <1>0, <1>1, <1>5, <1>6, <1>7 DEF PortsOK

\* A step of the main loop that touches no table that a port is in.
LEMMA NothingMoves ==
  ASSUME PortsOK,
         UNCHANGED <<sip, slotOf, attached, removing, cbStage, cbPort, pendingPorts, activeMedia,
                     mediaReadyTx, pendingCleanup, sessions, pendingSetups, pc, owns, wasPending,
                     fired, deferred, freed>>,
         \A j \in Calls : LoopHolds(j)' <=> LoopHolds(j),
         loopPc' = "take_active" => ~loopPending'
  PROVE  PortsOK'
<1>1. /\ \A j \in Calls : SessionHolds(j)' <=> SessionHolds(j)
      /\ \A s \in Slots, j \in Calls : InTables(s, j)' <=> InTables(s, j)
  BY DEF SessionHolds, InTables
<1>2. \A j \in Calls : UsesPort(j)' <=> UsesPort(j)
  BY <1>1 DEF UsesPort
<1>3. ASSUME NEW j \in Calls
      PROVE  PortOK(j)'
  <2>1. PortOK(j)
    BY DEF PortsOK
  <2>2. /\ Nowhere(j)' <=> Nowhere(j)
        /\ Waits(j)' <=> Waits(j)
        /\ InCallback(j)' <=> InCallback(j)
        /\ OnBridge(j)' <=> OnBridge(j)
    BY DEF Nowhere, Waits, InCallback, OnBridge, Idle
  <2>3. Located(j)'
    BY <1>1, <2>1, <2>2 DEF PortOK, Located
  <2>4. Registered(j)' /\ CleanedUp(j)'
    BY <2>1 DEF PortOK, Registered, CleanedUp
  <2> QED
    BY <2>3, <2>4 DEF PortOK
<1>4. \A s \in Slots, j \in Calls : InTables(s, j)' => slotOf'[j] = s /\ UsesPort(j)'
  BY <1>1, <1>2 DEF PortsOK
<1> QED
  BY <1>3, <1>4 DEF PortsOK

\* What the main loop takes a session for, it finds under the session's id: no pending
\* port, and the session's own active media (session.rs:884-945).
LEMMA LoopPort ==
  ASSUME SafeInv, NEW k \in Calls, LoopHolds(k)
  PROVE  /\ slotOf[k] = loopSlot /\ loopSlot \in Slots /\ OnBridge(k) /\ pc[k] = "done"
         /\ UsesId(k) /\ ~SessionHolds(k)
         /\ k \notin deferred /\ k \notin freed /\ k \notin removing /\ pendingCleanup[k] = None
<1>0. HoldInv /\ IdsOK /\ PortOK(k) /\ LocalsOK /\ HandedOver
  BY DEF SafeInv, HoldInv, CallInv, TypeInv, PortsOK
<1>1. OnBridge(k) /\ CleanedUp(k)
  BY <1>0 DEF PortOK, Located
<1>2. k \notin freed /\ k \notin deferred /\ ~SessionHolds(k)
  BY <1>0 DEF HoldInv, PortHeldOnce
<1>3. slotOf[k] = loopSlot /\ loopSlot \in Slots /\ pc[k] = "done"
  BY <1>0 DEF IdsOK, LocalsOK, LoopHolds, HandedOver
<1>4. UsesId(k)
  BY <1>0, <1>3 DEF UsesId, LocalsOK
<1> QED
  BY <1>1, <1>2, <1>3, <1>4 DEF CleanedUp, OnBridge, Idle

\* Each step of the main loop leaves the port of the session it tears down with an
\* owner that knows where it is (session.rs:840-945).
LEMMA LoopStepSafe ==
  ASSUME SafeInv, LoopStep
  PROVE  PortsOK'
<1>0. TypeOK /\ LocalsOK /\ TablesOK /\ HandedOver /\ HoldInv /\ IdsOK /\ PortsOK
  BY DEF SafeInv, HoldInv, CallInv, TypeInv
<1>1. CASE HandleIncoming
  BY <1>1, HandleIncomingStep
<1>2. CASE HandleDisconnected
  <2>1. PICK s \in Slots, k \in Calls :
          /\ sessions[s] = k /\ sessions' = [sessions EXCEPT ![s] = None]
          /\ loopPc = "idle" /\ loopPc' = "take_pending" /\ loopSession' = k
          /\ UNCHANGED <<sip, slotOf, attached, removing, cbStage, cbPort, pendingPorts,
                         activeMedia, mediaReadyTx, pendingCleanup, pendingSetups, pc, owns,
                         wasPending, fired, deferred, freed>>
    <3>1. Head(events) \in Event
      BY <1>0, <1>2 DEF HandleDisconnected, TypeOK
    <3> QED
      BY <1>0, <1>2, <3>1
         DEF HandleDisconnected, TypeOK, Event, pjsipVars, staticVars, taskVars, memoryVars
  <2>2. SessionHolds(k) /\ slotOf[k] = s /\ pc[k] = "done" /\ sip[k] # "new"
    BY <1>0, <2>1 DEF SessionHolds, TablesOK, LocalsOK
  <2>3. ~SessionHolds(k)' /\ LoopHolds(k)'
    BY <1>0, <2>1, CallsAssumption DEF SessionHolds, LoopHolds, TablesOK, TypeOK
  <2>4. \A j \in Calls \ {k} : /\ SessionHolds(j)' <=> SessionHolds(j)
                               /\ LoopHolds(j)' <=> LoopHolds(j)
    BY <1>0, <2>1, CallsAssumption DEF SessionHolds, LoopHolds, TypeOK
  <2>5. \A t \in Slots, j \in Calls : InTables(t, j)' <=> InTables(t, j)
    BY <2>1 DEF InTables
  <2>6. OnBridge(k) /\ (OnBridge(k)' <=> OnBridge(k))
    <3>1. OnBridge(k)
      BY <1>0, <2>2 DEF PortsOK, PortOK, Located
    <3> QED
      BY <2>1, <3>1 DEF OnBridge, Idle
  <2>7. PortOK(k)'
    <3>1. Located(k)'
      BY <2>1, <2>2, <2>6 DEF Located
    <3>2. Registered(k)' /\ CleanedUp(k)'
      BY <1>0, <2>1 DEF PortsOK, PortOK, Registered, CleanedUp
    <3> QED
      BY <3>1, <3>2 DEF PortOK
  <2>8. OnlyOf(k)
    BY <2>1, <2>4, <2>5 DEF OnlyOf
  <2>9. \A t \in Slots : InTables(t, k)' => t = slotOf[k] /\ UsesPort(k)'
    BY <1>0, <2>3, <2>5 DEF PortsOK, UsesPort
  <2> QED
    BY <1>0, <2>1, <2>7, <2>8, <2>9, OthersKeep DEF PortsOK
<1>3. CASE HandleDisconnectedNoSession \/ CancelPendingSetup
  <2>1. /\ UNCHANGED <<sip, slotOf, attached, removing, cbStage, cbPort, pendingPorts,
                       activeMedia, mediaReadyTx, pendingCleanup, sessions, pendingSetups, pc,
                       owns, wasPending, fired, deferred, freed>>
        /\ loopPc \in {"idle", "cancel"} /\ loopPc' \in {"idle", "cancel"}
    BY <1>3 DEF HandleDisconnectedNoSession, CancelPendingSetup, pjsipVars, staticVars,
      managerVars, taskVars, memoryVars
  <2>2. \A j \in Calls : LoopHolds(j)' <=> LoopHolds(j)
    BY <2>1 DEF LoopHolds
  <2> QED
    BY <1>0, <2>1, <2>2, NothingMoves
<1>4. CASE TeardownTakePending
  <2>1. /\ loopPc = "take_pending" /\ loopPc' = "take_active" /\ loopSession' = loopSession
        /\ loopPending' = (pendingPorts[loopSlot] # None)
        /\ pendingPorts' = [pendingPorts EXCEPT ![loopSlot] = None]
        /\ UNCHANGED <<sip, slotOf, attached, removing, cbStage, cbPort, activeMedia,
                       mediaReadyTx, pendingCleanup, sessions, pendingSetups, pc, owns,
                       wasPending, fired, deferred, freed>>
    BY <1>4 DEF TeardownTakePending, pjsipVars, managerVars, taskVars, memoryVars
  <2>2. loopSession \in Calls /\ LoopHolds(loopSession)
    BY <1>0, <2>1 DEF LocalsOK, LoopHolds
  <2>3. pendingPorts[loopSlot] = None /\ loopSlot \in Slots
    BY <2>2, LoopPort DEF OnBridge
  <2>4. pendingPorts' = pendingPorts
    BY <1>0, <2>1, <2>3 DEF TypeOK
  <2>5. \A j \in Calls : LoopHolds(j)' <=> LoopHolds(j)
    BY <2>1 DEF LoopHolds
  <2> QED
    BY <1>0, <2>1, <2>3, <2>4, <2>5, NothingMoves
<1>5. CASE TeardownRetire
  <2>1. PICK k \in Calls : /\ k = loopSession /\ loopPc = "take_active" /\ ~loopPending
                          /\ LoopHolds(k)
    BY <1>0, <1>5 DEF TeardownRetire, PortsOK, LocalsOK, LoopHolds
  <2>2. /\ slotOf[k] = loopSlot /\ loopSlot \in Slots /\ OnBridge(k) /\ pc[k] = "done"
        /\ UsesId(k) /\ ~SessionHolds(k)
        /\ k \notin deferred /\ k \notin freed /\ k \notin removing /\ pendingCleanup[k] = None
    BY <2>1, LoopPort
  <2>3. /\ loopPc' = "idle" /\ StartRemoval(slotOf[k], k)
        /\ UNCHANGED <<sip, slotOf, attached, cbStage, cbPort, pendingPorts, mediaReadyTx,
                       sessions, pendingSetups, pc, owns, wasPending, fired>>
    BY <1>5, <2>1, <2>2, CallsAssumption DEF TeardownRetire, OnBridge, managerVars, taskVars
  <2>4. /\ CleanedUp(k)'
        /\ \A s \in Slots : ~InTables(s, k)'
        /\ \A j \in Calls \ {k} :
             /\ pendingCleanup'[j] = pendingCleanup[j]
             /\ j \in removing' <=> j \in removing
             /\ j \in deferred' <=> j \in deferred
             /\ j \in freed' <=> j \in freed
             /\ \A s \in Slots : InTables(s, j)' => InTables(s, j)
        /\ \A s \in Slots \ {slotOf[k]} : activeMedia'[s] = activeMedia[s]
    BY <2>2, <2>3, RetiredOwn
  <2>5. /\ \A j \in Calls : SessionHolds(j)' <=> SessionHolds(j)
        /\ \A j \in Calls \ {k} : LoopHolds(j)' <=> LoopHolds(j)
        /\ ~LoopHolds(k)'
    BY <2>1, <2>3 DEF SessionHolds, LoopHolds
  <2>6. Located(k)' /\ Registered(k)'
    BY <2>2, <2>3, <2>5 DEF Located, Registered, RegisteredPcs, UnansweredPcs
  <2>7. OnlyOf(k)
    BY <2>2, <2>3, <2>4, <2>5 DEF OnlyOf
  <2> QED
    BY <1>0, <2>3, <2>4, <2>6, <2>7, OthersKeep DEF PortsOK, PortOK
<1> QED
  BY <1>1, <1>2, <1>3, <1>4, <1>5 DEF LoopStep

\* The timer destroys a port that nobody else holds, and that no table has: where the
\* ports are does not change, and where removals start no timer has one
\* (session.rs:766-777).
LEMMA DeferredStep ==
  ASSUME SafeInv, NEW k \in Calls, DeferredDestroy(k)
  PROVE  PortsOK'
<1>0. TypeOK /\ PortsOK
  BY DEF SafeInv, HoldInv, CallInv, TypeInv
<1>1. /\ k \in deferred /\ deferred' = deferred \ {k} /\ freed' = freed \cup {k}
      /\ UNCHANGED <<sip, slotOf, attached, removing, cbStage, cbPort, pendingPorts,
                     activeMedia, mediaReadyTx, pendingCleanup, sessions, pendingSetups, pc,
                     owns, wasPending, fired, loopPc, loopSession, loopPending>>
  BY DEF DeferredDestroy, pjsipVars, staticVars, managerVars, taskVars, loopVars
<1>2. /\ \A j \in Calls : /\ SessionHolds(j)' <=> SessionHolds(j)
                          /\ LoopHolds(j)' <=> LoopHolds(j)
                          /\ UsesPort(j)' <=> UsesPort(j)
      /\ \A s \in Slots, j \in Calls : InTables(s, j)' <=> InTables(s, j)
  BY <1>1 DEF SessionHolds, LoopHolds, UsesPort, InTables
<1>3. \A j \in Calls : Located(j)' /\ Registered(j)'
  BY <1>0, <1>1, <1>2
     DEF PortsOK, PortOK, Located, Nowhere, Waits, InCallback, OnBridge, Idle, Registered
<1>4. ~RemovalsStart
  BY <1>0, <1>1 DEF PortsOK, PortOK, CleanedUp
<1>5. \A j \in Calls : CleanedUp(j)'
  BY <1>0, <1>1, <1>4 DEF PortsOK, PortOK, CleanedUp, RemovalsStart
<1> QED
  BY <1>0, <1>1, <1>2, <1>3, <1>5 DEF PortsOK, PortOK

\* The bridge starts without a call.
LEMMA SafeInit == Init => IdsOK /\ EndsOK /\ PortsOK
<1> SUFFICES ASSUME Init PROVE IdsOK /\ EndsOK /\ PortsOK
  OBVIOUS
<1>1. IdsOK
  BY DEF Init, IdsOK, UsesId, LoopHolds
<1>2. EndsOK
  <2>1. Len(events) = 0
    BY DEF Init
  <2> QED
    BY <2>1 DEF Init, EndsOK
<1>3. \A s \in Slots, k \in Calls : ~InTables(s, k)
  BY CallsAssumption DEF Init, InTables
<1>4. \A k \in Calls : PortOK(k)
  BY CallsAssumption
     DEF Init, PortOK, Located, Registered, CleanedUp, SessionHolds, LoopHolds, RegisteredPcs
<1> QED
  BY <1>1, <1>2, <1>3, <1>4 DEF Init, PortsOK

\* Every step of the bridge and of pjsip keeps the port of every call where its owner
\* will look for it.
LEMMA SafeStep ==
  ASSUME NoReuse, SafeInv, [Next]_vars
  PROVE  IdsOK' /\ EndsOK' /\ PortsOK'
<1>1. IdsOK' /\ EndsOK'
  BY IdsOKStep, EndsOKStep DEF NoReuse, SafeInv
<1>2. CASE UNCHANGED vars
  <2>1. \A j \in Calls : LoopHolds(j)' <=> LoopHolds(j)
    BY <1>2 DEF vars, loopVars, LoopHolds
  <2>2. UNCHANGED <<sip, slotOf, attached, removing, cbStage, cbPort, pendingPorts, activeMedia,
                    mediaReadyTx, pendingCleanup, sessions, pendingSetups, pc, owns, wasPending,
                    fired, deferred, freed>>
    BY <1>2 DEF vars, pjsipVars, staticVars, managerVars, taskVars, memoryVars
  <2>3. PortsOK
    BY DEF SafeInv
  <2>4. loopPc' = "take_active" => ~loopPending'
    BY <1>2, <2>3 DEF vars, loopVars, PortsOK
  <2> QED
    BY <1>1, <2>1, <2>2, <2>3, <2>4, NothingMoves
<1>3. PortsOK'
  BY <1>2, InviteStep, DisconnectStep, CallbackStep, RemovalStep, DeferredStep, SetupStepSafe,
     LoopStepSafe DEF Next
<1> QED
  BY <1>1, <1>3

\* So SafeInv is an invariant of every behaviour.
LEMMA Safe == NoReuse => (Spec => []SafeInv)
<1> SUFFICES ASSUME NoReuse PROVE Spec => []SafeInv
  OBVIOUS
<1>1. Init => HandedOver /\ PortHeldOnce
  BY CallsAssumption DEF Init, HandedOver, PortHeldOnce, TaskHolds, SessionHolds, LoopHolds,
                         CleanupHolds, PortPcs
<1>2. Init /\ CallInv => SafeInv
  BY <1>1, SafeInit DEF SafeInv, HoldInv
<1>3. SafeInv /\ [Next]_vars /\ CallInv' => SafeInv'
  BY SafeStep, HoldStep DEF SafeInv, HoldInv
<1> QED
  BY <1>2, <1>3, CallInvariant, PTL DEF Spec

\* As long as pjsua reuses an id only when the bridge has nothing left under it, and
\* removals can be started: no port is destroyed while the conference bridge still
\* calls into it (media_port.rs:126), in whatever order teardown, abort and the
\* callbacks come.
THEOREM NothingFreedWhileAttached ==
  NoReuse /\ RemovalsStart => (Spec => []NoFreeWhileAttached)
<1> SUFFICES ASSUME NoReuse, RemovalsStart PROVE Spec => []NoFreeWhileAttached
  OBVIOUS
<1>1. SafeInv => NoFreeWhileAttached
  BY DEF SafeInv, HoldInv, CallInv, TypeInv, TypeOK, PortsOK, PortOK, CleanedUp,
         NoFreeWhileAttached
<1> QED
  BY <1>1, Safe, PTL

\* As long as pjsua reuses an id only when the bridge has nothing left under it, and
\* whatever fails, a removal that cannot be started included: no table and no callback
\* keeps the pointer of a port that has been destroyed (callbacks.rs:108).
THEOREM NothingDangles == NoReuse => (Spec => []NoDanglingPort)
<1>1. SafeInv => NoDanglingPort
  <2> SUFFICES ASSUME SafeInv PROVE NoDanglingPort
    OBVIOUS
  <2>1. TypeOK /\ LocalsOK /\ PortsOK /\ PortHeldOnce
    BY DEF SafeInv, HoldInv, CallInv, TypeInv
  <2>2. ASSUME NEW s \in Slots, NEW k \in Calls, InTables(s, k)
        PROVE  k \notin freed
    BY <2>1, <2>2 DEF PortsOK, UsesPort, PortHeldOnce, TaskHolds
  <2>3. \A s \in Slots : pendingPorts[s] \notin freed
    BY <2>1, <2>2, CallsAssumption DEF TypeOK, InTables
  <2>4. \A s \in Slots : cbStage[s] = "taken" => cbPort[s] \notin freed
    BY <2>1, <2>2 DEF LocalsOK, InTables
  <2> QED
    BY <2>3, <2>4 DEF NoDanglingPort
<1> QED
  BY <1>1, Safe, PTL

\* Under the same assumption the session of a call that is up has its own entry of
\* ACTIVE_MEDIA and a port on the bridge: its teardown has something to remove
\* (session.rs:905-941).
THEOREM SessionsHaveMedia == NoReuse => (Spec => []EstablishedHasMedia)
<1>1. SafeInv => EstablishedHasMedia
  BY DEF SafeInv, HoldInv, CallInv, TablesOK, PortsOK, PortOK, Located, OnBridge, SessionHolds,
         EstablishedHasMedia
<1> QED
  BY <1>1, Safe, PTL

\* Under the same assumption a setup that waits for media can be woken by them and
\* can be cancelled (session.rs:289-306, 866-872).
THEOREM WaitingSetupsReachable == NoReuse => (Spec => []WaitingSetupReachable)
<1>1. SafeInv => WaitingSetupReachable
  BY DEF SafeInv, PortsOK, PortOK, Located, Registered, RegisteredPcs, Waits, InCallback,
         WaitingSetupReachable
<1> QED
  BY <1>1, Safe, PTL

-----------------------------------------------------------------------------
(* No port is left to nobody. *)

\* Somebody will destroy the port of k, or has: a port handed to the conference bridge
\* has its removal under way.
Owned(k) ==
    SessionHolds(k) \/ LoopHolds(k) \/ k \in removing \/ k \in deferred \/ k \in freed

OwnersOK == \A k \in Calls : pc[k] \in {"post", "done"} => Owned(k)

\* A step that concerns one call alone leaves the ports of the others to their owners.
LEMMA OthersOwned ==
  ASSUME OwnersOK, NEW k \in Calls, OnlyOf(k), pc'[k] \in {"post", "done"} => Owned(k)'
  PROVE  OwnersOK'
<1>1. ASSUME NEW j \in Calls \ {k}, pc'[j] \in {"post", "done"}
      PROVE  Owned(j)'
  <2>1. /\ pc'[j] = pc[j]
        /\ j \in removing' <=> j \in removing
        /\ j \in deferred' <=> j \in deferred
        /\ j \in freed' <=> j \in freed
        /\ SessionHolds(j)' <=> SessionHolds(j)
        /\ LoopHolds(j)' <=> LoopHolds(j)
    BY DEF OnlyOf
  <2> QED
    BY <1>1, <2>1 DEF OwnersOK, Owned
<1> QED
  BY <1>1 DEF OwnersOK

\* A step that changes neither a task that has let go of its port nor an owner.
LEMMA OwnersStay ==
  ASSUME OwnersOK, UNCHANGED <<sessions, removing, deferred, freed>>,
         \A j \in Calls : LoopHolds(j)' <=> LoopHolds(j),
         \A j \in Calls : pc'[j] \in {"post", "done"} => pc[j] \in {"post", "done"}
  PROVE  OwnersOK'
  BY DEF OwnersOK, Owned, SessionHolds

\* A removal that is asked for a port on the bridge gives it an owner.
LEMMA RemovalOwns ==
  ASSUME TypeOK, NEW s \in Slots, NEW k \in Calls,
         activeMedia[s] = k, k \in attached, StartRemoval(s, k)
  PROVE  Owned(k)'
<1>1. k \in removing' \/ k \in deferred'
  BY StartRemovalOwn
<1> QED
  BY <1>1 DEF Owned

\* A setup task lets go of its port by storing the session, by destroying the port, or
\* by handing it to the conference bridge or to a timer (session.rs:617-680, 725-778).
LEMMA SetupHandsOver ==
  ASSUME SafeInv, OwnersOK, NEW k \in Calls, SetupStep(k)
  PROVE  OwnersOK'
<1>0. TypeOK /\ PortsOK /\ PortOK(k) /\ Located(k) /\ Registered(k)
  BY DEF SafeInv, HoldInv, CallInv, TypeInv, PortsOK, PortOK
<1>1. ~AbortRecycled(k)
  BY <1>0 DEF AbortRecycled, OwnsCallId, Registered, RegisteredPcs, Goto
<1>2. CASE StaysPut(k)
  <2>1. /\ UNCHANGED <<sessions, loopPc, loopSession, removing, deferred, freed>>
        /\ \A j \in Calls \ {k} : pc'[j] = pc[j]
    BY <1>2, StaysPutFrame
  <2>2. pc'[k] \in {"post", "done"} => pc[k] \in {"post", "done"}
    BY <1>0, <1>2
       DEF StaysPut, GateReject, GateAdmit, CreatePort, RegisterMediaReady, InsertPendingSetup,
           Answer, AnswerFails, MediaReady, MediaDropped, MediaCancelled, IntroDone,
           SetupCancelled, ConnectOk, ConnectFails, Commit, AbortOwned, AfterAbort, Abort, Goto,
           TypeOK
  <2> QED
    BY <2>1, <2>2, OwnersStay DEF LoopHolds
<1>3. CASE MovesPort(k)
  <2>1. OnlyOf(k) /\ slotOf[k] \in Slots
    BY <1>3, MovesPortStep, MovesPortFrame
  <2>2. CASE RegisterPendingPort(k) \/ UnregisterPendingPort(k)
    <3>1. pc'[k] \notin {"post", "done"}
      BY <1>0, <2>2 DEF RegisterPendingPort, UnregisterPendingPort, Goto, TypeOK
    <3> QED
      BY <2>1, <3>1, OthersOwned
  <2>3. CASE StoreSession(k)
    <3>1. sessions'[slotOf[k]] = k
      BY <1>0, <2>1, <2>3 DEF StoreSession, TypeOK
    <3>2. Owned(k)'
      BY <2>1, <3>1 DEF Owned, SessionHolds
    <3> QED
      BY <2>1, <3>2, OthersOwned
  <2>4. CASE CleanupMediaPort(k) /\ wasPending[k]
    <3>1. k \in freed'
      BY <2>4 DEF CleanupMediaPort, RetireOwned, StartRemoval
    <3>2. Owned(k)'
      BY <3>1 DEF Owned
    <3> QED
      BY <2>1, <3>2, OthersOwned
  <2>5. CASE CleanupMediaPort(k) /\ ~wasPending[k]
    <3>1. OnBridge(k)
      BY <1>0, <2>5 DEF CleanupMediaPort, Located, Goto
    <3>2. StartRemoval(slotOf[k], k)
      BY <2>5, <3>1, CallsAssumption DEF CleanupMediaPort, RetireOwned, OnBridge
    <3> QED
      BY <1>0, <2>1, <3>1, <3>2, RemovalOwns, OthersOwned DEF OnBridge
  <2>6. CASE LateTeardown(k)
    <3>1. OnBridge(k) /\ owns[k]
      BY <1>0, <2>6 DEF LateTeardown, Located, Registered, Goto
    <3>2. StartRemoval(slotOf[k], k)
      BY <2>6, <3>1, CallsAssumption DEF LateTeardown, OnBridge
    <3> QED
      BY <1>0, <2>1, <3>1, <3>2, RemovalOwns, OthersOwned DEF OnBridge
  <2> QED
    BY <1>3, <2>2, <2>3, <2>4, <2>5, <2>6 DEF MovesPort
<1> QED
  BY <1>1, <1>2, <1>3 DEF SetupStep, StaysPut, MovesPort

\* The main loop takes the port over with its session, and hands it on: it always
\* finds the active media of the session it tears down (session.rs:840-945).
LEMMA LoopHandsOver ==
  ASSUME SafeInv, OwnersOK, LoopStep
  PROVE  OwnersOK'
<1>0. TypeOK /\ LocalsOK /\ TablesOK /\ PortsOK /\ EventsOnce
  BY DEF SafeInv, HoldInv, CallInv, TypeInv
<1>1. CASE HandleIncoming
  <2>1. /\ UNCHANGED <<sessions, loopPc, loopSession, removing, deferred, freed>>
        /\ pc' = [pc EXCEPT ![Head(events).call] = "spawned"]
    BY <1>1 DEF HandleIncoming, pjsipVars, managerVars, loopVars, memoryVars
  <2>2. \A j \in Calls : pc'[j] \in {"post", "done"} => pc[j] \in {"post", "done"}
    BY <1>0, <2>1 DEF TypeOK
  <2> QED
    BY <2>1, <2>2, OwnersStay DEF LoopHolds
<1>2. CASE HandleDisconnected
  <2>1. PICK s \in Slots, k \in Calls :
          /\ sessions[s] = k /\ sessions' = [sessions EXCEPT ![s] = None]
          /\ loopPc = "idle" /\ loopPc' = "take_pending" /\ loopSession' = k
          /\ UNCHANGED <<removing, pc, deferred, freed>>
    <3>1. Head(events) \in Event
      BY <1>0, <1>2 DEF HandleDisconnected, TypeOK
    <3> QED
      BY <1>0, <1>2, <3>1 DEF HandleDisconnected, TypeOK, Event, pjsipVars, taskVars, memoryVars
  <2>2. Owned(k)'
    BY <2>1 DEF Owned, LoopHolds
  <2>3. \A j \in Calls \ {k} : (SessionHolds(j)' <=> SessionHolds(j)) /\ ~LoopHolds(j)
    BY <1>0, <2>1, CallsAssumption DEF SessionHolds, LoopHolds, TypeOK
  <2> QED
    BY <2>1, <2>2, <2>3 DEF OwnersOK, Owned
<1>3. CASE HandleDisconnectedNoSession \/ CancelPendingSetup
  <2>1. /\ UNCHANGED <<sessions, removing, pc, deferred, freed>>
        /\ loopPc \in {"idle", "cancel"} /\ loopPc' \in {"idle", "cancel"}
    BY <1>3 DEF HandleDisconnectedNoSession, CancelPendingSetup, pjsipVars, managerVars, taskVars,
      memoryVars
  <2> QED
    BY <2>1, OwnersStay DEF LoopHolds
<1>4. CASE TeardownTakePending
  <2>1. /\ UNCHANGED <<sessions, removing, pc, deferred, freed, loopSession>>
        /\ loopPc = "take_pending" /\ loopPc' = "take_active"
    BY <1>4 DEF TeardownTakePending, pjsipVars, managerVars, taskVars, memoryVars
  <2> QED
    BY <2>1, OwnersStay DEF LoopHolds
<1>5. CASE TeardownRetire
  <2>1. PICK k \in Calls : /\ k = loopSession /\ ~loopPending /\ LoopHolds(k)
    BY <1>0, <1>5 DEF TeardownRetire, PortsOK, LocalsOK, LoopHolds
  <2>2. /\ slotOf[k] = loopSlot /\ loopSlot \in Slots /\ OnBridge(k)
        /\ k \notin removing /\ pendingCleanup[k] = None
    BY <2>1, LoopPort
  <2>3. StartRemoval(loopSlot, k) /\ UNCHANGED <<sessions, pc>>
    BY <1>5, <2>1, <2>2, CallsAssumption DEF TeardownRetire, OnBridge, managerVars, taskVars
  <2>4. Owned(k)'
    BY <1>0, <2>2, <2>3, RemovalOwns DEF OnBridge
  <2>5. \A j \in Calls \ {k} : /\ SessionHolds(j)' <=> SessionHolds(j)
                               /\ ~LoopHolds(j)
                               /\ j \in removing => j \in removing'
                               /\ j \in deferred => j \in deferred'
                               /\ j \in freed => j \in freed'
    <3>1. \A j \in Calls \ {k} : (SessionHolds(j)' <=> SessionHolds(j)) /\ ~LoopHolds(j)
      BY <2>1, <2>3 DEF SessionHolds, LoopHolds
    <3>2. removing \subseteq removing' /\ deferred \subseteq deferred' /\ freed' = freed
      BY <1>0, <2>2, <2>3, StartRemovalOwn DEF OnBridge
    <3> QED
      BY <3>1, <3>2
  <2> QED
    BY <2>3, <2>4, <2>5 DEF OwnersOK, Owned
<1> QED
  BY <1>1, <1>2, <1>3, <1>4, <1>5 DEF LoopStep

\* Callbacks and the network leave owners alone, and a removal that completes and a timer
\* that fires end in the destruction (callbacks.rs:389-418, session.rs:766-777).
LEMMA OwnersStep ==
  ASSUME "remove_op" \notin Faults, SafeInv, OwnersOK, [Next]_vars
  PROVE  OwnersOK'
<1>0. TypeOK /\ PortsOK
  BY DEF SafeInv, HoldInv, CallInv, TypeInv
<1>1. CASE \/ \E k \in Calls : \/ \E s \in Slots : Invite(k, s)
                               \/ Disconnected(k) \/ DisconnectedUnseen(k)
           \/ UNCHANGED vars
  <2>1. UNCHANGED <<sessions, loopPc, loopSession, removing, pc, deferred, freed>>
    BY <1>1 DEF Invite, Disconnected, DisconnectedUnseen, vars, pjsipVars, managerVars, taskVars,
      loopVars, memoryVars
  <2> QED
    BY <2>1, OwnersStay DEF LoopHolds
<1>2. CASE (\E k \in Calls : MediaTake(k)) \/ \E s \in Slots : MediaStep(s)
  BY <1>2, CallbackFrame, OwnersStay
<1>3. ASSUME NEW k \in Calls, RemovePortDone(k)
      PROVE  OwnersOK'
  <2>1. /\ removing' = removing \ {k} /\ freed' = freed \cup {k}
        /\ UNCHANGED <<sessions, loopPc, loopSession, pc, deferred>>
    BY <1>0, <1>3, RemovedPort, CallsAssumption
       DEF RemovePortDone, managerVars, taskVars, loopVars
  <2> QED
    BY <2>1 DEF OwnersOK, Owned, SessionHolds, LoopHolds
<1>4. ASSUME NEW k \in Calls, DeferredDestroy(k)
      PROVE  OwnersOK'
  BY <1>4 DEF DeferredDestroy, OwnersOK, Owned, SessionHolds, LoopHolds, pjsipVars, managerVars,
    taskVars, loopVars
<1>5. \A k \in Calls : ~RemovePortFailed(k)
  BY DEF RemovePortFailed
<1> QED
  BY <1>1, <1>2, <1>3, <1>4, <1>5, SetupHandsOver, LoopHandsOver DEF Next

\* As long as pjsua reuses an id only when the bridge has nothing left under it, and no
\* REMOVE_PORT operation fails once started, every port that its setup task has let go
\* of has been destroyed or has somebody who will: the teardowns that leave a port alone
\* (session.rs:655-660, 938-945) are never taken.
THEOREM NoPortIsLost ==
  NoReuse /\ "remove_op" \notin Faults => (Spec => []PortNeverLost)
<1> SUFFICES ASSUME NoReuse, "remove_op" \notin Faults
             PROVE  Spec => []PortNeverLost
  OBVIOUS
<1>1. Init => OwnersOK
  BY DEF Init, OwnersOK
<1>2. SafeInv /\ OwnersOK /\ [Next]_vars => OwnersOK'
  BY OwnersStep
<1>3. SafeInv /\ OwnersOK => PortNeverLost
  BY DEF SafeInv, PortsOK, PortOK, CleanedUp, OwnersOK, Owned, CleanupHolds, PortNeverLost
<1> QED
  BY <1>1, <1>2, <1>3, Safe, PTL DEF Spec

-----------------------------------------------------------------------------
(* The ports live the life of MediaPortContract. *)

\* A step that is about the port of one call moves that port alone.
LEMMA OneStatus ==
  ASSUME NEW k \in Calls, NEW from, NEW to,
         \A j \in Calls \ {k} : /\ pc'[j] = pc[j]
                                /\ j \in attached' <=> j \in attached
                                /\ j \in removing' <=> j \in removing
                                /\ j \in freed' <=> j \in freed,
         PortStatus[k] = from, PortStatus'[k] = to
  PROVE  Contract!Becomes(k, from, to)
<1>1. \A j \in Calls \ {k} : PortStatus'[j] = PortStatus[j]
  BY DEF PortStatus
<1>2. /\ PortStatus = [j \in Calls |-> PortStatus[j]]
      /\ PortStatus' = [j \in Calls |-> PortStatus'[j]]
  BY DEF PortStatus
<1>3. PortStatus' = [PortStatus EXCEPT ![k] = to]
  BY <1>1, <1>2
<1> QED
  BY <1>3 DEF Contract!Becomes

\* So a step keeps the contract if it leaves that port's state as it is, or takes it
\* to one of the next states.
LEMMA StatusStep ==
  ASSUME NEW k \in Calls,
         \A j \in Calls \ {k} : /\ pc'[j] = pc[j]
                                /\ j \in attached' <=> j \in attached
                                /\ j \in removing' <=> j \in removing
                                /\ j \in freed' <=> j \in freed,
         <<PortStatus[k], PortStatus'[k]>> \in
            {<<"none", "created">>, <<"created", "attached">>, <<"attached", "removing">>,
             <<"removing", "destroyed">>, <<"created", "destroyed">>}
           \cup {<<st, st>> : st \in {"none", "created", "attached", "removing", "destroyed"}}
  PROVE  [Contract!Next]_PortStatus
<1>1. CASE PortStatus'[k] = PortStatus[k]
  <2>1. PortStatus' = PortStatus
    BY <1>1 DEF PortStatus
  <2> QED
    BY <2>1
<1>2. CASE PortStatus'[k] # PortStatus[k]
  <2>1. \/ Contract!Becomes(k, "none", "created") \/ Contract!Becomes(k, "created", "attached")
        \/ Contract!Becomes(k, "attached", "removing")
        \/ Contract!Becomes(k, "removing", "destroyed")
        \/ Contract!Becomes(k, "created", "destroyed")
    BY <1>2, OneStatus
  <2> QED
    BY <2>1 DEF Contract!Next, Contract!Create, Contract!Attach, Contract!Remove,
      Contract!Complete, Contract!Discard
<1> QED
  BY <1>1, <1>2

\* A port that the bridge still has an owner for is not destroyed.
LEMMA HeldNotFreed ==
  ASSUME HoldInv, NEW k \in Calls, UsesPort(k) \/ pc[k] \notin {"post", "done"}
  PROVE  k \notin freed
  BY DEF HoldInv, HandedOver, PortHeldOnce, UsesPort, TaskHolds

\* When moreover no removal fails, every step of the bridge takes a port at most one
\* step on in its life.
LEMMA ContractStep ==
  ASSUME RemovalsStart, "remove_op" \notin Faults, SafeInv, SafeInv', [Next]_vars
  PROVE  [Contract!Next]_PortStatus
<1>0. TypeOK /\ LocalsOK /\ HoldInv /\ IdsOK /\ PortsOK /\ EventsOnce
  BY DEF SafeInv, HoldInv, CallInv, TypeInv
<1> DEFINE Unborn == {"none", "spawned", "lookup", "rejected"}
<1>1. \A k \in Calls : pc[k] \in Unborn => k \notin freed /\ k \notin removing /\ k \notin attached
  BY <1>0, HeldNotFreed DEF PortsOK, PortOK, Located, Nowhere, Idle
<1>2. ASSUME NEW k \in Calls, UNCHANGED <<attached, removing, freed>>,
             \A j \in Calls \ {k} : pc'[j] = pc[j],
             pc[k] \notin Unborn => pc'[k] \notin Unborn
      PROVE  [Contract!Next]_PortStatus
  <2>1. <<PortStatus[k], PortStatus'[k]>> \in
            {<<"none", "created">>}
           \cup {<<st, st>> : st \in {"none", "created", "attached", "removing", "destroyed"}}
    BY <1>1, <1>2 DEF PortStatus
  <2> QED
    BY <1>2, <2>1, StatusStep
<1>3. CASE UNCHANGED <<pc, attached, removing, freed>>
  <2>1. PortStatus' = PortStatus
    BY <1>3 DEF PortStatus
  <2> QED
    BY <2>1
<1>4. ASSUME NEW k \in Calls, StaysPut(k)
      PROVE  [Contract!Next]_PortStatus
  <2>1. /\ UNCHANGED <<attached, removing, freed>>
        /\ \A j \in Calls \ {k} : pc'[j] = pc[j]
    BY <1>4, StaysPutFrame
  <2>2. pc[k] \notin Unborn => pc'[k] \notin Unborn
    BY <1>0, <1>4
       DEF StaysPut, GateReject, GateAdmit, CreatePort, RegisterMediaReady, InsertPendingSetup,
           Answer, AnswerFails, MediaReady, MediaDropped, MediaCancelled, IntroDone,
           SetupCancelled, ConnectOk, ConnectFails, Commit, AbortOwned, AfterAbort, Abort, Goto,
           TypeOK
  <2> QED
    BY <1>2, <2>1, <2>2
<1>5. ASSUME NEW k \in Calls, MovesPort(k)
      PROVE  [Contract!Next]_PortStatus
  <2>1. /\ \A j \in Calls \ {k} : /\ pc'[j] = pc[j]
                                  /\ j \in attached' <=> j \in attached
                                  /\ j \in removing' <=> j \in removing
                                  /\ j \in freed' <=> j \in freed
        /\ attached' = attached /\ PortOK(k)
    BY <1>0, <1>5, MovesPortStep, MovesPortFrame DEF OnlyOf, PortsOK
  <2>2. CASE RegisterPendingPort(k) \/ UnregisterPendingPort(k) \/ StoreSession(k)
    <3>1. /\ UNCHANGED <<attached, removing, freed>>
          /\ pc'[k] \notin Unborn
      BY <1>0, <2>2 DEF RegisterPendingPort, UnregisterPendingPort, StoreSession, Goto, TypeOK,
        pjsipVars, memoryVars
    <3> QED
      BY <1>2, <2>1, <3>1
  <2>3. CASE CleanupMediaPort(k) \/ LateTeardown(k)
    <3>1. /\ pc[k] \in {"clean2", "late"} /\ pc'[k] \in {"post", "done"}
          /\ k \notin freed /\ k \notin removing
      <4>1. pc[k] \in {"clean2", "late"} /\ pc'[k] \in {"post", "done"}
        BY <1>0, <2>3 DEF CleanupMediaPort, LateTeardown, Goto, TypeOK
      <4> QED
        BY <1>0, <2>1, <4>1, HeldNotFreed DEF PortOK, Located, Nowhere, OnBridge, Idle
    <3>2. \/ k \in freed' /\ k \notin attached
          \/ k \notin freed' /\ k \in removing' /\ k \in attached
      <4>1. slotOf[k] \in Slots
        BY <1>5, MovesPortFrame
      <4>2. CASE CleanupMediaPort(k) /\ wasPending[k]
        BY <2>1, <3>1, <4>2
           DEF CleanupMediaPort, RetireOwned, PortOK, Located, Nowhere, Goto
      <4>3. CASE ~(CleanupMediaPort(k) /\ wasPending[k])
        <5>1. OnBridge(k)
          BY <2>1, <2>3, <3>1, <4>3
             DEF CleanupMediaPort, LateTeardown, PortOK, Located, Goto
        <5>2. StartRemoval(slotOf[k], k)
          BY <2>1, <2>3, <4>3, <5>1, CallsAssumption
             DEF CleanupMediaPort, RetireOwned, LateTeardown, OnBridge, PortOK, Registered, Goto
        <5> QED
          BY <1>0, <3>1, <4>1, <5>1, <5>2, StartRemovalOwn DEF OnBridge
      <4> QED
        BY <4>2, <4>3
    <3>3. <<PortStatus[k], PortStatus'[k]>> \in
            {<<"attached", "removing">>, <<"created", "destroyed">>}
      BY <2>1, <3>1, <3>2 DEF PortStatus
    <3> QED
      BY <2>1, <3>3, StatusStep
  <2> QED
    BY <1>5, <2>2, <2>3 DEF MovesPort
<1>6. ASSUME NEW k \in Calls, AbortRecycled(k)
      PROVE  FALSE
  BY <1>0, <1>6
     DEF AbortRecycled, OwnsCallId, PortsOK, PortOK, Registered, RegisteredPcs, Goto
<1>7. ASSUME NEW s \in Slots, MediaAdd(s)
      PROVE  [Contract!Next]_PortStatus
  <2>1. PICK k \in Calls : cbPort[s] = k /\ slotOf[k] = s /\ pc[k] = "media" /\ InCallback(k)
    BY <1>7, CallbackPort DEF MediaAdd
  <2>2. /\ attached' = attached \cup {k} /\ UNCHANGED <<pc, removing, freed>>
        /\ k \notin attached /\ k \notin removing /\ k \notin freed
    BY <1>0, <1>7, <2>1, HeldNotFreed DEF MediaAdd, InCallback, taskVars, memoryVars
  <2>3. <<PortStatus[k], PortStatus'[k]>> = <<"created", "attached">>
    BY <2>1, <2>2 DEF PortStatus
  <2> QED
    BY <2>2, <2>3, StatusStep
<1>8. ASSUME NEW k \in Calls, RemovePortDone(k)
      PROVE  [Contract!Next]_PortStatus
  <2>1. /\ k \in removing /\ removing' = removing \ {k} /\ attached' = attached \ {k}
        /\ freed' = freed \cup {k} /\ pc' = pc
    BY <1>0, <1>8, RemovedPort, CallsAssumption DEF RemovePortDone, taskVars
  <2>2. k \notin freed
    BY <1>0, <2>1, RemovedPort DEF PortsOK, PortOK, CleanedUp
  <2>3. <<PortStatus[k], PortStatus'[k]>> = <<"removing", "destroyed">>
    BY <2>1, <2>2 DEF PortStatus
  <2> QED
    BY <2>1, <2>3, StatusStep
<1>9. ASSUME TeardownRetire
      PROVE  [Contract!Next]_PortStatus
  <2>1. PICK k \in Calls : /\ k = loopSession /\ ~loopPending /\ LoopHolds(k)
    BY <1>0, <1>9 DEF TeardownRetire, PortsOK, LocalsOK, LoopHolds
  <2>2. /\ slotOf[k] = loopSlot /\ loopSlot \in Slots /\ OnBridge(k) /\ pc[k] = "done"
        /\ k \notin freed /\ k \notin removing
    BY <2>1, LoopPort
  <2>3. StartRemoval(loopSlot, k) /\ UNCHANGED <<pc, attached>>
    BY <1>9, <2>1, <2>2, CallsAssumption DEF TeardownRetire, OnBridge, taskVars
  <2>4. removing' = removing \cup {k} /\ freed' = freed /\ k \in attached
    BY <1>0, <2>2, <2>3, StartRemovalOwn DEF OnBridge
  <2>5. <<PortStatus[k], PortStatus'[k]>> = <<"attached", "removing">>
    BY <2>2, <2>3, <2>4 DEF PortStatus
  <2> QED
    BY <2>3, <2>4, <2>5, StatusStep
<1>10. ASSUME HandleIncoming
       PROVE  [Contract!Next]_PortStatus
  <2>1. 1 \in 1..Len(events) /\ events[1] = Head(events) /\ Head(events).kind = "incoming"
    BY <1>0, <1>10 DEF HandleIncoming, TypeOK
  <2>2. PICK k \in Calls : k = Head(events).call /\ pc[k] = "none"
    BY <1>0, <2>1, EventCalls DEF EventsOnce, TypeOK
  <2>3. /\ pc' = [pc EXCEPT ![k] = "spawned"] /\ UNCHANGED <<attached, removing, freed>>
    BY <1>10, <2>2 DEF HandleIncoming, pjsipVars, memoryVars
  <2>4. \A j \in Calls \ {k} : pc'[j] = pc[j]
    BY <1>0, <2>3 DEF TypeOK
  <2> QED
    BY <1>2, <2>2, <2>3, <2>4
<1>11. ASSUME NEW k \in Calls, DeferredDestroy(k) \/ RemovePortFailed(k)
       PROVE  FALSE
  BY <1>0, <1>11 DEF DeferredDestroy, RemovePortFailed, PortsOK, PortOK, CleanedUp
<1>12. CASE \/ \E k \in Calls : \/ \E s \in Slots : Invite(k, s)
                                \/ Disconnected(k) \/ DisconnectedUnseen(k) \/ MediaTake(k)
            \/ \E s \in Slots : MediaPutBack(s) \/ MediaPublish(s) \/ MediaNotify(s)
  BY <1>3, <1>12 DEF Invite, Disconnected, DisconnectedUnseen, MediaTake, MediaPutBack,
    MediaPublish, MediaNotify, taskVars, memoryVars
<1>13. CASE HandleDisconnected \/ HandleDisconnectedNoSession \/ CancelPendingSetup
            \/ TeardownTakePending
  BY <1>3, <1>13 DEF HandleDisconnected, HandleDisconnectedNoSession, CancelPendingSetup,
    TeardownTakePending, pjsipVars, taskVars, memoryVars
<1>14. CASE UNCHANGED vars
  BY <1>3, <1>14 DEF vars, pjsipVars, taskVars, memoryVars
<1>15. ASSUME NEW k \in Calls, SetupStep(k)
       PROVE  [Contract!Next]_PortStatus
  BY <1>4, <1>5, <1>6, <1>15 DEF SetupStep, StaysPut, MovesPort
<1>16. ASSUME NEW s \in Slots, MediaStep(s)
       PROVE  [Contract!Next]_PortStatus
  BY <1>7, <1>12, <1>16 DEF MediaStep
<1>17. CASE LoopStep
  BY <1>9, <1>10, <1>13, <1>17 DEF LoopStep
<1> HIDE DEF Unborn
<1> QED
  BY <1>8, <1>11, <1>12, <1>14, <1>15, <1>16, <1>17 DEF Next

\* When removals neither fail to start nor complete with an error, the bridge implements
\* MediaPortContract: every port is destroyed once, and only when it was never on the
\* conference bridge or after its REMOVE_PORT has completed (media_port.rs:126-130,
\* session.rs:743-777).
THEOREM PortContractKept ==
  NoReuse /\ RemovalsStart /\ "remove_op" \notin Faults => (Spec => ImplementsPortContract)
<1> SUFFICES ASSUME NoReuse, RemovalsStart, "remove_op" \notin Faults
             PROVE  Spec => ImplementsPortContract
  OBVIOUS
<1>1. Init => Contract!Init
  BY DEF Init, Contract!Init, PortStatus
<1>2. SafeInv /\ SafeInv' /\ [Next]_vars => [Contract!Next]_PortStatus
  BY ContractStep
<1> QED
  BY <1>1, <1>2, Safe, PTL DEF Spec, ImplementsPortContract, Contract!Spec
=============================================================================
