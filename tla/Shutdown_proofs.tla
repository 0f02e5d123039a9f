--------------------------- MODULE Shutdown_proofs ---------------------------
(***************************************************************************)
(* Proof that a shutdown no deadline has forced cuts off no write of a     *)
(* channel, for any finite number of calls, however setup tasks, callers   *)
(* and writes interleave with the signal, the drain and the flush, and     *)
(* that no call is missed before.                                          *)
(***************************************************************************)
EXTENDS Shutdown, FiniteSetTheorems, TLAPS

\* A queued "incoming" event is the only one of its call, which the bridge has
\* not heard of yet.
EventsOK ==
    /\ \A c \in Calls : sip[c] = "none" => call[c] = "none"
    /\ \A i \in 1..Len(events) : events[i].type = "incoming" =>
         call[events[i].call] = "none" /\ sip[events[i].call] # "none"
    /\ \A i, j \in 1..Len(events) :
         events[i].type = "incoming" /\ events[j].type = "incoming"
           /\ events[i].call = events[j].call => i = j

Active == {c \in Calls : call[c] = "active"}

\* Where the channel of an established call with a number is: still in its session, in
\* a write under way, or tried on the database.  Once the drain is over, it has left the
\* session, and every write under way is one that the flush awaits.
ChannelsKept ==
    /\ stage \notin {"flush", "exit"} => awaited = {}
    /\ stage \in Startup => established = {}
    /\ established \cap Numbered \subseteq Active \cup writes \cup written \cup refused
    /\ stage \in {"flush", "exit"} /\ ~forced =>
         established \cap Numbered \subseteq writes \cup written \cup refused
    /\ stage = "flush" => writes \subseteq awaited

ShutdownInv == TypeOK /\ EventsOK /\ ChannelsKept /\ NoWriteCutOff

\* The process starts without calls, events and writes.
LEMMA ShutdownInvInit == Init => ShutdownInv
<1> SUFFICES ASSUME Init PROVE ShutdownInv
  OBVIOUS
<1>1. events \in Seq(Events) /\ Len(events) = 0
  BY DEF Init
<1>2. TypeOK
  BY <1>1 DEF Init, TypeOK, Stages, Startup
<1>3. EventsOK
  BY <1>1 DEF Init, EventsOK
<1>4. ChannelsKept /\ NoWriteCutOff
  BY DEF Init, ChannelsKept, NoWriteCutOff, Startup
<1> QED
  BY <1>2, <1>3, <1>4 DEF ShutdownInv

\* What Append does to the queue of events.
LEMMA AppendEvent ==
  ASSUME TypeOK, NEW t \in {"incoming", "disconnected"}, NEW c \in Calls, Event(t, c)
  PROVE  /\ events' \in Seq(Events)
         /\ Len(events') = Len(events) + 1
         /\ \A i \in 1..Len(events) : events'[i] = events[i]
         /\ events'[Len(events) + 1].type = t /\ events'[Len(events) + 1].call = c
<1> DEFINE e == [type |-> t, call |-> c]
<1>1. e \in Events /\ e.type = t /\ e.call = c
  BY DEF Events
<1>2. events' = Append(events, e)
  BY DEF Event
<1> HIDE DEF e
<1> QED
  BY <1>1, <1>2 DEF TypeOK

\* What taking an event off the queue does.
LEMMA TailEvents ==
  ASSUME TypeOK, events # <<>>, events' = Tail(events)
  PROVE  /\ events' \in Seq(Events)
         /\ Len(events') = Len(events) - 1 /\ Len(events) \in Nat
         /\ \A i \in 1..Len(events') : events'[i] = events[i + 1] /\ i + 1 \in 1..Len(events)
         /\ Head(events) = events[1] /\ 1 \in 1..Len(events)
         /\ Head(events).call \in Calls
<1>1. events \in Seq(Events)
  BY DEF TypeOK
<1>2. Head(events) \in Events /\ Head(events) = events[1]
  BY <1>1
<1> QED
  BY <1>1, <1>2 DEF Events

\* A step of startup, or the end of it, only moves main on.
LEMMA StartupStep ==
  ASSUME Boot \/ ServiceUp \/ Killed
  PROVE  /\ stage \in Startup /\ stage' \in Startup \cup {"run", "exit"}
         /\ UNCHANGED <<forced, sip, bridgeVars, events, writeVars>>
BY DEF Boot, Killed, ProbeFails, ServiceUp, ProbeTimeout, StoreOpens, EndpointStarts,
       Registered, StartupFails, Advance, Startup

\* Every step keeps the types; writes never outlives the handles that wait for it.
LEMMA TypeOKStep == ShutdownInv /\ [Next]_vars => TypeOK'
<1> SUFFICES ASSUME ShutdownInv, [Next]_vars
             PROVE  TypeOK'
  OBVIOUS
<1> USE DEF ShutdownInv, Stages, Startup, bridgeVars, writeVars
<1>1. ASSUME NEW c \in Calls, Invite(c) PROVE TypeOK'
  <2>1. events' \in Seq(Events)
    BY <1>1, AppendEvent DEF Invite
  <2> QED
    BY <1>1, <2>1 DEF Invite, TypeOK
<1>2. ASSUME NEW c \in Calls, Disconnected(c) PROVE TypeOK'
  <2>1. events' \in Seq(Events)
    BY <1>2, AppendEvent DEF Disconnected
  <2> QED
    BY <1>2, <2>1 DEF Disconnected, TypeOK
<1>3. ASSUME NEW c \in Calls, SetupDone(c) PROVE TypeOK'
  BY <1>3 DEF SetupDone, TypeOK
<1>4. ASSUME NEW c \in Calls, SetupFails(c) PROVE TypeOK'
  BY <1>4 DEF SetupFails, TypeOK
<1>5. ASSUME NEW c \in Calls, WriteDone(c) \/ WriteFails(c) PROVE TypeOK'
  BY <1>5 DEF WriteDone, WriteFails, WriteEnds, TypeOK
<1>6. ASSUME Signal PROVE TypeOK'
  BY <1>6 DEF Signal, TypeOK
<1>7. ASSUME HandleIncoming PROVE TypeOK'
  <2> DEFINE c == Head(events).call
  <2>1. c \in Calls /\ events' \in Seq(Events)
    BY <1>7, TailEvents DEF HandleIncoming
  <2>2. /\ call' = [call EXCEPT ![c] = "setup"] \/ call' = [call EXCEPT ![c] = "gone"]
        /\ sip' = sip \/ sip' = [sip EXCEPT ![c] = IF @ = "up" THEN "closing" ELSE @]
        /\ UNCHANGED <<stage, forced, cancelled, writeVars>>
    BY <1>7 DEF HandleIncoming
  <2> QED
    BY <2>1, <2>2 DEF TypeOK
<1>8. ASSUME IgnoreIncoming PROVE TypeOK'
  BY <1>8, TailEvents DEF IgnoreIncoming, TypeOK
<1>9. ASSUME HandleDisconnected PROVE TypeOK'
  <2> DEFINE c == Head(events).call
  <2>1. c \in Calls /\ events' \in Seq(Events)
    BY <1>9, TailEvents DEF HandleDisconnected
  <2>2. CASE call[c] = "active"
    <3>1. Teardown(c) /\ UNCHANGED <<stage, forced, sip>> /\ awaited = {}
      BY <1>9, <2>2 DEF HandleDisconnected, CallDisconnected, ChannelsKept
    <3> QED
      BY <2>1, <3>1 DEF Teardown, TypeOK
  <2>3. CASE call[c] # "active"
    BY <1>9, <2>1, <2>3 DEF HandleDisconnected, CallDisconnected, TypeOK
  <2> QED
    BY <2>2, <2>3
<1>10. ASSUME Drained \/ DrainTimeout \/ Flushed \/ FlushTimeout PROVE TypeOK'
  BY <1>10 DEF Drained, DrainTimeout, Flushed, FlushTimeout, TypeOK, ChannelsKept
<1>11. ASSUME UNCHANGED vars PROVE TypeOK'
  BY <1>11 DEF vars, TypeOK
<1>12. ASSUME Boot \/ ServiceUp \/ Killed PROVE TypeOK'
  BY <1>12, StartupStep DEF TypeOK
<1> QED
  BY <1>1, <1>2, <1>3, <1>4, <1>5, <1>6, <1>7, <1>8, <1>9, <1>10, <1>11, <1>12
     DEF Next, Main

\* An INVITE is queued once, and its call stays unknown to the bridge until the
\* main loop takes the event.
LEMMA EventsOKStep == ShutdownInv /\ [Next]_vars => EventsOK'
<1> SUFFICES ASSUME ShutdownInv, [Next]_vars
             PROVE  EventsOK'
  OBVIOUS
<1> USE DEF ShutdownInv, EventsOK, bridgeVars, writeVars
<1>0. /\ sip \in [Calls -> {"none", "up", "closing", "down"}]
      /\ call \in [Calls -> {"none", "setup", "active", "gone"}]
      /\ Len(events) \in Nat
      /\ \A i \in 1..Len(events) : events[i].call \in Calls
  <2>1. events \in Seq(Events)
    BY DEF TypeOK
  <2>2. \A i \in 1..Len(events) : events[i] \in Events
    BY <2>1
  <2> QED
    BY <2>1, <2>2 DEF TypeOK, Events
<1>1. ASSUME NEW c \in Calls, Invite(c) PROVE EventsOK'
  <2>1. /\ Len(events') = Len(events) + 1
        /\ \A i \in 1..Len(events) : events'[i] = events[i]
        /\ events'[Len(events) + 1].call = c
    BY <1>1, AppendEvent DEF Invite
  <2>2. sip[c] = "none" /\ sip' = [sip EXCEPT ![c] = "up"] /\ call' = call
    BY <1>1 DEF Invite
  <2>3. \A i \in 1..Len(events) : events[i].type = "incoming" => events[i].call # c
    BY <2>2
  <2>4. \A i \in 1..Len(events') : i \in 1..Len(events) \/ i = Len(events) + 1
    BY <1>0, <2>1
  <2> QED
    BY <1>0, <2>1, <2>2, <2>3, <2>4
<1>2. ASSUME NEW c \in Calls, Disconnected(c) PROVE EventsOK'
  <2>1. /\ Len(events') = Len(events) + 1
        /\ \A i \in 1..Len(events) : events'[i] = events[i]
        /\ events'[Len(events) + 1].type = "disconnected"
    BY <1>2, AppendEvent DEF Disconnected
  <2>2. sip' = [sip EXCEPT ![c] = "down"] /\ call' = call /\ sip[c] # "none"
    BY <1>2 DEF Disconnected
  <2>3. \A i \in 1..Len(events') : events'[i].type = "incoming" =>
          i \in 1..Len(events) /\ events'[i] = events[i]
    BY <1>0, <2>1
  <2> QED
    BY <1>0, <2>2, <2>3
<1>3. ASSUME NEW c \in Calls, SetupDone(c) PROVE EventsOK'
  BY <1>0, <1>3 DEF SetupDone
<1>4. ASSUME NEW c \in Calls, SetupFails(c) PROVE EventsOK'
  BY <1>0, <1>4 DEF SetupFails
<1>5. ASSUME NEW c \in Calls, WriteDone(c) \/ WriteFails(c) PROVE EventsOK'
  BY <1>5 DEF WriteDone, WriteFails, WriteEnds
<1>6. ASSUME Signal PROVE EventsOK'
  BY <1>0, <1>6 DEF Signal
<1>7. ASSUME HandleIncoming PROVE EventsOK'
  <2>1. /\ Len(events') = Len(events) - 1
        /\ \A i \in 1..Len(events') : events'[i] = events[i + 1] /\ i + 1 \in 1..Len(events)
        /\ Head(events) = events[1] /\ 1 \in 1..Len(events)
    BY <1>7, TailEvents DEF HandleIncoming
  <2>2. /\ events[1].type = "incoming"
        /\ \/ call' = [call EXCEPT ![events[1].call] = "setup"]
           \/ call' = [call EXCEPT ![events[1].call] = "gone"]
        /\ \/ sip' = sip
           \/ sip' = [sip EXCEPT ![events[1].call] = IF @ = "up" THEN "closing" ELSE @]
    BY <1>7, <2>1 DEF HandleIncoming
  <2>3. \A i \in 1..Len(events') : events'[i].type = "incoming" => events'[i].call # events[1].call
    BY <1>0, <2>1, <2>2
  <2>4. /\ events[1].call \in Calls /\ sip[events[1].call] # "none"
        /\ \A c \in Calls : sip'[c] = "none" <=> sip[c] = "none"
        /\ \A c \in Calls : c # events[1].call => call'[c] = call[c]
    BY <1>0, <2>1, <2>2
  <2>5. \A c \in Calls : sip'[c] = "none" => call'[c] = "none"
    BY <2>4
  <2>6. \A i \in 1..Len(events') : events'[i].type = "incoming" =>
          call'[events'[i].call] = "none" /\ sip'[events'[i].call] # "none"
    BY <1>0, <2>1, <2>3, <2>4
  <2>7. \A i, j \in 1..Len(events') :
          events'[i].type = "incoming" /\ events'[j].type = "incoming"
            /\ events'[i].call = events'[j].call => i = j
    BY <1>0, <2>1
  <2> QED
    BY <2>5, <2>6, <2>7
<1>8. ASSUME IgnoreIncoming \/ HandleDisconnected PROVE EventsOK'
  <2>1. /\ Len(events') = Len(events) - 1
        /\ \A i \in 1..Len(events') : events'[i] = events[i + 1] /\ i + 1 \in 1..Len(events)
        /\ Head(events).call \in Calls
    BY <1>8, TailEvents DEF IgnoreIncoming, HandleDisconnected
  <2>2. \/ sip' = sip /\ call' = call
        \/ \E c \in Calls : call[c] = "active" /\ sip' = sip /\ call' = [call EXCEPT ![c] = "gone"]
    BY <1>8, <2>1 DEF IgnoreIncoming, HandleDisconnected, CallDisconnected, Teardown
  <2>3. \A c \in Calls : (call[c] = "none" => call'[c] = "none") /\ sip'[c] = sip[c]
    BY <1>0, <2>2
  <2>4. ASSUME NEW i \in 1..Len(events'), events'[i].type = "incoming"
        PROVE  call'[events'[i].call] = "none" /\ sip'[events'[i].call] # "none"
    <3>1. i + 1 \in 1..Len(events) /\ events'[i] = events[i + 1]
      BY <2>1
    <3>2. call[events[i + 1].call] = "none" /\ sip[events[i + 1].call] # "none"
      BY <2>4, <3>1
    <3> QED
      BY <1>0, <2>3, <3>1, <3>2
  <2>5. ASSUME NEW i \in 1..Len(events'), NEW j \in 1..Len(events'),
               events'[i].type = "incoming", events'[j].type = "incoming",
               events'[i].call = events'[j].call
        PROVE  i = j
    <3>1. /\ i + 1 \in 1..Len(events) /\ events'[i] = events[i + 1]
          /\ j + 1 \in 1..Len(events) /\ events'[j] = events[j + 1]
      BY <2>1
    <3>2. i + 1 = j + 1
      BY <2>5, <3>1
    <3> QED
      BY <1>0, <2>1, <3>2
  <2>6. \A c \in Calls : sip'[c] = "none" => call'[c] = "none"
    BY <2>3
  <2> QED
    BY <2>4, <2>5, <2>6
<1>9. ASSUME Drained \/ DrainTimeout \/ Flushed \/ FlushTimeout PROVE EventsOK'
  BY <1>9 DEF Drained, DrainTimeout, Flushed, FlushTimeout
<1>10. ASSUME UNCHANGED vars PROVE EventsOK'
  BY <1>10 DEF vars
<1>11. ASSUME Boot \/ ServiceUp \/ Killed PROVE EventsOK'
  BY <1>11, StartupStep
<1> QED
  BY <1>1, <1>2, <1>3, <1>4, <1>5, <1>6, <1>7, <1>8, <1>9, <1>10, <1>11
     DEF Next, Main

\* The drain ends by itself only when no session is left.
LEMMA NobodyActive ==
  ASSUME ActiveCallCount = 0
  PROVE  Active = {}
<1>1. IsFiniteSet(Active)
  BY CallsAssumption, FS_Subset DEF Active
<1> QED
  BY <1>1, FS_EmptySet DEF ActiveCallCount, Active

\* A channel moves from session to write to database, and no write falls between the
\* reaping of handles, the drain and the flush.
LEMMA ChannelsKeptStep == ShutdownInv /\ [Next]_vars => ChannelsKept' /\ NoWriteCutOff'
<1> SUFFICES ASSUME ShutdownInv, [Next]_vars
             PROVE  ChannelsKept' /\ NoWriteCutOff'
  OBVIOUS
<1> USE DEF ShutdownInv, ChannelsKept, NoWriteCutOff, Active, Startup, bridgeVars, writeVars
<1>0. /\ call \in [Calls -> {"none", "setup", "active", "gone"}]
      /\ stage \in Stages
      /\ writes \subseteq pending \cup awaited
      /\ established \subseteq Calls
  BY DEF TypeOK
<1>1. ASSUME NEW c \in Calls, Invite(c) \/ Disconnected(c)
      PROVE  ChannelsKept' /\ NoWriteCutOff'
  BY <1>1 DEF Invite, Disconnected
<1>2. ASSUME NEW c \in Calls, SetupDone(c) \/ SetupFails(c)
      PROVE  ChannelsKept' /\ NoWriteCutOff'
  BY <1>0, <1>2 DEF SetupDone, SetupFails
<1>3. ASSUME NEW c \in Calls, WriteDone(c) \/ WriteFails(c)
      PROVE  ChannelsKept' /\ NoWriteCutOff'
  BY <1>3 DEF WriteDone, WriteFails, WriteEnds
<1>4. ASSUME Signal
      PROVE  ChannelsKept' /\ NoWriteCutOff'
  BY <1>4 DEF Signal
<1>5. ASSUME HandleIncoming
      PROVE  ChannelsKept' /\ NoWriteCutOff'
  <2> DEFINE c == Head(events).call
  <2>1. c \in Calls /\ Head(events) = events[1] /\ 1 \in 1..Len(events)
    BY <1>5, TailEvents DEF HandleIncoming
  <2>2. call[c] # "active"
    BY <1>5, <2>1 DEF HandleIncoming, EventsOK
  <2> QED
    BY <1>0, <1>5, <2>1, <2>2 DEF HandleIncoming
<1>6. ASSUME IgnoreIncoming
      PROVE  ChannelsKept' /\ NoWriteCutOff'
  BY <1>6 DEF IgnoreIncoming
<1>7. ASSUME HandleDisconnected
      PROVE  ChannelsKept' /\ NoWriteCutOff'
  <2> DEFINE c == Head(events).call
  <2>1. c \in Calls
    BY <1>7, TailEvents DEF HandleDisconnected
  <2>2. CASE call[c] = "active"
    <3>1. Teardown(c) /\ UNCHANGED <<stage, forced>> /\ stage \in {"run", "drain"}
      BY <1>7, <2>2 DEF HandleDisconnected, CallDisconnected
    <3> HIDE DEF c
    <3> QED
      BY <1>0, <2>1, <3>1 DEF Teardown
  <2>3. CASE call[c] # "active"
    BY <1>7, <2>3 DEF HandleDisconnected, CallDisconnected
  <2> QED
    BY <2>2, <2>3
<1>8. ASSUME Drained
      PROVE  ChannelsKept' /\ NoWriteCutOff'
  <2>1. Active = {}
    BY <1>8, NobodyActive DEF Drained
  <2> QED
    BY <1>0, <1>8, <2>1 DEF Drained
<1>9. ASSUME DrainTimeout
      PROVE  ChannelsKept' /\ NoWriteCutOff'
  BY <1>0, <1>9 DEF DrainTimeout
<1>10. ASSUME Flushed \/ FlushTimeout
       PROVE  ChannelsKept' /\ NoWriteCutOff'
  BY <1>10 DEF Flushed, FlushTimeout
<1>11. ASSUME UNCHANGED vars
       PROVE  ChannelsKept' /\ NoWriteCutOff'
  BY <1>11 DEF vars
<1>12. ASSUME Boot \/ ServiceUp \/ Killed
       PROVE  ChannelsKept' /\ NoWriteCutOff'
  BY <1>12, StartupStep
<1> QED
  BY <1>1, <1>2, <1>3, <1>4, <1>5, <1>6, <1>7, <1>8, <1>9, <1>10, <1>11, <1>12
     DEF Next, Main

\* The invariant holds at the start and is kept.
LEMMA ShutdownInvariant == Spec => []ShutdownInv
<1>1. ShutdownInv /\ [Next]_vars => ShutdownInv'
  BY TypeOKStep, EventsOKStep, ChannelsKeptStep DEF ShutdownInv
<1> QED
  BY ShutdownInvInit, <1>1, PTL DEF Spec

\* Unless a deadline forced the exit, every call with a number whose session was
\* established when the signal came, or torn down before, has had its channel written or
\* refused by the database: none of the writes is cut off (session.rs:787-801, 879-890,
\* main.rs:132-166), for any number of calls, with or without a number.
THEOREM NoWriteIsCutOff == Spec => []NoWriteCutOff
<1>1. ShutdownInv => NoWriteCutOff
  BY DEF ShutdownInv
<1> QED
  BY ShutdownInvariant, <1>1, PTL

\* main, calls, events and writes keep their types; a channel is written only while
\* somebody holds the handle of its write (session.rs:787-801).
THEOREM ShutdownTypes == Spec => []TypeOK
<1>1. ShutdownInv => TypeOK
  BY DEF ShutdownInv
<1> QED
  BY ShutdownInvariant, <1>1, PTL

\* A call that pjsip knows and the bridge has not heard of is in the queue.
EarlyCallsQueued ==
    stage \in Startup \cup {"run"} =>
      \A c \in Calls : sip[c] # "none" /\ call[c] = "none" =>
        \E i \in 1..Len(events) : events[i].type = "incoming" /\ events[i].call = c

\* The event of a call stays in the queue until the main loop takes it.
LEMMA EventStays ==
  ASSUME TypeOK, NEW c \in Calls, NEW i \in 1..Len(events),
         events[i].type = "incoming" /\ events[i].call = c,
         events' = events \/ \E t \in {"incoming", "disconnected"}, d \in Calls : Event(t, d)
  PROVE  \E j \in 1..Len(events') : events'[j].type = "incoming" /\ events'[j].call = c
<1>1. CASE events' = events
  BY <1>1
<1>2. CASE \E t \in {"incoming", "disconnected"}, d \in Calls : Event(t, d)
  <2>1. Len(events') = Len(events) + 1 /\ events'[i] = events[i]
    BY <1>2, AppendEvent
  <2>2. Len(events) \in Nat
    BY DEF TypeOK
  <2>3. i \in 1..Len(events')
    BY <2>1, <2>2
  <2> QED
    BY <2>1, <2>3
<1> QED
  BY <1>1, <1>2

\* What the main loop takes off the queue is about one call; the events of the others
\* move up.
LEMMA OthersMoveUp ==
  ASSUME TypeOK, events # <<>>, events' = Tail(events), NEW c \in Calls,
         Head(events).type = "incoming" => Head(events).call # c,
         NEW i \in 1..Len(events), events[i].type = "incoming" /\ events[i].call = c
  PROVE  \E j \in 1..Len(events') : events'[j].type = "incoming" /\ events'[j].call = c
<1>1. /\ Len(events') = Len(events) - 1 /\ Len(events) \in Nat
      /\ \A j \in 1..Len(events') : events'[j] = events[j + 1]
      /\ Head(events) = events[1]
  BY TailEvents
<1>2. i # 1
  BY <1>1
<1>3. i - 1 \in 1..Len(events') /\ (i - 1) + 1 = i
  BY <1>1, <1>2
<1>4. events'[i - 1] = events[i]
  BY <1>1, <1>3
<1> QED
  BY <1>3, <1>4

\* Calls reach the bridge through the queue alone, and only the loop empties it.
LEMMA EarlyCallsStep == ShutdownInv /\ EarlyCallsQueued /\ [Next]_vars => EarlyCallsQueued'
<1> SUFFICES ASSUME ShutdownInv, EarlyCallsQueued, [Next]_vars,
                    stage' \in Startup \cup {"run"},
                    NEW c \in Calls, sip'[c] # "none", call'[c] = "none"
             PROVE  \E j \in 1..Len(events') :
                      events'[j].type = "incoming" /\ events'[j].call = c
  BY DEF EarlyCallsQueued
<1>0. TypeOK
  BY DEF ShutdownInv
<1> USE DEF bridgeVars, writeVars
<1>1. ASSUME NEW d \in Calls, Invite(d)
      PROVE  \E j \in 1..Len(events') : events'[j].type = "incoming" /\ events'[j].call = c
  <2>1. /\ Len(events') = Len(events) + 1
        /\ events'[Len(events) + 1].type = "incoming" /\ events'[Len(events) + 1].call = d
        /\ Event("incoming", d)
    BY <1>0, <1>1, AppendEvent DEF Invite
  <2>2. Len(events) \in Nat
    BY <1>0 DEF TypeOK
  <2>3. Len(events) + 1 \in 1..Len(events')
    BY <2>1, <2>2
  <2>4. CASE c = d
    BY <2>1, <2>3, <2>4
  <2>5. CASE c # d
    <3>1. stage = stage' /\ sip[c] # "none" /\ call[c] = "none"
      BY <1>0, <1>1, <2>5 DEF Invite, TypeOK
    <3>2. PICK i \in 1..Len(events) : events[i].type = "incoming" /\ events[i].call = c
      BY <3>1 DEF EarlyCallsQueued
    <3> QED
      BY <1>0, <2>1, <3>2, EventStays
  <2> QED
    BY <2>4, <2>5
<1>2. ASSUME stage \in Startup \cup {"run"}, sip[c] # "none", call[c] = "none",
             events' = events \/ \E t \in {"incoming", "disconnected"}, d \in Calls : Event(t, d)
      PROVE  \E j \in 1..Len(events') : events'[j].type = "incoming" /\ events'[j].call = c
  <2>1. PICK i \in 1..Len(events) : events[i].type = "incoming" /\ events[i].call = c
    BY <1>2 DEF EarlyCallsQueued
  <2> QED
    BY <1>0, <1>2, <2>1, EventStays
<1>3. ASSUME NEW d \in Calls, Disconnected(d)
      PROVE  \E j \in 1..Len(events') : events'[j].type = "incoming" /\ events'[j].call = c
  <2>1. stage' = stage /\ call' = call /\ Event("disconnected", d)
    BY <1>3 DEF Disconnected
  <2>2. sip[c] # "none"
    BY <1>0, <1>3 DEF Disconnected, TypeOK
  <2> QED
    BY <1>2, <2>1, <2>2
<1>4. ASSUME NEW d \in Calls, SetupDone(d) \/ SetupFails(d) \/ WriteDone(d) \/ WriteFails(d)
      PROVE  \E j \in 1..Len(events') : events'[j].type = "incoming" /\ events'[j].call = c
  <2>1. stage' = stage /\ events' = events
    BY <1>4 DEF SetupDone, SetupFails, WriteDone, WriteFails, WriteEnds
  <2>2. sip[c] # "none" /\ call[c] = "none"
    BY <1>0, <1>4 DEF SetupDone, SetupFails, WriteDone, WriteFails, WriteEnds, TypeOK
  <2> QED
    BY <1>2, <2>1, <2>2
<1>5. ASSUME Boot \/ ServiceUp \/ Killed
      PROVE  \E j \in 1..Len(events') : events'[j].type = "incoming" /\ events'[j].call = c
  BY <1>2, <1>5, StartupStep
<1>6. CASE HandleIncoming
  <2> DEFINE d == Head(events).call
  <2>1. /\ stage' = stage /\ events # <<>> /\ events' = Tail(events)
        /\ call' = [call EXCEPT ![d] = "setup"] \/ call' = [call EXCEPT ![d] = "gone"]
        /\ sip' = sip \/ sip' = [sip EXCEPT ![d] = IF @ = "up" THEN "closing" ELSE @]
    BY <1>6 DEF HandleIncoming
  <2>2. d \in Calls
    BY <1>0, <2>1, TailEvents
  <2>3. d # c /\ call[c] = "none" /\ sip[c] # "none"
    BY <1>0, <2>1, <2>2 DEF TypeOK
  <2>4. PICK i \in 1..Len(events) : events[i].type = "incoming" /\ events[i].call = c
    BY <2>1, <2>3 DEF EarlyCallsQueued
  <2> QED
    BY <1>0, <2>1, <2>3, <2>4, OthersMoveUp
<1>7. CASE HandleDisconnected
  <2>1. /\ stage' = stage /\ sip' = sip /\ events # <<>> /\ events' = Tail(events)
        /\ Head(events).type = "disconnected"
    BY <1>7 DEF HandleDisconnected
  <2>2. Head(events).call \in Calls
    BY <1>0, <2>1, TailEvents
  <2>3. call[c] = "none"
    BY <1>0, <1>7, <2>2 DEF HandleDisconnected, CallDisconnected, Teardown, TypeOK
  <2>4. PICK i \in 1..Len(events) : events[i].type = "incoming" /\ events[i].call = c
    BY <2>1, <2>3 DEF EarlyCallsQueued
  <2> QED
    BY <1>0, <2>1, <2>4, OthersMoveUp
<1>8. CASE Signal \/ IgnoreIncoming \/ Drained \/ DrainTimeout \/ Flushed \/ FlushTimeout
  <2>1. stage' \in {"drain", "flush", "exit"}
    BY <1>8 DEF Signal, IgnoreIncoming, Drained, DrainTimeout, Flushed, FlushTimeout
  <2> QED
    BY <2>1 DEF Startup
<1>9. CASE UNCHANGED vars
  BY <1>2, <1>9 DEF vars
<1> QED
  BY <1>1, <1>3, <1>4, <1>5, <1>6, <1>7, <1>8, <1>9 DEF Next, Main

\* A call that comes while the account is still being registered, or while the loop is
\* busy, is not missed: until main stops, the bridge knows of every call that pjsip has
\* accepted, or will read of it (main.rs:73-74, sip/mod.rs:123).
THEOREM NoCallIsMissed == Spec => []EarlyCallsQueued
<1>1. Init => EarlyCallsQueued
  BY DEF Init, EarlyCallsQueued
<1> QED
  BY <1>1, ShutdownInvariant, EarlyCallsStep, PTL DEF Spec
=============================================================================
