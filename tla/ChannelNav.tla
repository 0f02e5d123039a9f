----------------------------- MODULE ChannelNav -----------------------------
(***************************************************************************)
(* Where the caller is on the Mumble server, as five parties see it: the   *)
(* server itself; the CallSession that DTMF digits navigate and whose      *)
(* channel is persisted on hangup; the watch channel between them; the     *)
(* event task, which chimes when others come and go; and the messages      *)
(* under way on the control connection, one ordered stream per direction.  *)
(*                                                                         *)
(* The server is modelled from what the client relies on: it handles       *)
(* requests in order, may deny a join without an answer the client reads,  *)
(* may move the caller itself, and tells the client of every move.  A      *)
(* behaviour begins when MumbleClient::connect has read the handshake.     *)
(***************************************************************************)
EXTENDS Integers, SequencesExt, FiniteSetsExt

CONSTANTS
    Users,          \* the other users of the server
    Self,           \* the caller, as a user of the server
    None,           \* no channel: not connected, or not known
    Existing,       \* the ids in the ChannelState packets of the handshake
    Targets,        \* the channel of the configured name, None if there is none
    Landings,       \* where the server may put a user who connects
    LastChannels,   \* what caller_channels may hold when the call comes
    Present,        \* are there users on the server before the call?
    Denials,        \* may the server deny a join?
    Moves,          \* may the server move the caller?
    MaxDigits,      \* bound on the digits the caller presses
    MaxEvents       \* bound on what the server does of its own accord

ASSUME SelfAssumption == Self \notin Users
ASSUME NoneAssumption == None \notin Nat
ASSUME ExistingAssumption ==
    /\ Existing \subseteq Nat /\ 0 \in Existing
    /\ \E highest \in Existing : \A c \in Existing : c <= highest
ASSUME LoginAssumption == Targets \subseteq Existing \cup {None} /\ Landings \subseteq Existing
ASSUME LastChannelsAssumption == LastChannels \subseteq Nat \cup {None}
ASSUME BoundsAssumption == MaxDigits \in Nat /\ MaxEvents \in Nat
ASSUME SwitchesAssumption == {Present, Denials, Moves} \subseteq BOOLEAN

VARIABLES
    (* the server *)
    actual,         \* the caller's channel
    others,         \* the channels of the other users
    conn,           \* "up", "closed" by the server, or "dropped" by the client
    (* the control connection *)
    outgoing,       \* join requests
    incoming,       \* the events the client has been sent
    (* CallSession *)
    current,        \* current_channel_id
    joining,        \* the channel on_dtmf_digit is about to record, or None
    persisted,      \* what hangup wrote to caller_channels, or None
    watch,          \* the value of channel_watch_tx
    changed,        \* channel_watch_rx.has_changed()
    (* the event task *)
    our,            \* our_channel_id
    known,          \* user_channels, of the other users
    last,           \* the event handled last, the chime it caused, and whether the
                    \* task knew its user
    (* history *)
    stirred,        \* a join was asked for since nothing was under way last
    strayed,        \* what the server did since the last digit against the session's
                    \* expectation: "no"thing, a move, or one that "crossed" a request
    (* bounds *)
    digits, happened

sessionVars == <<current, joining, persisted>>
taskVars    == <<our, known, last>>
historyVars == <<stirred, strayed>>
vars == <<actual, others, conn, outgoing, incoming, sessionVars, watch, changed,
          taskVars, historyVars, digits, happened>>

\* max_channel_id; ids below it need not exist.
MaxChannel == Max(Existing)
Channels == 0..MaxChannel

\* An event about a user's move; `from` and `home` (the caller's channel then)
\* are the server's own knowledge, which the client is not told.
MoveEvent(u, c, f, h) == [user |-> u, channel |-> c, from |-> f, home |-> h]
NoEvent == [event |-> MoveEvent(Self, None, None, None), chime |-> "none", seen |-> FALSE]

TypeOK ==
    /\ actual \in Existing
    /\ others \in [Users -> Existing \cup {None}]
    /\ conn \in {"up", "closed", "dropped"}
    /\ outgoing \in Seq(Channels)
    /\ \A i \in 1..Len(incoming) : incoming[i].channel \in Channels \cup {None}
    /\ current \in Channels /\ joining \in Channels \cup {None}
    /\ persisted \in Channels \cup {None}
    /\ watch \in Channels /\ changed \in BOOLEAN
    /\ our \in Channels
    /\ known \in [Users -> Channels \cup {None}]
    /\ last.chime \in {"none", "joined", "left"}
    /\ stirred \in BOOLEAN /\ strayed \in {"no", "moved", "crossed"}
    /\ digits \in 0..MaxDigits /\ happened \in 0..MaxEvents

\* MumbleClient::connect: the configured channel is asked for, if the server has it;
\* otherwise the caller is taken to sit in channel 0.
JoinedAtLogin(target) == IF target = None THEN 0 ELSE target

\* on_incoming_call asks for the last channel too, unless its id is too high; the join
\* is taken for granted.
Rejoins(target, ch) == ch # None /\ ch <= MaxChannel /\ ch # JoinedAtLogin(target)

\* Whoever was there before the call is not in user_channels: the handshake keeps names.
Init ==
    /\ actual \in Landings
    /\ others \in [Users -> IF Present THEN Existing ELSE {None}]
    /\ conn = "up"
    /\ \E target \in Targets, ch \in LastChannels :
         /\ outgoing = (IF target # None THEN <<target>> ELSE <<>>)
                         \o (IF Rejoins(target, ch) THEN <<ch>> ELSE <<>>)
         /\ current = IF Rejoins(target, ch) THEN ch ELSE JoinedAtLogin(target)
    /\ incoming = <<>>
    /\ joining = None
    /\ persisted = None
    /\ watch = current /\ changed = FALSE
    /\ our = current
    /\ known = [u \in Users |-> None]
    /\ last = NoEvent
    /\ stirred = (outgoing # <<>>)
    /\ strayed = IF outgoing = <<>> /\ actual # current THEN "crossed" ELSE "no"
    /\ digits = 0 /\ happened = 0

-----------------------------------------------------------------------------
(* The server *)

Tell(u, c, f) == incoming' = Append(incoming, MoveEvent(u, c, f, actual))

GrantJoin ==
    /\ conn = "up" /\ outgoing # <<>> /\ Head(outgoing) \in Existing
    /\ outgoing' = Tail(outgoing)
    /\ actual' = Head(outgoing)
    /\ IF actual' = actual THEN UNCHANGED incoming ELSE Tell(Self, actual', actual)
    /\ UNCHANGED <<others, conn, sessionVars, watch, changed, taskVars, historyVars, digits,
                   happened>>

\* PermissionDenied, or a channel that no longer exists; the client reads neither.
DenyJoin ==
    /\ conn = "up" /\ outgoing # <<>>
    /\ Denials \/ Head(outgoing) \notin Existing
    /\ outgoing' = Tail(outgoing)
    /\ strayed' = "crossed"
    /\ UNCHANGED <<actual, others, conn, incoming, sessionVars, watch, changed,
                   taskVars, stirred, digits, happened>>

Happens == conn = "up" /\ happened < MaxEvents /\ happened' = happened + 1

MoveCaller(c) ==
    /\ Moves /\ Happens
    /\ c # actual
    /\ actual' = c
    /\ Tell(Self, c, actual)
    /\ strayed' = IF stirred \/ strayed = "crossed" THEN "crossed" ELSE "moved"
    /\ UNCHANGED <<others, conn, outgoing, sessionVars, watch, changed, taskVars, stirred,
                   digits>>

\* Another user connects to, or moves to, channel c; with c = None it leaves.
MoveOther(u, c) ==
    /\ Happens
    /\ c # others[u]
    /\ others' = [others EXCEPT ![u] = c]
    /\ Tell(u, c, others[u])
    /\ UNCHANGED <<actual, conn, outgoing, sessionVars, watch, changed, taskVars, historyVars,
                   digits>>

CloseConnection ==
    /\ Happens
    /\ conn' = "closed"
    /\ outgoing' = <<>>
    /\ UNCHANGED <<actual, others, incoming, sessionVars, watch, changed, taskVars, historyVars,
                   digits>>

-----------------------------------------------------------------------------
(* SessionManager::on_dtmf_digit and the hangup, on the main loop *)

\* `*` and `#`: the next id, whether it exists or not
Previous(c) == IF c = 0 THEN 0 ELSE c - 1
NextChannel(c) == IF c + 1 > MaxChannel THEN MaxChannel ELSE c + 1

Digit(to) ==
    /\ persisted = None /\ joining = None
    /\ digits < MaxDigits /\ digits' = digits + 1
    /\ conn # "dropped"
    /\ outgoing' = IF conn = "up" THEN Append(outgoing, to) ELSE outgoing
    /\ joining' = to
    /\ stirred' = TRUE /\ strayed' = "no"
    /\ UNCHANGED <<actual, others, conn, incoming, current, persisted, watch, changed,
                   taskVars, happened>>

\* The client is gone, or its send loop has noticed the end of the connection:
\* join_channel returns an error and nothing is recorded.
DigitFails ==
    /\ persisted = None /\ joining = None
    /\ digits < MaxDigits /\ digits' = digits + 1
    /\ conn # "up"
    /\ UNCHANGED <<actual, others, conn, outgoing, incoming, sessionVars, watch, changed,
                   taskVars, historyVars, happened>>

\* Mutant: the event task is told, the session forgets.
DigitRecordedForgets ==
    /\ joining # None
    /\ joining' = None
    /\ watch' = joining /\ changed' = TRUE
    /\ UNCHANGED <<actual, others, conn, outgoing, incoming, current, persisted, taskVars,
                   historyVars, digits, happened>>

\* The request is queued: the session records the channel and tells the event task.
DigitRecorded ==
    /\ joining # None
    /\ current' = joining
    /\ joining' = None
    /\ watch' = joining /\ changed' = TRUE
    /\ UNCHANGED <<actual, others, conn, outgoing, incoming, persisted, taskVars, historyVars,
                   digits, happened>>

\* on_call_disconnected: the channel is persisted, the tasks are aborted.
HangUp ==
    /\ persisted = None /\ joining = None
    /\ persisted' = current
    /\ UNCHANGED <<actual, others, conn, outgoing, incoming, current, joining, watch, changed,
                   taskVars, historyVars, digits, happened>>

-----------------------------------------------------------------------------
(* The event task *)

\* The check for DTMF navigation before each event.
Noticed == IF changed THEN watch ELSE our

\* Mutant: everybody's arrival is announced.
ChimeAnyJoin(u, c, home) ==
    IF c # None THEN "joined"
    ELSE IF known[u] = home THEN "left"
    ELSE "none"

\* The chime: what the arms of the match do for somebody else's move.
\* UserDisconnected removes the entry, which is a move to None here.
Chime(u, c, home) ==
    IF c = home THEN "joined"
    ELSE IF known[u] = home THEN "left"
    ELSE "none"

\* History: the last thing under way is handled; a closed connection loses requests.
Settles ==
    stirred' = (stirred /\ ~(conn = "up" /\ incoming' = <<>> /\ outgoing = <<>>
                               /\ joining = None))

\* Mutant: the caller's own moves are not followed.
HandleSelfIgnored ==
    /\ conn # "dropped" /\ persisted = None
    /\ incoming # <<>> /\ Head(incoming).user = Self
    /\ incoming' = Tail(incoming)
    /\ our' = Noticed
    /\ changed' = FALSE
    /\ last' = [event |-> Head(incoming), chime |-> "none", seen |-> FALSE]
    /\ Settles
    /\ UNCHANGED <<actual, others, conn, outgoing, sessionVars, watch, known, strayed, digits,
                   happened>>

HandleSelf ==
    /\ conn # "dropped" /\ persisted = None
    /\ incoming # <<>> /\ Head(incoming).user = Self
    /\ incoming' = Tail(incoming)
    /\ our' = Head(incoming).channel
    /\ changed' = FALSE
    /\ last' = [event |-> Head(incoming), chime |-> "none", seen |-> FALSE]
    /\ Settles
    /\ UNCHANGED <<actual, others, conn, outgoing, sessionVars, watch, known, strayed, digits,
                   happened>>

HandleOther ==
    /\ conn # "dropped" /\ persisted = None
    /\ incoming # <<>> /\ Head(incoming).user # Self
    /\ LET e == Head(incoming) IN
         /\ known' = [known EXCEPT ![e.user] = e.channel]
         /\ last' = [event |-> e, chime |-> Chime(e.user, e.channel, Noticed),
                     seen |-> known[e.user] # None]
    /\ incoming' = Tail(incoming)
    /\ Settles
    /\ our' = Noticed
    /\ changed' = FALSE
    /\ UNCHANGED <<actual, others, conn, outgoing, sessionVars, watch, strayed, digits,
                   happened>>

\* The Disconnected event ends the task, which drops the client and its queues.
HandleClosed ==
    /\ conn = "closed" /\ persisted = None
    /\ incoming = <<>>
    /\ conn' = "dropped"
    /\ UNCHANGED <<actual, others, outgoing, incoming, sessionVars, watch, changed,
                   taskVars, historyVars, digits, happened>>

Next ==
    \/ GrantJoin \/ DenyJoin \/ CloseConnection
    \/ \E c \in Existing : MoveCaller(c)
    \/ \E u \in Users, c \in Existing \cup {None} : MoveOther(u, c)
    \/ Digit(Previous(current)) \/ Digit(NextChannel(current))
    \/ DigitFails \/ DigitRecorded \/ HangUp
    \/ HandleSelf \/ HandleOther \/ HandleClosed

Spec == Init /\ [][Next]_vars

-----------------------------------------------------------------------------
\* Where the caller will be once the server has handled what it was sent.
Heading == IF outgoing = <<>> THEN actual ELSE Last(outgoing)

\* The session's channel, which the next digit counts from and hangup persists, is
\* where the caller is heading, however digits, joins and events interleave
\* (session.rs:811-840), unless the server has denied or moved since the last digit.
SessionKnowsChannel ==
    conn = "up" /\ joining = None /\ strayed = "no" => current = Heading

\* With nothing under way, the event task knows the caller's channel: DTMF
\* navigation notifies it "so it can correctly attribute join/leave events"
\* (session.rs:836-837).  Moves by the server do not confuse it, unless they cross a
\* digit, nor does anything that a later digit makes up for.
TaskKnowsChannel ==
    conn = "up" /\ persisted = None /\ joining = None /\ outgoing = <<>> /\ incoming = <<>>
      /\ strayed # "crossed" => Noticed = actual

\* With no navigation under way, a join chime sounds exactly when somebody came into
\* the channel that the caller was in at that moment, and a leave chime exactly when
\* somebody left it whose arrival user_channels has tracked (session.rs:509,
\* 541-569), whatever the server does to the caller and to others meanwhile.
ChimesExact ==
    LET e == last.event IN
    e.user # Self /\ ~stirred /\ strayed # "crossed" =>
      /\ last.chime = "joined" <=> e.channel = e.home
      /\ last.seen => (last.chime = "left" <=> e.from = e.home)
=============================================================================
