----------------------------- MODULE Announcer -----------------------------
(***************************************************************************)
(* What a caller with TTS hears of the Mumble server: channel names and    *)
(* text messages.  The server's packets arrive in order at the receive     *)
(* task, which keeps user names and resolves the senders of texts; its     *)
(* events go in order to the event task, which hands channels and messages *)
(* to two workers; the announcement worker waits out rapid moves, skips a  *)
(* channel it announced last, and speaks; the text worker speaks each      *)
(* message, or chimes.  Both hand their sound to the mixed decoder, which  *)
(* ends some time after the event task, and nobody notices.                *)
(***************************************************************************)
EXTENDS Integers, SequencesExt

CONSTANTS
    Rooms,
    Users,          \* the session ids of the other users
    Names,
    None,
    OnConnect,      \* announce_on_connect
    Debounces,      \* announcement_debounce_ms # 0
    CanFail,        \* may synthesis fail?
    MaxPackets      \* bound on what the server sends after ServerSync

ASSUME NoneAssumption == None \notin Rooms \cup Users \cup Names
ASSUME AnnouncerAssumption ==
    {OnConnect, Debounces, CanFail} \subseteq BOOLEAN /\ MaxPackets \in Nat

VARIABLES
    (* the server *)
    actual,         \* the room it has told the caller to be in, or None
    named,          \* the names of the users, None for those who are not there
    conn,           \* "up", "closed", or "ended" when the receive task has noticed
    packets,        \* under way to the client
    (* the receive task and the event task *)
    user_names,
    inbox,          \* event_rx
    confirmed,      \* user_channels of the caller
    open,           \* the event task runs and holds the senders
    decoder,        \* the mixed decoder runs and takes sounds
    (* the workers *)
    announcements,  \* announcement_tx
    worker,         \* where the announcement worker is
    latest,
    rx_closed,
    last_announced, \* last_announced_channel
    texts,          \* text_tts_tx
    textWorker,     \* "recv" or "synth"
    saying,         \* the message it is speaking, or None
    spoken,         \* the channels synthesized, with or without success
    (* history *)
    sent,           \* the channel handed over last
    posted,         \* the text messages, by the name the server knew their sender by
    sounded,        \* the messages whose speech or chime the decoder was given
    missed,         \* those whose sound had no decoder any more
    (* bound *)
    sentPackets

serverVars == <<actual, named, conn, packets, posted, sentPackets>>
recvVars == <<user_names, inbox>>
eventVars == <<confirmed, open, decoder, sent>>
announceVars == <<announcements, worker, latest, rx_closed, last_announced, spoken>>
textVars == <<texts, textWorker, saying, sounded, missed>>
upstreamVars == <<serverVars, recvVars, eventVars>>
vars == <<serverVars, recvVars, eventVars, announceVars, textVars>>

Sender == Names \cup {None}
Moved(r) == [type |-> "moved", room |-> r]
\* A text is known by its number among those posted, which the code does not have.
Said(n, i) == [type |-> "text", name |-> n, id |-> i]
Text == [type : {"text"}, name : Sender, id : Nat \ {0}]
Event == {Moved(r) : r \in Rooms} \cup Text \cup {[type |-> "disconnected"]}
Packet ==
    {Moved(r) : r \in Rooms}
      \cup [type : {"user"}, user : Users, name : Sender]
      \cup [type : {"message"}, actor : Users \cup {None}, id : Nat \ {0}]

TypeOK ==
    /\ actual \in Rooms \cup {None} /\ named \in [Users -> Sender]
    /\ conn \in {"up", "closed", "ended"}
    /\ packets \in Seq(Packet) /\ inbox \in Seq(Event)
    /\ user_names \in [Users -> Sender]
    /\ confirmed \in Rooms \cup {None} /\ open \in BOOLEAN /\ decoder \in BOOLEAN
    /\ announcements \in Seq(Rooms)
    /\ worker \in {"recv", "debounce", "synth", "done"}
    /\ latest \in Rooms \cup {None} /\ last_announced \in Rooms \cup {None}
    /\ rx_closed \in BOOLEAN
    /\ texts \in Seq(Text) /\ textWorker \in {"recv", "synth"}
    /\ saying \in IF textWorker = "synth" THEN Text ELSE {None}
    /\ spoken \in Seq(Rooms)
    /\ sent \in Rooms \cup {None}
    /\ posted \in Seq(Sender) /\ sounded \in Seq(Text) /\ missed \in Seq(Text)
    /\ sentPackets \in 0..MaxPackets

\* The handshake keeps the names of all it is told of, and of those who leave before
\* ServerSync too.  The caller starts in a room the server has not confirmed yet.
Init ==
    /\ actual = None /\ conn = "up" /\ packets = <<>> /\ posted = <<>>
    /\ named \in [Users -> Sender]
    /\ user_names \in [Users -> Sender]
    /\ \A u \in Users : named[u] \in {user_names[u], None}
    /\ inbox = <<>>
    /\ confirmed = None
    /\ open = TRUE /\ decoder = TRUE
    /\ \E r \in Rooms :
         /\ announcements = IF OnConnect THEN <<r>> ELSE <<>>
         /\ sent = IF OnConnect THEN r ELSE None
    /\ worker = "recv"
    /\ latest = None /\ rx_closed = FALSE /\ last_announced = None
    /\ texts = <<>> /\ textWorker = "recv" /\ saying = None
    /\ spoken = <<>>
    /\ sounded = <<>> /\ missed = <<>>
    /\ sentPackets = 0

-----------------------------------------------------------------------------
(* The server *)

PacketSent(p) ==
    /\ conn = "up" /\ sentPackets < MaxPackets /\ sentPackets' = sentPackets + 1
    /\ packets' = Append(packets, p)
    /\ UNCHANGED <<conn, recvVars, eventVars, announceVars, textVars>>

\* The caller's UserState; the server may repeat what is known.
TellRoom(r) ==
    /\ PacketSent(Moved(r))
    /\ actual' = r
    /\ UNCHANGED <<named, posted>>

\* Somebody connects or is renamed (UserState); with None, disconnects (UserRemove).
TellUser(u, n) ==
    /\ n # named[u]
    /\ PacketSent([type |-> "user", user |-> u, name |-> n])
    /\ named' = [named EXCEPT ![u] = n]
    /\ UNCHANGED <<actual, posted>>

\* TextMessage of a user, or of the server itself.
TellText(u) ==
    /\ u \in Users => named[u] # None
    /\ PacketSent([type |-> "message", actor |-> u, id |-> Len(posted) + 1])
    /\ posted' = Append(posted, IF u \in Users THEN named[u] ELSE None)
    /\ UNCHANGED <<actual, named>>

CloseConnection ==
    /\ conn = "up" /\ conn' = "closed"
    /\ UNCHANGED <<actual, named, packets, posted, sentPackets, recvVars, eventVars,
                   announceVars, textVars>>

-----------------------------------------------------------------------------
(* The receive task: handle_packet *)

\* Mutant: the first name of a session id stays.
UpdateUserNameOnce(u, n) ==
    user_names' = [user_names EXCEPT ![u] = IF @ # None /\ n # None THEN @ ELSE n]

\* update_user_name_map, remove_user_from_map
UpdateUserName(u, n) == user_names' = [user_names EXCEPT ![u] = n]

\* resolve_text_message_sender_name
SenderName(u) == IF u \in Users THEN user_names[u] ELSE None

ReceivePacket ==
    /\ conn # "ended" /\ packets # <<>>
    /\ packets' = Tail(packets)
    /\ LET p == Head(packets) IN
         \/ /\ p.type = "moved"
            /\ inbox' = Append(inbox, p)
            /\ UNCHANGED user_names
         \/ /\ p.type = "user"
            /\ UpdateUserName(p.user, p.name)
            /\ UNCHANGED inbox
         \/ /\ p.type = "message"
            /\ inbox' = Append(inbox, Said(SenderName(p.actor), p.id))
            /\ UNCHANGED user_names
    /\ UNCHANGED <<actual, named, conn, posted, sentPackets, eventVars, announceVars, textVars>>

\* The loop ends: what is left in the stream stays unread.
ReceiveStops ==
    /\ conn' = "ended"
    /\ inbox' = Append(inbox, [type |-> "disconnected"])
    /\ UNCHANGED <<actual, named, packets, posted, sentPackets, user_names, eventVars,
                   announceVars, textVars>>

\* The stream ends.
ReceiveEnds == conn = "closed" /\ packets = <<>> /\ ReceiveStops

\* The stream yields an error, as of a connection reset: break, whatever comes after.
ReceiveError == conn # "ended" /\ ReceiveStops

-----------------------------------------------------------------------------
(* The event task *)

NextEvent(type) ==
    /\ open /\ inbox # <<>> /\ Head(inbox).type = type
    /\ inbox' = Tail(inbox)
    /\ UNCHANGED <<serverVars, user_names>>

\* UserChangedChannel of the caller.
HandleMoved ==
    /\ NextEvent("moved")
    /\ LET r == Head(inbox).room IN
         /\ confirmed' = r
         /\ announcements' = IF r # confirmed THEN Append(announcements, r) ELSE announcements
         /\ sent' = IF r # confirmed THEN r ELSE sent
    /\ UNCHANGED <<open, decoder, worker, latest, rx_closed, last_announced, spoken, textVars>>

HandleText ==
    /\ NextEvent("text")
    /\ texts' = Append(texts, Head(inbox))
    /\ UNCHANGED <<eventVars, announceVars, textWorker, saying, sounded, missed>>

\* Disconnected: the task ends and drops its senders.
HandleDisconnected ==
    /\ NextEvent("disconnected")
    /\ open' = FALSE
    /\ UNCHANGED <<confirmed, decoder, sent, announceVars, textVars>>

\* With the event task the only sender of opus_to_decoder is gone: once the decoder has
\* taken what is left there, it ends.
DecoderStops ==
    /\ decoder /\ ~open
    /\ decoder' = FALSE
    /\ UNCHANGED <<serverVars, recvVars, confirmed, open, sent, announceVars, textVars>>

-----------------------------------------------------------------------------
(* The announcement worker *)

\* Mutant: no channel is too recent to be announced again.
DecideAlways(r) ==
    /\ worker' = "synth"
    /\ last_announced' = r

\* After the debounce: nothing to say of the channel announced last.
Decide(r) ==
    IF last_announced = r
    THEN worker' = "recv" /\ UNCHANGED last_announced
    ELSE worker' = "synth" /\ last_announced' = r

Recv ==
    /\ worker = "recv" /\ announcements # <<>>
    /\ announcements' = Tail(announcements)
    /\ latest' = Head(announcements)
    /\ rx_closed' = FALSE
    /\ IF Debounces THEN worker' = "debounce" /\ UNCHANGED last_announced
       ELSE Decide(Head(announcements))
    /\ UNCHANGED <<upstreamVars, spoken, textVars>>

RecvClosed ==
    /\ worker = "recv" /\ announcements = <<>> /\ ~open
    /\ worker' = "done"
    /\ UNCHANGED <<upstreamVars, announcements, latest, rx_closed, last_announced, spoken,
                   textVars>>

\* Mutant: the window keeps what opened it.
NewerIgnored ==
    /\ worker = "debounce" /\ announcements # <<>>
    /\ announcements' = Tail(announcements)
    /\ UNCHANGED <<upstreamVars, worker, latest, rx_closed, last_announced, spoken, textVars>>

Newer ==
    /\ worker = "debounce" /\ announcements # <<>>
    /\ announcements' = Tail(announcements)
    /\ latest' = Head(announcements)
    /\ UNCHANGED <<upstreamVars, worker, rx_closed, last_announced, spoken, textVars>>

\* The timeout: tokio polls the channel first, so it is empty.
QuietPeriod ==
    /\ worker = "debounce" /\ announcements = <<>>
    /\ Decide(latest)
    /\ UNCHANGED <<upstreamVars, announcements, latest, rx_closed, spoken, textVars>>

\* Mutant: a closed channel ends the worker at once.
DebounceClosedDrops ==
    /\ worker = "debounce" /\ announcements = <<>> /\ ~open
    /\ rx_closed' = TRUE
    /\ worker' = "done"
    /\ UNCHANGED <<upstreamVars, announcements, latest, last_announced, spoken, textVars>>

DebounceClosed ==
    /\ worker = "debounce" /\ announcements = <<>> /\ ~open
    /\ rx_closed' = TRUE
    /\ Decide(latest)
    /\ UNCHANGED <<upstreamVars, announcements, latest, spoken, textVars>>

SynthOk ==
    /\ worker = "synth"
    /\ spoken' = Append(spoken, latest)
    /\ worker' = "recv"
    /\ UNCHANGED <<upstreamVars, announcements, latest, rx_closed, last_announced, textVars>>

\* No sound takes the place of the announcement, and it is not tried again.
SynthFails ==
    /\ CanFail /\ worker = "synth"
    /\ spoken' = Append(spoken, latest)
    /\ worker' = IF rx_closed THEN "done" ELSE "recv"
    /\ UNCHANGED <<upstreamVars, announcements, latest, rx_closed, last_announced, textVars>>

-----------------------------------------------------------------------------
(* The text worker *)

TextRecv ==
    /\ textWorker = "recv" /\ texts # <<>>
    /\ texts' = Tail(texts)
    /\ saying' = Head(texts)
    /\ textWorker' = "synth"
    /\ UNCHANGED <<upstreamVars, announceVars, sounded, missed>>

\* text_tts_sound_tx.send, whose result is ignored.
SendSound ==
    IF decoder THEN sounded' = Append(sounded, saying) /\ UNCHANGED missed
    ELSE missed' = Append(missed, saying) /\ UNCHANGED sounded

TextSpoken ==
    /\ textWorker = "synth"
    /\ textWorker' = "recv"
    /\ SendSound
    /\ saying' = None
    /\ UNCHANGED <<upstreamVars, announceVars, texts>>

\* Mutant: a message that cannot be spoken is lost, as an announcement is.
TextChimesNot ==
    /\ CanFail /\ textWorker = "synth"
    /\ textWorker' = "recv"
    /\ saying' = None
    /\ UNCHANGED <<upstreamVars, announceVars, texts, sounded, missed>>

\* Synthesis failed: the TextMessage chime.
TextChimes ==
    /\ CanFail /\ textWorker = "synth"
    /\ textWorker' = "recv"
    /\ SendSound
    /\ saying' = None
    /\ UNCHANGED <<upstreamVars, announceVars, texts>>

Server ==
    \/ \E r \in Rooms : TellRoom(r)
    \/ \E u \in Users, n \in Sender : TellUser(u, n)
    \/ \E u \in Users \cup {None} : TellText(u)
    \/ CloseConnection
Receive == ReceivePacket \/ ReceiveEnds
Handle == HandleMoved \/ HandleText \/ HandleDisconnected
Announce == Recv \/ RecvClosed \/ Newer \/ QuietPeriod \/ DebounceClosed \/ SynthOk \/ SynthFails
Speak == TextRecv \/ TextSpoken \/ TextChimes

Next == Server \/ Receive \/ ReceiveError \/ Handle \/ DecoderStops \/ Announce \/ Speak

Spec == Init /\ [][Next]_vars

\* The tasks run when they can: timers fire and every synthesis ends, in success or
\* in the error of a timeout.  Nothing is assumed of the server or of the network.
FairSpec ==
    Spec /\ WF_vars(Receive) /\ WF_vars(Handle) /\ WF_vars(Announce) /\ WF_vars(Speak)

-----------------------------------------------------------------------------
\* "only announce the final room" (session.rs:415): behind a debounce, a room is
\* chosen for speech only if no other was handed over since.
OnlyFinalRoom ==
    [][worker # "synth" /\ worker' = "synth" => latest' = sent]_vars

\* No room is announced twice in a row, however the moves fall into debounce
\* windows and syntheses, and whatever fails in between (session.rs:440-443).
NeverTwiceInARow ==
    \A i \in 1..Len(spoken) - 1 : spoken[i] # spoken[i + 1]

\* The room where the server leaves the caller is the room synthesized last, through
\* both tasks and the debounce, even when the connection closes within the debounce
\* window (session.rs:423-436, 509-540), unless it has failed with the move unread.
FinalRoomAnnounced ==
    \A r \in Rooms :
      <>[](actual = r /\ packets = <<>>) => <>[](spoken # <<>> /\ Last(spoken) = r)

\* The texts the event task has handed over, oldest first, and what is on its way to it
\* or was left unread.
Taken == sounded \o missed \o (IF textWorker = "synth" THEN <<saying>> ELSE <<>>) \o texts
UnderWay == inbox \o packets
TextsUnderWay == {i \in 1..Len(UnderWay) : UnderWay[i].type \in {"text", "message"}}

\* Every text message is spoken once, or chimed for once, in the order sent and by the
\* name its sender had then, or is still on its way, through renames, reconnects and
\* failures of the synthesis.  None is skipped: those whose sound no decoder is given are
\* the last ones, unread when the connection failed or, when it had ended, worked off
\* after the decoder (control.rs:178-191, 255-314, session.rs:475-495, 571-593).
NoTextSkipped ==
    /\ Len(Taken) <= Len(posted)
    /\ \A i \in 1..Len(Taken) : Taken[i] = Said(posted[i], i)
    /\ {UnderWay[i].id : i \in TextsUnderWay} = Len(Taken) + 1 .. Len(posted)
    /\ \A i, j \in TextsUnderWay : i < j => UnderWay[i].id < UnderWay[j].id
    /\ \A i \in 1..Len(inbox) : inbox[i].type = "text" => inbox[i].name = posted[inbox[i].id]
    /\ missed # <<>> => conn = "ended" /\ ~decoder
=============================================================================
