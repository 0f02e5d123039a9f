-------------------------- MODULE Announcer_proofs --------------------------
(***************************************************************************)
(* The announcement worker says the final room only, and none twice in a   *)
(* row, and no text is skipped: each is spoken or chimed for once, in      *)
(* order and by its sender's name, until the connection ends, for any      *)
(* rooms, users and names and any number of packets.                       *)
(***************************************************************************)
EXTENDS Announcer, SequenceTheorems, TLAPS

\* Adding to a sequence, and taking its head.
LEMMA AppendFacts ==
    ASSUME NEW S, NEW s \in Seq(S), NEW e \in S
    PROVE  /\ Append(s, e) \in Seq(S) /\ Append(s, e) # <<>> /\ Last(Append(s, e)) = e
           /\ Len(Append(s, e)) = Len(s) + 1 /\ Len(s) \in Nat
           /\ Append(s, e)[Len(s) + 1] = e
           /\ \A i \in 1..Len(s) : Append(s, e)[i] = s[i]
<1>1. /\ Append(s, e) \in Seq(S)
      /\ Len(Append(s, e)) = Len(s) + 1 /\ Len(s) \in Nat
      /\ Append(s, e)[Len(s) + 1] = e
      /\ \A i \in 1..Len(s) : Append(s, e)[i] = s[i]
  BY SMT
<1>2. Append(s, e) # <<>>
  BY <1>1, SMT
<1> QED  BY <1>1, <1>2 DEF Last

\* The same for the head that leaves.
LEMMA TailFacts ==
    ASSUME NEW S, NEW s \in Seq(S), s # <<>>
    PROVE  /\ Head(s) \in S /\ Tail(s) \in Seq(S)
           /\ Tail(s) = <<>> => Last(s) = Head(s)
           /\ Tail(s) # <<>> => Last(Tail(s)) = Last(s)
<1>1. Len(s) \in Nat \ {0} /\ \A i \in 1..Len(s) : s[i] \in S
  BY SMT
<1>2. /\ Head(s) = s[1] /\ Tail(s) \in Seq(S) /\ Len(Tail(s)) = Len(s) - 1
      /\ \A i \in 1..Len(Tail(s)) : Tail(s)[i] = s[i + 1]
  BY SMT
<1>3. Tail(s) = <<>> <=> Len(Tail(s)) = 0
  BY <1>2, SMT
<1>4. ASSUME Tail(s) = <<>> PROVE Last(s) = Head(s)
  <2>1. Len(s) = 1
    BY <1>1, <1>2, <1>3, <1>4, SMT
  <2> QED  BY <1>2, <2>1 DEF Last
<1>5. ASSUME Tail(s) # <<>> PROVE Last(Tail(s)) = Last(s)
  <2>1. Len(Tail(s)) \in 1..Len(Tail(s)) /\ Len(Tail(s)) + 1 = Len(s)
    BY <1>1, <1>2, <1>3, <1>5, SMT
  <2> QED  BY <1>2, <2>1 DEF Last
<1> QED  BY <1>1, <1>2, <1>4, <1>5, SMT

\* The packets the server sends.
LEMMA PacketKinds ==
    /\ \A r \in Rooms : Moved(r) \in Packet
    /\ \A u \in Users, n \in Sender : [type |-> "user", user |-> u, name |-> n] \in Packet
    /\ \A u \in Users \cup {None}, i \in Nat \ {0} :
         [type |-> "message", actor |-> u, id |-> i] \in Packet
<1>1. \A r \in Rooms : Moved(r) \in Packet
  BY DEF Packet
<1>2. \A u \in Users, n \in Sender : [type |-> "user", user |-> u, name |-> n] \in Packet
  BY DEF Packet
<1>3. \A u \in Users \cup {None}, i \in Nat \ {0} :
        [type |-> "message", actor |-> u, id |-> i] \in Packet
  BY DEF Packet
<1> QED  BY <1>1, <1>2, <1>3

\* A packet about the caller's room becomes the event about it.
LEMMA PacketFacts ==
    ASSUME NEW p \in Packet
    PROVE  /\ p.type \in {"moved", "user", "message"}
           /\ p.type = "moved" => p \in Event
           /\ p.type = "message" => p.actor \in Users \cup {None} /\ p.id \in Nat \ {0}
           /\ p.type = "user" => p.user \in Users /\ p.name \in Sender
<1>1. CASE p \in {Moved(r) : r \in Rooms}
  BY <1>1 DEF Moved, Event
<1>2. CASE p \in [type : {"user"}, user : Users, name : Sender]
  BY <1>2
<1>3. CASE p \in [type : {"message"}, actor : Users \cup {None}, id : Nat \ {0}]
  BY <1>3
<1> QED  BY <1>1, <1>2, <1>3 DEF Packet

\* An event about the caller's room names a room, the other kind is a text.
LEMMA EventFacts ==
    ASSUME NEW e \in Event
    PROVE  /\ e.type \in {"moved", "text", "disconnected"}
           /\ e.type = "moved" => e.room \in Rooms
           /\ e.type = "text" => e \in Text /\ e.id \in Nat \ {0} /\ e.name \in Sender
<1>1. CASE e \in {Moved(r) : r \in Rooms}
  BY <1>1 DEF Moved
<1>2. CASE e \in Text
  BY <1>2 DEF Text
<1>3. CASE e = [type |-> "disconnected"]
  BY <1>3
<1> QED  BY <1>1, <1>2, <1>3 DEF Event

\* A text with the name of its sender.
LEMMA SaidFacts ==
    ASSUME NEW n \in Sender, NEW i \in Nat \ {0}
    PROVE  /\ Said(n, i) \in Text /\ Said(n, i) \in Event
           /\ Said(n, i).type = "text" /\ Said(n, i).name = n /\ Said(n, i).id = i
<1>1. Said(n, i) \in Text /\ Said(n, i).type = "text" /\ Said(n, i).name = n /\ Said(n, i).id = i
  BY DEF Said, Text
<1> QED  BY <1>1 DEF Event

(***************************************************************************)
(* The types.                                                              *)
(***************************************************************************)

\* A worker that waits or speaks holds a room.
HoldsRoom == worker \in {"debounce", "synth"} => latest \in Rooms

\* A call begins with everything in its type.
LEMMA TypeInit == Init => TypeOK /\ HoldsRoom
<1> SUFFICES ASSUME Init PROVE TypeOK /\ HoldsRoom
  OBVIOUS
<1>1. PICK r \in Rooms : /\ announcements = IF OnConnect THEN <<r>> ELSE <<>>
                         /\ sent = IF OnConnect THEN r ELSE None
  BY DEF Init
<1>2. <<r>> \in Seq(Rooms)
  BY SMT
<1>3. announcements \in Seq(Rooms) /\ sent \in Rooms \cup {None}
  <2>1. CASE OnConnect
    BY <1>1, <1>2, <2>1
  <2>2. CASE ~OnConnect
    BY <1>1, <2>2
  <2> QED  BY <2>1, <2>2
<1>4. sentPackets \in 0..MaxPackets
  BY AnnouncerAssumption, SMT DEF Init
<1>5. saying \in IF textWorker = "synth" THEN Text ELSE {None}
  BY Zenon DEF Init
<1>6. open \in BOOLEAN /\ decoder \in BOOLEAN /\ rx_closed \in BOOLEAN
  BY DEF Init
<1>7. /\ actual \in Rooms \cup {None} /\ named \in [Users -> Sender] /\ conn = "up"
      /\ packets \in Seq(Packet) /\ inbox \in Seq(Event) /\ user_names \in [Users -> Sender]
      /\ confirmed \in Rooms \cup {None}
      /\ worker = "recv" /\ latest \in Rooms \cup {None} /\ last_announced \in Rooms \cup {None}
      /\ texts \in Seq(Text) /\ textWorker = "recv" /\ spoken \in Seq(Rooms)
      /\ posted \in Seq(Sender) /\ sounded \in Seq(Text) /\ missed \in Seq(Text)
  BY DEF Init
<1> QED
  BY <1>3, <1>4, <1>5, <1>6, <1>7 DEF TypeOK, HoldsRoom

\* The server's part.
LEMMA ServerTypes == ASSUME TypeOK, HoldsRoom, Server PROVE TypeOK' /\ HoldsRoom'
<1>1. ASSUME NEW p \in Packet, PacketSent(p), actual' \in Rooms \cup {None},
             named' \in [Users -> Sender], posted' \in Seq(Sender)
      PROVE  TypeOK' /\ HoldsRoom'
  <2>1. packets' \in Seq(Packet)
    BY <1>1, AppendFacts DEF PacketSent, TypeOK
  <2>2. sentPackets' \in 0..MaxPackets
    BY <1>1, AnnouncerAssumption, SMT DEF PacketSent, TypeOK
  <2>3. UNCHANGED <<conn, recvVars, eventVars, announceVars, textVars>>
    BY <1>1 DEF PacketSent
  <2> QED
    BY <1>1, <2>1, <2>2, <2>3
    DEF TypeOK, HoldsRoom, recvVars, eventVars, announceVars, textVars
<1>2. ASSUME NEW r \in Rooms, TellRoom(r) PROVE TypeOK' /\ HoldsRoom'
  BY <1>1, <1>2, PacketKinds DEF TellRoom, TypeOK
<1>3. ASSUME NEW u \in Users, NEW n \in Sender, TellUser(u, n) PROVE TypeOK' /\ HoldsRoom'
  <2>1. [type |-> "user", user |-> u, name |-> n] \in Packet
    BY PacketKinds
  <2> QED  BY <1>1, <1>3, <2>1 DEF TellUser, TypeOK
<1>4. ASSUME NEW u \in Users \cup {None}, TellText(u) PROVE TypeOK' /\ HoldsRoom'
  <2>1. Len(posted) + 1 \in Nat \ {0}
    <3>1. posted \in Seq(Sender)
      BY DEF TypeOK
    <3>2. Len(posted) \in Nat
      BY <3>1
    <3> QED  BY <3>2
  <2>2. [type |-> "message", actor |-> u, id |-> Len(posted) + 1] \in Packet
    BY <2>1, PacketKinds
  <2>3. (IF u \in Users THEN named[u] ELSE None) \in Sender
    BY DEF TypeOK, Sender
  <2>4. posted' \in Seq(Sender)
    BY <1>4, <2>3, AppendFacts DEF TellText, TypeOK
  <2> QED  BY <1>1, <1>4, <2>2, <2>4 DEF TellText, TypeOK
<1>5. CASE CloseConnection
  BY <1>5 DEF CloseConnection, TypeOK, HoldsRoom, recvVars, eventVars, announceVars, textVars
<1> QED  BY <1>2, <1>3, <1>4, <1>5 DEF Server

\* The receive task's part.
LEMMA ReceiveTypes ==
    ASSUME TypeOK, HoldsRoom, Receive \/ ReceiveError PROVE TypeOK' /\ HoldsRoom'
<1>1. CASE ReceivePacket
  <2> DEFINE p == Head(packets)
  <2>1. p \in Packet /\ packets' \in Seq(Packet)
    BY <1>1, TailFacts DEF ReceivePacket, TypeOK
  <2>2. inbox' \in Seq(Event) /\ user_names' \in [Users -> Sender]
    <3>1. CASE p.type = "moved"
      <4>1. p \in Event
        BY <2>1, <3>1, PacketFacts
      <4>2. inbox' = Append(inbox, p) /\ user_names' = user_names
        BY <1>1, <3>1 DEF ReceivePacket
      <4> QED  BY <4>1, <4>2, AppendFacts DEF TypeOK
    <3>2. CASE p.type = "user"
      <4>1. p.name \in Sender
        BY <2>1, <3>2, PacketFacts
      <4>2. inbox' = inbox /\ user_names' = [user_names EXCEPT ![p.user] = p.name]
        BY <1>1, <3>2 DEF ReceivePacket, UpdateUserName
      <4> QED  BY <4>1, <4>2 DEF TypeOK
    <3>3. CASE p.type = "message"
      <4>1. SenderName(p.actor) \in Sender /\ p.id \in Nat \ {0}
        BY <2>1, <3>3, PacketFacts DEF SenderName, Sender, TypeOK
      <4>2. inbox' = Append(inbox, Said(SenderName(p.actor), p.id)) /\ user_names' = user_names
        BY <1>1, <3>3 DEF ReceivePacket
      <4> QED  BY <4>1, <4>2, SaidFacts, AppendFacts DEF TypeOK
    <3> QED  BY <2>1, <3>1, <3>2, <3>3, PacketFacts
  <2>3. UNCHANGED <<actual, named, conn, posted, sentPackets, eventVars, announceVars, textVars>>
    BY <1>1 DEF ReceivePacket
  <2> QED
    BY <2>1, <2>2, <2>3 DEF TypeOK, HoldsRoom, eventVars, announceVars, textVars
<1>2. CASE ReceiveStops
  <2>1. [type |-> "disconnected"] \in Event
    BY DEF Event
  <2>2. inbox' \in Seq(Event)
    BY <1>2, <2>1, AppendFacts DEF ReceiveStops, TypeOK
  <2> QED
    BY <1>2, <2>2 DEF ReceiveStops, TypeOK, HoldsRoom, eventVars, announceVars, textVars
<1> QED  BY <1>1, <1>2 DEF Receive, ReceiveEnds, ReceiveError

\* The event task's part.
LEMMA HandleTypes == ASSUME TypeOK, HoldsRoom, Handle PROVE TypeOK' /\ HoldsRoom'
<1>1. ASSUME NEW t, NextEvent(t)
      PROVE  /\ Head(inbox) \in Event /\ Head(inbox).type = t /\ inbox' \in Seq(Event)
             /\ UNCHANGED <<serverVars, user_names>>
  BY <1>1, TailFacts DEF NextEvent, TypeOK
<1>2. CASE HandleMoved
  <2>1. Head(inbox).room \in Rooms
    BY <1>1, <1>2, EventFacts DEF HandleMoved
  <2>2. announcements' \in Seq(Rooms)
    BY <1>2, <2>1, AppendFacts DEF HandleMoved, TypeOK
  <2>3. confirmed' \in Rooms \cup {None} /\ sent' \in Rooms \cup {None}
    BY <1>2, <2>1 DEF HandleMoved, TypeOK
  <2> QED
    BY <1>1, <1>2, <2>2, <2>3 DEF HandleMoved, TypeOK, HoldsRoom, serverVars, textVars
<1>3. CASE HandleText
  <2>1. Head(inbox) \in Text
    BY <1>1, <1>3, EventFacts DEF HandleText
  <2>2. texts' \in Seq(Text)
    BY <1>3, <2>1, AppendFacts DEF HandleText, TypeOK
  <2>3. /\ UNCHANGED <<serverVars, user_names, eventVars, announceVars>>
        /\ UNCHANGED <<textWorker, saying, sounded, missed>>
    BY <1>1, <1>3 DEF HandleText
  <2>4. open' = open /\ decoder' = decoder /\ confirmed' = confirmed /\ sent' = sent
    BY <2>3 DEF eventVars
  <2>5. open' \in BOOLEAN /\ decoder' \in BOOLEAN
    BY <2>4, Zenon DEF TypeOK
  <2>6. saying' \in IF textWorker' = "synth" THEN Text ELSE {None}
    BY <2>3 DEF TypeOK
  <2>7. /\ actual' \in Rooms \cup {None} /\ named' \in [Users -> Sender]
        /\ conn' \in {"up", "closed", "ended"} /\ packets' \in Seq(Packet)
        /\ posted' \in Seq(Sender) /\ sentPackets' \in 0..MaxPackets
    BY <2>3 DEF TypeOK, serverVars
  <2>8. /\ announcements' \in Seq(Rooms) /\ worker' \in {"recv", "debounce", "synth", "done"}
        /\ latest' \in Rooms \cup {None} /\ last_announced' \in Rooms \cup {None}
        /\ rx_closed' \in BOOLEAN /\ spoken' \in Seq(Rooms) /\ HoldsRoom'
    BY <2>3 DEF TypeOK, HoldsRoom, announceVars
  <2>9. /\ inbox' \in Seq(Event) /\ user_names' \in [Users -> Sender]
        /\ confirmed' \in Rooms \cup {None} /\ sent' \in Rooms \cup {None}
        /\ textWorker' \in {"recv", "synth"}
        /\ sounded' \in Seq(Text) /\ missed' \in Seq(Text)
    BY <1>1, <1>3, <2>3, <2>4 DEF HandleText, TypeOK
  <2>10. TypeOK'
    BY <2>2, <2>5, <2>6, <2>7, <2>8, <2>9, Zenon DEF TypeOK
  <2> QED  BY <2>8, <2>10
<1>4. CASE HandleDisconnected
  <2>1. inbox' \in Seq(Event) /\ UNCHANGED <<serverVars, user_names>>
    BY <1>1, <1>4 DEF HandleDisconnected
  <2>2. open' = FALSE /\ UNCHANGED <<confirmed, decoder, sent, announceVars, textVars>>
    BY <1>4 DEF HandleDisconnected
  <2>3. open' \in BOOLEAN /\ decoder' \in BOOLEAN
    BY <2>2, Zenon DEF TypeOK
  <2>4. /\ confirmed' \in Rooms \cup {None} /\ sent' \in Rooms \cup {None}
        /\ user_names' \in [Users -> Sender]
    BY <2>1, <2>2 DEF TypeOK
  <2>5. /\ actual' \in Rooms \cup {None} /\ named' \in [Users -> Sender]
        /\ conn' \in {"up", "closed", "ended"} /\ packets' \in Seq(Packet)
        /\ posted' \in Seq(Sender) /\ sentPackets' \in 0..MaxPackets
    BY <2>1 DEF TypeOK, serverVars
  <2>6. /\ announcements' \in Seq(Rooms) /\ worker' \in {"recv", "debounce", "synth", "done"}
        /\ latest' \in Rooms \cup {None} /\ last_announced' \in Rooms \cup {None}
        /\ rx_closed' \in BOOLEAN /\ spoken' \in Seq(Rooms) /\ HoldsRoom'
    BY <2>2 DEF TypeOK, HoldsRoom, announceVars
  <2>7. /\ texts' \in Seq(Text) /\ textWorker' \in {"recv", "synth"}
        /\ saying' \in IF textWorker' = "synth" THEN Text ELSE {None}
        /\ sounded' \in Seq(Text) /\ missed' \in Seq(Text)
    BY <2>2 DEF TypeOK, textVars
  <2>8. TypeOK'
    BY <2>1, <2>3, <2>4, <2>5, <2>6, <2>7, Zenon DEF TypeOK
  <2> QED  BY <2>6, <2>8
<1> QED  BY <1>2, <1>3, <1>4 DEF Handle

\* The announcement worker's part.
LEMMA AnnounceTypes == ASSUME TypeOK, HoldsRoom, Announce PROVE TypeOK' /\ HoldsRoom'
<1>1. UNCHANGED <<serverVars, recvVars, eventVars, textVars>>
  BY DEF Announce, Recv, RecvClosed, Newer, QuietPeriod, DebounceClosed, SynthOk, SynthFails,
         upstreamVars
<1>2. /\ announcements' \in Seq(Rooms) /\ rx_closed' \in BOOLEAN
      /\ latest' = latest \/ latest' \in Rooms
  <2>1. announcements # <<>> => /\ Tail(announcements) \in Seq(Rooms)
                                /\ Head(announcements) \in Rooms
    BY TailFacts DEF TypeOK
  <2> QED
    BY <2>1 DEF Announce, Recv, RecvClosed, Newer, QuietPeriod, DebounceClosed, SynthOk,
       SynthFails, TypeOK
<1>3. spoken' \in Seq(Rooms)
  <2>1. worker = "synth" => Append(spoken, latest) \in Seq(Rooms)
    BY AppendFacts DEF TypeOK, HoldsRoom
  <2> QED
    BY <2>1 DEF Announce, Recv, RecvClosed, Newer, QuietPeriod, DebounceClosed, SynthOk,
       SynthFails, TypeOK
<1>4. /\ worker' \in {"recv", "debounce", "synth", "done"} /\ HoldsRoom'
      /\ last_announced' \in Rooms \cup {None}
  <2>1. announcements # <<>> => Head(announcements) \in Rooms
    BY TailFacts DEF TypeOK
  <2> QED
    BY <2>1 DEF Announce, Recv, RecvClosed, Newer, QuietPeriod, DebounceClosed, SynthOk,
       SynthFails, Decide, TypeOK, HoldsRoom
<1> QED
  BY <1>1, <1>2, <1>3, <1>4 DEF TypeOK, serverVars, recvVars, eventVars, textVars

\* The decoder's end.
LEMMA DecoderTypes == ASSUME TypeOK, HoldsRoom, DecoderStops PROVE TypeOK' /\ HoldsRoom'
<1>1. decoder' = FALSE /\ UNCHANGED <<serverVars, recvVars, confirmed, open, sent>>
      /\ UNCHANGED <<announceVars, textVars>>
  BY DEF DecoderStops
<1>2. decoder' \in BOOLEAN /\ open' \in BOOLEAN
  BY <1>1, Zenon DEF TypeOK
<1>3. /\ actual' \in Rooms \cup {None} /\ named' \in [Users -> Sender]
      /\ conn' \in {"up", "closed", "ended"} /\ packets' \in Seq(Packet)
      /\ posted' \in Seq(Sender) /\ sentPackets' \in 0..MaxPackets
  BY <1>1 DEF TypeOK, serverVars
<1>4. /\ inbox' \in Seq(Event) /\ user_names' \in [Users -> Sender]
      /\ confirmed' \in Rooms \cup {None} /\ sent' \in Rooms \cup {None}
  BY <1>1 DEF TypeOK, recvVars
<1>5. /\ announcements' \in Seq(Rooms) /\ worker' \in {"recv", "debounce", "synth", "done"}
      /\ latest' \in Rooms \cup {None} /\ last_announced' \in Rooms \cup {None}
      /\ rx_closed' \in BOOLEAN /\ spoken' \in Seq(Rooms) /\ HoldsRoom'
  BY <1>1 DEF TypeOK, HoldsRoom, announceVars
<1>6. /\ texts' \in Seq(Text) /\ textWorker' \in {"recv", "synth"}
      /\ saying' \in IF textWorker' = "synth" THEN Text ELSE {None}
      /\ sounded' \in Seq(Text) /\ missed' \in Seq(Text)
  BY <1>1 DEF TypeOK, textVars
<1>7. TypeOK'
  BY <1>2, <1>3, <1>4, <1>5, <1>6, Zenon DEF TypeOK
<1> QED  BY <1>5, <1>7

\* The text worker's part.
LEMMA SpeakTypes == ASSUME TypeOK, HoldsRoom, Speak PROVE TypeOK' /\ HoldsRoom'
<1>1. UNCHANGED <<serverVars, recvVars, eventVars, announceVars>>
  BY DEF Speak, TextRecv, TextSpoken, TextChimes, upstreamVars
<1>2. /\ texts' \in Seq(Text) /\ textWorker' \in {"recv", "synth"}
      /\ saying' \in IF textWorker' = "synth" THEN Text ELSE {None}
      /\ sounded' \in Seq(Text) /\ missed' \in Seq(Text)
  <2>1. CASE TextRecv
    BY <2>1, TailFacts DEF TextRecv, TypeOK
  <2>2. CASE TextSpoken \/ TextChimes
    <3>1. saying \in Text /\ sounded \in Seq(Text) /\ missed \in Seq(Text) /\ SendSound
      BY <2>2 DEF TextSpoken, TextChimes, TypeOK
    <3>2. Append(sounded, saying) \in Seq(Text) /\ Append(missed, saying) \in Seq(Text)
      BY <3>1, AppendFacts
    <3>3. sounded' \in Seq(Text) /\ missed' \in Seq(Text)
      BY <3>1, <3>2 DEF SendSound
    <3> QED  BY <2>2, <3>3 DEF TextSpoken, TextChimes, TypeOK
  <2> QED  BY <2>1, <2>2 DEF Speak
<1> QED
  BY <1>1, <1>2 DEF TypeOK, HoldsRoom, serverVars, recvVars, eventVars, announceVars

\* No step leaves the types.
LEMMA TypeStep == TypeOK /\ HoldsRoom /\ [Next]_vars => TypeOK' /\ HoldsRoom'
<1> SUFFICES ASSUME TypeOK, HoldsRoom, [Next]_vars PROVE TypeOK' /\ HoldsRoom'
  OBVIOUS
<1>1. CASE UNCHANGED vars
  BY <1>1 DEF TypeOK, HoldsRoom, vars, serverVars, recvVars, eventVars, announceVars, textVars
<1> QED
  BY <1>1, ServerTypes, ReceiveTypes, HandleTypes, DecoderTypes, AnnounceTypes, SpeakTypes
     DEF Next

\* The types, with the room in the worker's hands.
LEMMA TypeInvariant == Spec => [](TypeOK /\ HoldsRoom)
BY TypeInit, TypeStep, PTL DEF Spec

\* The variables of the pipeline keep their types: every packet under way is one the
\* server sends, every queued text has a number and a name or None, and the text worker
\* holds a text exactly while it speaks.
THEOREM AnnouncerTypes == Spec => []TypeOK
BY TypeInvariant, PTL

(***************************************************************************)
(* The announcements.                                                      *)
(***************************************************************************)

\* What is handed over last is the newest announcement, or what the worker holds.
NewestIsSent ==
    /\ announcements # <<>> => Last(announcements) = sent
    /\ worker = "debounce" /\ announcements = <<>> => latest = sent

\* last_announced_channel is what was said last, or is about to be said.
LastIsKept ==
    /\ worker = "synth" => latest = last_announced
    /\ spoken # <<>> =>
         IF worker = "synth" THEN Last(spoken) # latest ELSE Last(spoken) = last_announced
    /\ NeverTwiceInARow

AnnouncerInv == TypeOK /\ HoldsRoom /\ NewestIsSent /\ LastIsKept

\* A worker that is not concerned keeps its part.
LEMMA WorkerUntouched ==
    ASSUME AnnouncerInv, UNCHANGED <<worker, latest, last_announced, spoken>>
    PROVE  LastIsKept'
BY DEF AnnouncerInv, LastIsKept, NeverTwiceInARow

\* A call begins with nothing said.
LEMMA AnnouncerInit == Init => AnnouncerInv
<1> SUFFICES ASSUME Init PROVE AnnouncerInv
  OBVIOUS
<1>1. PICK r \in Rooms : /\ announcements = IF OnConnect THEN <<r>> ELSE <<>>
                         /\ sent = IF OnConnect THEN r ELSE None
  BY DEF Init
<1>2. announcements # <<>> => Last(announcements) = sent
  <2>1. CASE OnConnect
    <3>1. announcements = <<r>> /\ sent = r
      BY <1>1, <2>1
    <3>2. Len(<<r>>) = 1 /\ <<r>>[1] = r
      BY SMT
    <3> QED  BY <3>1, <3>2 DEF Last
  <2>2. CASE ~OnConnect
    <3>1. announcements = <<>>
      BY <1>1, <2>2
    <3> QED  BY <3>1
  <2> QED  BY <2>1, <2>2
<1>3. spoken = <<>> /\ worker = "recv" /\ Len(spoken) = 0
  BY DEF Init
<1>4. NeverTwiceInARow
  BY <1>3, SMT DEF NeverTwiceInARow
<1> QED
  BY <1>2, <1>3, <1>4, TypeInit DEF AnnouncerInv, NewestIsSent, LastIsKept

\* What neither hands over a room nor concerns the worker.
LEMMA QuietStep ==
    ASSUME AnnouncerInv, TypeOK', HoldsRoom',
           UNCHANGED <<sent, announcements, worker, latest, last_announced, spoken>>
    PROVE  AnnouncerInv'
BY WorkerUntouched DEF AnnouncerInv, NewestIsSent

\* The event task hands over what it records as sent.
LEMMA HandleStep == ASSUME AnnouncerInv, TypeOK', HoldsRoom', Handle PROVE AnnouncerInv'
<1>1. UNCHANGED <<worker, latest, last_announced, spoken>> /\ inbox # <<>>
  BY DEF Handle, HandleMoved, HandleText, HandleDisconnected, NextEvent, announceVars
<1>2. Head(inbox) \in Event
  BY <1>1, TailFacts DEF AnnouncerInv, TypeOK
<1>3. \/ UNCHANGED <<announcements, sent>>
      \/ /\ Head(inbox).type = "moved"
         /\ announcements' = Append(announcements, Head(inbox).room)
         /\ sent' = Head(inbox).room
  BY DEF Handle, HandleMoved, HandleText, HandleDisconnected, NextEvent, eventVars, announceVars
<1>4. CASE UNCHANGED <<announcements, sent>>
  BY <1>1, <1>4, QuietStep
<1>5. CASE ~UNCHANGED <<announcements, sent>>
  <2>1. /\ Head(inbox).type = "moved"
        /\ announcements' = Append(announcements, Head(inbox).room) /\ sent' = Head(inbox).room
    BY <1>3, <1>5
  <2>2. Head(inbox).room \in Rooms
    BY <1>2, <2>1, EventFacts
  <2>3. announcements \in Seq(Rooms)
    BY DEF AnnouncerInv, TypeOK
  <2>4. announcements' # <<>> /\ Last(announcements') = sent'
    BY <2>1, <2>2, <2>3, AppendFacts
  <2> QED
    BY <1>1, <2>4, WorkerUntouched DEF AnnouncerInv, NewestIsSent
<1> QED  BY <1>4, <1>5

\* A decision for a channel: it is not the one said last.
LEMMA DecideStep ==
    ASSUME AnnouncerInv, TypeOK', HoldsRoom', NEW r, Decide(r), latest' = r, worker # "synth",
           UNCHANGED <<sent, spoken>>,
           announcements' # <<>> => Last(announcements') = sent
    PROVE  AnnouncerInv'
<1>1. CASE last_announced = r
  BY <1>1 DEF Decide, AnnouncerInv, NewestIsSent, LastIsKept, NeverTwiceInARow
<1>2. CASE last_announced # r
  BY <1>2 DEF Decide, AnnouncerInv, NewestIsSent, LastIsKept, NeverTwiceInARow
<1> QED  BY <1>1, <1>2

\* What is said is not what was said last.
LEMMA SaidStep ==
    ASSUME AnnouncerInv, TypeOK', HoldsRoom', worker = "synth", spoken' = Append(spoken, latest),
           worker' \in {"recv", "done"},
           UNCHANGED <<announcements, sent, latest, last_announced>>
    PROVE  AnnouncerInv'
<1>1. /\ spoken' # <<>> /\ Last(spoken') = latest
      /\ Len(spoken') = Len(spoken) + 1 /\ Len(spoken) \in Nat
      /\ spoken'[Len(spoken) + 1] = latest
      /\ \A i \in 1..Len(spoken) : spoken'[i] = spoken[i]
  <2>1. spoken \in Seq(Rooms) /\ latest \in Rooms
    BY DEF AnnouncerInv, TypeOK, HoldsRoom
  <2> QED  BY <2>1, AppendFacts
<1>2. NeverTwiceInARow'
  <2> SUFFICES ASSUME NEW i \in 1..Len(spoken') - 1
               PROVE  spoken'[i] # spoken'[i + 1]
    BY DEF NeverTwiceInARow
  <2>1. CASE i = Len(spoken)
    <3>1. spoken # <<>> /\ spoken'[i] = Last(spoken) /\ spoken'[i + 1] = latest
      BY <1>1, <2>1, SMT DEF Last
    <3> QED  BY <3>1 DEF AnnouncerInv, LastIsKept
  <2>2. CASE i # Len(spoken)
    <3>1. i \in 1..Len(spoken) - 1 /\ i \in 1..Len(spoken) /\ i + 1 \in 1..Len(spoken)
      BY <1>1, <2>2, SMT
    <3> QED  BY <1>1, <3>1 DEF AnnouncerInv, LastIsKept, NeverTwiceInARow
  <2> QED  BY <2>1, <2>2
<1> QED
  BY <1>1, <1>2 DEF AnnouncerInv, NewestIsSent, LastIsKept

\* The announcement worker.
LEMMA AnnounceStep ==
    ASSUME AnnouncerInv, TypeOK', HoldsRoom', Announce
    PROVE  /\ AnnouncerInv'
           /\ Debounces /\ worker # "synth" /\ worker' = "synth" => latest' = sent
<1>1. UNCHANGED sent
  BY DEF Announce, Recv, RecvClosed, Newer, QuietPeriod, DebounceClosed, SynthOk, SynthFails,
         upstreamVars, eventVars
<1>2. ASSUME announcements # <<>>, announcements' = Tail(announcements)
      PROVE  /\ announcements' # <<>> => Last(announcements') = sent
             /\ announcements' = <<>> => Head(announcements) = sent
  BY <1>2, TailFacts DEF AnnouncerInv, TypeOK, NewestIsSent
<1>3. CASE Recv /\ Debounces
  <2>1. /\ announcements # <<>> /\ announcements' = Tail(announcements) /\ worker = "recv"
        /\ latest' = Head(announcements) /\ worker' = "debounce"
        /\ UNCHANGED <<last_announced, spoken>>
    BY <1>3 DEF Recv
  <2> QED
    BY <1>1, <1>2, <2>1 DEF AnnouncerInv, NewestIsSent, LastIsKept, NeverTwiceInARow
<1>4. CASE Recv /\ ~Debounces
  <2>1. /\ announcements # <<>> /\ announcements' = Tail(announcements) /\ worker = "recv"
        /\ latest' = Head(announcements) /\ Decide(Head(announcements))
        /\ UNCHANGED spoken
    BY <1>4 DEF Recv
  <2> QED
    BY <1>1, <1>2, <1>4, <2>1, DecideStep
<1>5. CASE RecvClosed
  BY <1>1, <1>5 DEF RecvClosed, AnnouncerInv, NewestIsSent, LastIsKept, NeverTwiceInARow
<1>6. CASE Newer
  <2>1. /\ announcements # <<>> /\ announcements' = Tail(announcements) /\ worker = "debounce"
        /\ latest' = Head(announcements)
        /\ UNCHANGED <<worker, last_announced, spoken>>
    BY <1>6 DEF Newer
  <2> QED
    BY <1>1, <1>2, <2>1 DEF AnnouncerInv, NewestIsSent, LastIsKept, NeverTwiceInARow
<1>7. CASE QuietPeriod \/ DebounceClosed
  <2>1. /\ worker = "debounce" /\ announcements = <<>> /\ announcements' = announcements
        /\ Decide(latest) /\ latest' = latest /\ UNCHANGED spoken
    BY <1>7 DEF QuietPeriod, DebounceClosed
  <2>2. latest = sent
    BY <2>1 DEF AnnouncerInv, NewestIsSent
  <2> QED
    BY <1>1, <2>1, <2>2, DecideStep
<1>8. CASE SynthOk \/ SynthFails
  <2>1. /\ worker = "synth" /\ spoken' = Append(spoken, latest) /\ worker' \in {"recv", "done"}
        /\ UNCHANGED <<announcements, latest, last_announced>>
    BY <1>8 DEF SynthOk, SynthFails
  <2> QED
    BY <1>1, <2>1, SaidStep
<1> QED
  BY <1>3, <1>4, <1>5, <1>6, <1>7, <1>8 DEF Announce

\* No step says a room twice, or hands the worker a room that is not the last.
LEMMA AnnouncerStep ==
    AnnouncerInv /\ [Next]_vars =>
      /\ AnnouncerInv'
      /\ Debounces /\ worker # "synth" /\ worker' = "synth" => latest' = sent
<1> SUFFICES ASSUME AnnouncerInv, [Next]_vars
             PROVE  /\ AnnouncerInv'
                    /\ Debounces /\ worker # "synth" /\ worker' = "synth" => latest' = sent
  OBVIOUS
<1>1. TypeOK' /\ HoldsRoom'
  BY TypeStep DEF AnnouncerInv
<1>2. CASE Server \/ Receive \/ ReceiveError \/ DecoderStops \/ Speak \/ UNCHANGED vars
  <2>1. UNCHANGED <<sent, announcements, worker, latest, last_announced, spoken>>
    <3>1. CASE Server
      BY <3>1 DEF Server, TellRoom, TellUser, TellText, PacketSent, CloseConnection, eventVars,
         announceVars
    <3>2. CASE Receive \/ ReceiveError \/ DecoderStops
      BY <3>2 DEF Receive, ReceivePacket, ReceiveEnds, ReceiveError, ReceiveStops, DecoderStops,
         eventVars, announceVars
    <3>3. CASE Speak \/ UNCHANGED vars
      BY <3>3 DEF Speak, TextRecv, TextSpoken, TextChimes, vars, upstreamVars, eventVars,
         announceVars
    <3> QED  BY <1>2, <3>1, <3>2, <3>3
  <2> QED
    BY <1>1, <2>1, QuietStep
<1>3. CASE Handle
  <2>1. worker' = worker
    BY <1>3 DEF Handle, HandleMoved, HandleText, HandleDisconnected, announceVars
  <2> QED
    BY <1>1, <1>3, <2>1, HandleStep
<1> QED
  BY <1>1, <1>2, <1>3, AnnounceStep DEF Next

\* The invariant holds throughout.
LEMMA AnnouncerInvariant == Spec => []AnnouncerInv
<1>1. AnnouncerInv /\ [Next]_vars => AnnouncerInv'
  BY AnnouncerStep
<1> QED
  BY AnnouncerInit, <1>1, PTL DEF Spec

\* No room is announced twice in a row, however moves and failures fall into debounce
\* windows and syntheses (session.rs:440-443), with or without a debounce.
THEOREM NeverAnnouncedTwice == Spec => []NeverTwiceInARow
<1>1. AnnouncerInv => NeverTwiceInARow
  BY DEF AnnouncerInv, LastIsKept
<1> QED
  BY <1>1, AnnouncerInvariant, PTL

\* Behind a debounce, the room the worker chooses to say is the one handed over last
\* (session.rs:415-439).
THEOREM FinalRoomIsChosen ==
    ASSUME Debounces
    PROVE  Spec => OnlyFinalRoom
<1>1. AnnouncerInv /\ [Next]_vars => [worker # "synth" /\ worker' = "synth" => latest' = sent]_vars
  BY AnnouncerStep
<1> QED
  BY <1>1, AnnouncerInvariant, PTL DEF Spec, OnlyFinalRoom

(***************************************************************************)
(* Numbers in a row: what is not 0 among the first n of s counts from the  *)
(* one after lo to hi.                                                     *)
(***************************************************************************)

InOrder(s, n, lo, hi) ==
    /\ \A i \in 1..n : s[i] # 0 => s[i] \in lo + 1 .. hi
    /\ \A x \in lo + 1 .. hi : \E i \in 1..n : s[i] = x
    /\ \A i, j \in 1..n : i < j /\ s[i] # 0 /\ s[j] # 0 => s[i] < s[j]

\* A row without one of its zeros.
LEMMA RowWithout ==
    ASSUME NEW s, NEW t, NEW n \in Nat, NEW lo \in Nat, NEW hi \in Nat, NEW k \in 1..n,
           InOrder(s, n, lo, hi), s[k] = 0,
           \A i \in 1..n - 1 : t[i] = IF i < k THEN s[i] ELSE s[i + 1]
    PROVE  InOrder(t, n - 1, lo, hi)
<1> DEFINE from(i) == IF i < k THEN i ELSE i + 1
<1> DEFINE to(i) == IF i < k THEN i ELSE i - 1
<1>1. \A i \in 1..n - 1 : from(i) \in 1..n /\ t[i] = s[from(i)]
  OBVIOUS
<1>2. \A i, j \in 1..n - 1 : i < j => from(i) < from(j)
  OBVIOUS
<1>3. \A i \in 1..n : i # k => to(i) \in 1..n - 1 /\ from(to(i)) = i
  OBVIOUS
<1> HIDE DEF from, to
<1>4. \A i \in 1..n - 1 : t[i] # 0 => t[i] \in lo + 1 .. hi
  BY <1>1 DEF InOrder
<1>5. ASSUME NEW x \in lo + 1 .. hi PROVE \E i \in 1..n - 1 : t[i] = x
  <2>1. PICK i \in 1..n : s[i] = x
    BY DEF InOrder
  <2>2. i # k
    BY <2>1
  <2> QED  BY <1>1, <1>3, <2>1, <2>2
<1>6. \A i, j \in 1..n - 1 : i < j /\ t[i] # 0 /\ t[j] # 0 => t[i] < t[j]
  BY <1>1, <1>2 DEF InOrder
<1> QED  BY <1>4, <1>5, <1>6 DEF InOrder

\* A row with one zero more.
LEMMA RowWith ==
    ASSUME NEW s, NEW t, NEW n \in Nat, NEW lo \in Nat, NEW hi \in Nat, NEW k \in 1..n + 1,
           InOrder(s, n, lo, hi), t[k] = 0,
           \A i \in 1..n : s[i] = IF i < k THEN t[i] ELSE t[i + 1]
    PROVE  InOrder(t, n + 1, lo, hi)
<1> DEFINE from(i) == IF i < k THEN i ELSE i + 1
<1> DEFINE to(i) == IF i < k THEN i ELSE i - 1
<1>1. \A i \in 1..n : from(i) \in 1..n + 1 /\ s[i] = t[from(i)]
  OBVIOUS
<1>2. \A i \in 1..n + 1 : i # k => to(i) \in 1..n /\ from(to(i)) = i
  OBVIOUS
<1>3. \A i, j \in 1..n + 1 : i < j /\ i # k /\ j # k => to(i) < to(j)
  OBVIOUS
<1> HIDE DEF from, to
<1>4. \A i \in 1..n + 1 : t[i] # 0 => i # k
  OBVIOUS
<1>5. \A i \in 1..n + 1 : t[i] # 0 => to(i) \in 1..n /\ t[i] = s[to(i)]
  BY <1>1, <1>2, <1>4
<1>6. \A i \in 1..n + 1 : t[i] # 0 => t[i] \in lo + 1 .. hi
  BY <1>5 DEF InOrder
<1>7. \A x \in lo + 1 .. hi : \E i \in 1..n + 1 : t[i] = x
  BY <1>1 DEF InOrder
<1>8. \A i, j \in 1..n + 1 : i < j /\ t[i] # 0 /\ t[j] # 0 => t[i] < t[j]
  BY <1>3, <1>4, <1>5 DEF InOrder
<1> QED  BY <1>6, <1>7, <1>8 DEF InOrder

\* The first of a row is the next number.
LEMMA RowTaken ==
    ASSUME NEW s, NEW t, NEW n \in Nat \ {0}, NEW lo \in Nat, NEW hi \in Nat,
           InOrder(s, n, lo, hi), s[1] # 0,
           \A i \in 1..n - 1 : t[i] = s[i + 1]
    PROVE  s[1] = lo + 1 /\ lo + 1 <= hi /\ InOrder(t, n - 1, lo + 1, hi)
<1>1. s[1] \in lo + 1 .. hi
  BY DEF InOrder
<1>2. s[1] = lo + 1
  <2>1. PICK i \in 1..n : s[i] = lo + 1
    BY <1>1 DEF InOrder
  <2>2. i # 1 => s[1] < s[i]
    BY <2>1 DEF InOrder
  <2> QED  BY <1>1, <2>1, <2>2
<1>3. \A i \in 1..n - 1 : i + 1 \in 1..n /\ 1 < i + 1 /\ t[i] = s[i + 1]
  OBVIOUS
<1>4. ASSUME NEW i \in 1..n - 1, t[i] # 0 PROVE t[i] \in lo + 2 .. hi
  <2>1. s[i + 1] \in lo + 1 .. hi /\ s[1] < s[i + 1]
    BY <1>3, <1>4 DEF InOrder
  <2> QED  BY <1>2, <1>3, <2>1
<1>5. ASSUME NEW x \in lo + 2 .. hi PROVE \E i \in 1..n - 1 : t[i] = x
  <2>1. PICK i \in 1..n : s[i] = x
    BY DEF InOrder
  <2>2. i - 1 \in 1..n - 1 /\ (i - 1) + 1 = i
    BY <1>2, <2>1
  <2> QED  BY <1>3, <2>1, <2>2
<1>6. \A i, j \in 1..n - 1 : i < j /\ t[i] # 0 /\ t[j] # 0 => t[i] < t[j]
  BY <1>3 DEF InOrder
<1>7. lo + 1 + 1 = lo + 2
  OBVIOUS
<1> QED  BY <1>1, <1>2, <1>4, <1>5, <1>6, <1>7 DEF InOrder

\* A row with a zero, or with the next number, at its end.
LEMMA RowAdded ==
    ASSUME NEW s, NEW t, NEW n \in Nat, NEW lo \in Nat, NEW hi \in Nat,
           InOrder(s, n, lo, hi),
           \A i \in 1..n : t[i] = s[i]
    PROVE  /\ t[n + 1] = 0 => InOrder(t, n + 1, lo, hi)
           /\ lo <= hi /\ t[n + 1] = hi + 1 => InOrder(t, n + 1, lo, hi + 1)
<1>1. \A i \in 1..n + 1 : i # n + 1 => i \in 1..n
  OBVIOUS
<1>2. CASE t[n + 1] = 0
  <2>1. \A i \in 1..n + 1 : t[i] # 0 => i \in 1..n
    BY <1>1, <1>2
  <2>2. \A i \in 1..n + 1 : t[i] # 0 => t[i] \in lo + 1 .. hi
    BY <2>1 DEF InOrder
  <2>3. \A x \in lo + 1 .. hi : \E i \in 1..n + 1 : t[i] = x
    BY DEF InOrder
  <2>4. \A i, j \in 1..n + 1 : i < j /\ t[i] # 0 /\ t[j] # 0 => t[i] < t[j]
    BY <2>1 DEF InOrder
  <2>5. t[n + 1] # hi + 1
    BY <1>2
  <2> QED  BY <2>2, <2>3, <2>4, <2>5 DEF InOrder
<1>3. CASE t[n + 1] = hi + 1 /\ lo <= hi
  <2>1. \A i \in 1..n + 1 : t[i] # 0 => t[i] \in lo + 1 .. hi + 1
    BY <1>1, <1>3 DEF InOrder
  <2>2. ASSUME NEW x \in lo + 1 .. hi + 1 PROVE \E i \in 1..n + 1 : t[i] = x
    <3>1. CASE x = hi + 1
      BY <1>3, <3>1
    <3>2. CASE x # hi + 1
      <4>1. x \in lo + 1 .. hi
        BY <3>2
      <4>2. PICK i \in 1..n : s[i] = x
        BY <4>1 DEF InOrder
      <4> QED  BY <4>2
    <3> QED  BY <3>1, <3>2
  <2>3. ASSUME NEW i \in 1..n + 1, NEW j \in 1..n + 1, i < j, t[i] # 0, t[j] # 0
        PROVE  t[i] < t[j]
    <3>1. i \in 1..n /\ t[i] = s[i] /\ s[i] \in lo + 1 .. hi
      BY <2>3 DEF InOrder
    <3>2. CASE j = n + 1
      BY <1>3, <3>1, <3>2
    <3>3. CASE j # n + 1
      <4>1. j \in 1..n /\ t[j] = s[j]
        BY <3>3
      <4> QED  BY <2>3, <3>1, <4>1 DEF InOrder
    <3> QED  BY <3>2, <3>3
  <2> QED  BY <1>3, <2>1, <2>2, <2>3 DEF InOrder
<1>4. CASE t[n + 1] # 0 /\ ~(t[n + 1] = hi + 1 /\ lo <= hi)
  BY <1>4
<1> QED  BY <1>2, <1>3, <1>4

(***************************************************************************)
(* The texts under way as a row of numbers.                                *)
(***************************************************************************)

IsText(e) == e.type \in {"text", "message"}
Number(e) == IF IsText(e) THEN e.id ELSE 0
Line(s, t) ==
    [i \in 1..Len(s) + Len(t) |-> IF i <= Len(s) THEN Number(s[i]) ELSE Number(t[i - Len(s)])]

\* An element moves from the head of the second sequence to the end of the first: the
\* line is the same if the number is.
LEMMA LineMoved ==
    ASSUME NEW s \in Seq(Event), NEW t \in Seq(Packet), t # <<>>, NEW e \in Event,
           Number(e) = Number(Head(t))
    PROVE  /\ Len(Append(s, e)) + Len(Tail(t)) = Len(s) + Len(t)
           /\ Line(Append(s, e), Tail(t)) = Line(s, t)
<1>1. /\ Len(s) \in Nat /\ Len(t) \in Nat \ {0} /\ Head(t) = t[1]
      /\ Len(Append(s, e)) = Len(s) + 1 /\ Len(Tail(t)) = Len(t) - 1
      /\ \A i \in 1..Len(s) : Append(s, e)[i] = s[i]
      /\ Append(s, e)[Len(s) + 1] = e
      /\ \A i \in 1..Len(t) - 1 : Tail(t)[i] = t[i + 1]
  BY AppendProperties, HeadTailProperties, SMT
<1>2. Len(Append(s, e)) + Len(Tail(t)) = Len(s) + Len(t)
  BY <1>1
<1> DEFINE N == Len(s) + Len(t)
<1>3. ASSUME NEW i \in 1..N
      PROVE  (IF i <= Len(s) + 1 THEN Number(Append(s, e)[i])
              ELSE Number(Tail(t)[i - (Len(s) + 1)]))
                = (IF i <= Len(s) THEN Number(s[i]) ELSE Number(t[i - Len(s)]))
  <2>1. CASE i <= Len(s)
    BY <1>1, <2>1
  <2>2. CASE i = Len(s) + 1
    BY <1>1, <2>2
  <2>3. CASE i > Len(s) + 1
    <3>1. i - (Len(s) + 1) \in 1..Len(t) - 1 /\ i - (Len(s) + 1) + 1 = i - Len(s)
      BY <1>1, <2>3
    <3>2. Tail(t)[i - (Len(s) + 1)] = t[i - Len(s)]
      BY <1>1, <3>1
    <3> QED  BY <1>1, <2>3, <3>2
  <2> QED  BY <1>1, <2>1, <2>2, <2>3
<1> QED  BY <1>1, <1>2, <1>3 DEF Line

\* The head of the second sequence leaves.
LEMMA LineWithout ==
    ASSUME NEW s \in Seq(Event), NEW t \in Seq(Packet), t # <<>>
    PROVE  /\ Len(s) + 1 \in 1..Len(s) + Len(t)
           /\ Len(s) + Len(Tail(t)) = Len(s) + Len(t) - 1
           /\ Line(s, t)[Len(s) + 1] = Number(Head(t))
           /\ \A i \in 1..Len(s) + Len(t) - 1 :
                Line(s, Tail(t))[i] = IF i < Len(s) + 1 THEN Line(s, t)[i] ELSE Line(s, t)[i + 1]
<1>1. /\ Len(s) \in Nat /\ Len(t) \in Nat \ {0} /\ Head(t) = t[1]
      /\ Len(Tail(t)) = Len(t) - 1
      /\ \A i \in 1..Len(t) - 1 : Tail(t)[i] = t[i + 1]
  BY HeadTailProperties, SMT
<1>2. Len(s) + 1 \in 1..Len(s) + Len(t) /\ Len(s) + Len(Tail(t)) = Len(s) + Len(t) - 1
  BY <1>1
<1>3. Line(s, t)[Len(s) + 1] = Number(Head(t))
  BY <1>1, <1>2 DEF Line
<1>4. ASSUME NEW i \in 1..Len(s) + Len(t) - 1
      PROVE  Line(s, Tail(t))[i] = IF i < Len(s) + 1 THEN Line(s, t)[i] ELSE Line(s, t)[i + 1]
  <2>1. i \in 1..Len(s) + Len(Tail(t)) /\ i \in 1..Len(s) + Len(t) /\ i + 1 \in 1..Len(s) + Len(t)
    BY <1>1
  <2>2. CASE i < Len(s) + 1
    BY <1>1, <2>1, <2>2 DEF Line
  <2>3. CASE i >= Len(s) + 1
    <3>1. i - Len(s) \in 1..Len(t) - 1 /\ i - Len(s) + 1 = i + 1 - Len(s)
      BY <1>1, <2>3
    <3>2. Tail(t)[i - Len(s)] = t[i + 1 - Len(s)]
      BY <1>1, <3>1
    <3> QED  BY <1>1, <2>1, <2>3, <3>2 DEF Line
  <2> QED  BY <1>1, <2>2, <2>3
<1> QED  BY <1>2, <1>3, <1>4

\* The head of the first sequence leaves.
LEMMA LineTaken ==
    ASSUME NEW s \in Seq(Event), NEW t \in Seq(Packet), s # <<>>
    PROVE  /\ Len(s) + Len(t) \in Nat \ {0}
           /\ Len(Tail(s)) + Len(t) = Len(s) + Len(t) - 1
           /\ Line(s, t)[1] = Number(Head(s))
           /\ \A i \in 1..Len(s) + Len(t) - 1 : Line(Tail(s), t)[i] = Line(s, t)[i + 1]
<1>1. /\ Len(t) \in Nat /\ Len(s) \in Nat \ {0} /\ Head(s) = s[1]
      /\ Len(Tail(s)) = Len(s) - 1
      /\ \A i \in 1..Len(s) - 1 : Tail(s)[i] = s[i + 1]
  BY HeadTailProperties, SMT
<1>2. Len(s) + Len(t) \in Nat \ {0} /\ Len(Tail(s)) + Len(t) = Len(s) + Len(t) - 1
  BY <1>1
<1>3. Line(s, t)[1] = Number(Head(s))
  BY <1>1, <1>2 DEF Line
<1>4. ASSUME NEW i \in 1..Len(s) + Len(t) - 1
      PROVE  Line(Tail(s), t)[i] = Line(s, t)[i + 1]
  <2>1. i \in 1..Len(Tail(s)) + Len(t) /\ i + 1 \in 1..Len(s) + Len(t)
    BY <1>1
  <2>2. CASE i <= Len(s) - 1
    BY <1>1, <2>1, <2>2 DEF Line
  <2>3. CASE i > Len(s) - 1
    <3>1. i - Len(Tail(s)) = i + 1 - Len(s) /\ ~(i <= Len(Tail(s))) /\ ~(i + 1 <= Len(s))
      BY <1>1, <2>3
    <3> QED  BY <2>1, <3>1 DEF Line
  <2> QED  BY <1>1, <2>2, <2>3
<1> QED  BY <1>2, <1>3, <1>4

\* An element joins the second sequence.
LEMMA LineAdded ==
    ASSUME NEW s \in Seq(Event), NEW t \in Seq(Packet), NEW e \in Packet
    PROVE  /\ Len(s) + Len(t) \in Nat
           /\ Len(s) + Len(Append(t, e)) = Len(s) + Len(t) + 1
           /\ Line(s, Append(t, e))[Len(s) + Len(t) + 1] = Number(e)
           /\ \A i \in 1..Len(s) + Len(t) : Line(s, Append(t, e))[i] = Line(s, t)[i]
<1>1. /\ Len(s) \in Nat /\ Len(t) \in Nat /\ Len(Append(t, e)) = Len(t) + 1
      /\ Append(t, e)[Len(t) + 1] = e
      /\ \A i \in 1..Len(t) : Append(t, e)[i] = t[i]
  BY LenProperties, AppendProperties
<1>2. /\ Len(s) + Len(t) + 1 \in 1..Len(s) + Len(Append(t, e)) /\ Len(s) + Len(t) \in Nat
      /\ Len(s) + Len(Append(t, e)) = Len(s) + Len(t) + 1
      /\ ~(Len(s) + Len(t) + 1 <= Len(s)) /\ Len(s) + Len(t) + 1 - Len(s) = Len(t) + 1
  BY <1>1
<1>3. Line(s, Append(t, e))[Len(s) + Len(t) + 1] = Number(e)
  BY <1>1, <1>2 DEF Line
<1>4. ASSUME NEW i \in 1..Len(s) + Len(t) PROVE Line(s, Append(t, e))[i] = Line(s, t)[i]
  <2>1. i \in 1..Len(s) + Len(Append(t, e)) /\ (~(i <= Len(s)) => i - Len(s) \in 1..Len(t))
    BY <1>1
  <2> QED  BY <1>1, <2>1 DEF Line
<1> QED  BY <1>2, <1>3, <1>4

\* An element joins the first sequence.
LEMMA LineStopped ==
    ASSUME NEW s \in Seq(Event), NEW t \in Seq(Packet), NEW e \in Event
    PROVE  /\ Len(s) + Len(t) \in Nat /\ Len(s) + 1 \in 1..Len(s) + Len(t) + 1
           /\ Len(Append(s, e)) + Len(t) = Len(s) + Len(t) + 1
           /\ Line(Append(s, e), t)[Len(s) + 1] = Number(e)
           /\ \A i \in 1..Len(s) + Len(t) :
                Line(s, t)[i] = IF i < Len(s) + 1 THEN Line(Append(s, e), t)[i]
                                ELSE Line(Append(s, e), t)[i + 1]
<1>1. /\ Len(s) \in Nat /\ Len(t) \in Nat /\ Len(Append(s, e)) = Len(s) + 1
      /\ Append(s, e)[Len(s) + 1] = e
      /\ \A i \in 1..Len(s) : Append(s, e)[i] = s[i]
  BY LenProperties, AppendProperties
<1>2. /\ Len(Append(s, e)) + Len(t) = Len(s) + Len(t) + 1
      /\ Len(s) + Len(t) \in Nat /\ Len(s) + 1 \in 1..Len(s) + Len(t) + 1
  BY <1>1
<1>3. Line(Append(s, e), t)[Len(s) + 1] = Number(e)
  BY <1>1, <1>2 DEF Line
<1>4. ASSUME NEW i \in 1..Len(s) + Len(t)
      PROVE  Line(s, t)[i] = IF i < Len(s) + 1 THEN Line(Append(s, e), t)[i]
                             ELSE Line(Append(s, e), t)[i + 1]
  <2>1. i \in 1..Len(Append(s, e)) + Len(t) /\ i + 1 \in 1..Len(Append(s, e)) + Len(t)
    BY <1>1, <1>2
  <2>2. CASE i < Len(s) + 1
    <3>1. i \in 1..Len(s) /\ i <= Len(s) /\ i <= Len(Append(s, e))
      BY <1>1, <2>2
    <3> QED  BY <1>1, <2>1, <2>2, <3>1 DEF Line
  <2>3. CASE ~(i < Len(s) + 1)
    <3>1. /\ ~(i <= Len(s)) /\ ~(i + 1 <= Len(Append(s, e)))
          /\ i + 1 - Len(Append(s, e)) = i - Len(s)
      BY <1>1, <2>3
    <3> QED  BY <2>1, <2>3, <3>1 DEF Line
  <2> QED  BY <2>2, <2>3
<1> QED  BY <1>2, <1>3, <1>4

(***************************************************************************)
(* The invariant of the texts.                                             *)
(***************************************************************************)

\* The texts under way are numbered on from those handed over.
TextsInOrder ==
    InOrder(Line(inbox, packets), Len(inbox) + Len(packets), Len(Taken), Len(posted))

\* What is handed over is what was posted, with nothing left out.
TakenIsPosted ==
    /\ Len(Taken) <= Len(posted)
    /\ \A i \in 1..Len(Taken) : Taken[i] = Said(posted[i], i)

\* The events carry the names of the time of posting.
InboxIsNamed ==
    \A i \in 1..Len(inbox) : inbox[i].type = "text" => inbox[i].name = posted[inbox[i].id]

\* The names the server had when it sent each packet lead from those the client knows to
\* those of now.  A user who left before ServerSync is still known to the client, but
\* posts nothing.
NameOf(names, u) == IF u \in Users THEN names[u] ELSE None
NamesLead(at, known, sending, texts_posted, now) ==
    /\ at \in [1..Len(sending) + 1 -> [Users -> Sender]]
    /\ \A u \in Users : at[1][u] \in {known[u], None}
    /\ at[Len(sending) + 1] = now
    /\ \A i \in 1..Len(sending) :
         LET p == sending[i] IN
         /\ p.type = "user" => at[i + 1] = [at[i] EXCEPT ![p.user] = p.name]
         /\ p.type # "user" => at[i + 1] = at[i]
         /\ p.type = "message" =>
              /\ texts_posted[p.id] = NameOf(at[i], p.actor)
              /\ p.actor \in Users => at[i][p.actor] # None
NamesKept == \E at : NamesLead(at, user_names, packets, posted, named)

TextInv == TakenIsPosted /\ TextsInOrder /\ InboxIsNamed /\ NamesKept

\* What the connection's end leads to, one after the other: the event, the end of the
\* event task, that of the decoder, and only then texts without a decoder.
EndInv ==
    /\ \A i \in 1..Len(inbox) : inbox[i].type = "disconnected" => conn = "ended"
    /\ ~open => conn = "ended"
    /\ ~decoder => ~open
    /\ missed # <<>> => ~decoder

\* The texts worked off.
Worked == sounded \o missed

\* They are a sequence of texts.
LEMMA WorkedFacts == ASSUME TypeOK PROVE Worked \in Seq(Text)
<1>1. sounded \in Seq(Text) /\ missed \in Seq(Text)
  BY DEF TypeOK
<1> QED  BY <1>1, ConcatProperties DEF Worked

\* The texts handed over form a sequence, and grow by what is handed over.
LEMMA TakenFacts ==
    ASSUME TypeOK
    PROVE  /\ Taken \in Seq(Text) /\ Len(Taken) \in Nat /\ Len(posted) \in Nat
           /\ textWorker # "synth" => Taken = Worked \o texts
           /\ textWorker = "synth" => Taken = Append(Worked, saying) \o texts
<1>1. Worked \in Seq(Text) /\ texts \in Seq(Text) /\ posted \in Seq(Sender)
  BY WorkedFacts DEF TypeOK
<1>2. CASE textWorker # "synth"
  <2>1. Taken = (Worked \o <<>>) \o texts
    BY <1>2, Zenon DEF Taken, Worked
  <2>2. Worked \o <<>> = Worked
    BY <1>1, ConcatEmptySeq
  <2>3. Worked \o texts \in Seq(Text)
    BY <1>1, ConcatProperties
  <2> QED  BY <1>1, <1>2, <2>1, <2>2, <2>3, LenProperties
<1>3. CASE textWorker = "synth"
  <2>1. Taken = (Worked \o <<saying>>) \o texts
    BY <1>3, Zenon DEF Taken, Worked
  <2>2. saying \in Text
    BY <1>3 DEF TypeOK
  <2>3. Worked \o <<saying>> = Append(Worked, saying) /\ Append(Worked, saying) \in Seq(Text)
    BY <1>1, <2>2, AppendIsConcat, AppendProperties
  <2>4. Append(Worked, saying) \o texts \in Seq(Text)
    BY <1>1, <2>3, ConcatProperties
  <2> QED  BY <1>1, <1>3, <2>1, <2>3, <2>4, LenProperties
<1> QED  BY <1>2, <1>3

\* The first of the second sequence may as well be the last of the first.
LEMMA ConcatMoved ==
    ASSUME NEW S, NEW s \in Seq(S), NEW t \in Seq(S), t # <<>>
    PROVE  Append(s, Head(t)) \o Tail(t) = s \o t
<1>1. /\ Head(t) \in S /\ Tail(t) \in Seq(S) /\ Len(Tail(t)) = Len(t) - 1 /\ Head(t) = t[1]
      /\ \A i \in 1..Len(t) - 1 : Tail(t)[i] = t[i + 1]
      /\ Len(s) \in Nat /\ Len(t) \in Nat \ {0}
  BY HeadTailProperties, SMT
<1>2. /\ Append(s, Head(t)) \in Seq(S) /\ Len(Append(s, Head(t))) = Len(s) + 1
      /\ Append(s, Head(t))[Len(s) + 1] = t[1]
      /\ \A i \in 1..Len(s) : Append(s, Head(t))[i] = s[i]
  BY <1>1, AppendProperties
<1> DEFINE a == Append(s, Head(t)) \o Tail(t)
<1>3. /\ a \in Seq(S) /\ Len(a) = Len(s) + 1 + (Len(t) - 1)
      /\ \A i \in 1..Len(s) + 1 + (Len(t) - 1) :
           a[i] = IF i <= Len(s) + 1 THEN Append(s, Head(t))[i] ELSE Tail(t)[i - (Len(s) + 1)]
  BY <1>1, <1>2, ConcatProperties
<1>4. /\ s \o t \in Seq(S) /\ Len(s \o t) = Len(s) + Len(t)
      /\ \A i \in 1..Len(s) + Len(t) : (s \o t)[i] = IF i <= Len(s) THEN s[i] ELSE t[i - Len(s)]
  BY ConcatProperties
<1> HIDE DEF a
<1>5. Len(a) = Len(s \o t)
  BY <1>1, <1>3, <1>4
<1>6. ASSUME NEW i \in 1..Len(a) PROVE a[i] = (s \o t)[i]
  <2>1. i \in 1..Len(s) + Len(t) /\ i \in 1..Len(s) + 1 + (Len(t) - 1)
    BY <1>1, <1>3
  <2>2. CASE i <= Len(s)
    BY <1>1, <1>2, <1>3, <1>4, <2>1, <2>2
  <2>3. CASE i = Len(s) + 1
    BY <1>1, <1>2, <1>3, <1>4, <2>1, <2>3
  <2>4. CASE i > Len(s) + 1
    <3>1. i - (Len(s) + 1) \in 1..Len(t) - 1 /\ i - (Len(s) + 1) + 1 = i - Len(s)
      BY <1>1, <2>1, <2>4
    <3>2. Tail(t)[i - (Len(s) + 1)] = t[i - Len(s)]
      BY <1>1, <3>1
    <3>3. ~(i <= Len(s)) /\ ~(i <= Len(s) + 1)
      BY <1>1, <2>4
    <3>4. (s \o t)[i] = t[i - Len(s)]
      BY <1>4, <2>1, <3>3
    <3>5. a[i] = Tail(t)[i - (Len(s) + 1)]
      BY <1>3, <2>1, <3>3
    <3> QED  BY <3>2, <3>4, <3>5
  <2> QED  BY <1>1, <2>1, <2>2, <2>3, <2>4
<1>7. a = s \o t
  BY <1>3, <1>4, <1>5, <1>6, SeqEqual
<1> QED  BY <1>7 DEF a

\* Appending to the second sequence appends to both.
LEMMA ConcatGrown ==
    ASSUME NEW S, NEW s \in Seq(S), NEW t \in Seq(S), NEW e \in S
    PROVE  s \o Append(t, e) = Append(s \o t, e)
<1>1. <<e>> \in Seq(S)
  BY SMT
<1>2. Append(t, e) = t \o <<e>> /\ s \o t \in Seq(S)
  BY AppendIsConcat, ConcatProperties
<1>3. Append(s \o t, e) = (s \o t) \o <<e>>
  BY <1>2, AppendIsConcat
<1> QED  BY <1>1, <1>2, <1>3, ConcatAssociative

\* Whether or not the decoder takes it, a sound sent is the last one worked off.
LEMMA SendSoundWorks ==
    ASSUME TypeOK, EndInv, saying \in Text, SendSound
    PROVE  Worked' = Append(Worked, saying)
<1>1. sounded \in Seq(Text) /\ missed \in Seq(Text)
  BY DEF TypeOK
<1>2. CASE decoder
  <2>1. missed = <<>> /\ sounded' = Append(sounded, saying) /\ missed' = missed
    BY <1>2 DEF EndInv, SendSound
  <2>2. sounded \o <<>> = sounded
    BY <1>1, ConcatEmptySeq
  <2>3. Append(sounded, saying) \in Seq(Text)
    BY <1>1, AppendFacts
  <2>4. Append(sounded, saying) \o <<>> = Append(sounded, saying)
    BY <2>3, ConcatEmptySeq
  <2> QED  BY <2>1, <2>2, <2>4 DEF Worked
<1>3. CASE ~decoder
  <2>1. sounded' = sounded /\ missed' = Append(missed, saying)
    BY <1>3 DEF SendSound
  <2>2. sounded \o Append(missed, saying) = Append(sounded \o missed, saying)
    BY <1>1, ConcatGrown
  <2> QED  BY <2>1, <2>2 DEF Worked
<1> QED  BY <1>2, <1>3

\* A step of the text worker neither loses nor adds a text.
LEMMA SpeakKeepsTaken == ASSUME TypeOK, TypeOK', EndInv, Speak PROVE Taken' = Taken
<1>1. Worked \in Seq(Text) /\ texts \in Seq(Text)
  BY WorkedFacts DEF TypeOK
<1>2. /\ textWorker' # "synth" => Taken' = Worked' \o texts'
      /\ textWorker' = "synth" => Taken' = Append(Worked', saying') \o texts'
  <2>1. Worked' \in Seq(Text) /\ texts' \in Seq(Text)
    <3>1. sounded' \in Seq(Text) /\ missed' \in Seq(Text) /\ texts' \in Seq(Text)
      BY DEF TypeOK
    <3> QED  BY <3>1, ConcatProperties DEF Worked
  <2>2. CASE textWorker' # "synth"
    <3>1. Taken' = (Worked' \o <<>>) \o texts'
      BY <2>2, Zenon DEF Taken, Worked
    <3> QED  BY <2>1, <2>2, <3>1, ConcatEmptySeq
  <2>3. CASE textWorker' = "synth"
    <3>1. Taken' = (Worked' \o <<saying'>>) \o texts'
      BY <2>3, Zenon DEF Taken, Worked
    <3>2. saying' \in Text
      BY <2>3 DEF TypeOK
    <3>3. Worked' \o <<saying'>> = Append(Worked', saying')
      BY <2>1, <3>2, AppendIsConcat
    <3> QED  BY <2>3, <3>1, <3>3
  <2> QED  BY <2>2, <2>3
<1>3. CASE TextRecv
  <2>1. /\ textWorker # "synth" /\ texts # <<>> /\ texts' = Tail(texts) /\ saying' = Head(texts)
        /\ textWorker' = "synth" /\ Worked' = Worked
    BY <1>3 DEF TextRecv, Worked
  <2>2. Append(Worked, Head(texts)) \o Tail(texts) = Worked \o texts
    BY <1>1, <2>1, ConcatMoved
  <2> QED  BY <1>2, <2>1, <2>2, TakenFacts
<1>4. CASE TextSpoken \/ TextChimes
  <2>1. /\ textWorker = "synth" /\ textWorker' # "synth" /\ texts' = texts
        /\ SendSound
    BY <1>4 DEF TextSpoken, TextChimes
  <2>2. saying \in Text
    BY <2>1 DEF TypeOK
  <2>3. Worked' = Append(Worked, saying)
    BY <2>1, <2>2, SendSoundWorks
  <2> QED  BY <1>2, <2>1, <2>3, TakenFacts
<1> QED  BY <1>3, <1>4 DEF Speak

\* A text the event task hands over comes last.
LEMMA HandleGrowsTaken ==
    ASSUME TypeOK, HandleText
    PROVE  /\ Taken' = Append(Taken, Head(inbox))
           /\ Head(inbox) \in Text /\ Head(inbox).type = "text"
<1>1. Worked \in Seq(Text) /\ texts \in Seq(Text) /\ inbox \in Seq(Event)
  BY WorkedFacts DEF TypeOK
<1>2. /\ inbox # <<>> /\ Head(inbox).type = "text" /\ texts' = Append(texts, Head(inbox))
      /\ Worked' = Worked /\ saying' = saying /\ textWorker' = textWorker
  BY DEF HandleText, NextEvent, Worked
<1>3. Head(inbox) \in Event
  BY <1>1, <1>2, TailFacts
<1>4. Head(inbox) \in Text
  BY <1>2, <1>3, EventFacts
<1> DEFINE mid == IF textWorker = "synth" THEN <<saying>> ELSE <<>>
<1>5. Taken = (Worked \o mid) \o texts /\ Taken' = (Worked \o mid) \o Append(texts, Head(inbox))
  BY <1>2, Zenon DEF Taken, Worked
<1>6. Worked \o mid \in Seq(Text)
  <2>1. CASE textWorker = "synth"
    <3>1. saying \in Text /\ mid = <<saying>>
      BY <2>1 DEF TypeOK
    <3>2. mid \in Seq(Text)
      BY <3>1, SMT
    <3> QED  BY <1>1, <3>2, ConcatProperties
  <2>2. CASE textWorker # "synth"
    <3>1. mid = <<>>
      BY <2>2
    <3> QED  BY <1>1, <3>1, ConcatEmptySeq
  <2> QED  BY <2>1, <2>2
<1> HIDE DEF mid
<1>7. (Worked \o mid) \o Append(texts, Head(inbox)) = Append((Worked \o mid) \o texts, Head(inbox))
  BY <1>1, <1>4, <1>6, ConcatGrown
<1> QED  BY <1>2, <1>4, <1>5, <1>7

\* The numbers of what is under way are those of texts posted.
LEMMA UnderWayPosted ==
    ASSUME TypeOK, TextInv
    PROVE  /\ \A i \in 1..Len(inbox) : inbox[i].type = "text" => inbox[i].id \in 1..Len(posted)
           /\ \A i \in 1..Len(packets) :
                packets[i].type = "message" => packets[i].id \in 1..Len(posted)
<1>1. /\ Len(inbox) \in Nat /\ Len(packets) \in Nat /\ Len(Taken) \in Nat /\ Len(posted) \in Nat
      /\ \A i \in 1..Len(inbox) : inbox[i] \in Event
      /\ \A i \in 1..Len(packets) : packets[i] \in Packet
  BY TakenFacts, LenProperties, ElementOfSeq DEF TypeOK
<1>2. \A i \in 1..Len(inbox) + Len(packets) :
        Line(inbox, packets)[i] # 0 => Line(inbox, packets)[i] \in Len(Taken) + 1 .. Len(posted)
  BY DEF TextInv, TextsInOrder, InOrder
<1>3. ASSUME NEW i \in 1..Len(inbox), inbox[i].type = "text"
      PROVE  inbox[i].id \in 1..Len(posted)
  <2>1. i \in 1..Len(inbox) + Len(packets) /\ i <= Len(inbox)
    BY <1>1
  <2>2. Line(inbox, packets)[i] = inbox[i].id
    BY <1>3, <2>1 DEF Line, Number, IsText
  <2>3. inbox[i].id # 0
    BY <1>1, <1>3, EventFacts
  <2> QED  BY <1>1, <1>2, <2>1, <2>2, <2>3
<1>4. ASSUME NEW i \in 1..Len(packets), packets[i].type = "message"
      PROVE  packets[i].id \in 1..Len(posted)
  <2>1. /\ Len(inbox) + i \in 1..Len(inbox) + Len(packets)
        /\ ~(Len(inbox) + i <= Len(inbox)) /\ Len(inbox) + i - Len(inbox) = i
    BY <1>1
  <2>2. Line(inbox, packets)[Len(inbox) + i] = packets[i].id
    BY <1>4, <2>1 DEF Line, Number, IsText
  <2>3. packets[i].id # 0
    BY <1>1, <1>4, PacketFacts
  <2> QED  BY <1>1, <1>2, <2>1, <2>2, <2>3
<1> QED  BY <1>3, <1>4

\* The names stay while nothing is sent or received.
LEMMA NamesUntouched ==
    ASSUME NamesKept, packets' = packets, posted' = posted, user_names' = user_names, named' = named
    PROVE  NamesKept'
BY DEF NamesKept

\* What leaves the queues and the texts alone leaves their invariant alone.
LEMMA TextsUntouched ==
    ASSUME TextInv, Taken' = Taken, UNCHANGED <<inbox, packets, posted, user_names, named>>
    PROVE  TextInv'
<1>1. TakenIsPosted' /\ TextsInOrder'
  BY DEF TextInv, TakenIsPosted, TextsInOrder
<1>2. InboxIsNamed'
  BY DEF TextInv, InboxIsNamed
<1>3. NamesKept'
  BY NamesUntouched DEF TextInv
<1> QED  BY <1>1, <1>2, <1>3 DEF TextInv

\* What the server posts, and what it tells of a user, comes last.
LEMMA TextPosted ==
    ASSUME TypeOK, TextInv, Taken' = Taken, UNCHANGED <<inbox, user_names>>,
           NEW p \in Packet, packets' = Append(packets, p),
           named' \in [Users -> Sender],
           IF p.type = "user" THEN named' = [named EXCEPT ![p.user] = p.name] ELSE named' = named,
           IF p.type = "message"
           THEN /\ posted' = Append(posted, NameOf(named, p.actor)) /\ p.id = Len(posted) + 1
                /\ p.actor \in Users => named[p.actor] # None
           ELSE posted' = posted
    PROVE  TextInv'
<1>1. /\ inbox \in Seq(Event) /\ packets \in Seq(Packet) /\ posted \in Seq(Sender)
      /\ named \in [Users -> Sender]
  BY DEF TypeOK
<1>2. Len(Taken) \in Nat /\ Len(posted) \in Nat /\ Len(packets) \in Nat /\ Len(inbox) \in Nat
  BY <1>1, TakenFacts, LenProperties
<1>3. /\ Len(posted') = Len(posted) + (IF p.type = "message" THEN 1 ELSE 0)
      /\ \A i \in 1..Len(posted) : posted'[i] = posted[i]
      /\ p.type = "message" => posted'[Len(posted) + 1] = NameOf(named, p.actor)
  <2>1. NameOf(named, p.actor) \in Sender
    BY <1>1 DEF NameOf, Sender
  <2>2. CASE p.type = "message"
    BY <1>1, <2>1, <2>2, AppendProperties
  <2>3. CASE p.type # "message"
    BY <1>2, <2>3
  <2> QED  BY <2>2, <2>3
<1>4. TakenIsPosted'
  <2>1. Len(Taken) <= Len(posted')
    BY <1>2, <1>3 DEF TextInv, TakenIsPosted
  <2>2. ASSUME NEW i \in 1..Len(Taken) PROVE Taken[i] = Said(posted'[i], i)
    <3>1. i \in 1..Len(posted) /\ Taken[i] = Said(posted[i], i)
      BY <1>2 DEF TextInv, TakenIsPosted
    <3> QED  BY <1>3, <3>1
  <2> QED  BY <2>1, <2>2 DEF TakenIsPosted
<1>5. TextsInOrder'
  <2> DEFINE n == Len(inbox) + Len(packets)
             s == Line(inbox, packets)
             t == Line(inbox, Append(packets, p))
  <2>1. /\ n \in Nat /\ Len(inbox) + Len(Append(packets, p)) = n + 1 /\ t[n + 1] = Number(p)
        /\ \A i \in 1..n : t[i] = s[i]
    BY <1>1, LineAdded
  <2>2. InOrder(s, n, Len(Taken), Len(posted)) /\ Len(Taken) <= Len(posted)
    BY DEF TextInv, TextsInOrder, TakenIsPosted
  <2> HIDE DEF n, s, t
  <2>3. InOrder(t, n + 1, Len(Taken), Len(posted'))
    <3>1. CASE p.type = "message"
      <4>1. t[n + 1] = Len(posted) + 1 /\ Len(posted') = Len(posted) + 1
        BY <1>2, <1>3, <2>1, <3>1 DEF Number, IsText
      <4>2. InOrder(t, n + 1, Len(Taken), Len(posted) + 1)
        BY <1>2, <2>1, <2>2, <4>1, RowAdded
      <4> QED  BY <4>1, <4>2
    <3>2. CASE p.type # "message"
      <4>1. p.type # "text"
        BY PacketFacts
      <4>2. t[n + 1] = 0 /\ posted' = posted
        BY <2>1, <3>2, <4>1 DEF Number, IsText
      <4> QED  BY <1>2, <2>1, <2>2, <4>2, RowAdded
    <3> QED  BY <3>1, <3>2
  <2> QED  BY <2>1, <2>3 DEF TextsInOrder, n, s, t
<1>6. InboxIsNamed'
  BY <1>3, UnderWayPosted DEF TextInv, InboxIsNamed
<1>7. NamesKept'
  <2>1. PICK at : NamesLead(at, user_names, packets, posted, named)
    BY DEF TextInv, NamesKept
  <2> DEFINE after == [i \in 1..Len(packets) + 2 |-> IF i = Len(packets) + 2 THEN named' ELSE at[i]]
  <2>2. /\ Len(packets') = Len(packets) + 1 /\ packets'[Len(packets) + 1] = p
        /\ \A i \in 1..Len(packets) : packets'[i] = packets[i]
    BY <1>1, AppendProperties
  <2>3. after \in [1..Len(packets') + 1 -> [Users -> Sender]]
    <3>1. Len(packets') + 1 = Len(packets) + 2
      BY <1>2, <2>2
    <3>2. \A i \in 1..Len(packets) + 2 : i # Len(packets) + 2 => i \in 1..Len(packets) + 1
      BY <1>2
    <3> QED  BY <2>1, <3>1, <3>2 DEF NamesLead
  <2>4. /\ after[Len(packets) + 2] = named'
        /\ \A i \in 1..Len(packets) + 1 : after[i] = at[i]
    BY <1>2
  <2> HIDE DEF after
  <2>5. \A u \in Users : after[1][u] \in {user_names'[u], None}
    <3>1. 1 \in 1..Len(packets) + 1
      BY <1>2
    <3> QED  BY <2>1, <2>4, <3>1 DEF NamesLead
  <2>6. after[Len(packets') + 1] = named'
    <3>1. Len(packets') + 1 = Len(packets) + 2
      BY <1>2, <2>2
    <3> QED  BY <2>4, <3>1
  <2>7. ASSUME NEW i \in 1..Len(packets')
        PROVE  LET q == packets'[i] IN
               /\ q.type = "user" => after[i + 1] = [after[i] EXCEPT ![q.user] = q.name]
               /\ q.type # "user" => after[i + 1] = after[i]
               /\ q.type = "message" =>
                    /\ posted'[q.id] = NameOf(after[i], q.actor)
                    /\ q.actor \in Users => after[i][q.actor] # None
    <3>1. CASE i \in 1..Len(packets)
      <4>1. i \in 1..Len(packets) + 1 /\ i + 1 \in 1..Len(packets) + 1
        BY <1>2, <3>1
      <4>2. packets'[i] = packets[i] /\ after[i] = at[i] /\ after[i + 1] = at[i + 1]
        BY <2>2, <2>4, <3>1, <4>1
      <4>3. packets[i].type = "message" => posted'[packets[i].id] = posted[packets[i].id]
        BY <1>3, <3>1, UnderWayPosted
      <4> QED  BY <2>1, <3>1, <4>2, <4>3 DEF NamesLead
    <3>2. CASE i = Len(packets) + 1
      <4>1. i \in 1..Len(packets) + 1 /\ i + 1 = Len(packets) + 2
        BY <1>2, <3>2
      <4>2. packets'[i] = p /\ after[i] = named /\ after[i + 1] = named'
        BY <2>1, <2>2, <2>4, <3>2, <4>1 DEF NamesLead
      <4> QED  BY <1>3, <4>2
    <3> QED  BY <1>2, <2>2, <3>1, <3>2
  <2>8. NamesLead(after, user_names', packets', posted', named')
    BY <2>3, <2>5, <2>6, <2>7 DEF NamesLead
  <2> QED  BY <2>8 DEF NamesKept
<1> QED  BY <1>4, <1>5, <1>6, <1>7 DEF TextInv

\* The server posts texts and names in its order.
LEMMA ServerTexts == ASSUME TypeOK, TypeOK', TextInv, Server PROVE TextInv'
<1>1. Taken' = Taken /\ inbox' = inbox /\ user_names' = user_names
  BY DEF Server, TellRoom, TellUser, TellText, PacketSent, CloseConnection, textVars,
         recvVars, Taken
<1>2. named' \in [Users -> Sender]
  BY DEF TypeOK
<1>3. ASSUME NEW r \in Rooms, TellRoom(r) PROVE TextInv'
  <2>1. Moved(r) \in Packet /\ Moved(r).type = "moved"
    BY PacketKinds DEF Moved
  <2>2. packets' = Append(packets, Moved(r)) /\ UNCHANGED <<named, posted>>
    BY <1>3 DEF TellRoom, PacketSent
  <2> QED  BY <1>1, <1>2, <2>1, <2>2, TextPosted
<1>4. ASSUME NEW u \in Users, NEW n \in Sender, TellUser(u, n) PROVE TextInv'
  <2> DEFINE p == [type |-> "user", user |-> u, name |-> n]
  <2>1. p \in Packet /\ p.type = "user" /\ p.user = u /\ p.name = n
    BY PacketKinds
  <2>2. packets' = Append(packets, p) /\ posted' = posted /\ named' = [named EXCEPT ![u] = n]
    BY <1>4 DEF TellUser, PacketSent
  <2> HIDE DEF p
  <2> QED  BY <1>1, <1>2, <2>1, <2>2, TextPosted
<1>5. ASSUME NEW u \in Users \cup {None}, TellText(u) PROVE TextInv'
  <2> DEFINE p == [type |-> "message", actor |-> u, id |-> Len(posted) + 1]
  <2>1. Len(posted) + 1 \in Nat \ {0}
    <3>1. posted \in Seq(Sender)
      BY DEF TypeOK
    <3>2. Len(posted) \in Nat
      BY <3>1
    <3> QED  BY <3>2
  <2>2. p \in Packet /\ p.type = "message" /\ p.actor = u /\ p.id = Len(posted) + 1
    BY <2>1, PacketKinds
  <2>3. /\ packets' = Append(packets, p) /\ named' = named
        /\ posted' = Append(posted, NameOf(named, u)) /\ (u \in Users => named[u] # None)
    BY <1>5 DEF TellText, PacketSent, NameOf
  <2> HIDE DEF p
  <2> QED  BY <1>1, <1>2, <2>2, <2>3, TextPosted
<1>6. CASE CloseConnection
  <2>1. UNCHANGED <<packets, posted, named>>
    BY <1>6 DEF CloseConnection
  <2> QED  BY <1>1, <2>1, TextsUntouched
<1> QED  BY <1>3, <1>4, <1>5, <1>6 DEF Server

\* The names at the packets left, when the first has been received.
LEMMA NamesReceived ==
    ASSUME TypeOK, TextInv, ReceivePacket
    PROVE  /\ NamesKept'
           /\ Head(packets).type = "message" =>
                SenderName(Head(packets).actor) = posted[Head(packets).id]
<1>1. /\ packets \in Seq(Packet) /\ packets # <<>> /\ packets' = Tail(packets)
      /\ UNCHANGED <<named, posted>> /\ user_names \in [Users -> Sender]
  BY DEF ReceivePacket, TypeOK
<1>2. /\ Len(packets) \in Nat \ {0} /\ Head(packets) = packets[1] /\ Head(packets) \in Packet
      /\ Len(packets') = Len(packets) - 1
      /\ \A i \in 1..Len(packets) - 1 : packets'[i] = packets[i + 1]
  BY <1>1, HeadTailProperties, SMT
<1>3. PICK at : NamesLead(at, user_names, packets, posted, named)
  BY DEF TextInv, NamesKept
<1>4. 1 \in 1..Len(packets) /\ 1 \in 1..Len(packets) + 1 /\ 2 \in 1..Len(packets) + 1 /\ 1 + 1 = 2
  BY <1>2
<1>5. Head(packets).type = "message" => SenderName(Head(packets).actor) = posted[Head(packets).id]
  <2> SUFFICES ASSUME Head(packets).type = "message"
               PROVE  SenderName(Head(packets).actor) = posted[Head(packets).id]
    OBVIOUS
  <2>1. /\ posted[packets[1].id] = NameOf(at[1], packets[1].actor)
        /\ packets[1].actor \in Users => at[1][packets[1].actor] # None
    BY <1>2, <1>3, <1>4 DEF NamesLead
  <2>2. packets[1].actor \in Users => at[1][packets[1].actor] = user_names[packets[1].actor]
    BY <1>3, <2>1 DEF NamesLead
  <2> QED  BY <1>2, <2>1, <2>2 DEF NameOf, SenderName
<1> DEFINE left == [i \in 1..Len(packets) |-> at[i + 1]]
<1>6. /\ left \in [1..Len(packets') + 1 -> [Users -> Sender]]
      /\ \A i \in 1..Len(packets) : left[i] = at[i + 1]
  <2>1. Len(packets') + 1 = Len(packets)
    BY <1>2
  <2>2. \A i \in 1..Len(packets) : i + 1 \in 1..Len(packets) + 1
    BY <1>2
  <2> QED  BY <1>3, <2>1, <2>2 DEF NamesLead
<1> HIDE DEF left
<1>7. \A u \in Users : left[1][u] \in {user_names'[u], None}
  <2>1. left[1] = at[2]
    BY <1>4, <1>6
  <2>2. CASE packets[1].type = "user"
    <3>1. packets[1].user \in Users /\ packets[1].name \in Sender
      BY <1>2, <2>2, PacketFacts
    <3>2. user_names' = [user_names EXCEPT ![packets[1].user] = packets[1].name]
      BY <1>2, <2>2 DEF ReceivePacket, UpdateUserName
    <3>3. at[2] = [at[1] EXCEPT ![packets[1].user] = packets[1].name] /\ at[1] \in [Users -> Sender]
      BY <1>3, <1>4, <2>2 DEF NamesLead
    <3> QED  BY <1>1, <1>3, <2>1, <3>1, <3>2, <3>3 DEF NamesLead
  <2>3. CASE packets[1].type # "user"
    <3>1. user_names' = user_names
      BY <1>2, <2>3 DEF ReceivePacket
    <3>2. at[2] = at[1]
      BY <1>3, <1>4, <2>3 DEF NamesLead
    <3> QED  BY <1>3, <2>1, <3>1, <3>2 DEF NamesLead
  <2> QED  BY <2>2, <2>3
<1>8. left[Len(packets') + 1] = named'
  <2>1. Len(packets') + 1 = Len(packets) /\ Len(packets) \in 1..Len(packets)
    BY <1>2
  <2> QED  BY <1>1, <1>3, <1>6, <2>1 DEF NamesLead
<1>9. ASSUME NEW i \in 1..Len(packets')
      PROVE  LET q == packets'[i] IN
             /\ q.type = "user" => left[i + 1] = [left[i] EXCEPT ![q.user] = q.name]
             /\ q.type # "user" => left[i + 1] = left[i]
             /\ q.type = "message" =>
                  /\ posted'[q.id] = NameOf(left[i], q.actor)
                  /\ q.actor \in Users => left[i][q.actor] # None
  <2>1. /\ i \in 1..Len(packets) - 1 /\ i \in 1..Len(packets)
        /\ i + 1 \in 1..Len(packets)
    BY <1>2
  <2>2. packets'[i] = packets[i + 1] /\ left[i] = at[i + 1] /\ left[i + 1] = at[i + 1 + 1]
    BY <1>2, <1>6, <2>1
  <2>3. LET q == packets[i + 1] IN
        /\ q.type = "user" => at[i + 1 + 1] = [at[i + 1] EXCEPT ![q.user] = q.name]
        /\ q.type # "user" => at[i + 1 + 1] = at[i + 1]
        /\ q.type = "message" =>
             /\ posted[q.id] = NameOf(at[i + 1], q.actor)
             /\ q.actor \in Users => at[i + 1][q.actor] # None
    BY <1>3, <2>1 DEF NamesLead
  <2> QED  BY <1>1, <2>2, <2>3
<1>10. NamesLead(left, user_names', packets', posted', named')
  BY <1>6, <1>7, <1>8, <1>9 DEF NamesLead
<1>11. NamesKept'
  BY <1>10 DEF NamesKept
<1> QED  BY <1>5, <1>11

\* The receive task names the texts and keeps their order.
LEMMA ReceiveTexts ==
    ASSUME TypeOK, TypeOK', TextInv, Receive \/ ReceiveError PROVE TextInv'
<1>1. Taken' = Taken /\ posted' = posted /\ named' = named
  BY DEF Receive, ReceivePacket, ReceiveEnds, ReceiveError, ReceiveStops, textVars, Taken
<1>2. /\ inbox \in Seq(Event) /\ packets \in Seq(Packet) /\ Len(inbox) \in Nat
      /\ Len(Taken) \in Nat /\ Len(posted) \in Nat
  BY TakenFacts, LenProperties DEF TypeOK
<1>3. InOrder(Line(inbox, packets), Len(inbox) + Len(packets), Len(Taken), Len(posted))
  BY DEF TextInv, TextsInOrder
<1>4. TakenIsPosted'
  BY <1>1 DEF TextInv, TakenIsPosted
\* An event with the right name, added to the inbox.
<1>5. ASSUME NEW e \in Event, inbox' = Append(inbox, e),
             e.type = "text" => e.name = posted[e.id]
      PROVE  InboxIsNamed'
  <2>1. /\ Len(inbox') = Len(inbox) + 1 /\ inbox'[Len(inbox) + 1] = e
        /\ \A i \in 1..Len(inbox) : inbox'[i] = inbox[i]
    BY <1>2, <1>5, AppendProperties
  <2>2. \A i \in 1..Len(inbox') : i \in 1..Len(inbox) \/ i = Len(inbox) + 1
    BY <1>2, <2>1
  <2> QED  BY <1>1, <1>5, <2>1, <2>2 DEF TextInv, InboxIsNamed
<1>6. CASE ReceivePacket
  <2> DEFINE p == Head(packets)
  <2>1. packets # <<>> /\ packets' = Tail(packets) /\ p \in Packet
    BY <1>2, <1>6, TailFacts DEF ReceivePacket
  <2>2. NamesKept' /\ (p.type = "message" => SenderName(p.actor) = posted[p.id])
    BY <1>6, NamesReceived
  <2>3. CASE p.type = "user"
    <3>1. inbox' = inbox
      BY <1>6, <2>3 DEF ReceivePacket
    <3>2. InboxIsNamed'
      BY <1>1, <3>1 DEF TextInv, InboxIsNamed
    <3>3. Number(p) = 0
      BY <2>3 DEF Number, IsText
    <3> DEFINE n == Len(inbox) + Len(packets)
               s == Line(inbox, packets)
               t == Line(inbox, Tail(packets))
    <3>4. /\ Len(inbox) + 1 \in 1..n /\ Len(inbox) + Len(Tail(packets)) = n - 1
          /\ s[Len(inbox) + 1] = 0
          /\ \A i \in 1..n - 1 : t[i] = IF i < Len(inbox) + 1 THEN s[i] ELSE s[i + 1]
      BY <1>2, <2>1, <3>3, LineWithout
    <3>5. n \in Nat
      BY <1>2, LenProperties
    <3>6. InOrder(s, n, Len(Taken), Len(posted))
      BY <1>3
    <3> HIDE DEF n, s, t
    <3>7. InOrder(t, n - 1, Len(Taken), Len(posted))
      BY <1>2, <3>4, <3>5, <3>6, RowWithout
    <3>8. TextsInOrder'
      BY <1>1, <2>1, <3>1, <3>4, <3>7 DEF TextsInOrder, n, s, t
    <3> QED  BY <1>4, <2>2, <3>2, <3>8 DEF TextInv
  <2>4. CASE p.type # "user"
    <3>1. PICK e \in Event : /\ inbox' = Append(inbox, e) /\ Number(e) = Number(p)
                             /\ e.type = "text" => e.name = posted[e.id]
      <4>1. CASE p.type = "moved"
        <5>1. p \in Event /\ inbox' = Append(inbox, p)
          BY <1>6, <2>1, <4>1, PacketFacts DEF ReceivePacket
        <5> QED  BY <4>1, <5>1
      <4>2. CASE p.type = "message"
        <5>1. p.id \in Nat \ {0} /\ SenderName(p.actor) \in Sender
          BY <2>1, <4>2, PacketFacts DEF SenderName, Sender, TypeOK
        <5> DEFINE e == Said(SenderName(p.actor), p.id)
        <5>2. e \in Event /\ e.type = "text" /\ e.name = SenderName(p.actor) /\ e.id = p.id
          BY <5>1, SaidFacts
        <5>3. inbox' = Append(inbox, e)
          BY <1>6, <4>2 DEF ReceivePacket
        <5> HIDE DEF e
        <5>4. Number(e) = Number(p) /\ e.name = posted[e.id]
          BY <2>2, <4>2, <5>2 DEF Number, IsText
        <5> QED  BY <5>2, <5>3, <5>4
      <4> QED  BY <2>1, <2>4, <4>1, <4>2, PacketFacts
    <3>2. InboxIsNamed'
      BY <1>5, <3>1
    <3>3. /\ Len(Append(inbox, e)) + Len(Tail(packets)) = Len(inbox) + Len(packets)
          /\ Line(Append(inbox, e), Tail(packets)) = Line(inbox, packets)
      BY <1>2, <2>1, <3>1, LineMoved
    <3>4. TextsInOrder'
      BY <1>1, <1>3, <2>1, <3>1, <3>3 DEF TextsInOrder
    <3> QED  BY <1>4, <2>2, <3>2, <3>4 DEF TextInv
  <2> QED  BY <2>3, <2>4
<1>7. CASE ReceiveStops
  <2> DEFINE e == [type |-> "disconnected"]
             n == Len(inbox) + Len(packets)
             k == Len(inbox) + 1
             s == Line(inbox, packets)
             t == Line(Append(inbox, e), packets)
  <2>1. /\ packets' = packets /\ user_names' = user_names
        /\ inbox' = Append(inbox, e) /\ e \in Event /\ e.type = "disconnected"
    BY <1>7 DEF ReceiveStops, Event
  <2>2. InboxIsNamed'
    BY <1>5, <2>1
  <2>3. NamesKept'
    BY <1>1, <2>1, NamesUntouched DEF TextInv
  <2>4. Number(e) = 0
    BY <2>1 DEF Number, IsText
  <2>5. /\ n \in Nat /\ k \in 1..n + 1 /\ Len(Append(inbox, e)) + Len(packets) = n + 1
        /\ t[k] = 0
        /\ \A i \in 1..n : s[i] = IF i < k THEN t[i] ELSE t[i + 1]
    BY <1>2, <2>1, <2>4, LineStopped
  <2>6. InOrder(s, n, Len(Taken), Len(posted))
    BY <1>3
  <2> HIDE DEF n, k, s, t
  <2>7. InOrder(t, n + 1, Len(Taken), Len(posted))
    BY <1>2, <2>5, <2>6, RowWith
  <2>8. TextsInOrder'
    BY <1>1, <2>1, <2>5, <2>7 DEF TextsInOrder, n, s, t
  <2> QED  BY <1>4, <2>2, <2>3, <2>8 DEF TextInv
<1> QED  BY <1>6, <1>7 DEF Receive, ReceiveEnds, ReceiveError

\* The event task hands over the next text, and forgets none.
LEMMA HandleTexts == ASSUME TypeOK, TypeOK', TextInv, Handle PROVE TextInv'
<1>1. /\ inbox # <<>> /\ inbox' = Tail(inbox) /\ UNCHANGED <<packets, posted, named, user_names>>
  BY DEF Handle, HandleMoved, HandleText, HandleDisconnected, NextEvent, serverVars
<1>2. /\ inbox \in Seq(Event) /\ packets \in Seq(Packet)
      /\ Len(Taken) \in Nat /\ Len(posted) \in Nat
      /\ Head(inbox) \in Event /\ Len(inbox) \in Nat \ {0} /\ Head(inbox) = inbox[1]
      /\ Len(inbox') = Len(inbox) - 1
      /\ \A i \in 1..Len(inbox) - 1 : inbox'[i] = inbox[i + 1]
  BY <1>1, TakenFacts, HeadTailProperties, LenProperties, EmptySeq DEF TypeOK
<1>3. InboxIsNamed'
  <2> SUFFICES ASSUME NEW i \in 1..Len(inbox'), inbox'[i].type = "text"
               PROVE  inbox'[i].name = posted'[inbox'[i].id]
    BY DEF InboxIsNamed
  <2>1. i \in 1..Len(inbox) - 1 /\ i + 1 \in 1..Len(inbox)
    BY <1>2
  <2>2. inbox'[i] = inbox[i + 1]
    BY <1>2, <2>1
  <2> QED  BY <1>1, <2>1, <2>2 DEF TextInv, InboxIsNamed
<1>4. NamesKept'
  BY <1>1, NamesUntouched DEF TextInv
<1> DEFINE n == Len(inbox) + Len(packets)
           s == Line(inbox, packets)
           t == Line(Tail(inbox), packets)
<1>5. /\ n \in Nat \ {0} /\ Len(Tail(inbox)) + Len(packets) = n - 1
      /\ s[1] = Number(Head(inbox))
      /\ \A i \in 1..n - 1 : t[i] = s[i + 1]
  <2>1. inbox \in Seq(Event) /\ packets \in Seq(Packet) /\ inbox # <<>>
    BY <1>1, <1>2
  <2> QED  BY <2>1, LineTaken
<1>6. InOrder(s, n, Len(Taken), Len(posted))
  BY DEF TextInv, TextsInOrder
<1>7. CASE HandleText
  <2>1. Taken' = Append(Taken, Head(inbox)) /\ Head(inbox) \in Text /\ Head(inbox).type = "text"
    BY <1>7, HandleGrowsTaken
  <2>2. s[1] = Head(inbox).id /\ s[1] # 0
    <3>1. Head(inbox).id # 0
      BY <1>2, <2>1, EventFacts
    <3> QED  BY <1>5, <2>1, <3>1 DEF Number, IsText
  <2> HIDE DEF n, s, t
  <2>3. /\ s[1] = Len(Taken) + 1 /\ Len(Taken) + 1 <= Len(posted)
        /\ InOrder(t, n - 1, Len(Taken) + 1, Len(posted))
    BY <1>2, <1>5, <1>6, <2>2, RowTaken
  <2>4. /\ Len(Taken') = Len(Taken) + 1 /\ Taken'[Len(Taken) + 1] = Head(inbox)
        /\ \A i \in 1..Len(Taken) : Taken'[i] = Taken[i]
    BY <2>1, TakenFacts, AppendProperties
  <2>5. TextsInOrder'
    BY <1>1, <1>5, <2>3, <2>4 DEF TextsInOrder, n, s, t
  <2>6. Head(inbox) = Said(posted[Len(Taken) + 1], Len(Taken) + 1)
    <3>1. 1 \in 1..Len(inbox)
      BY <1>2
    <3>2. Head(inbox).name = posted[Head(inbox).id]
      BY <1>2, <2>1, <3>1 DEF TextInv, InboxIsNamed
    <3>3. Head(inbox) = Said(Head(inbox).name, Head(inbox).id)
      BY <2>1 DEF Text, Said
    <3> QED  BY <2>2, <2>3, <3>2, <3>3
  <2>7. TakenIsPosted'
    <3>1. Len(Taken') <= Len(posted')
      BY <1>1, <2>3, <2>4
    <3>2. ASSUME NEW i \in 1..Len(Taken') PROVE Taken'[i] = Said(posted'[i], i)
      <4>1. CASE i = Len(Taken) + 1
        BY <1>1, <2>4, <2>6, <4>1
      <4>2. CASE i # Len(Taken) + 1
        <5>1. i \in 1..Len(Taken)
          BY <1>2, <2>4, <4>2
        <5> QED  BY <1>1, <2>4, <5>1 DEF TextInv, TakenIsPosted
      <4> QED  BY <4>1, <4>2
    <3> QED  BY <3>1, <3>2 DEF TakenIsPosted
  <2> QED  BY <1>3, <1>4, <2>5, <2>7 DEF TextInv
<1>8. CASE HandleMoved \/ HandleDisconnected
  <2>1. Taken' = Taken /\ Head(inbox).type \in {"moved", "disconnected"}
    BY <1>8 DEF HandleMoved, HandleDisconnected, NextEvent, textVars, Taken
  <2>2. s[1] = 0
    BY <1>5, <2>1 DEF Number, IsText
  <2>3. 1 \in 1..n /\ \A i \in 1..n - 1 : t[i] = IF i < 1 THEN s[i] ELSE s[i + 1]
    BY <1>5
  <2> HIDE DEF n, s, t
  <2>4. InOrder(t, n - 1, Len(Taken), Len(posted))
    BY <1>2, <1>5, <1>6, <2>2, <2>3, RowWithout
  <2>5. TextsInOrder'
    BY <1>1, <1>5, <2>1, <2>4 DEF TextsInOrder, n, s, t
  <2>6. TakenIsPosted'
    BY <1>1, <2>1 DEF TextInv, TakenIsPosted
  <2> QED  BY <1>3, <1>4, <2>5, <2>6 DEF TextInv
<1> QED  BY <1>7, <1>8 DEF Handle

\* A call begins without texts.
LEMMA TextsInit == Init => TextInv
<1> SUFFICES ASSUME Init PROVE TextInv
  OBVIOUS
<1>1. /\ sounded = <<>> /\ missed = <<>> /\ texts = <<>>
      /\ inbox = <<>> /\ packets = <<>> /\ posted = <<>>
      /\ textWorker # "synth" /\ named \in [Users -> Sender]
      /\ \A u \in Users : named[u] \in {user_names[u], None}
  BY DEF Init
<1>2. Taken = <<>>
  <2>1. Taken = ((<<>> \o <<>>) \o <<>>) \o <<>>
    BY <1>1, Zenon DEF Taken
  <2>2. <<>> \o <<>> = <<>>
    BY ConcatEmptySeq, SMT
  <2> QED  BY <2>1, <2>2
<1>3. Len(Taken) = 0 /\ Len(posted) = 0 /\ Len(inbox) = 0 /\ Len(packets) = 0
  BY <1>1, <1>2
<1>4. TakenIsPosted
  BY <1>3 DEF TakenIsPosted
<1>5. TextsInOrder
  <2>1. InOrder(Line(inbox, packets), 0, 0, 0)
    BY DEF InOrder
  <2>2. Len(inbox) + Len(packets) = 0
    BY <1>3
  <2> QED  BY <1>3, <2>1, <2>2 DEF TextsInOrder
<1>6. InboxIsNamed
  BY <1>3 DEF InboxIsNamed
<1>7. NamesKept
  <2> DEFINE at == [i \in 1..1 |-> named]
  <2>1. at \in [1..1 -> [Users -> Sender]] /\ at[1] = named
    BY <1>1
  <2>2. Len(packets) + 1 = 1
    BY <1>3
  <2> HIDE DEF at
  <2>3. NamesLead(at, user_names, packets, posted, named)
    BY <1>1, <1>3, <2>1, <2>2 DEF NamesLead
  <2> QED  BY <2>3 DEF NamesKept
<1> QED  BY <1>4, <1>5, <1>6, <1>7 DEF TextInv

\* No step loses, doubles, reorders or misnames a text.
LEMMA TextsStep == TypeOK /\ TypeOK' /\ TextInv /\ EndInv /\ [Next]_vars => TextInv'
<1> SUFFICES ASSUME TypeOK, TypeOK', TextInv, EndInv, [Next]_vars PROVE TextInv'
  OBVIOUS
<1>1. CASE Announce \/ DecoderStops \/ UNCHANGED vars
  <2>1. UNCHANGED <<inbox, packets, posted, user_names, named, sounded, missed, textWorker,
                    saying, texts>>
    BY <1>1 DEF Announce, DecoderStops, Recv, RecvClosed, Newer, QuietPeriod, DebounceClosed,
       SynthOk, SynthFails, upstreamVars, vars, serverVars, recvVars, textVars
  <2>2. Taken' = Taken
    BY <2>1 DEF Taken
  <2> QED  BY <2>1, <2>2, TextsUntouched
<1>2. CASE Speak
  <2>1. UNCHANGED <<inbox, packets, posted, user_names, named>>
    BY <1>2 DEF Speak, TextRecv, TextSpoken, TextChimes, upstreamVars, serverVars, recvVars
  <2>2. Taken' = Taken
    BY <1>2, SpeakKeepsTaken
  <2> QED  BY <2>1, <2>2, TextsUntouched
<1> QED
  BY <1>1, <1>2, ServerTexts, ReceiveTexts, HandleTexts DEF Next

\* A call begins with everything up.
LEMMA EndInit == Init => EndInv
<1> SUFFICES ASSUME Init PROVE EndInv
  OBVIOUS
<1>1. inbox = <<>> /\ open = TRUE /\ decoder = TRUE /\ missed = <<>>
  BY DEF Init
<1>2. Len(inbox) = 0
  BY <1>1
<1> QED  BY <1>1, <1>2 DEF EndInv

\* The event of the end is sent at the end, and the decoder outlives the event task.
LEMMA EndStep == TypeOK /\ EndInv /\ [Next]_vars => EndInv'
<1> SUFFICES ASSUME TypeOK, EndInv, [Next]_vars PROVE EndInv'
  OBVIOUS
<1>1. inbox \in Seq(Event) /\ packets \in Seq(Packet) /\ Len(inbox) \in Nat
  BY LenProperties DEF TypeOK
<1>2. ASSUME UNCHANGED <<inbox, open, decoder, missed>>, conn = "ended" => conn' = "ended"
      PROVE  EndInv'
  BY <1>2 DEF EndInv
<1>3. ASSUME NEW e \in Event, inbox' = Append(inbox, e), UNCHANGED <<open, decoder, missed>>,
             conn = "ended" => conn' = "ended",
             e.type = "disconnected" => conn' = "ended"
      PROVE  EndInv'
  <2>1. /\ Len(inbox') = Len(inbox) + 1 /\ inbox'[Len(inbox) + 1] = e
        /\ \A i \in 1..Len(inbox) : inbox'[i] = inbox[i]
    BY <1>1, <1>3, AppendProperties
  <2>2. \A i \in 1..Len(inbox') : i \in 1..Len(inbox) \/ i = Len(inbox) + 1
    BY <1>1, <2>1
  <2> QED  BY <1>3, <2>1, <2>2 DEF EndInv
<1>4. CASE Server
  BY <1>2, <1>4 DEF Server, TellRoom, TellUser, TellText, PacketSent, CloseConnection,
     recvVars, eventVars, textVars
<1>5. CASE ReceivePacket
  <2> DEFINE p == Head(packets)
  <2>1. p \in Packet /\ UNCHANGED <<conn, open, decoder, missed>>
    BY <1>1, <1>5, TailFacts DEF ReceivePacket, eventVars, textVars
  <2>2. CASE p.type = "user"
    BY <1>2, <1>5, <2>1, <2>2 DEF ReceivePacket
  <2>3. CASE p.type = "moved"
    <3>1. p \in Event /\ inbox' = Append(inbox, p)
      BY <1>5, <2>1, <2>3, PacketFacts DEF ReceivePacket
    <3> QED  BY <1>3, <2>1, <2>3, <3>1
  <2>4. CASE p.type = "message"
    <3>1. SenderName(p.actor) \in Sender /\ p.id \in Nat \ {0}
      BY <2>1, <2>4, PacketFacts DEF SenderName, Sender, TypeOK
    <3> DEFINE e == Said(SenderName(p.actor), p.id)
    <3>2. e \in Event /\ e.type = "text"
      BY <3>1, SaidFacts
    <3>3. inbox' = Append(inbox, e)
      BY <1>5, <2>4 DEF ReceivePacket
    <3> HIDE DEF e
    <3> QED  BY <1>3, <2>1, <3>2, <3>3
  <2> QED  BY <2>1, <2>2, <2>3, <2>4, PacketFacts
<1>6. CASE ReceiveStops
  <2> DEFINE e == [type |-> "disconnected"]
  <2>1. /\ e \in Event /\ inbox' = Append(inbox, e) /\ conn' = "ended"
        /\ UNCHANGED <<open, decoder, missed>>
    BY <1>6 DEF ReceiveStops, Event, eventVars, textVars
  <2> HIDE DEF e
  <2> QED  BY <1>3, <2>1
<1>7. CASE Handle
  <2>1. /\ inbox # <<>> /\ inbox' = Tail(inbox) /\ UNCHANGED <<conn, decoder, missed>>
        /\ open' = open \/ (open' = FALSE /\ Head(inbox).type = "disconnected")
    BY <1>7 DEF Handle, HandleMoved, HandleText, HandleDisconnected, NextEvent, serverVars,
       eventVars, textVars
  <2>2. /\ Head(inbox) = inbox[1] /\ 1 \in 1..Len(inbox)
        /\ Len(inbox') = Len(inbox) - 1
        /\ \A i \in 1..Len(inbox) - 1 : inbox'[i] = inbox[i + 1]
    BY <1>1, <2>1, HeadTailProperties, SMT
  <2>3. ~open' => conn = "ended"
    BY <2>1, <2>2 DEF EndInv
  <2>4. ~decoder' => ~open'
    BY <2>1 DEF EndInv
  <2>5. ASSUME NEW i \in 1..Len(inbox'), inbox'[i].type = "disconnected"
        PROVE  conn = "ended"
    <3>1. i \in 1..Len(inbox) - 1 /\ i + 1 \in 1..Len(inbox)
      BY <1>1, <2>2
    <3>2. inbox'[i] = inbox[i + 1]
      BY <2>2, <3>1
    <3> QED  BY <2>5, <3>1, <3>2 DEF EndInv
  <2> QED  BY <2>1, <2>3, <2>4, <2>5 DEF EndInv
<1>8. CASE DecoderStops
  BY <1>8 DEF DecoderStops, EndInv, serverVars, recvVars, textVars
<1>9. CASE Speak
  <2>1. UNCHANGED <<inbox, conn, open, decoder>> /\ (missed' = missed \/ ~decoder)
    BY <1>9 DEF Speak, TextRecv, TextSpoken, TextChimes, SendSound, upstreamVars, serverVars,
       recvVars, eventVars
  <2> QED  BY <2>1 DEF EndInv
<1>10. CASE Announce \/ UNCHANGED vars
  <2>1. UNCHANGED <<inbox, conn, open, decoder, missed>>
    BY <1>10 DEF Announce, Recv, RecvClosed, Newer, QuietPeriod, DebounceClosed, SynthOk,
       SynthFails, upstreamVars, vars, serverVars, recvVars, eventVars, textVars
  <2> QED  BY <1>2, <2>1
<1> QED
  BY <1>4, <1>5, <1>6, <1>7, <1>8, <1>9, <1>10 DEF Next, Receive, ReceiveEnds, ReceiveError

\* The invariants of the texts hold throughout.
LEMMA TextsInvariant == Spec => [](TypeOK /\ TextInv /\ EndInv)
<1>1. TypeOK /\ HoldsRoom /\ TextInv /\ EndInv /\ [Next]_vars => TextInv' /\ EndInv'
  BY TypeStep, TextsStep, EndStep
<1> QED
  BY TypeInvariant, TextsInit, EndInit, <1>1, PTL DEF Spec

\* A row of numbers is what is under way.
LEMMA LineIsUnderWay ==
    ASSUME TypeOK
    PROVE  /\ Len(UnderWay) = Len(inbox) + Len(packets) /\ Len(UnderWay) \in Nat
           /\ \A i \in 1..Len(UnderWay) :
                /\ Line(inbox, packets)[i] = Number(UnderWay[i])
                /\ IsText(UnderWay[i]) => UnderWay[i].id # 0
<1>1. /\ inbox \in Seq(Event \cup Packet) /\ packets \in Seq(Event \cup Packet)
      /\ Len(inbox) \in Nat /\ Len(packets) \in Nat
      /\ \A i \in 1..Len(inbox) : inbox[i] \in Event
      /\ \A i \in 1..Len(packets) : packets[i] \in Packet
  <2>1. inbox \in Seq(Event) /\ packets \in Seq(Packet)
    BY DEF TypeOK
  <2>2. /\ Len(inbox) \in Nat /\ \A i \in 1..Len(inbox) : inbox[i] \in Event
        /\ Len(packets) \in Nat /\ \A i \in 1..Len(packets) : packets[i] \in Packet
    BY <2>1, LenProperties, ElementOfSeq
  <2>3. inbox \in Seq(Event \cup Packet)
    BY <2>1, SeqMonotonic
  <2>4. packets \in Seq(Event \cup Packet)
    BY <2>1, SeqMonotonic
  <2> QED  BY <2>2, <2>3, <2>4
<1>2. /\ Len(inbox \o packets) = Len(inbox) + Len(packets)
      /\ \A i \in 1..Len(inbox) + Len(packets) : (inbox \o packets)[i] =
           IF i <= Len(inbox) THEN inbox[i] ELSE packets[i - Len(inbox)]
  BY <1>1, ConcatProperties
<1>3. ASSUME NEW i \in 1..Len(UnderWay)
      PROVE  /\ Line(inbox, packets)[i] = Number(UnderWay[i])
             /\ IsText(UnderWay[i]) => UnderWay[i].id # 0
  <2>1. i \in 1..Len(inbox) + Len(packets)
    BY <1>2 DEF UnderWay
  <2>2. CASE i <= Len(inbox)
    <3>1. UnderWay[i] = inbox[i] /\ inbox[i] \in Event
      BY <1>1, <1>2, <2>1, <2>2 DEF UnderWay
    <3>2. Line(inbox, packets)[i] = Number(inbox[i])
      BY <2>1, <2>2 DEF Line
    <3>3. IsText(inbox[i]) => inbox[i].id # 0
      BY <3>1, EventFacts DEF IsText
    <3> QED  BY <3>1, <3>2, <3>3
  <2>3. CASE ~(i <= Len(inbox))
    <3>1. i - Len(inbox) \in 1..Len(packets)
      BY <1>1, <2>1, <2>3
    <3>2. UnderWay[i] = packets[i - Len(inbox)] /\ packets[i - Len(inbox)] \in Packet
      BY <1>1, <1>2, <2>1, <2>3, <3>1 DEF UnderWay
    <3>3. Line(inbox, packets)[i] = Number(packets[i - Len(inbox)])
      BY <2>1, <2>3 DEF Line
    <3>4. IsText(packets[i - Len(inbox)]) => packets[i - Len(inbox)].id # 0
      BY <3>2, PacketFacts DEF IsText
    <3> QED  BY <3>2, <3>3, <3>4
  <2> QED  BY <2>2, <2>3
<1> QED  BY <1>1, <1>2, <1>3 DEF UnderWay

\* Every text message posted is spoken or chimed for once, in order and by the name its
\* sender had then, or is still on its way, through renames and failures of the synthesis;
\* those no decoder is given are a last part of them, unread when the connection failed or worked
\* off after it had ended and the decoder with it (control.rs:178-191, 255-314,
\* session.rs:475-495, 571-593).
THEOREM NoTextIsSkipped == Spec => []NoTextSkipped
<1>1. ASSUME TypeOK, TextInv, EndInv PROVE NoTextSkipped
  <2>1. TakenIsPosted /\ InboxIsNamed
    BY <1>1 DEF TextInv
  <2>2. /\ Len(UnderWay) = Len(inbox) + Len(packets) /\ Len(UnderWay) \in Nat
        /\ \A i \in 1..Len(UnderWay) :
             /\ Line(inbox, packets)[i] = Number(UnderWay[i])
             /\ IsText(UnderWay[i]) => UnderWay[i].id # 0
    BY <1>1, LineIsUnderWay
  <2>3. InOrder(Line(inbox, packets), Len(UnderWay), Len(Taken), Len(posted))
    BY <1>1, <2>2 DEF TextInv, TextsInOrder
  <2>4. /\ TextsUnderWay \subseteq 1..Len(UnderWay)
        /\ \A i \in 1..Len(UnderWay) : i \in TextsUnderWay <=> IsText(UnderWay[i])
    BY DEF TextsUnderWay, IsText
  <2>5. \A i \in TextsUnderWay :
          Line(inbox, packets)[i] = UnderWay[i].id /\ UnderWay[i].id # 0
    BY <2>2, <2>4 DEF Number
  <2>6. \A i \in 1..Len(UnderWay) : Line(inbox, packets)[i] # 0 => i \in TextsUnderWay
    BY <2>2, <2>4 DEF Number
  <2>7. {UnderWay[i].id : i \in TextsUnderWay} = Len(Taken) + 1 .. Len(posted)
    <3>1. ASSUME NEW i \in TextsUnderWay PROVE UnderWay[i].id \in Len(Taken) + 1 .. Len(posted)
      BY <2>3, <2>4, <2>5 DEF InOrder
    <3>2. ASSUME NEW x \in Len(Taken) + 1 .. Len(posted)
          PROVE  \E i \in TextsUnderWay : UnderWay[i].id = x
      <4>1. PICK i \in 1..Len(UnderWay) : Line(inbox, packets)[i] = x
        BY <2>3 DEF InOrder
      <4>2. x # 0
        BY <1>1, TakenFacts
      <4> QED  BY <2>5, <2>6, <4>1, <4>2
    <3> QED  BY <3>1, <3>2
  <2>8. \A i, j \in TextsUnderWay : i < j => UnderWay[i].id < UnderWay[j].id
    BY <2>3, <2>4, <2>5 DEF InOrder
  <2>9. missed # <<>> => conn = "ended" /\ ~decoder
    BY <1>1 DEF EndInv
  <2> QED
    BY <2>1, <2>7, <2>8, <2>9 DEF NoTextSkipped, TakenIsPosted, InboxIsNamed
<1> QED
  BY <1>1, TextsInvariant, PTL
=============================================================================
