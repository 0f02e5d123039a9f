-------------------------- MODULE ChannelNav_proofs --------------------------
(***************************************************************************)
(* The session and the event task know the caller's channel, for any set   *)
(* of users and channels and any number of digits and moves.               *)
(***************************************************************************)
EXTENDS ChannelNav, TLAPS

Events == [user : Users \cup {Self}, channel : Nat \cup {None},
           from : Nat \cup {None}, home : Nat]

\* What the proofs need to know of the types.
Types ==
    /\ actual \in Nat
    /\ others \in [Users -> Nat \cup {None}]
    /\ conn \in {"up", "closed", "dropped"}
    /\ outgoing \in Seq(Nat)
    /\ incoming \in Seq(Events)
    /\ current \in Nat
    /\ joining \in Nat \cup {None}
    /\ strayed \in {"no", "moved", "crossed"}

\* The last request is for the channel the session has recorded, or is about to.
SessionHeads ==
    conn = "up" /\ strayed = "no" =>
      Heading = IF joining = None THEN current ELSE joining

\* The highest channel is a channel.
LEMMA MaxChannelType == MaxChannel \in Nat
<1>1. \E x \in Existing : \A y \in Existing : x >= y
  BY ExistingAssumption, SMT
<1>2. MaxChannel \in Existing
  BY <1>1, SMT DEF MaxChannel, Max
<1>3. QED
  BY <1>2, ExistingAssumption

\* A digit leads to a channel.
LEMMA NavigationType ==
    ASSUME NEW c \in Nat
    PROVE  Previous(c) \in Nat /\ NextChannel(c) \in Nat
BY MaxChannelType, SMT DEF Previous, NextChannel

\* The last element of a sequence that grows, or shrinks at its head.
LEMMA LastFacts ==
    ASSUME NEW S, NEW s \in Seq(S)
    PROVE  /\ \A x \in S : Last(Append(s, x)) = x /\ Append(s, x) # <<>>
           /\ s # <<>> => Last(s) \in S /\ Head(s) \in S /\ Tail(s) \in Seq(S)
           /\ s # <<>> /\ Tail(s) = <<>> => Last(s) = Head(s)
           /\ s # <<>> /\ Tail(s) # <<>> => Last(Tail(s)) = Last(s)
<1>1. \A x \in S : Last(Append(s, x)) = x /\ Append(s, x) # <<>>
  <2> SUFFICES ASSUME NEW x \in S
               PROVE  Last(Append(s, x)) = x /\ Append(s, x) # <<>>
    OBVIOUS
  <2>1. Len(Append(s, x)) = Len(s) + 1 /\ Len(s) \in Nat
    BY SMT
  <2>2. Append(s, x)[Len(s) + 1] = x
    BY SMT
  <2>3. Append(s, x) # <<>>
    BY <2>1, SMT
  <2> QED  BY <2>1, <2>2, <2>3 DEF Last
<1>2. ASSUME s # <<>>
      PROVE  /\ Last(s) \in S /\ Head(s) \in S /\ Tail(s) \in Seq(S)
             /\ Tail(s) = <<>> => Last(s) = Head(s)
             /\ Tail(s) # <<>> => Last(Tail(s)) = Last(s)
  <2>1. Len(s) \in Nat \ {0} /\ \A i \in 1..Len(s) : s[i] \in S
    BY <1>2, SMT
  <2>2. /\ Head(s) = s[1] /\ Tail(s) \in Seq(S) /\ Len(Tail(s)) = Len(s) - 1
        /\ \A i \in 1..Len(Tail(s)) : Tail(s)[i] = s[i + 1]
    BY <1>2, SMT
  <2>3. Last(s) \in S /\ Head(s) \in S
    BY <2>1, <2>2, SMT DEF Last
  <2>4. Tail(s) = <<>> <=> Len(Tail(s)) = 0
    BY <2>2, SMT
  <2>5. Tail(s) = <<>> => Last(s) = Head(s)
    <3> SUFFICES ASSUME Tail(s) = <<>> PROVE Last(s) = Head(s)
      OBVIOUS
    <3>1. Len(s) = 1
      BY <2>1, <2>2, <2>4, SMT
    <3> QED  BY <2>2, <3>1 DEF Last
  <2>6. Tail(s) # <<>> => Last(Tail(s)) = Last(s)
    <3> SUFFICES ASSUME Tail(s) # <<>> PROVE Last(Tail(s)) = Last(s)
      OBVIOUS
    <3>1. Len(Tail(s)) \in 1..Len(Tail(s)) /\ Len(Tail(s)) + 1 = Len(s)
      BY <2>1, <2>2, <2>4, SMT
    <3>2. Tail(s)[Len(Tail(s))] = s[Len(s)]
      BY <2>2, <3>1
    <3> QED  BY <3>2 DEF Last
  <2> QED  BY <2>2, <2>3, <2>5, <2>6
<1> QED  BY <1>1, <1>2

\* The state after connect satisfies the types and knows where the caller is heading.
LEMMA StartsKnowing == Init => Types /\ SessionHeads
<1> SUFFICES ASSUME Init PROVE Types /\ SessionHeads
  OBVIOUS
<1> USE NoneAssumption, ExistingAssumption
<1>1. PICK target \in Targets, ch \in LastChannels :
        /\ outgoing = (IF target # None THEN <<target>> ELSE <<>>)
                        \o (IF Rejoins(target, ch) THEN <<ch>> ELSE <<>>)
        /\ current = IF Rejoins(target, ch) THEN ch ELSE JoinedAtLogin(target)
  BY DEF Init
<1>2. target \in Nat \cup {None} /\ ch \in Nat \cup {None}
  BY LoginAssumption, LastChannelsAssumption
<1>3. Rejoins(target, ch) => ch \in Nat
  BY <1>2 DEF Rejoins
<1>4. target # None => target \in Nat
  BY <1>2
<1>5. actual \in Nat /\ joining = None
      /\ strayed = (IF outgoing = <<>> /\ actual # current THEN "crossed" ELSE "no")
  BY LoginAssumption DEF Init
<1>6. current \in Nat
  BY <1>1, <1>3, <1>4 DEF JoinedAtLogin
<1>7. others \in [Users -> Nat \cup {None}]
  BY DEF Init
<1>8. outgoing \in Seq(Nat) /\ (outgoing # <<>> => Last(outgoing) = current)
  <2>1. CASE target # None /\ Rejoins(target, ch)
    <3>1. outgoing = <<target>> \o <<ch>> /\ current = ch
      BY <1>1, <2>1
    <3>2. <<target>> \in Seq(Nat) /\ <<ch>> \in Seq(Nat)
      BY <1>3, <1>4, <2>1
    <3>3. outgoing \in Seq(Nat) /\ Len(outgoing) = 2 /\ outgoing[2] = ch
      BY <3>1, <3>2, SMT
    <3> QED  BY <3>1, <3>3 DEF Last
  <2>2. CASE target # None /\ ~Rejoins(target, ch)
    <3>1. outgoing = <<target>> /\ current = target
      BY <1>1, <2>2, SMT DEF JoinedAtLogin
    <3> QED  BY <1>4, <2>2, <3>1, SMT DEF Last
  <2>3. CASE target = None /\ Rejoins(target, ch)
    <3>1. outgoing = <<ch>> /\ current = ch
      BY <1>1, <2>3, SMT
    <3> QED  BY <1>3, <2>3, <3>1, SMT DEF Last
  <2>4. CASE target = None /\ ~Rejoins(target, ch)
    <3>1. outgoing = <<>>
      BY <1>1, <2>4, SMT
    <3> QED  BY <3>1, SMT
  <2> QED  BY <2>1, <2>2, <2>3, <2>4
<1>9. Types
  BY <1>5, <1>6, <1>7, <1>8 DEF Types, Init
<1>10. SessionHeads
  BY <1>5, <1>8 DEF SessionHeads, Heading
<1> QED  BY <1>9, <1>10

\* No step takes the session's channel from where the caller is heading.
LEMMA StaysHeading == Types /\ SessionHeads /\ [Next]_vars => Types' /\ SessionHeads'
<1> SUFFICES ASSUME Types, SessionHeads, [Next]_vars
             PROVE  Types' /\ SessionHeads'
  OBVIOUS
<1> USE NoneAssumption, ExistingAssumption
<1>1. CASE GrantJoin
  <2>1. /\ outgoing \in Seq(Nat) /\ outgoing # <<>> /\ Head(outgoing) \in Nat
        /\ outgoing' = Tail(outgoing) /\ outgoing' \in Seq(Nat)
        /\ outgoing' = <<>> => Last(outgoing) = Head(outgoing)
        /\ outgoing' # <<>> => Last(outgoing') = Last(outgoing)
        /\ actual' = Head(outgoing)
        /\ UNCHANGED <<others, conn, current, joining, strayed>>
    BY <1>1, LastFacts DEF GrantJoin, Types, sessionVars, historyVars
  <2>2. incoming' \in Seq(Events)
    <3>1. CASE actual' = actual
      BY <1>1, <3>1 DEF GrantJoin, Types
    <3>2. CASE actual' # actual
      <4>1. MoveEvent(Self, actual', actual, actual) \in Events
        BY <2>1 DEF MoveEvent, Events, Types
      <4>2. incoming' = Append(incoming, MoveEvent(Self, actual', actual, actual))
        BY <1>1, <3>2 DEF GrantJoin, Tell
      <4> QED  BY <4>1, <4>2 DEF Types
    <3> QED  BY <3>1, <3>2
  <2>3. Heading' = Heading
    BY <2>1 DEF Heading
  <2> QED  BY <2>1, <2>2, <2>3 DEF Types, SessionHeads
<1>2. CASE DenyJoin
  <2>1. /\ outgoing' \in Seq(Nat) /\ strayed' = "crossed"
        /\ UNCHANGED <<actual, others, conn, incoming, current, joining>>
    BY <1>2, LastFacts DEF DenyJoin, Types, sessionVars
  <2> QED  BY <2>1 DEF Types, SessionHeads
<1>3. ASSUME NEW c \in Existing, MoveCaller(c) PROVE Types' /\ SessionHeads'
  <2>1. /\ actual' \in Nat /\ strayed' \in {"moved", "crossed"}
        /\ UNCHANGED <<others, conn, outgoing, current, joining>>
    BY <1>3 DEF MoveCaller, sessionVars
  <2>2. MoveEvent(Self, c, actual, actual) \in Events
    BY DEF MoveEvent, Events, Types
  <2>3. incoming' = Append(incoming, MoveEvent(Self, c, actual, actual))
    BY <1>3 DEF MoveCaller, Tell
  <2>4. incoming' \in Seq(Events)
    BY <2>2, <2>3 DEF Types
  <2> QED  BY <2>1, <2>4 DEF Types, SessionHeads
<1>4. ASSUME NEW u \in Users, NEW c \in Existing \cup {None}, MoveOther(u, c)
      PROVE  Types' /\ SessionHeads'
  <2>1. /\ others' = [others EXCEPT ![u] = c]
        /\ UNCHANGED <<actual, conn, outgoing, current, joining, strayed>>
    BY <1>4 DEF MoveOther, sessionVars, historyVars
  <2>2. others' \in [Users -> Nat \cup {None}] /\ others[u] \in Nat \cup {None}
    BY <2>1 DEF Types
  <2>3. MoveEvent(u, c, others[u], actual) \in Events
    BY <2>2 DEF MoveEvent, Events, Types
  <2>4. incoming' = Append(incoming, MoveEvent(u, c, others[u], actual))
    BY <1>4 DEF MoveOther, Tell
  <2>5. incoming' \in Seq(Events)
    BY <2>3, <2>4 DEF Types
  <2> QED  BY <2>1, <2>2, <2>5 DEF Types, SessionHeads, Heading
<1>5. CASE CloseConnection
  BY <1>5 DEF CloseConnection, Types, SessionHeads, sessionVars, historyVars
<1>6. ASSUME NEW to \in Nat, Digit(to) PROVE Types' /\ SessionHeads'
  <2>1. /\ joining' = to /\ to # None
        /\ outgoing' = IF conn = "up" THEN Append(outgoing, to) ELSE outgoing
        /\ UNCHANGED <<actual, others, conn, incoming, current>> /\ strayed' = "no"
    BY <1>6 DEF Digit
  <2>2. outgoing' \in Seq(Nat)
    BY <2>1 DEF Types
  <2>3. conn = "up" => outgoing' # <<>> /\ Last(outgoing') = to
    BY <2>1, LastFacts DEF Types
  <2> QED  BY <2>1, <2>2, <2>3 DEF Types, SessionHeads, Heading
<1>7. CASE DigitFails
  BY <1>7 DEF DigitFails, Types, SessionHeads, Heading, sessionVars, historyVars
<1>8. CASE DigitRecorded
  BY <1>8 DEF DigitRecorded, Types, SessionHeads, Heading, historyVars
<1>9. CASE HangUp
  BY <1>9 DEF HangUp, Types, SessionHeads, Heading, historyVars
<1>10. ASSUME incoming # <<>>, incoming' = Tail(incoming),
              UNCHANGED <<actual, others, conn, outgoing, current, joining, strayed>>
       PROVE  Types' /\ SessionHeads'
  <2>1. incoming' \in Seq(Events)
    BY <1>10, LastFacts DEF Types
  <2> QED  BY <1>10, <2>1 DEF Types, SessionHeads, Heading
<1>11. CASE HandleSelf
  BY <1>10, <1>11 DEF HandleSelf, sessionVars
<1>12. CASE HandleOther
  BY <1>10, <1>12 DEF HandleOther, sessionVars
<1>13. CASE HandleClosed
  BY <1>13 DEF HandleClosed, Types, SessionHeads, Heading, sessionVars, historyVars
<1>14. CASE UNCHANGED vars
  BY <1>14 DEF vars, Types, SessionHeads, Heading, sessionVars, historyVars
<1>15. Previous(current) \in Nat /\ NextChannel(current) \in Nat
  BY NavigationType DEF Types
<1> QED
  BY <1>1, <1>2, <1>3, <1>4, <1>5, <1>6, <1>7, <1>8, <1>9, <1>11, <1>12, <1>13, <1>14,
     <1>15 DEF Next

\* The session's channel is where the caller is heading, unless the server denied or
\* moved since the last digit (session.rs:811-840): however many digits, joins and
\* events interleave, over any set of channels.
THEOREM SessionKnowsTheChannel == Spec => []SessionKnowsChannel
<1>1. Types /\ SessionHeads => SessionKnowsChannel
  BY DEF SessionHeads, SessionKnowsChannel
<1> QED
  BY <1>1, StartsKnowing, StaysHeading, PTL DEF Spec

(***************************************************************************)
(* The event task.                                                         *)
(***************************************************************************)
NoOwnMove == \A i \in 1..Len(incoming) : incoming[i].user # Self

\* The last of the caller's own moves under way leads to where the caller is.
LastMoveArrives ==
    \A i \in 1..Len(incoming) :
      incoming[i].user = Self /\ (\A j \in i + 1..Len(incoming) : incoming[j].user # Self)
        => incoming[i].channel = actual

\* Without a move under way or to come, the task knows where the caller is.
Settled ==
    /\ strayed # "crossed" /\ joining = None
    /\ NoOwnMove
    /\ \A i \in 1..Len(outgoing) : outgoing[i] = actual

TaskFollows ==
    conn = "up" /\ persisted = None =>
      /\ LastMoveArrives
      /\ ~stirred => joining = None /\ outgoing = <<>>
      /\ strayed = "moved" => joining = None
      /\ Settled => Noticed = actual

\* What an event at the end of the stream does to it.
LEMMA AppendedEvent ==
    ASSUME Types, NEW e \in Events, incoming' = Append(incoming, e)
    PROVE  /\ incoming' \in Seq(Events)
           /\ Len(incoming') = Len(incoming) + 1 /\ Len(incoming) \in Nat
           /\ incoming'[Len(incoming) + 1] = e
           /\ \A i \in 1..Len(incoming) : incoming'[i] = incoming[i]
BY SMT DEF Types

\* What the caller's own move does to the stream: it is the last of them.
LEMMA OwnMoveAppended ==
    ASSUME Types, NEW e \in Events, incoming' = Append(incoming, e),
           e.user = Self, e.channel = actual'
    PROVE  LastMoveArrives' /\ ~NoOwnMove'
<1>1. /\ Len(incoming') = Len(incoming) + 1 /\ Len(incoming) \in Nat
      /\ incoming'[Len(incoming) + 1] = e
  BY AppendedEvent
<1>2. ~NoOwnMove'
  <2>1. Len(incoming) + 1 \in 1..Len(incoming')
    BY <1>1, SMT
  <2> QED  BY <1>1, <2>1 DEF NoOwnMove
<1>3. ASSUME NEW i \in 1..Len(incoming'),
             \A j \in i + 1..Len(incoming') : incoming'[j].user # Self
      PROVE  incoming'[i].channel = actual'
  <2>1. CASE i = Len(incoming) + 1
    BY <1>1, <2>1
  <2>2. CASE i # Len(incoming) + 1
    <3>1. Len(incoming) + 1 \in i + 1..Len(incoming')
      BY <1>1, <2>2, SMT
    <3> QED  BY <1>1, <1>3, <3>1
  <2> QED  BY <2>1, <2>2
<1> QED
  BY <1>2, <1>3 DEF LastMoveArrives

\* What somebody else's move does to it: nothing.
LEMMA OtherMoveAppended ==
    ASSUME Types, NEW e \in Events, incoming' = Append(incoming, e), e.user # Self,
           actual' = actual, LastMoveArrives
    PROVE  LastMoveArrives' /\ (NoOwnMove' => NoOwnMove)
<1>1. /\ Len(incoming') = Len(incoming) + 1 /\ Len(incoming) \in Nat
      /\ incoming'[Len(incoming) + 1] = e
      /\ \A i \in 1..Len(incoming) : incoming'[i] = incoming[i]
  BY AppendedEvent
<1>2. \A i \in 1..Len(incoming) : i \in 1..Len(incoming')
  BY <1>1, SMT
<1>3. NoOwnMove' => NoOwnMove
  BY <1>1, <1>2 DEF NoOwnMove
<1>4. ASSUME NEW i \in 1..Len(incoming'), incoming'[i].user = Self,
             \A j \in i + 1..Len(incoming') : incoming'[j].user # Self
      PROVE  incoming'[i].channel = actual'
  <2>1. i # Len(incoming) + 1
    BY <1>1, <1>4
  <2>2. i \in 1..Len(incoming)
    BY <1>1, <2>1, SMT
  <2>3. \A j \in i + 1..Len(incoming) : j \in 1..Len(incoming) /\ j \in i + 1..Len(incoming')
    BY <1>1, <2>2, SMT
  <2>4. \A j \in i + 1..Len(incoming) : incoming[j].user # Self
    BY <1>1, <1>4, <2>3
  <2>5. incoming[i].user = Self /\ incoming'[i] = incoming[i]
    BY <1>1, <1>4, <2>2
  <2> QED  BY <2>2, <2>4, <2>5 DEF LastMoveArrives
<1> QED
  BY <1>3, <1>4 DEF LastMoveArrives

\* What the handling of the first event does to it.
LEMMA EventHandled ==
    ASSUME Types, incoming # <<>>, incoming' = Tail(incoming), actual' = actual, LastMoveArrives
    PROVE  /\ LastMoveArrives'
           /\ NoOwnMove' /\ Head(incoming).user = Self => Head(incoming).channel = actual
           /\ NoOwnMove' /\ Head(incoming).user # Self => NoOwnMove
<1>1. /\ Len(incoming) \in Nat \ {0} /\ Len(incoming') = Len(incoming) - 1
      /\ Head(incoming) = incoming[1]
      /\ \A i \in 1..Len(incoming') : incoming'[i] = incoming[i + 1]
  BY SMT DEF Types
<1>2. \A i \in 2..Len(incoming) : i - 1 \in 1..Len(incoming') /\ incoming[i] = incoming'[i - 1]
  <2> SUFFICES ASSUME NEW i \in 2..Len(incoming)
               PROVE  i - 1 \in 1..Len(incoming') /\ incoming[i] = incoming'[i - 1]
    OBVIOUS
  <2>1. i - 1 \in 1..Len(incoming') /\ (i - 1) + 1 = i
    BY <1>1, SMT
  <2> QED  BY <1>1, <2>1
<1>3. ASSUME NEW i \in 1..Len(incoming'), incoming'[i].user = Self,
             \A j \in i + 1..Len(incoming') : incoming'[j].user # Self
      PROVE  incoming'[i].channel = actual'
  <2>1. i + 1 \in 1..Len(incoming) /\ incoming'[i] = incoming[i + 1]
    BY <1>1, SMT
  <2>2. \A j \in (i + 1) + 1..Len(incoming) :
          j \in 2..Len(incoming) /\ j - 1 \in i + 1..Len(incoming')
    BY <1>1, SMT
  <2>3. \A j \in (i + 1) + 1..Len(incoming) : incoming[j].user # Self
    BY <1>2, <1>3, <2>2
  <2> QED  BY <1>3, <2>1, <2>3 DEF LastMoveArrives
<1>4. ASSUME NoOwnMove' PROVE \A j \in 1 + 1..Len(incoming) : incoming[j].user # Self
  <2>1. \A j \in 1 + 1..Len(incoming) : j \in 2..Len(incoming)
    BY SMT
  <2> QED  BY <1>2, <1>4, <2>1 DEF NoOwnMove
<1>5. 1 \in 1..Len(incoming)
  BY <1>1, SMT
<1>6. NoOwnMove' /\ Head(incoming).user = Self => Head(incoming).channel = actual
  BY <1>1, <1>4, <1>5 DEF LastMoveArrives
<1>7. NoOwnMove' /\ Head(incoming).user # Self => NoOwnMove
  <2>1. \A i \in 1..Len(incoming) : i = 1 \/ i \in 1 + 1..Len(incoming)
    BY <1>1, SMT
  <2> QED  BY <1>1, <1>4, <2>1 DEF NoOwnMove
<1> QED
  BY <1>3, <1>6, <1>7 DEF LastMoveArrives

\* A session about to record a channel is heading there: so is the caller.
LEMMA AllHere ==
    ASSUME Types, \A i \in 1..Len(outgoing) : outgoing[i] = actual
    PROVE  Heading = actual
<1>1. CASE outgoing = <<>>
  BY <1>1 DEF Heading
<1>2. CASE outgoing # <<>>
  <2>1. Len(outgoing) \in 1..Len(outgoing)
    BY <1>2, SMT DEF Types
  <2> QED  BY <1>2, <2>1 DEF Heading, Last
<1> QED  BY <1>1, <1>2

\* The task knows where the caller is when the call begins.
LEMMA StartsFollowing == Init => TaskFollows
<1> SUFFICES ASSUME Init PROVE TaskFollows
  OBVIOUS
<1>1. Types /\ SessionHeads
  BY StartsKnowing
<1>2. /\ incoming = <<>> /\ joining = None /\ our = current /\ changed = FALSE
      /\ stirred = (outgoing # <<>>) /\ strayed # "moved" /\ conn = "up"
      /\ strayed = (IF outgoing = <<>> /\ actual # current THEN "crossed" ELSE "no")
  BY DEF Init
<1>3. \A i \in 1..Len(incoming) : FALSE
  BY <1>2, SMT
<1>4. Settled => Noticed = actual
  BY <1>1, <1>2, AllHere DEF Settled, Noticed, SessionHeads
<1> QED
  BY <1>2, <1>3, <1>4 DEF TaskFollows, LastMoveArrives

\* No step makes it lose the caller.
LEMMA KeepsFollowing ==
    Types /\ SessionHeads /\ TaskFollows /\ [Next]_vars => TaskFollows'
<1> SUFFICES ASSUME Types, SessionHeads, TaskFollows, [Next]_vars,
                    conn' = "up", persisted' = None
             PROVE  TaskFollows'
  BY DEF TaskFollows
<1> USE NoneAssumption, ExistingAssumption, SelfAssumption
<1>1. CASE GrantJoin
  <2>1. /\ conn = "up" /\ persisted = None /\ outgoing # <<>> /\ outgoing' = Tail(outgoing)
        /\ actual' = Head(outgoing) /\ Head(outgoing) \in Nat
        /\ UNCHANGED <<joining, strayed, stirred, watch, changed, our>>
    BY <1>1, LastFacts DEF GrantJoin, Types, sessionVars, historyVars, taskVars
  <2>2. stirred /\ (strayed = "moved" => joining = None)
    BY <2>1 DEF TaskFollows
  <2>3. CASE actual' = actual
    <3>1. incoming' = incoming
      BY <1>1, <2>3 DEF GrantJoin
    <3>2. Settled' => Settled
      <4> SUFFICES ASSUME Settled' PROVE Settled
        OBVIOUS
      <4>1. /\ Len(outgoing) \in Nat \ {0} /\ Len(outgoing') = Len(outgoing) - 1
            /\ outgoing[1] = actual
            /\ \A i \in 1..Len(outgoing') : outgoing'[i] = outgoing[i + 1]
        BY <2>1, <2>3, SMT DEF Types
      <4>2. ASSUME NEW i \in 1..Len(outgoing) PROVE outgoing[i] = actual
        <5>1. CASE i = 1
          BY <4>1, <5>1
        <5>2. CASE i # 1
          <6>1. i - 1 \in 1..Len(outgoing') /\ (i - 1) + 1 = i
            BY <4>1, <5>2, SMT
          <6> QED  BY <2>3, <4>1, <6>1 DEF Settled
        <5> QED  BY <5>1, <5>2
      <4> QED  BY <2>1, <3>1, <4>2 DEF Settled, NoOwnMove
    <3> QED  BY <2>1, <2>2, <2>3, <3>1, <3>2 DEF TaskFollows, LastMoveArrives, Noticed
  <2>4. CASE actual' # actual
    <3> DEFINE e == MoveEvent(Self, actual', actual, actual)
    <3>1. e \in Events /\ e.user = Self /\ e.channel = actual'
      BY <2>1 DEF MoveEvent, Events, Types
    <3>2. incoming' = Append(incoming, e)
      BY <1>1, <2>4 DEF GrantJoin, Tell
    <3> HIDE DEF e
    <3>3. LastMoveArrives' /\ ~NoOwnMove'
      BY <3>1, <3>2, OwnMoveAppended
    <3> QED  BY <2>1, <2>2, <3>3 DEF TaskFollows, Settled
  <2> QED  BY <2>3, <2>4
<1>2. CASE DenyJoin
  <2>1. /\ conn = "up" /\ persisted = None /\ outgoing # <<>> /\ strayed' = "crossed"
        /\ UNCHANGED <<actual, incoming, stirred>>
    BY <1>2 DEF DenyJoin, sessionVars
  <2> QED  BY <2>1 DEF TaskFollows, LastMoveArrives, Settled
<1>3. ASSUME NEW c \in Existing, MoveCaller(c) PROVE TaskFollows'
  <2> DEFINE e == MoveEvent(Self, c, actual, actual)
  <2>1. /\ conn = "up" /\ persisted = None /\ actual' = c /\ incoming' = Append(incoming, e)
        /\ strayed' = (IF stirred \/ strayed = "crossed" THEN "crossed" ELSE "moved")
        /\ UNCHANGED <<outgoing, joining, stirred>>
    BY <1>3 DEF MoveCaller, Tell, Happens, sessionVars
  <2>2. e \in Events /\ e.user = Self /\ e.channel = actual'
    BY <2>1 DEF MoveEvent, Events, Types
  <2> HIDE DEF e
  <2>3. LastMoveArrives' /\ ~NoOwnMove'
    BY <2>1, <2>2, OwnMoveAppended
  <2> QED  BY <2>1, <2>3 DEF TaskFollows, Settled
<1>4. ASSUME NEW u \in Users, NEW c \in Existing \cup {None}, MoveOther(u, c)
      PROVE  TaskFollows'
  <2> DEFINE e == MoveEvent(u, c, others[u], actual)
  <2>1. /\ conn = "up" /\ persisted = None /\ incoming' = Append(incoming, e)
        /\ UNCHANGED <<actual, outgoing, joining, stirred, strayed, watch, changed, our>>
    BY <1>4 DEF MoveOther, Tell, Happens, sessionVars, historyVars, taskVars
  <2>2. e \in Events /\ e.user # Self
    BY DEF MoveEvent, Events, Types
  <2> HIDE DEF e
  <2>3. LastMoveArrives' /\ (NoOwnMove' => NoOwnMove)
    BY <2>1, <2>2, OtherMoveAppended DEF TaskFollows
  <2> QED  BY <2>1, <2>3 DEF TaskFollows, Settled, Noticed
<1>5. ASSUME NEW to \in Nat, Digit(to) PROVE TaskFollows'
  BY <1>5 DEF Digit, taskVars, TaskFollows, Settled, LastMoveArrives
<1>6. CASE DigitRecorded
  <2>1. /\ joining # None /\ joining' = None /\ Noticed' = joining
        /\ UNCHANGED <<actual, conn, persisted, incoming, outgoing, stirred, strayed>>
    BY <1>6 DEF DigitRecorded, Noticed, historyVars
  <2>2. Settled' => Heading = actual /\ strayed = "no"
    BY <2>1, AllHere DEF Settled, TaskFollows, Types
  <2> QED  BY <2>1, <2>2 DEF TaskFollows, LastMoveArrives, SessionHeads
<1>7. CASE HandleSelf \/ HandleOther
  <2>1. /\ conn = "up" /\ persisted = None /\ incoming # <<>> /\ incoming' = Tail(incoming)
        /\ UNCHANGED <<actual, outgoing, joining, strayed>> /\ changed' = FALSE
        /\ \/ Head(incoming).user = Self /\ our' = Head(incoming).channel
           \/ Head(incoming).user # Self /\ our' = Noticed
        /\ stirred' = (stirred /\ ~(conn = "up" /\ incoming' = <<>> /\ outgoing = <<>>
                               /\ joining = None))
    BY <1>7 DEF HandleSelf, HandleOther, Settles, sessionVars
  <2>2. /\ LastMoveArrives'
        /\ NoOwnMove' /\ Head(incoming).user = Self => Head(incoming).channel = actual
        /\ NoOwnMove' /\ Head(incoming).user # Self => NoOwnMove
    BY <2>1, EventHandled DEF TaskFollows
  <2>3. Noticed' = our'
    BY <2>1 DEF Noticed
  <2>4. Settled' => Noticed' = actual'
    BY <2>1, <2>2, <2>3 DEF TaskFollows, Settled
  <2> QED  BY <2>1, <2>2, <2>4 DEF TaskFollows
<1>8. CASE DigitFails \/ UNCHANGED vars
  BY <1>8 DEF DigitFails, vars, sessionVars, taskVars, historyVars, TaskFollows,
     LastMoveArrives, Settled, NoOwnMove, Noticed
<1>9. CASE CloseConnection \/ HangUp \/ HandleClosed
  BY <1>9 DEF CloseConnection, HangUp, HandleClosed, Types
<1>10. Previous(current) \in Nat /\ NextChannel(current) \in Nat
  BY NavigationType DEF Types
<1> QED
  BY <1>1, <1>2, <1>3, <1>4, <1>5, <1>6, <1>7, <1>8, <1>9, <1>10 DEF Next

\* With nothing under way the event task knows the caller's channel, unless the server
\* denied a join, or moved the caller across a digit (session.rs:515-517, 836-837).
THEOREM TaskKnowsTheChannel == Spec => []TaskKnowsChannel
<1>1. Types /\ TaskFollows => TaskKnowsChannel
  <2> SUFFICES ASSUME Types, TaskFollows, conn = "up", persisted = None, joining = None,
                      outgoing = <<>>, incoming = <<>>, strayed # "crossed"
               PROVE  Noticed = actual
    BY DEF TaskKnowsChannel
  <2>1. 1..Len(incoming) = {} /\ 1..Len(outgoing) = {}
    BY SMT
  <2> QED  BY <2>1 DEF TaskFollows, Settled, NoOwnMove
<1> QED
  BY <1>1, StartsKnowing, StartsFollowing, StaysHeading, KeepsFollowing, PTL DEF Spec

(***************************************************************************)
(* The chimes.                                                             *)
(***************************************************************************)
\* A request under way, or one to come, is remembered as such.
StirKnown == joining # None \/ outgoing # <<>> => stirred

\* Where the caller is after an event, as far as the server is concerned.
HomeAfter(e) == IF e.user = Self THEN e.channel ELSE e.home

\* Each event finds the caller where the one before it left the caller.
HomesChain ==
    /\ \A i \in 1..Len(incoming), j \in 1..Len(incoming) :
         j = i + 1 => incoming[j].home = HomeAfter(incoming[i])
    /\ \A i \in 1..Len(incoming) : i = Len(incoming) => HomeAfter(incoming[i]) = actual

\* The task is one with the server before the first event under way.
HomeKnown ==
    ~stirred /\ strayed # "crossed" =>
      /\ incoming = <<>> => Noticed = actual
      /\ incoming # <<>> => Noticed = incoming[1].home

\* The channel user u is in after event i, and the one it is in before event j.
\* Event 0 is what user_channels holds, event Len(incoming) + 1 what the server does.
After(u, i)  == IF i = 0 THEN known[u] ELSE incoming[i].channel
Before(u, j) == IF j = Len(incoming) + 1 THEN others[u] ELSE incoming[j].from

\* Events i and j are about user u, and none between them is.
Adjacent(u, i, j) ==
    /\ i < j
    /\ i = 0 \/ incoming[i].user = u
    /\ j = Len(incoming) + 1 \/ incoming[j].user = u
    /\ \A k \in 1..Len(incoming) : i < k /\ k < j => incoming[k].user # u

\* Each user's moves under way begin where the one before ended, user_channels first,
\* unless user_channels does not hold the user.
MovesChain ==
    \A u \in Users : \A i \in 0..Len(incoming), j \in 1..Len(incoming) + 1 :
      Adjacent(u, i, j) => After(u, i) = Before(u, j) \/ (i = 0 /\ known[u] = None)

\* Nobody else is told to move to where they are.
MovesMove == \A i \in 1..Len(incoming) :
    incoming[i].user # Self => incoming[i].channel # incoming[i].from

ChimeInv ==
    /\ known \in [Users -> Nat \cup {None}]
    /\ StirKnown /\ HomesChain /\ HomeKnown /\ MovesChain /\ MovesMove
    /\ ChimesExact

\* When the call begins there is nothing under way.
LEMMA StartsChiming == Init => ChimeInv
<1> SUFFICES ASSUME Init PROVE ChimeInv
  OBVIOUS
<1> USE NoneAssumption
<1>1. /\ incoming = <<>> /\ joining = None /\ our = current /\ changed = FALSE
      /\ known = [u \in Users |-> None] /\ last = NoEvent
      /\ stirred = (outgoing # <<>>)
      /\ strayed = IF outgoing = <<>> /\ actual # current THEN "crossed" ELSE "no"
  BY DEF Init
<1>2. \A i \in 1..Len(incoming) : FALSE
  BY <1>1, SMT
<1>3. \A i \in 0..Len(incoming) : i = 0
  BY <1>1, SMT
<1>4. StirKnown /\ HomesChain /\ MovesMove
  BY <1>1, <1>2 DEF StirKnown, HomesChain, MovesMove
<1>5. HomeKnown
  BY <1>1 DEF HomeKnown, Noticed
<1>6. MovesChain
  BY <1>1, <1>3 DEF MovesChain
<1>7. ChimesExact
  BY <1>1 DEF ChimesExact, NoEvent, MoveEvent
<1> QED
  BY <1>1, <1>4, <1>5, <1>6, <1>7 DEF ChimeInv

\* A move that the server tells of continues the chains.
LEMMA ToldChains ==
    ASSUME Types, HomesChain, MovesChain, MovesMove,
           NEW e \in Events, incoming' = Append(incoming, e), known' = known,
           e.home = actual, HomeAfter(e) = actual',
           e.user # Self => e.channel # e.from,
           \A u \in Users : IF e.user = u THEN e.from = others[u] /\ e.channel = others'[u]
                            ELSE others'[u] = others[u]
    PROVE  HomesChain' /\ MovesChain' /\ MovesMove'
<1> DEFINE n == Len(incoming)
<1>1. /\ Len(incoming') = n + 1 /\ n \in Nat
      /\ incoming'[n + 1] = e
      /\ \A i \in 1..n : incoming'[i] = incoming[i]
  BY AppendedEvent
<1> HIDE DEF n
<1>3. HomesChain'
  <2>1. ASSUME NEW i \in 1..n + 1, NEW j \in 1..n + 1, j = i + 1
        PROVE  incoming'[j].home = HomeAfter(incoming'[i])
    <3>1. CASE j = n + 1
      <4>1. i = n /\ i \in 1..n
        BY <1>1, <2>1, <3>1, SMT
      <4> QED  BY <1>1, <3>1, <4>1 DEF HomesChain, n
    <3>2. CASE j # n + 1
      <4>1. i \in 1..n /\ j \in 1..n
        BY <1>1, <2>1, <3>2, SMT
      <4> QED  BY <1>1, <2>1, <4>1 DEF HomesChain, n
    <3> QED  BY <3>1, <3>2
  <2> QED  BY <1>1, <2>1 DEF HomesChain, HomeAfter
<1>4. MovesMove'
  <2>1. \A i \in 1..n + 1 : i = n + 1 \/ i \in 1..n
    BY <1>1, SMT
  <2> QED  BY <1>1, <2>1 DEF MovesMove, n
<1>5. ASSUME NEW u \in Users, NEW i \in 0..n + 1, NEW j \in 1..(n + 1) + 1,
             Adjacent(u, i, j)'
      PROVE  After(u, i)' = Before(u, j)' \/ (i = 0 /\ known'[u] = None)
  <2>1. /\ i < j
        /\ i = 0 \/ incoming'[i].user = u
        /\ j = (n + 1) + 1 \/ incoming'[j].user = u
        /\ \A k \in 1..n + 1 : i < k /\ k < j => incoming'[k].user # u
    BY <1>1, <1>5 DEF Adjacent
  <2>2. \A k \in 1..n : k \in 1..n + 1
    BY <1>1, SMT
  <2>3. CASE i = n + 1
    <3>1. j = (n + 1) + 1 /\ i # 0
      BY <1>1, <2>1, <2>3, SMT
    <3>2. e.user = u
      BY <1>1, <2>1, <2>3, <3>1
    <3> QED  BY <1>1, <2>3, <3>1, <3>2 DEF After, Before
  <2>4. CASE i # n + 1
    <3>1. i \in 0..n
      BY <1>1, <2>4, SMT
    <3>2. After(u, i)' = After(u, i)
      <4>1. i = 0 \/ i \in 1..n
        BY <1>1, <3>1, SMT
      <4> QED  BY <1>1, <4>1 DEF After
    <3>3. i = 0 \/ incoming[i].user = u
      <4>1. i = 0 \/ i \in 1..n
        BY <1>1, <3>1, SMT
      <4> QED  BY <1>1, <2>1, <4>1
    <3>4. CASE j \in 1..n
      <4>1. Adjacent(u, i, j)
        BY <1>1, <2>1, <2>2, <3>3, <3>4 DEF Adjacent, n
      <4>2. j # n + 1 /\ j # (n + 1) + 1 /\ j \in 1..n + 1
        BY <1>1, <3>4, SMT
      <4>3. Before(u, j)' = Before(u, j)
        BY <1>1, <3>4, <4>2 DEF Before, n
      <4> QED  BY <3>1, <3>2, <4>1, <4>2, <4>3 DEF MovesChain, n
    <3>5. CASE j \notin 1..n
      <4>1. j = n + 1 \/ (j = (n + 1) + 1 /\ n + 1 \in 1..n + 1 /\ i < n + 1 /\ n + 1 < j)
        BY <1>1, <2>1, <3>1, <3>5, SMT
      <4>2. i < n + 1 /\ n + 1 \in 1..n + 1 /\ n + 1 # (n + 1) + 1
            /\ \A k \in 1..n : k < n + 1 => k < j
        BY <1>1, <3>1, <4>1, SMT
      <4>3. Adjacent(u, i, n + 1)
        BY <1>1, <2>1, <2>2, <3>3, <4>1, <4>2, SMT DEF Adjacent, n
      <4>4. After(u, i) = others[u] \/ (i = 0 /\ known[u] = None)
        BY <3>1, <4>2, <4>3 DEF MovesChain, Before, n
      <4>5. Before(u, j)' = others[u]
        <5>1. CASE j = n + 1
          <6>1. e.user = u
            BY <1>1, <2>1, <4>2, <5>1
          <6> QED  BY <1>1, <4>2, <5>1, <6>1 DEF Before
        <5>2. CASE j # n + 1
          <6>1. e.user # u
            BY <1>1, <2>1, <4>1, <5>2
          <6> QED  BY <1>1, <4>1, <5>2, <6>1 DEF Before
        <5> QED  BY <5>1, <5>2
      <4> QED  BY <3>2, <4>4, <4>5
    <3> QED  BY <3>4, <3>5
  <2> QED  BY <2>3, <2>4
<1>6. MovesChain'
  BY <1>1, <1>5 DEF MovesChain
<1> QED
  BY <1>3, <1>4, <1>6

\* A sequence of length 0 is empty.
LEMMA EmptySeq == ASSUME NEW S, NEW s \in Seq(S) PROVE (s = <<>>) <=> (Len(s) = 0)
BY SMT

\* A sequence whose tail is empty has one element.
LEMMA SingleSeq ==
    ASSUME NEW S, NEW s \in Seq(S), s # <<>>, Tail(s) = <<>>
    PROVE  Len(s) = 1 /\ Head(s) = s[1]
<1>1. /\ Len(s) \in Nat /\ Len(Tail(s)) = Len(s) - 1 /\ Tail(s) \in Seq(S)
      /\ Head(s) = s[1]
  BY SMT
<1>2. Len(Tail(s)) = 0
  BY <1>1, EmptySeq
<1> QED  BY <1>1, <1>2, SMT

\* The handling of the first event leaves the chains as they were behind it.
LEMMA HandledChains ==
    ASSUME Types, HomesChain, MovesChain, MovesMove,
           incoming # <<>>, incoming' = Tail(incoming), actual' = actual, others' = others,
           \A u \in Users : known'[u] = IF Head(incoming).user = u THEN Head(incoming).channel
                                        ELSE known[u]
    PROVE  /\ HomesChain' /\ MovesChain' /\ MovesMove'
           /\ incoming' = <<>> => HomeAfter(Head(incoming)) = actual
           /\ incoming' # <<>> => HomeAfter(Head(incoming)) = incoming'[1].home
<1> DEFINE n == Len(incoming')
<1>1. /\ Len(incoming) = n + 1 /\ n \in Nat
      /\ Head(incoming) = incoming[1]
      /\ \A i \in 1..n : incoming'[i] = incoming[i + 1]
      /\ (incoming' = <<>>) <=> (n = 0)
  <2>1. Len(incoming) \in Nat \ {0} /\ incoming' \in Seq(Events)
    BY SMT DEF Types
  <2>2. n = Len(incoming) - 1 /\ Head(incoming) = incoming[1]
        /\ \A i \in 1..n : incoming'[i] = incoming[i + 1]
    BY SMT DEF Types
  <2>3. (incoming' = <<>>) <=> (n = 0)
    BY <2>1, EmptySeq
  <2>4. Len(incoming) = n + 1 /\ n \in Nat
    BY <2>1, <2>2, SMT
  <2> QED  BY <2>2, <2>3, <2>4
<1> HIDE DEF n
<1>2. HomesChain'
  <2>1. \A i \in 1..n : i + 1 \in 1..n + 1
    BY <1>1, SMT
  <2>2. \A i \in 1..n, j \in 1..n : j = i + 1 => j + 1 = (i + 1) + 1
    OBVIOUS
  <2>3. \A i \in 1..n, j \in 1..n :
          j = i + 1 => incoming'[j].home = HomeAfter(incoming'[i])
    BY <1>1, <2>1, <2>2 DEF HomesChain
  <2>4. \A i \in 1..n : i = n => HomeAfter(incoming'[i]) = actual
    BY <1>1, <2>1 DEF HomesChain
  <2> QED  BY <2>3, <2>4 DEF HomesChain, HomeAfter, n
<1>3. MovesMove'
  <2>1. \A i \in 1..n : i + 1 \in 1..n + 1
    BY <1>1, SMT
  <2> QED  BY <1>1, <2>1 DEF MovesMove, n
<1>4. /\ incoming' = <<>> => HomeAfter(Head(incoming)) = actual
      /\ incoming' # <<>> => HomeAfter(Head(incoming)) = incoming'[1].home
  <2>1. CASE n = 0
    <3>1. 1 \in 1..n + 1 /\ 1 = n + 1
      BY <2>1, SMT
    <3> QED  BY <1>1, <2>1, <3>1 DEF HomesChain
  <2>2. CASE n # 0
    <3>1. 1 \in 1..n + 1 /\ 1 + 1 \in 1..n + 1 /\ 1 \in 1..n
      BY <1>1, <2>2, SMT
    <3>2. incoming[1 + 1].home = HomeAfter(incoming[1])
      BY <1>1, <3>1 DEF HomesChain
    <3> QED  BY <1>1, <2>2, <3>1, <3>2
  <2> QED  BY <2>1, <2>2
<1>5. ASSUME NEW u \in Users, NEW i \in 0..n, NEW j \in 1..n + 1, Adjacent(u, i, j)'
      PROVE  After(u, i)' = Before(u, j)' \/ (i = 0 /\ known'[u] = None)
  <2>1. /\ i < j
        /\ i = 0 \/ incoming'[i].user = u
        /\ j = n + 1 \/ incoming'[j].user = u
        /\ \A k \in 1..n : i < k /\ k < j => incoming'[k].user # u
    BY <1>5 DEF Adjacent, n
  <2>2. j + 1 \in 1..(n + 1) + 1 /\ (j = n + 1 <=> j + 1 = (n + 1) + 1)
    BY <1>1, SMT
  <2>3. j = n + 1 \/ (j \in 1..n /\ incoming'[j] = incoming[j + 1])
    <3>1. j = n + 1 \/ j \in 1..n
      BY <1>1, SMT
    <3> QED  BY <1>1, <3>1
  <2>4. Before(u, j)' = Before(u, j + 1)
    BY <1>1, <2>2, <2>3 DEF Before, n
  <2>5. j + 1 = (n + 1) + 1 \/ incoming[j + 1].user = u
    BY <2>1, <2>2, <2>3
  <2>6. ASSUME NEW k \in 1..n + 1, k # 1, i + 1 < k \/ i = 0, k < j + 1
        PROVE  incoming[k].user # u
    <3>1. n \in Nat
      BY <1>1
    <3>2. k - 1 \in 1..n /\ i < k - 1 /\ k - 1 < j /\ (k - 1) + 1 = k
      BY <2>6, <3>1, SMT
    <3>3. incoming'[k - 1].user # u
      BY <2>1, <3>2
    <3>4. incoming'[k - 1] = incoming[(k - 1) + 1]
      BY <1>1, <3>2
    <3> QED  BY <3>2, <3>3, <3>4
  <2>7. CASE i # 0
    <3>1. i \in 1..n /\ i + 1 \in 0..n + 1 /\ i + 1 < j + 1 /\ i + 1 # 0
      BY <1>1, <2>1, <2>7, SMT
    <3>2. incoming[i + 1].user = u /\ After(u, i)' = After(u, i + 1)
      BY <1>1, <2>1, <2>7, <3>1 DEF After
    <3>3. \A k \in 1..n + 1 : i + 1 < k /\ k < j + 1 => incoming[k].user # u
      <4>1. \A k \in 1..n + 1 : i + 1 < k => k # 1
        BY <3>1, SMT
      <4> QED  BY <2>6, <4>1
    <3>4. Adjacent(u, i + 1, j + 1)
      BY <1>1, <2>5, <3>1, <3>2, <3>3 DEF Adjacent
    <3> QED  BY <1>1, <2>2, <2>4, <3>1, <3>2, <3>4 DEF MovesChain
  <2>8. CASE i = 0 /\ Head(incoming).user = u
    <3>1. 1 \in 0..n + 1 /\ 1 < j + 1 /\ 1 # 0 /\ \A k \in 1..n + 1 : 1 < k => k # 1
      BY <1>1, SMT
    <3>2. Adjacent(u, 1, j + 1)
      BY <1>1, <2>5, <2>6, <2>8, <3>1 DEF Adjacent
    <3>3. After(u, 1) = Before(u, j + 1)
      BY <1>1, <2>2, <3>1, <3>2 DEF MovesChain
    <3> QED  BY <1>1, <2>4, <2>8, <3>1, <3>3 DEF After
  <2>9. CASE i = 0 /\ Head(incoming).user # u
    <3>1. 0 \in 0..n + 1 /\ 0 < j + 1
      BY <1>1, SMT
    <3>2. Adjacent(u, 0, j + 1)
      BY <1>1, <2>5, <2>6, <2>9, <3>1 DEF Adjacent
    <3>3. After(u, 0) = Before(u, j + 1) \/ known[u] = None
      BY <1>1, <2>2, <3>1, <3>2 DEF MovesChain
    <3> QED  BY <2>4, <2>9, <3>3 DEF After
  <2> QED  BY <2>7, <2>8, <2>9
<1>6. MovesChain'
  BY <1>5 DEF MovesChain, n
<1> QED
  BY <1>2, <1>3, <1>4, <1>6

\* A step that neither tells of a move nor handles one leaves the chains alone.
LEMMA QuietChains ==
    ASSUME HomesChain, MovesChain, MovesMove, UNCHANGED <<incoming, actual, others, known>>
    PROVE  HomesChain' /\ MovesChain' /\ MovesMove'
<1>1. HomesChain' /\ MovesMove'
  BY DEF HomesChain, MovesMove, HomeAfter
<1>2. MovesChain'
  BY DEF MovesChain, Adjacent, After, Before
<1> QED  BY <1>1, <1>2

\* The chime that last made stands while nothing is asked for and nothing crosses.
LEMMA ChimeStands ==
    ASSUME ChimesExact, last' = last,
           ~stirred' /\ strayed' # "crossed" => ~stirred /\ strayed # "crossed"
    PROVE  ChimesExact'
BY DEF ChimesExact

\* A move that the server tells of, when no request is under way.
LEMMA ToldHome ==
    ASSUME Types, HomeKnown, NEW e \in Events, incoming' = Append(incoming, e),
           e.home = actual, Noticed' = Noticed,
           ~stirred' /\ strayed' # "crossed" => ~stirred /\ strayed # "crossed"
    PROVE  HomeKnown'
<1>1. /\ Len(incoming') = Len(incoming) + 1 /\ Len(incoming) \in Nat
      /\ incoming'[Len(incoming) + 1] = e /\ incoming' \in Seq(Events)
      /\ \A i \in 1..Len(incoming) : incoming'[i] = incoming[i]
  BY AppendedEvent
<1>2. incoming' # <<>>
  <2>1. Len(incoming') # 0
    BY <1>1, SMT
  <2> QED  BY <1>1, <2>1, EmptySeq
<1>3. CASE incoming = <<>>
  <2>1. Len(incoming) = 0 /\ 0 + 1 = 1
    BY <1>3, SMT
  <2>2. incoming'[1] = e
    BY <1>1, <2>1
  <2> QED  BY <1>2, <1>3, <2>2 DEF HomeKnown
<1>4. CASE incoming # <<>>
  <2>1. Len(incoming) # 0
    BY <1>4, EmptySeq DEF Types
  <2>2. 1 \in 1..Len(incoming)
    BY <1>1, <2>1, SMT
  <2>3. incoming'[1] = incoming[1]
    BY <1>1, <2>2
  <2> QED  BY <1>2, <1>4, <2>3 DEF HomeKnown
<1> QED  BY <1>3, <1>4

\* The first event under way: its user, what user_channels knows of it, and its home.
LEMMA FirstEvent ==
    ASSUME Types, ChimeInv, incoming # <<>>
    PROVE  /\ Head(incoming) = incoming[1] /\ Head(incoming) \in Events
           /\ Head(incoming).user # Self =>
                /\ Head(incoming).user \in Users
                /\ Head(incoming).channel # Head(incoming).from
                /\ \/ known[Head(incoming).user] = Head(incoming).from
                   \/ known[Head(incoming).user] = None
<1> DEFINE e == Head(incoming)
<1>1. e = incoming[1] /\ e \in Events /\ 1 \in 1..Len(incoming) /\ Len(incoming) \in Nat
  BY SMT DEF Types
<1> HIDE DEF e
<1>2. ASSUME e.user # Self PROVE e.user \in Users /\ e.channel # e.from
  BY <1>1, <1>2 DEF ChimeInv, MovesMove, Events
<1>3. ASSUME NEW u \in Users, e.user = u PROVE known[u] = e.from \/ known[u] = None
  <2>1. /\ 0 \in 0..Len(incoming) /\ 1 \in 1..Len(incoming) + 1 /\ 0 < 1
        /\ 1 # Len(incoming) + 1
        /\ \A k \in 1..Len(incoming) : ~(0 < k /\ k < 1)
    BY <1>1, SMT
  <2>2. Adjacent(u, 0, 1)
    BY <1>1, <1>3, <2>1 DEF Adjacent
  <2> QED  BY <1>1, <2>1, <2>2 DEF ChimeInv, MovesChain, After, Before
<1> QED
  BY <1>1, <1>2, <1>3 DEF e

\* No step sounds a wrong chime.
LEMMA KeepsChiming ==
    Types /\ SessionHeads /\ TaskFollows /\ ChimeInv /\ [Next]_vars => ChimeInv'
<1> SUFFICES ASSUME Types, SessionHeads, TaskFollows, ChimeInv, [Next]_vars
             PROVE  ChimeInv'
  OBVIOUS
<1> USE NoneAssumption, ExistingAssumption, SelfAssumption
<1>0. /\ known \in [Users -> Nat \cup {None}]
      /\ StirKnown /\ HomesChain /\ HomeKnown /\ MovesChain /\ MovesMove
      /\ ChimesExact
  BY DEF ChimeInv
<1>1. ASSUME UNCHANGED <<incoming, actual, others, known, last, Noticed>>, StirKnown',
             ~stirred' /\ strayed' # "crossed" => ~stirred /\ strayed # "crossed"
      PROVE  ChimeInv'
  <2>1. HomeKnown'
    BY <1>0, <1>1 DEF HomeKnown
  <2> QED  BY <1>0, <1>1, <2>1, QuietChains, ChimeStands DEF ChimeInv
<1>2. ASSUME UNCHANGED <<incoming, actual, others, known, last>>, stirred' = TRUE
      PROVE  ChimeInv'
  <2>1. HomeKnown' /\ StirKnown'
    BY <1>2 DEF HomeKnown, StirKnown
  <2> QED  BY <1>0, <1>2, <2>1, QuietChains, ChimeStands DEF ChimeInv
<1>3. ASSUME NEW e \in Events, incoming' = Append(incoming, e),
             UNCHANGED <<known, last, Noticed>>, StirKnown',
             e.home = actual, HomeAfter(e) = actual', e.user # Self => e.channel # e.from,
             \A u \in Users : IF e.user = u THEN e.from = others[u] /\ e.channel = others'[u]
                              ELSE others'[u] = others[u],
             ~stirred' /\ strayed' # "crossed" => ~stirred /\ strayed # "crossed"
      PROVE  ChimeInv'
  <2>1. HomesChain' /\ MovesChain' /\ MovesMove'
    BY <1>0, <1>3, ToldChains
  <2>2. HomeKnown'
    BY <1>0, <1>3, ToldHome
  <2> QED  BY <1>0, <1>3, <2>1, <2>2, ChimeStands DEF ChimeInv
<1>4. CASE GrantJoin
  <2>1. /\ outgoing # <<>> /\ Head(outgoing) \in Nat /\ actual' = Head(outgoing)
        /\ UNCHANGED <<others, joining, known, last, stirred, strayed, Noticed>>
    BY <1>4, LastFacts DEF GrantJoin, Types, sessionVars, taskVars, historyVars, Noticed
  <2>2. stirred /\ StirKnown'
    BY <1>0, <2>1 DEF StirKnown
  <2>3. CASE actual' = actual
    BY <1>1, <1>4, <2>1, <2>2, <2>3 DEF GrantJoin
  <2>4. CASE actual' # actual
    <3> DEFINE e == MoveEvent(Self, actual', actual, actual)
    <3>1. e \in Events /\ e.user = Self /\ e.home = actual /\ HomeAfter(e) = actual'
      BY <2>1 DEF MoveEvent, Events, Types, HomeAfter
    <3>2. incoming' = Append(incoming, e)
      BY <1>4, <2>4 DEF GrantJoin, Tell
    <3> HIDE DEF e
    <3> QED  BY <1>3, <2>1, <2>2, <3>1, <3>2
  <2> QED  BY <2>3, <2>4
<1>5. CASE DenyJoin
  <2>1. /\ outgoing # <<>> /\ strayed' = "crossed"
        /\ UNCHANGED <<actual, others, incoming, joining, known, last, stirred, Noticed>>
    BY <1>5 DEF DenyJoin, sessionVars, taskVars, Noticed
  <2> QED  BY <1>0, <1>1, <2>1 DEF StirKnown
<1>6. ASSUME NEW c \in Existing, MoveCaller(c) PROVE ChimeInv'
  <2> DEFINE e == MoveEvent(Self, c, actual, actual)
  <2>1. /\ actual' = c /\ incoming' = Append(incoming, e)
        /\ strayed' = (IF stirred \/ strayed = "crossed" THEN "crossed" ELSE "moved")
        /\ UNCHANGED <<others, outgoing, joining, known, last, stirred, Noticed>>
    BY <1>6 DEF MoveCaller, Tell, sessionVars, taskVars, Noticed
  <2>2. e \in Events /\ e.user = Self /\ e.home = actual /\ HomeAfter(e) = actual'
    BY <2>1 DEF MoveEvent, Events, Types, HomeAfter
  <2> HIDE DEF e
  <2>3. StirKnown'
    BY <1>0, <2>1 DEF StirKnown
  <2> QED  BY <1>3, <2>1, <2>2, <2>3
<1>7. ASSUME NEW u \in Users, NEW c \in Existing \cup {None}, MoveOther(u, c)
      PROVE  ChimeInv'
  <2> DEFINE e == MoveEvent(u, c, others[u], actual)
  <2>1. /\ c # others[u] /\ others' = [others EXCEPT ![u] = c]
        /\ incoming' = Append(incoming, e)
        /\ UNCHANGED <<actual, outgoing, joining, known, last, stirred, strayed, Noticed>>
    BY <1>7 DEF MoveOther, Tell, sessionVars, taskVars, historyVars, Noticed
  <2>2. /\ e \in Events /\ e.user = u /\ u # Self /\ e.channel = c /\ e.from = others[u]
        /\ e.home = actual /\ HomeAfter(e) = actual
    BY DEF MoveEvent, Events, Types, HomeAfter
  <2> HIDE DEF e
  <2>3. \A v \in Users : IF e.user = v THEN e.from = others[v] /\ e.channel = others'[v]
                         ELSE others'[v] = others[v]
    BY <2>1, <2>2 DEF Types
  <2>4. StirKnown'
    BY <1>0, <2>1 DEF StirKnown
  <2> QED  BY <1>3, <2>1, <2>2, <2>3, <2>4
<1>8. ASSUME NEW to, Digit(to) PROVE ChimeInv'
  BY <1>2, <1>8 DEF Digit, taskVars
<1>9. CASE DigitRecorded
  <2>1. /\ joining # None /\ joining' = None
        /\ UNCHANGED <<incoming, outgoing, actual, others, known, last, stirred, strayed>>
    BY <1>9 DEF DigitRecorded, taskVars, historyVars
  <2>2. stirred /\ StirKnown'
    BY <1>0, <2>1 DEF StirKnown
  <2>3. HomeKnown'
    BY <2>1, <2>2 DEF HomeKnown
  <2> QED  BY <1>0, <2>1, <2>2, <2>3, QuietChains, ChimeStands DEF ChimeInv
<1>10. CASE CloseConnection \/ DigitFails \/ HangUp \/ HandleClosed \/ UNCHANGED vars
  <2>1. /\ UNCHANGED <<incoming, actual, others, known, last, stirred, strayed, joining,
                       Noticed>>
        /\ outgoing' \in {outgoing, <<>>}
    BY <1>10 DEF CloseConnection, DigitFails, HangUp, HandleClosed, vars, sessionVars,
       taskVars, historyVars, Noticed
  <2> QED  BY <1>0, <1>1, <2>1 DEF StirKnown
<1>11. ASSUME incoming # <<>>, incoming' = Tail(incoming), Settles, changed' = FALSE,
              UNCHANGED <<actual, others, conn, outgoing, joining, strayed>>,
              persisted = None, NEW e, e = Head(incoming),
              our' = HomeAfter(e) \/ (e.user # Self /\ our' = Noticed),
              \A u \in Users : known'[u] = IF e.user = u THEN e.channel ELSE known[u]
       PROVE  /\ HomesChain' /\ MovesChain' /\ MovesMove' /\ StirKnown' /\ HomeKnown'
              /\ e.user # Self /\ ~stirred' /\ strayed' # "crossed" => Noticed = e.home
  <2>1. /\ HomesChain' /\ MovesChain' /\ MovesMove'
        /\ incoming' = <<>> => HomeAfter(e) = actual
        /\ incoming' # <<>> => HomeAfter(e) = incoming'[1].home
    BY <1>0, <1>11, HandledChains
  <2>2. StirKnown'
    BY <1>0, <1>11 DEF StirKnown, Settles
  <2>3. ASSUME ~stirred', strayed # "crossed", stirred
        PROVE  incoming' = <<>> /\ (e.user # Self => Noticed = actual)
    <3>1. conn = "up" /\ incoming' = <<>> /\ outgoing = <<>> /\ joining = None
      BY <1>11, <2>3 DEF Settles
    <3>2. \A i \in 1..Len(outgoing) : FALSE
      BY <3>1, SMT
    <3>3. ASSUME e.user # Self PROVE NoOwnMove
      <4>1. Len(incoming) = 1 /\ Head(incoming) = incoming[1]
        <5>1. incoming \in Seq(Events) /\ incoming # <<>> /\ Tail(incoming) = <<>>
          BY <1>11, <3>1 DEF Types
        <5> QED  BY <5>1, SingleSeq
      <4>2. \A i \in 1..Len(incoming) : i = 1
        BY <4>1, SMT
      <4> QED  BY <1>11, <3>3, <4>1, <4>2 DEF NoOwnMove
    <3> QED  BY <1>11, <2>3, <3>1, <3>2, <3>3 DEF TaskFollows, Settled
  <2>4. e = incoming[1]
    BY <1>11, FirstEvent
  <2>5. e.user # Self /\ ~stirred' /\ strayed' # "crossed" => Noticed = e.home
    BY <1>0, <1>11, <2>1, <2>3, <2>4 DEF HomeKnown, HomeAfter
  <2>6. Noticed' = our'
    BY <1>11 DEF Noticed
  <2>7. ~stirred' /\ strayed' # "crossed" => our' = HomeAfter(e)
    BY <1>11, <2>5 DEF HomeAfter
  <2>8. HomeKnown'
    BY <1>11, <2>1, <2>6, <2>7 DEF HomeKnown
  <2> QED  BY <2>1, <2>2, <2>5, <2>8
<1>12. CASE HandleSelf
  <2>1. /\ incoming # <<>> /\ incoming' = Tail(incoming) /\ Settles /\ changed' = FALSE
        /\ UNCHANGED <<actual, others, conn, outgoing, joining, strayed, known>>
        /\ persisted = None /\ Head(incoming).user = Self
        /\ our' = HomeAfter(Head(incoming)) /\ last'.event = Head(incoming)
    BY <1>12 DEF HandleSelf, sessionVars, HomeAfter
  <2>2. \A u \in Users : known'[u] = IF Head(incoming).user = u THEN Head(incoming).channel
                                     ELSE known[u]
    BY <2>1
  <2>3. ChimesExact'
    BY <2>1 DEF ChimesExact
  <2> QED  BY <1>0, <1>11, <2>1, <2>2, <2>3 DEF ChimeInv
<1>13. CASE HandleOther
  <2> DEFINE e == Head(incoming)
  <2>1. /\ incoming # <<>> /\ incoming' = Tail(incoming) /\ Settles /\ changed' = FALSE
        /\ UNCHANGED <<actual, others, conn, outgoing, joining, strayed>>
        /\ persisted = None /\ e.user # Self /\ our' = Noticed
        /\ known' = [known EXCEPT ![e.user] = e.channel]
        /\ last' = [event |-> e, chime |-> Chime(e.user, e.channel, Noticed),
                    seen |-> known[e.user] # None]
    BY <1>13 DEF HandleOther, sessionVars
  <2>2. /\ e \in Events /\ e.user \in Users /\ e.channel # e.from
        /\ known[e.user] = e.from \/ known[e.user] = None
    BY <2>1, FirstEvent
  <2>3. known' \in [Users -> Nat \cup {None}]
        /\ \A u \in Users : known'[u] = IF e.user = u THEN e.channel ELSE known[u]
    BY <1>0, <2>1, <2>2 DEF Events
  <2>4. e = Head(incoming)
    OBVIOUS
  <2> HIDE DEF e
  <2>5. /\ HomesChain' /\ MovesChain' /\ MovesMove' /\ StirKnown' /\ HomeKnown'
        /\ e.user # Self /\ ~stirred' /\ strayed' # "crossed" => Noticed = e.home
    BY <1>11, <2>1, <2>3, <2>4
  <2>6. ChimesExact'
    <3> SUFFICES ASSUME ~stirred', strayed' # "crossed"
                 PROVE  /\ last'.chime = "joined" <=> e.channel = e.home
                        /\ last'.seen => (last'.chime = "left" <=> e.from = e.home)
      BY <2>1 DEF ChimesExact
    <3>1. Noticed = e.home
      BY <2>1, <2>5
    <3>2. last'.chime = (IF e.channel = e.home THEN "joined"
                         ELSE IF known[e.user] = e.home THEN "left" ELSE "none")
      BY <2>1, <3>1 DEF Chime
    <3>3. last'.seen <=> known[e.user] # None
      BY <2>1
    <3> QED  BY <2>2, <3>2, <3>3
  <2> QED  BY <2>3, <2>5, <2>6 DEF ChimeInv
<1> QED
  BY <1>4, <1>5, <1>6, <1>7, <1>8, <1>9, <1>10, <1>12, <1>13 DEF Next

\* With no navigation under way the chimes are exact (session.rs:541-569): a join
\* chime for whoever came into the caller's channel, a leave chime for whoever left
\* it and was known, for any users and channels and however events and moves cross.
THEOREM ChimesAreExact == Spec => []ChimesExact
<1>1. ChimeInv => ChimesExact
  BY DEF ChimeInv
<1> QED
  BY <1>1, StartsKnowing, StartsFollowing, StartsChiming, StaysHeading, KeepsFollowing,
     KeepsChiming, PTL DEF Spec

-----------------------------------------------------------------------------
(* The types: every channel that the session, its persisted entry, the event *)
(* task or a request names is one that a digit may lead to.                  *)

\* The channels that exist are among those, and digits stay among them.
LEMMA ChannelFacts ==
    /\ Channels \subseteq Nat /\ Existing \subseteq Channels /\ 0 \in Channels
    /\ \A c \in Channels : Previous(c) \in Channels /\ NextChannel(c) \in Channels
    /\ \A c \in Nat : c <= MaxChannel => c \in Channels
<1>1. \E x \in Existing : \A y \in Existing : x >= y
  BY ExistingAssumption, SMT
<1>2. \A y \in Existing : MaxChannel >= y
  BY <1>1, SMT DEF MaxChannel, Max
<1>3. MaxChannel \in Nat
  BY MaxChannelType
<1>4. /\ Channels \subseteq Nat /\ 0 \in Channels
      /\ \A c \in Nat : c <= MaxChannel => c \in Channels
  BY <1>3, SMT DEF Channels
<1>5. Existing \subseteq Channels
  BY <1>2, <1>3, ExistingAssumption, SMT DEF Channels
<1>6. \A c \in Channels : Previous(c) \in Channels /\ NextChannel(c) \in Channels
  BY <1>3, SMT DEF Channels, Previous, NextChannel
<1> QED
  BY <1>4, <1>5, <1>6

\* The variables, the stream of events apart.
NavTypes ==
    /\ actual \in Existing
    /\ others \in [Users -> Existing \cup {None}]
    /\ outgoing \in Seq(Channels)
    /\ current \in Channels /\ joining \in Channels \cup {None}
    /\ persisted \in Channels \cup {None}
    /\ watch \in Channels
    /\ our \in Channels
    /\ known \in [Users -> Channels \cup {None}]

\* The switches and counters among them.
FlagTypes ==
    /\ changed \in BOOLEAN /\ stirred \in BOOLEAN
    /\ last.chime \in {"none", "joined", "left"}
    /\ digits \in 0..MaxDigits /\ happened \in 0..MaxEvents

\* What the server tells: channels that exist, and of the caller never that it has left.
Told(e) == /\ e.channel \in Existing \cup {None}
           /\ e.user = Self => e.channel # None

ToldOK == \A i \in 1..Len(incoming) : Told(incoming[i])

\* The state after connect: a last channel that is too high is not asked for.
LEMMA StartsTyped == Init => NavTypes /\ FlagTypes /\ ToldOK
<1> SUFFICES ASSUME Init PROVE NavTypes /\ FlagTypes /\ ToldOK
  OBVIOUS
<1> USE NoneAssumption, ChannelFacts
<1>1. PICK target \in Targets, ch \in LastChannels :
        /\ outgoing = (IF target # None THEN <<target>> ELSE <<>>)
                        \o (IF Rejoins(target, ch) THEN <<ch>> ELSE <<>>)
        /\ current = IF Rejoins(target, ch) THEN ch ELSE JoinedAtLogin(target)
  BY DEF Init
<1>2. target # None => target \in Channels
  BY LoginAssumption
<1>3. Rejoins(target, ch) => ch \in Channels
  BY LastChannelsAssumption DEF Rejoins
<1>4. current \in Channels
  BY <1>1, <1>2, <1>3 DEF JoinedAtLogin
<1>5. outgoing \in Seq(Channels)
  <2> DEFINE first == IF target # None THEN <<target>> ELSE <<>>
             second == IF Rejoins(target, ch) THEN <<ch>> ELSE <<>>
  <2>1. <<>> \in Seq(Channels) /\ \A c \in Channels : <<c>> \in Seq(Channels)
    BY SMT
  <2>2. first \in Seq(Channels) /\ second \in Seq(Channels)
    BY <1>2, <1>3, <2>1
  <2>3. outgoing = first \o second
    BY <1>1
  <2> HIDE DEF first, second
  <2> QED  BY <2>2, <2>3, SMT
<1>6. actual \in Existing /\ others \in [Users -> Existing \cup {None}]
  BY LoginAssumption DEF Init
<1>7. NavTypes
  <2>1. /\ joining = None /\ persisted = None /\ watch = current /\ our = current
        /\ known = [u \in Users |-> None]
    BY DEF Init
  <2>2. known \in [Users -> Channels \cup {None}]
    BY <2>1
  <2> QED  BY <1>4, <1>5, <1>6, <2>1, <2>2 DEF NavTypes
<1>8. FlagTypes
  <2>1. /\ changed = FALSE /\ last = NoEvent /\ digits = 0 /\ happened = 0
        /\ stirred = (outgoing # <<>>)
    BY DEF Init
  <2>2. changed \in BOOLEAN /\ stirred \in BOOLEAN
    BY <2>1
  <2>3. last.chime = "none"
    BY <2>1 DEF NoEvent
  <2>4. digits \in 0..MaxDigits /\ happened \in 0..MaxEvents
    BY <2>1, BoundsAssumption
  <2> QED  BY <2>2, <2>3, <2>4 DEF FlagTypes
<1>9. ToldOK
  BY SMT DEF Init, ToldOK
<1> QED  BY <1>7, <1>8, <1>9

\* An event at the end of the stream, and the handling of the first.
LEMMA StreamTold ==
    ASSUME Types, ToldOK
    PROVE  /\ \A e \in Events : Told(e) /\ incoming' = Append(incoming, e) => ToldOK'
           /\ incoming # <<>> => /\ Told(Head(incoming)) /\ Head(incoming) \in Events
                                 /\ incoming' = Tail(incoming) => ToldOK'
<1>1. ASSUME NEW e \in Events, Told(e), incoming' = Append(incoming, e)
      PROVE  ToldOK'
  <2>1. /\ Len(incoming') = Len(incoming) + 1 /\ Len(incoming) \in Nat
        /\ incoming'[Len(incoming) + 1] = e
        /\ \A i \in 1..Len(incoming) : incoming'[i] = incoming[i]
    BY <1>1, AppendedEvent
  <2>2. \A i \in 1..Len(incoming') : i \in 1..Len(incoming) \/ i = Len(incoming) + 1
    BY <2>1, SMT
  <2>3. \A i \in 1..Len(incoming') : Told(incoming'[i])
    BY <1>1, <2>1, <2>2 DEF ToldOK
  <2> QED  BY <2>3 DEF ToldOK, Told
<1>2. ASSUME incoming # <<>>
      PROVE  /\ Told(Head(incoming)) /\ Head(incoming) \in Events
             /\ incoming' = Tail(incoming) => ToldOK'
  <2>1. /\ Len(incoming) \in Nat \ {0} /\ Head(incoming) = incoming[1]
        /\ Head(incoming) \in Events
        /\ Len(Tail(incoming)) = Len(incoming) - 1
        /\ \A i \in 1..Len(Tail(incoming)) : Tail(incoming)[i] = incoming[i + 1]
    BY <1>2, SMT DEF Types
  <2>2. /\ 1 \in 1..Len(incoming)
        /\ \A i \in 1..Len(Tail(incoming)) : i + 1 \in 1..Len(incoming)
    BY <2>1, SMT
  <2>3. Told(Head(incoming))
    BY <2>1, <2>2 DEF ToldOK
  <2>4. \A i \in 1..Len(Tail(incoming)) : Told(Tail(incoming)[i])
    BY <2>1, <2>2 DEF ToldOK
  <2> QED  BY <2>1, <2>3, <2>4 DEF ToldOK, Told
<1> QED  BY <1>1, <1>2

\* The server, the digits, the hangup and the event task keep to those channels.
LEMMA StaysTyped ==
    Types /\ NavTypes /\ ToldOK /\ [Next]_vars => NavTypes' /\ ToldOK'
<1> SUFFICES ASSUME Types, NavTypes, ToldOK, [Next]_vars
             PROVE  NavTypes' /\ ToldOK'
  OBVIOUS
<1> USE NoneAssumption, ChannelFacts
<1>1. CASE GrantJoin
  <2>1. /\ outgoing' \in Seq(Channels) /\ actual' \in Existing
        /\ UNCHANGED <<others, current, joining, persisted, watch, our, known>>
    BY <1>1, LastFacts DEF GrantJoin, NavTypes, sessionVars, taskVars
  <2>2. ToldOK'
    <3>1. CASE actual' = actual
      BY <1>1, <3>1 DEF GrantJoin, ToldOK, Told
    <3>2. CASE actual' # actual
      <4> DEFINE e == MoveEvent(Self, actual', actual, actual)
      <4>1. e \in Events /\ Told(e)
        BY <2>1 DEF MoveEvent, Events, Types, Told
      <4>2. incoming' = Append(incoming, e)
        BY <1>1, <3>2 DEF GrantJoin, Tell
      <4> HIDE DEF e
      <4> QED  BY <4>1, <4>2, StreamTold
    <3> QED  BY <3>1, <3>2
  <2> QED  BY <2>1, <2>2 DEF NavTypes
<1>2. CASE DenyJoin
  <2>1. /\ outgoing' \in Seq(Channels)
        /\ UNCHANGED <<actual, others, incoming, current, joining, persisted, watch, our, known>>
    BY <1>2, LastFacts DEF DenyJoin, NavTypes, sessionVars, taskVars
  <2> QED  BY <2>1 DEF NavTypes, ToldOK, Told
<1>3. ASSUME NEW c \in Existing, MoveCaller(c) PROVE NavTypes' /\ ToldOK'
  <2>1. /\ actual' = c
        /\ UNCHANGED <<others, outgoing, current, joining, persisted, watch, our, known>>
    BY <1>3 DEF MoveCaller, sessionVars, taskVars
  <2> DEFINE e == MoveEvent(Self, c, actual, actual)
  <2>2. e \in Events /\ Told(e)
    BY DEF MoveEvent, Events, Types, Told
  <2>3. incoming' = Append(incoming, e)
    BY <1>3 DEF MoveCaller, Tell
  <2> HIDE DEF e
  <2>4. ToldOK'
    BY <2>2, <2>3, StreamTold
  <2> QED  BY <2>1, <2>4 DEF NavTypes
<1>4. ASSUME NEW u \in Users, NEW c \in Existing \cup {None}, MoveOther(u, c)
      PROVE  NavTypes' /\ ToldOK'
  <2>1. /\ others' = [others EXCEPT ![u] = c]
        /\ UNCHANGED <<actual, outgoing, current, joining, persisted, watch, our, known>>
    BY <1>4 DEF MoveOther, sessionVars, taskVars
  <2> DEFINE e == MoveEvent(u, c, others[u], actual)
  <2>2. e \in Events /\ Told(e)
    BY SelfAssumption DEF MoveEvent, Events, Types, Told
  <2>3. incoming' = Append(incoming, e)
    BY <1>4 DEF MoveOther, Tell
  <2> HIDE DEF e
  <2>4. ToldOK'
    BY <2>2, <2>3, StreamTold
  <2> QED  BY <2>1, <2>4 DEF NavTypes
<1>5. CASE CloseConnection
  <2>1. outgoing' \in Seq(Channels)
        /\ UNCHANGED <<actual, others, incoming, current, joining, persisted, watch, our, known>>
    BY <1>5, SMT DEF CloseConnection, sessionVars, taskVars
  <2> QED  BY <2>1 DEF NavTypes, ToldOK, Told
<1>6. ASSUME NEW to \in Channels, Digit(to) PROVE NavTypes' /\ ToldOK'
  <2>1. /\ joining' = to
        /\ outgoing' = IF conn = "up" THEN Append(outgoing, to) ELSE outgoing
        /\ UNCHANGED <<actual, others, incoming, current, persisted, watch, our, known>>
    BY <1>6 DEF Digit, taskVars
  <2>2. outgoing' \in Seq(Channels)
    BY <2>1 DEF NavTypes
  <2> QED  BY <2>1, <2>2 DEF NavTypes, ToldOK, Told
<1>7. CASE DigitFails \/ DigitRecorded \/ HangUp
  BY <1>7 DEF DigitFails, DigitRecorded, HangUp, NavTypes, ToldOK, Told, sessionVars, taskVars
<1>8. CASE HandleSelf
  <2>1. /\ incoming # <<>> /\ Head(incoming).user = Self /\ incoming' = Tail(incoming)
        /\ our' = Head(incoming).channel
        /\ UNCHANGED <<actual, others, outgoing, current, joining, persisted, watch, known>>
    BY <1>8 DEF HandleSelf, sessionVars
  <2>2. ToldOK' /\ our' \in Channels
    BY <2>1, StreamTold DEF Told
  <2> QED  BY <2>1, <2>2 DEF NavTypes
<1>9. CASE HandleOther
  <2>1. /\ incoming # <<>> /\ Head(incoming).user # Self /\ incoming' = Tail(incoming)
        /\ our' = Noticed
        /\ known' = [known EXCEPT ![Head(incoming).user] = Head(incoming).channel]
        /\ UNCHANGED <<actual, others, outgoing, current, joining, persisted, watch>>
    BY <1>9 DEF HandleOther, sessionVars
  <2>2. ToldOK' /\ Head(incoming).channel \in Channels \cup {None}
    BY <2>1, StreamTold DEF Told
  <2>3. our' \in Channels
    BY <2>1 DEF Noticed, NavTypes
  <2>4. known' \in [Users -> Channels \cup {None}]
    BY <2>1, <2>2 DEF NavTypes
  <2> QED  BY <2>1, <2>2, <2>3, <2>4 DEF NavTypes
<1>10. CASE HandleClosed
  BY <1>10 DEF HandleClosed, NavTypes, ToldOK, Told, sessionVars, taskVars
<1>11. CASE UNCHANGED vars
  BY <1>11 DEF vars, NavTypes, ToldOK, Told, sessionVars, taskVars
<1>12. Previous(current) \in Channels /\ NextChannel(current) \in Channels
  BY DEF NavTypes
<1> QED
  BY <1>1, <1>2, <1>3, <1>4, <1>5, <1>6, <1>7, <1>8, <1>9, <1>10, <1>11, <1>12 DEF Next

\* The flags stay flags, the chimes chimes, and the counters within their bounds.
LEMMA FlagsStay == FlagTypes /\ [Next]_vars => FlagTypes'
<1> SUFFICES ASSUME FlagTypes, [Next]_vars PROVE FlagTypes'
  OBVIOUS
<1>1. changed' \in BOOLEAN /\ stirred' \in BOOLEAN
  BY DEF FlagTypes, Next, vars, GrantJoin, DenyJoin, CloseConnection, MoveCaller, MoveOther,
    Digit, DigitFails, DigitRecorded, HangUp, HandleSelf, HandleOther, HandleClosed, Settles,
    historyVars
<1>2. last'.chime \in {"none", "joined", "left"}
  BY DEF FlagTypes, Next, vars, GrantJoin, DenyJoin, CloseConnection, MoveCaller, MoveOther,
    Digit, DigitFails, DigitRecorded, HangUp, HandleSelf, HandleOther, HandleClosed, Chime,
    taskVars
<1>3. digits' = digits \/ (digits < MaxDigits /\ digits' = digits + 1)
  BY DEF Next, vars, GrantJoin, DenyJoin, CloseConnection, MoveCaller, MoveOther,
    Digit, DigitFails, DigitRecorded, HangUp, HandleSelf, HandleOther, HandleClosed
<1>4. happened' = happened \/ (happened < MaxEvents /\ happened' = happened + 1)
  BY DEF Next, vars, GrantJoin, DenyJoin, CloseConnection, MoveCaller, MoveOther, Happens,
    Digit, DigitFails, DigitRecorded, HangUp, HandleSelf, HandleOther, HandleClosed
<1>5. digits' \in 0..MaxDigits /\ happened' \in 0..MaxEvents
  BY <1>3, <1>4, BoundsAssumption DEF FlagTypes
<1> QED
  BY <1>1, <1>2, <1>5 DEF FlagTypes

\* However digits, joins and moves follow each other, the session's channel, what hangup
\* writes to caller_channels, the event task's channel and every request are channels up
\* to the highest of the handshake (session.rs:811-840, 873-879): neither a digit nor a
\* last channel of another day leads beyond it.
THEOREM NavigationTypes == Spec => []TypeOK
<1>1. Types /\ NavTypes /\ FlagTypes /\ ToldOK => TypeOK
  <2> SUFFICES ASSUME Types, NavTypes, FlagTypes, ToldOK PROVE TypeOK
    OBVIOUS
  <2>1. \A i \in 1..Len(incoming) : incoming[i].channel \in Channels \cup {None}
    BY ChannelFacts DEF ToldOK, Told
  <2> QED  BY <2>1 DEF TypeOK, Types, NavTypes, FlagTypes
<1> QED
  BY <1>1, StartsKnowing, StaysHeading, StartsTyped, StaysTyped, FlagsStay, PTL DEF Spec
=============================================================================
