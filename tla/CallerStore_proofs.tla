-------------------------- MODULE CallerStore_proofs --------------------------
(***************************************************************************)
(* Proofs about CallerStore for any sets of calls, callers, nicknames and  *)
(* channels, whether or not callers are known and queries fail.            *)
(***************************************************************************)
EXTENDS CallerStore, TLAPS

\* A call that is about to insert a row has found none.
InsertsNew == \A c \in Calls : pc[c] \in {"propose", "insert"} => is_new[c]

\* Until its first query a call has read nothing; a call that found a row updates it.
QueriesInOrder ==
    \A c \in Calls :
      /\ pc[c] \in {"idle", "lookup"} => ~is_new[c] /\ previous[c] = "recent"
      /\ pc[c] = "touch" => nickname[phone[c]] # None /\ name[c] = nickname[phone[c]]

\* Whoever is chosen for the intro has a row that says so, and a call that comes
\* after that has read it, or will.
IntroKept ==
    /\ \A c \in Calls : PlaysIntro(c) \/ again[c] =>
         nickname[phone[c]] # None /\ last_seen[phone[c]] = "recent"
    /\ \A c \in Calls : again[c] => ~is_new[c] /\ previous[c] = "recent"

\* A checked candidate differs from every nickname that was there at the check.
CheckedNames ==
    \A c \in Calls : pc[c] = "insert" =>
      \A p \in rows[c] : nickname[p] # None /\ nickname[p] # name[c]

StoreInv ==
    /\ TypeOK /\ InsertsNew /\ KnownByTheirNickname /\ StoredChannelWasLeft
    /\ QueriesInOrder /\ IntroKept /\ CheckedNames /\ ClashOnlyByRace

\* The tables may hold callers from the start, no two by one nickname, but no channel.
LEMMA StoreInvInit == Init => StoreInv
<1> SUFFICES ASSUME Init PROVE StoreInv
  OBVIOUS
<1> USE NoneAssumption
<1>1. TypeOK
  BY DEF Init, TypeOK, Steps, Times
<1>2. InsertsNew /\ KnownByTheirNickname /\ StoredChannelWasLeft /\ QueriesInOrder
  BY DEF Init, InsertsNew, KnownByTheirNickname, StoredChannelWasLeft, QueriesInOrder
<1>3. IntroKept /\ CheckedNames
  BY DEF Init, IntroKept, CheckedNames, PlaysIntro, Found
<1>4. ClashOnlyByRace
  BY DEF Init, ClashOnlyByRace, Distinct
<1> QED
  BY <1>1, <1>2, <1>3, <1>4 DEF StoreInv

\* A step of one query moves its own call on, and keeps the types.
LEMMA TypeOKStep ==
  ASSUME TypeOK, InsertsNew, [Next]_vars
  PROVE  TypeOK' /\ InsertsNew'
<1> USE DEF TypeOK, InsertsNew, Steps, Times, tables, historyVars, Goto
<1>1. ASSUME NEW c \in Calls, Call(c) PROVE TypeOK' /\ InsertsNew'
  BY <1>1 DEF Call
<1>2. ASSUME NEW c \in Calls, FindKnown(c) PROVE TypeOK' /\ InsertsNew'
  BY <1>2 DEF FindKnown
<1>3. ASSUME NEW c \in Calls, FindNobody(c) PROVE TypeOK' /\ InsertsNew'
  BY <1>3 DEF FindNobody
<1>4. ASSUME NEW c \in Calls, NEW n \in Nicknames, Propose(c, n) PROVE TypeOK' /\ InsertsNew'
  BY <1>4 DEF Propose
<1>5. ASSUME NEW c \in Calls, Insert(c) PROVE TypeOK' /\ InsertsNew'
  BY <1>5 DEF Insert
<1>6. ASSUME NEW c \in Calls, LookupFails(c) PROVE TypeOK' /\ InsertsNew'
  BY <1>6 DEF LookupFails
<1>7. ASSUME NEW c \in Calls, ReadChannel(c) PROVE TypeOK' /\ InsertsNew'
  <2>1. PICK read \in Channels \cup {None} : last_channel' = [last_channel EXCEPT ![c] = read]
    BY <1>7 DEF ReadChannel
  <2> QED
    BY <1>7, <2>1 DEF ReadChannel
<1>8. ASSUME NEW c \in Calls, NEW ch \in Channels, HangUp(c, ch) PROVE TypeOK' /\ InsertsNew'
  BY <1>8 DEF HangUp
<1>9. ASSUME NEW c \in Calls, WriteChannel(c) PROVE TypeOK' /\ InsertsNew'
  BY <1>9 DEF WriteChannel
<1>10. ASSUME NEW c \in Calls, UpdateLastSeen(c) PROVE TypeOK' /\ InsertsNew'
  BY <1>10 DEF UpdateLastSeen
<1>11. ASSUME UNCHANGED vars PROVE TypeOK' /\ InsertsNew'
  BY <1>11 DEF vars, callVars
<1> QED
  BY <1>1, <1>2, <1>3, <1>4, <1>5, <1>6, <1>7, <1>8, <1>9, <1>10, <1>11 DEF Next

\* No query changes a nickname that is there: only an insertion writes one.
LEMMA NicknamesStay ==
  ASSUME TypeOK, [Next]_vars
  PROVE  \A p \in Phones : nickname[p] # None => nickname'[p] = nickname[p]
<1>1. ASSUME NEW c \in Calls, Insert(c)
      PROVE  \A p \in Phones : nickname[p] # None => nickname'[p] = nickname[p]
  BY <1>1 DEF Insert, TypeOK
<1>2. ASSUME UNCHANGED nickname
      PROVE  \A p \in Phones : nickname[p] # None => nickname'[p] = nickname[p]
  BY <1>2
<1> QED
  BY <1>1, <1>2 DEF Next, vars, callVars, tables, Call, FindKnown, UpdateLastSeen, FindNobody,
     Propose, LookupFails, ReadChannel, HangUp, WriteChannel

\* A call that is known enters "channel" with the stored nickname, which stays.
LEMMA KnownStep ==
  ASSUME StoreInv, [Next]_vars
  PROVE  KnownByTheirNickname'
<1> SUFFICES ASSUME NEW c \in Calls, pc'[c] = "channel", ~is_new'[c]
             PROVE  name'[c] = nickname'[phone'[c]]
  BY DEF KnownByTheirNickname
<1>1. phone' = phone /\ phone[c] \in Phones
  BY DEF StoreInv, TypeOK, Next, vars, callVars, tables, Call, FindKnown, UpdateLastSeen,
     FindNobody, Propose, Insert, LookupFails, ReadChannel, HangUp, WriteChannel
<1>2. CASE pc[c] = "channel" /\ is_new[c] = is_new'[c] /\ name'[c] = name[c]
  <2>1. name[c] = nickname[phone[c]] /\ name[c] \in Nicknames
    BY <1>2 DEF StoreInv, KnownByTheirNickname, TypeOK
  <2> QED
    BY <1>1, <1>2, <2>1, NicknamesStay, NoneAssumption DEF StoreInv
<1>3. CASE UpdateLastSeen(c)
  BY <1>1, <1>3 DEF UpdateLastSeen, Goto, StoreInv, QueriesInOrder
<1>4. CASE Insert(c)
  BY <1>4 DEF Insert, Goto, StoreInv, InsertsNew
<1>5. \/ pc[c] = "channel" /\ is_new[c] = is_new'[c] /\ name'[c] = name[c]
      \/ UpdateLastSeen(c) \/ Insert(c)
  BY DEF StoreInv, TypeOK, Next, vars, callVars, Goto, Call, FindKnown, UpdateLastSeen,
         FindNobody, Propose, Insert, LookupFails, ReadChannel, HangUp, WriteChannel
<1> QED
  BY <1>2, <1>3, <1>4, <1>5

\* A channel in the table stays that of a call that is over, or is replaced by one.
LEMMA StoredStep ==
  ASSUME StoreInv, [Next]_vars
  PROVE  StoredChannelWasLeft'
<1> SUFFICES ASSUME NEW p \in Phones, channel'[p] # None
             PROVE  \E c \in Calls : pc'[c] = "done" /\ phone'[c] = p /\ left'[c] = channel'[p]
  BY DEF StoredChannelWasLeft
<1>1. phone' = phone
  BY DEF Next, vars, callVars, tables, Call, FindKnown, UpdateLastSeen, FindNobody, Propose,
     Insert, LookupFails, ReadChannel, HangUp, WriteChannel
<1>2. \A c \in Calls : pc[c] = "done" => pc'[c] = "done" /\ left'[c] = left[c]
  BY DEF StoreInv, TypeOK, Next, vars, callVars, Goto, Call, FindKnown, UpdateLastSeen,
     FindNobody, Propose, Insert, LookupFails, ReadChannel, HangUp, WriteChannel
<1>3. CASE channel'[p] = channel[p]
  BY <1>1, <1>2, <1>3 DEF StoreInv, StoredChannelWasLeft
<1>4. CASE channel'[p] # channel[p]
  <2>1. PICK c \in Calls : WriteChannel(c)
    BY <1>4 DEF Next, vars, callVars, tables, Call, FindKnown, UpdateLastSeen, FindNobody,
       Propose, Insert, LookupFails, ReadChannel, HangUp
  <2>2. phone[c] = p /\ channel'[p] = left[c]
    BY <1>4, <2>1 DEF WriteChannel, StoreInv, TypeOK
  <2> QED
    BY <1>1, <2>1, <2>2 DEF WriteChannel, Goto, StoreInv, TypeOK
<1> QED
  BY <1>3, <1>4

\* The queries of a call come in order, and a row it has found stays.
LEMMA QueriesStep ==
  ASSUME StoreInv, [Next]_vars
  PROVE  QueriesInOrder'
<1> SUFFICES ASSUME NEW c \in Calls
             PROVE  /\ pc'[c] \in {"idle", "lookup"} => ~is_new'[c] /\ previous'[c] = "recent"
                    /\ pc'[c] = "touch" => /\ nickname'[phone'[c]] # None
                                          /\ name'[c] = nickname'[phone'[c]]
  BY DEF QueriesInOrder
<1>1. phone' = phone /\ phone[c] \in Phones
  BY DEF StoreInv, TypeOK, Next, vars, callVars, tables, Call, FindKnown, UpdateLastSeen,
         FindNobody, Propose, Insert, LookupFails, ReadChannel, HangUp, WriteChannel
<1>2. pc'[c] \in {"idle", "lookup"} =>
        /\ pc[c] \in {"idle", "lookup"}
        /\ is_new'[c] = is_new[c] /\ previous'[c] = previous[c]
  BY DEF StoreInv, TypeOK, Next, vars, callVars, Goto, Call, FindKnown, UpdateLastSeen,
         FindNobody, Propose, Insert, LookupFails, ReadChannel, HangUp, WriteChannel
<1>3. pc'[c] = "touch" => \/ pc[c] = "touch" /\ name'[c] = name[c]
                          \/ FindKnown(c)
  BY DEF StoreInv, TypeOK, Next, vars, callVars, Goto, Call, FindKnown, UpdateLastSeen,
         FindNobody, Propose, Insert, LookupFails, ReadChannel, HangUp, WriteChannel
<1>4. FindKnown(c) => name'[c] = nickname[phone[c]] /\ nickname[phone[c]] # None
  BY DEF FindKnown, StoreInv, TypeOK
<1>5. nickname[phone[c]] # None => nickname'[phone[c]] = nickname[phone[c]]
  BY <1>1, NicknamesStay DEF StoreInv
<1> QED
  BY <1>1, <1>2, <1>3, <1>4, <1>5 DEF StoreInv, QueriesInOrder

\* last_seen of a row is never set back.
LEMMA SeenStays ==
  ASSUME TypeOK, [Next]_vars
  PROVE  \A p \in Phones : last_seen[p] = "recent" => last_seen'[p] = "recent"
<1>1. ASSUME NEW c \in Calls, Insert(c) \/ UpdateLastSeen(c)
      PROVE  \A p \in Phones : last_seen[p] = "recent" => last_seen'[p] = "recent"
  BY <1>1 DEF Insert, UpdateLastSeen, TypeOK
<1>2. ASSUME UNCHANGED last_seen
      PROVE  \A p \in Phones : last_seen[p] = "recent" => last_seen'[p] = "recent"
  BY <1>2
<1> QED
  BY <1>1, <1>2 DEF Next, vars, tables, Call, FindKnown, FindNobody, Propose, LookupFails,
                    ReadChannel, HangUp, WriteChannel

\* A call that has found or made its row leaves it marked as seen just now, and the
\* calls that begin after that read the mark.
LEMMA IntroStep ==
  ASSUME StoreInv, [Next]_vars
  PROVE  IntroKept'
<1> USE DEF StoreInv
<1>1. /\ phone' = phone
      /\ \A c \in Calls : phone[c] \in Phones
      /\ \A p \in Phones : nickname[p] # None => nickname'[p] # None
      /\ \A p \in Phones : last_seen[p] = "recent" => last_seen'[p] = "recent"
  <2>1. phone' = phone
    BY DEF Next, vars, callVars, tables, Call, FindKnown, UpdateLastSeen, FindNobody, Propose,
           Insert, LookupFails, ReadChannel, HangUp, WriteChannel
  <2> QED
    BY <2>1, NicknamesStay, SeenStays, NoneAssumption DEF TypeOK
<1>2. ASSUME NEW c \in Calls, PlaysIntro(c)', ~PlaysIntro(c)
      PROVE  nickname'[phone[c]] # None /\ last_seen'[phone[c]] = "recent"
  <2>1. UpdateLastSeen(c) \/ Insert(c)
    BY <1>2 DEF PlaysIntro, Found, TypeOK, Next, vars, callVars, Goto, Call, FindKnown,
                UpdateLastSeen, FindNobody, Propose, Insert, LookupFails, ReadChannel, HangUp,
                WriteChannel
  <2>2. CASE UpdateLastSeen(c)
    BY <1>1, <2>2 DEF UpdateLastSeen, Goto, QueriesInOrder, TypeOK
  <2>3. CASE Insert(c)
    <3>1. name[c] \in Nicknames
      BY <2>3 DEF Insert, Goto, TypeOK
    <3> QED
      BY <1>1, <2>3, <3>1, NoneAssumption DEF Insert, TypeOK
  <2> QED
    BY <2>1, <2>2, <2>3
<1>3. ASSUME NEW c \in Calls, again'[c], ~again[c]
      PROVE  Call(c) /\ \E d \in Calls : phone[d] = phone[c] /\ PlaysIntro(d)
  BY <1>3 DEF TypeOK, Next, vars, historyVars, Call, FindKnown, UpdateLastSeen, FindNobody,
              Propose, Insert, LookupFails, ReadChannel, HangUp, WriteChannel
<1>4. ASSUME NEW c \in Calls, PlaysIntro(c)' \/ again'[c]
      PROVE  nickname'[phone[c]] # None /\ last_seen'[phone[c]] = "recent"
  <2>1. CASE PlaysIntro(c) \/ again[c]
    BY <1>1, <2>1 DEF IntroKept
  <2>2. CASE again'[c] /\ ~again[c]
    BY <1>1, <1>3, <2>2 DEF IntroKept
  <2> QED
    BY <1>2, <1>4, <2>1, <2>2
<1>5. ASSUME NEW c \in Calls, again'[c]
      PROVE  ~is_new'[c] /\ previous'[c] = "recent"
  <2>1. CASE again[c]
    <3>1. /\ nickname[phone[c]] # None /\ last_seen[phone[c]] = "recent"
          /\ ~is_new[c] /\ previous[c] = "recent"
      BY <2>1 DEF IntroKept
    <3> QED
      BY <3>1 DEF TypeOK, Next, vars, callVars, Call, FindKnown, UpdateLastSeen, FindNobody,
                  Propose, Insert, LookupFails, ReadChannel, HangUp, WriteChannel
  <2>2. CASE ~again[c]
    BY <1>3, <1>5, <2>2 DEF Call, Goto, QueriesInOrder
  <2> QED
    BY <2>1, <2>2
<1> QED
  BY <1>1, <1>4, <1>5 DEF IntroKept

\* A call that has its nickname keeps it, and what is known of it.
LEMMA FoundStays ==
  ASSUME TypeOK, [Next]_vars, NEW c \in Calls, Found(c)
  PROVE  Found(c)' /\ is_new'[c] = is_new[c] /\ name'[c] = name[c] /\ rows'[c] = rows[c]
<1> USE DEF TypeOK, Found
<1>1. ASSUME NEW d \in Calls, Call(d) \/ FindKnown(d) \/ UpdateLastSeen(d) \/ FindNobody(d)
      PROVE  Found(c)' /\ is_new'[c] = is_new[c] /\ name'[c] = name[c] /\ rows'[c] = rows[c]
  BY <1>1 DEF Call, FindKnown, UpdateLastSeen, FindNobody, Goto, callVars, historyVars
<1>2. ASSUME NEW d \in Calls,
             (\E n \in Nicknames : Propose(d, n)) \/ Insert(d) \/ LookupFails(d)
      PROVE  Found(c)' /\ is_new'[c] = is_new[c] /\ name'[c] = name[c] /\ rows'[c] = rows[c]
  BY <1>2 DEF Propose, Insert, LookupFails, Goto, callVars, historyVars
<1>3. ASSUME NEW d \in Calls,
             ReadChannel(d) \/ (\E ch \in Channels : HangUp(d, ch)) \/ WriteChannel(d)
      PROVE  Found(c)' /\ is_new'[c] = is_new[c] /\ name'[c] = name[c] /\ rows'[c] = rows[c]
  BY <1>3 DEF ReadChannel, HangUp, WriteChannel, Goto, callVars, historyVars
<1>4. CASE UNCHANGED vars
  BY <1>4 DEF vars, callVars, historyVars
<1> QED
  BY <1>1, <1>2, <1>3, <1>4 DEF Next

\* A nickname that was free at the check can only be taken by a caller who had no row
\* then.
LEMMA ClashStep ==
  ASSUME StoreInv, [Next]_vars
  PROVE  CheckedNames' /\ ClashOnlyByRace'
<1> USE DEF StoreInv
<1>0. phone' = phone /\ \A c \in Calls : phone[c] \in Phones
  BY DEF TypeOK, Next, vars, callVars, tables, Call, FindKnown, UpdateLastSeen, FindNobody,
         Propose, Insert, LookupFails, ReadChannel, HangUp, WriteChannel
<1>1. \A p \in Phones : nickname[p] # None => nickname'[p] = nickname[p]
  BY NicknamesStay
<1>2. CheckedNames'
  <2> SUFFICES ASSUME NEW c \in Calls, pc'[c] = "insert", NEW p \in rows'[c]
               PROVE  nickname'[p] # None /\ nickname'[p] # name'[c]
    BY DEF CheckedNames
  <2>1. \/ pc[c] = "insert" /\ rows'[c] = rows[c] /\ name'[c] = name[c]
        \/ \E n \in Nicknames : Propose(c, n)
    BY DEF TypeOK, Next, vars, callVars, historyVars, Goto, Call, FindKnown, UpdateLastSeen,
           FindNobody, Propose, Insert, LookupFails, ReadChannel, HangUp, WriteChannel
  <2>2. CASE pc[c] = "insert" /\ rows'[c] = rows[c] /\ name'[c] = name[c]
    BY <1>1, <2>2 DEF CheckedNames, TypeOK
  <2>3. ASSUME NEW n \in Nicknames, Propose(c, n)
        PROVE  nickname'[p] # None /\ nickname'[p] # name'[c]
    BY <2>3 DEF Propose, TypeOK, tables
  <2> QED
    BY <2>1, <2>2, <2>3
<1>3. ClashOnlyByRace'
  <2> SUFFICES ASSUME NEW p \in Phones, NEW q \in Phones, p # q,
                      nickname'[p] = nickname'[q], nickname'[p] # None
               PROVE  \E c \in Calls :
                        /\ Found(c)' /\ is_new'[c] /\ phone'[c] \in {p, q}
                        /\ name'[c] = nickname'[p] /\ {p, q} \cap rows'[c] = {}
    BY DEF ClashOnlyByRace
  <2>1. CASE nickname[p] # None /\ nickname[q] # None
    <3>1. nickname[p] = nickname'[p] /\ nickname[p] = nickname[q]
      BY <1>1, <2>1
    <3>2. PICK c \in Calls : /\ Found(c) /\ is_new[c] /\ phone[c] \in {p, q}
                             /\ name[c] = nickname[p] /\ {p, q} \cap rows[c] = {}
      BY <2>1, <3>1 DEF ClashOnlyByRace
    <3>3. Found(c)' /\ is_new'[c] = is_new[c] /\ name'[c] = name[c] /\ rows'[c] = rows[c]
      BY <3>2, FoundStays
    <3> QED
      BY <1>0, <3>1, <3>2, <3>3
  <2>2. CASE nickname[p] = None \/ nickname[q] = None
    <3>1. PICK c \in Calls : Insert(c)
      BY <2>2 DEF Next, vars, tables, Call, FindKnown, UpdateLastSeen, FindNobody, Propose,
                  LookupFails, ReadChannel, HangUp, WriteChannel
    <3>2. /\ nickname[phone[c]] = None /\ nickname'[phone[c]] = name[c]
          /\ phone[c] \in {p, q}
          /\ \A r \in {p, q} \ {phone[c]} : nickname[r] = nickname'[r]
      BY <1>0, <2>2, <3>1 DEF Insert, TypeOK
    <3>3. \A r \in {p, q} : r \notin rows[c]
      BY <3>1, <3>2 DEF CheckedNames, Insert, Goto
    <3>4. Found(c)' /\ is_new'[c] /\ name'[c] = name[c] /\ rows'[c] = rows[c]
      BY <3>1 DEF Found, Insert, Goto, InsertsNew, TypeOK, historyVars
    <3> QED
      BY <1>0, <3>2, <3>3, <3>4
  <2> QED
    BY <2>1, <2>2
<1> QED
  BY <1>2, <1>3

\* The invariant holds in every interleaving of the queries.
LEMMA StoreInvariant == Spec => []StoreInv
<1>1. StoreInv /\ [Next]_vars => StoreInv'
  BY TypeOKStep, KnownStep, StoredStep, QueriesStep, IntroStep, ClashStep DEF StoreInv
<1> QED
  BY StoreInvInit, <1>1, PTL DEF Spec

\* A caller whom the lookup finds goes by the stored nickname, whatever the queries
\* of other calls do meanwhile (db.rs:92-105).
THEOREM KnownCallersKeepTheirNames == Spec => []KnownByTheirNickname
<1>1. StoreInv => KnownByTheirNickname
  BY DEF StoreInv
<1> QED
  BY <1>1, StoreInvariant, PTL

\* The channel stored is one that a finished call of this caller hung up in, in
\* whatever order the writes arrive (session.rs:879-889).
THEOREM StoredChannelsWereLeft == Spec => []StoredChannelWasLeft
<1>1. StoreInv => StoredChannelWasLeft
  BY DEF StoreInv
<1> QED
  BY <1>1, StoreInvariant, PTL

\* Once a call is chosen for the intro, no later call of its caller is, whatever
\* queries fail and however lookups of other calls interleave (db.rs:88-105, 121-130).
THEOREM IntroIsNotRepeated == Spec => []IntroNotRepeated
<1>1. StoreInv => IntroNotRepeated
  BY DEF StoreInv, IntroKept, IntroNotRepeated, PlaysIntro
<1> QED
  BY <1>1, StoreInvariant, PTL

\* Two callers in the database share a nickname only if neither had a row when one of
\* them was checked (db.rs:107-130), for any number of calls.
THEOREM NicknamesClashOnlyByRace == Spec => []ClashOnlyByRace
<1>1. StoreInv => ClashOnlyByRace
  BY DEF StoreInv
<1> QED
  BY <1>1, StoreInvariant, PTL

\* However many first calls race, a caller keeps the nickname of the first
\* insertion (db.rs:121-124).
THEOREM NicknamesAreStable == Spec => NicknameStable
<1>1. StoreInv /\ [Next]_vars =>
        [\A p \in Phones : nickname[p] # None => nickname'[p] = nickname[p]]_vars
  BY NicknamesStay DEF StoreInv
<1> QED
  BY <1>1, StoreInvariant, PTL DEF Spec, NicknameStable
\* Rows, calls and their local variables keep their types, and a call that goes by a name
\* has one, whatever its queries return.
THEOREM StoreTypes == Spec => []TypeOK
<1>1. StoreInv => TypeOK
  BY DEF StoreInv
<1> QED
  BY <1>1, StoreInvariant, PTL
=============================================================================
