---------------------------- MODULE CallerStore ----------------------------
(***************************************************************************)
(* The caller database as concurrent calls use it: SqliteCallerStore runs  *)
(* each query on its own, with no transaction around them, and the channel *)
(* is written by a task that hangup spawns.  Times are "old", longer ago   *)
(* than intro_replay_after_days, or "recent"; a behaviour takes less.      *)
(***************************************************************************)
EXTENDS Integers, FiniteSets

CONSTANTS
    Calls, Phones, Nicknames, Channels,
    None,           \* no row, no value
    Known,          \* may callers be in the database from the start?
    CanFail         \* may a query of the lookup fail?

ASSUME NoneAssumption == None \notin Nicknames \cup Channels
ASSUME SwitchesAssumption == {Known, CanFail} \subseteq BOOLEAN

VARIABLES
    nickname,       \* table callers: phone_number to nickname
    last_seen,      \* the same table: phone_number to last_seen
    channel,        \* table caller_channels, of one server
    pc,             \* where each call is
    phone,          \* its caller_number
    is_new,         \* its lookup found no row
    name,           \* the candidate, then the nickname it goes by
    previous,       \* info.last_seen
    last_channel,   \* last_channel_id
    left,           \* the channel it hung up in
    (* history *)
    again,          \* the caller had been chosen for the intro when this call came
    rows            \* the callers with a row when it checked its candidate

tables == <<nickname, last_seen, channel>>
historyVars == <<again, rows>>
callVars == <<pc, phone, is_new, name, previous, last_channel, left>>
vars == <<tables, callVars, historyVars>>

Steps == {"idle", "lookup", "touch", "propose", "insert", "channel", "talking", "write", "done"}
Times == {"old", "recent"}

TypeOK ==
    /\ nickname \in [Phones -> Nicknames \cup {None}]
    /\ last_seen \in [Phones -> Times]
    /\ channel \in [Phones -> Channels \cup {None}]
    /\ pc \in [Calls -> Steps]
    /\ phone \in [Calls -> Phones]
    /\ is_new \in [Calls -> BOOLEAN]
    /\ name \in [Calls -> Nicknames \cup {None}]
    /\ previous \in [Calls -> Times]
    /\ last_channel \in [Calls -> Channels \cup {None}]
    /\ again \in [Calls -> BOOLEAN] /\ rows \in [Calls -> SUBSET Phones]
    /\ left \in [Calls -> Channels \cup {None}]
    /\ \A c \in Calls : pc[c] \notin {"idle", "lookup", "propose"} => name[c] \in Nicknames

Distinct(nick) == \A p, q \in Phones : nick[p] = nick[q] /\ nick[p] # None => p = q

Init ==
    /\ nickname \in {n \in [Phones -> IF Known THEN Nicknames \cup {None} ELSE {None}] :
                       Distinct(n)}
    /\ last_seen \in {t \in [Phones -> Times] :
                       \A p \in Phones : nickname[p] = None => t[p] = "old"}
    /\ channel = [p \in Phones |-> None]
    /\ pc = [c \in Calls |-> "idle"]
    /\ phone \in [Calls -> Phones]
    /\ is_new = [c \in Calls |-> FALSE]
    /\ name = [c \in Calls |-> None]
    /\ previous = [c \in Calls |-> "recent"]
    /\ last_channel = [c \in Calls |-> None]
    /\ left = [c \in Calls |-> None]
    /\ again = [c \in Calls |-> FALSE] /\ rows = [c \in Calls |-> {}]

Goto(c, from, to) == pc[c] = from /\ pc' = [pc EXCEPT ![c] = to]

-----------------------------------------------------------------------------
(* get_or_create_caller and get_last_channel_id, called by the setup task *)

Found(c) == pc[c] \in {"channel", "talking", "write", "done"}

\* should_play_intro
PlaysIntro(c) == Found(c) /\ (is_new[c] \/ previous[c] = "old")

Call(c) ==
    /\ Goto(c, "idle", "lookup")
    /\ again' = [again EXCEPT ![c] = \E d \in Calls : phone[d] = phone[c] /\ PlaysIntro(d)]
    /\ UNCHANGED <<tables, phone, is_new, name, previous, last_channel, left, rows>>

\* Mutant: the caller is known, but by a new name.
FindKnownRenames(c) ==
    /\ nickname[phone[c]] # None
    /\ Goto(c, "lookup", "touch")
    /\ \E n \in Nicknames : name' = [name EXCEPT ![c] = n]
    /\ previous' = [previous EXCEPT ![c] = last_seen[phone[c]]]
    /\ UNCHANGED <<tables, phone, is_new, last_channel, left, historyVars>>

FindKnown(c) ==
    /\ nickname[phone[c]] # None
    /\ Goto(c, "lookup", "touch")
    /\ name' = [name EXCEPT ![c] = nickname[phone[c]]]
    /\ previous' = [previous EXCEPT ![c] = last_seen[phone[c]]]
    /\ UNCHANGED <<tables, phone, is_new, last_channel, left, historyVars>>

\* Mutant: the time of this call is not kept.
UpdateLastSeenNot(c) ==
    /\ Goto(c, "touch", "channel")
    /\ UNCHANGED <<tables, phone, is_new, name, previous, last_channel, left, historyVars>>

UpdateLastSeen(c) ==
    /\ Goto(c, "touch", "channel")
    /\ last_seen' = [last_seen EXCEPT ![phone[c]] = "recent"]
    /\ UNCHANGED <<nickname, channel, phone, is_new, name, previous, last_channel, left,
                   historyVars>>

FindNobody(c) ==
    /\ nickname[phone[c]] = None
    /\ Goto(c, "lookup", "propose")
    /\ is_new' = [is_new EXCEPT ![c] = TRUE]
    /\ UNCHANGED <<tables, phone, name, previous, last_channel, left, historyVars>>

\* Mutant: the candidate is not checked.
ProposeUnchecked(c, n) ==
    /\ Goto(c, "propose", "insert")
    /\ name' = [name EXCEPT ![c] = n]
    /\ rows' = [rows EXCEPT ![c] = {p \in Phones : nickname[p] # None}]
    /\ UNCHANGED <<tables, phone, is_new, previous, last_channel, left, again>>

\* A candidate no row has; one that is taken is given up and another generated.
Propose(c, n) ==
    /\ \A p \in Phones : nickname[p] # n
    /\ Goto(c, "propose", "insert")
    /\ name' = [name EXCEPT ![c] = n]
    /\ rows' = [rows EXCEPT ![c] = {p \in Phones : nickname[p] # None}]
    /\ UNCHANGED <<tables, phone, is_new, previous, last_channel, left, again>>

\* Mutant: the row of a caller who has one by now gets the new nickname.
InsertReplaces(c) ==
    /\ Goto(c, "insert", "channel")
    /\ nickname' = [nickname EXCEPT ![phone[c]] = name[c]]
    /\ last_seen' = [last_seen EXCEPT ![phone[c]] = "recent"]
    /\ UNCHANGED <<channel, phone, is_new, name, previous, last_channel, left, historyVars>>

\* ON CONFLICT(phone_number): a row that is there by now keeps its nickname.
Insert(c) ==
    /\ Goto(c, "insert", "channel")
    /\ nickname' = [nickname EXCEPT ![phone[c]] = IF @ = None THEN name[c] ELSE @]
    /\ last_seen' = [last_seen EXCEPT ![phone[c]] = "recent"]
    /\ UNCHANGED <<channel, phone, is_new, name, previous, last_channel, left, historyVars>>

\* A query fails: the call goes on by a nickname nobody checked, without an intro.
LookupFails(c) ==
    /\ CanFail
    /\ pc[c] \in {"lookup", "touch", "propose", "insert"}
    /\ pc' = [pc EXCEPT ![c] = "talking"]
    /\ is_new' = [is_new EXCEPT ![c] = FALSE]
    /\ previous' = [previous EXCEPT ![c] = "recent"]
    /\ \E n \in Nicknames : name' = [name EXCEPT ![c] = n]
    /\ UNCHANGED <<tables, phone, last_channel, left, historyVars>>

\* A failure here costs the call its channel, not its nickname.
ReadChannel(c) ==
    /\ Goto(c, "channel", "talking")
    /\ \E read \in {channel[phone[c]]} \cup (IF CanFail THEN {None} ELSE {}) :
         last_channel' = [last_channel EXCEPT ![c] = read]
    /\ UNCHANGED <<tables, phone, is_new, name, previous, left, historyVars>>

\* on_call_disconnected of an established call.
HangUp(c, ch) ==
    /\ Goto(c, "talking", "write")
    /\ left' = [left EXCEPT ![c] = ch]
    /\ UNCHANGED <<tables, phone, is_new, name, previous, last_channel, historyVars>>

\* Mutant: the conflict is over the server alone, and updates everybody's row.
WriteChannelOfServer(c) ==
    /\ Goto(c, "write", "done")
    /\ channel' = [p \in Phones |-> IF nickname[p] = None THEN channel[p] ELSE left[c]]
    /\ UNCHANGED <<nickname, last_seen, phone, is_new, name, previous, last_channel, left,
                   historyVars>>

\* set_last_channel_id; the foreign key refuses a caller without a row.
WriteChannel(c) ==
    /\ Goto(c, "write", "done")
    /\ channel' = [channel EXCEPT ![phone[c]] =
                     IF nickname[phone[c]] = None THEN @ ELSE left[c]]
    /\ UNCHANGED <<nickname, last_seen, phone, is_new, name, previous, last_channel, left,
                   historyVars>>

Next == \E c \in Calls :
    \/ Call(c) \/ FindKnown(c) \/ UpdateLastSeen(c) \/ FindNobody(c)
    \/ \E n \in Nicknames : Propose(c, n)
    \/ Insert(c) \/ LookupFails(c) \/ ReadChannel(c)
    \/ \E ch \in Channels : HangUp(c, ch)
    \/ WriteChannel(c)

Spec == Init /\ [][Next]_vars

-----------------------------------------------------------------------------
\* A caller keeps the nickname of the first call, however many first calls race
\* (db.rs:121-124).
NicknameStable ==
    [][\A p \in Phones : nickname[p] # None => nickname'[p] = nickname[p]]_vars

\* A caller whom the lookup finds goes by the stored nickname for the whole call
\* (db.rs:92-105), whatever the other calls insert meanwhile.
KnownByTheirNickname ==
    \A c \in Calls :
      /\ pc[c] = "channel" /\ ~is_new[c]
      => name[c] = nickname[phone[c]]

\* The channel stored is one that an earlier call of this caller hung up in, however
\* lookups and writes of overlapping calls interleave (session.rs:879-889).
StoredChannelWasLeft ==
    \A p \in Phones :
      channel[p] # None =>
        \E c \in Calls : pc[c] = "done" /\ phone[c] = p /\ left[c] = channel[p]

\* "Play intro for brand-new callers or callers who haven't called in longer than the
\* configured replay period" (session.rs:171-175): once a call is chosen for the intro,
\* no later call of its caller is, whatever fails; only calls that overlap in the lookup
\* may both be (db.rs:88-105, 121-130).
IntroNotRepeated == \A c \in Calls : again[c] => ~PlaysIntro(c)

\* "generate a unique nickname" (db.rs:107): a caller in the database shares a nickname
\* with another only if the other's row was not there yet when the nickname was
\* checked: the check and the insertion are two queries.
ClashOnlyByRace ==
    \A p, q \in Phones :
      p # q /\ nickname[p] = nickname[q] /\ nickname[p] # None =>
        \E c \in Calls :
          /\ Found(c) /\ is_new[c] /\ phone[c] \in {p, q} /\ name[c] = nickname[p]
          /\ {p, q} \cap rows[c] = {}

\* "generates a Docker-style nickname, inserts record, returns it" (db.rs:24): a new
\* caller goes by the nickname of the record.
NewKnownByTheirNickname ==
    \A c \in Calls : pc[c] = "channel" /\ is_new[c] => name[c] = nickname[phone[c]]
=============================================================================
