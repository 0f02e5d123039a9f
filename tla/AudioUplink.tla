---------------------------- MODULE AudioUplink ----------------------------
(***************************************************************************)
(* The caller's voice on its way to Mumble: pjsip's media thread pushes    *)
(* 10 ms frames into a ring buffer, the encoder task gates silence and     *)
(* numbers what it encodes, a bounded queue and the voice forwarder carry  *)
(* it to the send loop of the control connection.  When the connection     *)
(* fails, they end one after the other: the send loop at once, the         *)
(* forwarder and then the encoder with the next frame each wants to pass.  *)
(*                                                                         *)
(* A frame is "voice" or "quiet": above SILENCE_AVG_ABS_THRESHOLD or not.  *)
(* The ring holds whole frames, as its 200 ms are a multiple of 10 ms.     *)
(***************************************************************************)
EXTENDS Integers, SequencesExt

CONSTANTS
    RingFrames,     \* capacity of the ring buffer, in frames
    QueueCapacity,  \* jitter_frames * max_concurrent_calls
    HoldMax,        \* SILENCE_HOLD_FRAMES_MAX
    CanFail,        \* may the encoder fail, and the connection?
    MaxFrames       \* bound on the frames of the call

ASSUME CapacitiesAssumption ==
    /\ RingFrames \in Nat \ {0} /\ QueueCapacity \in Nat \ {0}
    /\ HoldMax \in Nat /\ MaxFrames \in Nat
    /\ CanFail \in BOOLEAN

VARIABLES
    tasks,              \* those that run: "encoder", "forwarder", "sender"
    ring,               \* sip_to_mumble
    was_transmitting,   \* the gate of the encoder
    hold_frames,
    seq_num,            \* number of the next encoded frame
    queue,              \* opus_encoded_tx to opus_encoded_rx
    outgoing,           \* outgoing_tx of the Mumble client
    heard,              \* the last frame the server got
    (* history *)
    quiet,              \* quiet frames encoded since the last voice, at most HoldMax + 1
    lost,               \* numbers dropped at the full queue, or with the connection
    endLost,            \* the last terminator was dropped, or could not be encoded
    received,           \* numbers the server got
    frames              \* frames put so far

gateVars == <<was_transmitting, hold_frames, seq_num, quiet, endLost>>
vars == <<tasks, ring, gateVars, lost, queue, outgoing, heard, received, frames>>

Packet == [seq : 0..MaxFrames, end : BOOLEAN]

Numbers(packets) == {packets[i].seq : i \in 1..Len(packets)}

TypeOK ==
    /\ tasks \subseteq {"encoder", "forwarder", "sender"}
    /\ ring \in Seq({"voice", "quiet"}) /\ Len(ring) <= RingFrames
    /\ was_transmitting \in BOOLEAN
    /\ hold_frames \in 0..HoldMax
    /\ seq_num \in 0..MaxFrames
    /\ queue \in Seq(Packet) /\ Len(queue) <= QueueCapacity
    /\ outgoing \in Seq(Packet)
    /\ heard \in Packet
    /\ quiet \in 0..HoldMax + 1
    /\ lost \subseteq 0..MaxFrames /\ received \subseteq 0..MaxFrames
    /\ endLost \in BOOLEAN
    /\ frames \in 0..MaxFrames

\* The encoder task ends at once if there is no Opus encoder to be had.
Init ==
    /\ tasks \in {{"encoder", "forwarder", "sender"}}
                 \cup (IF CanFail THEN {{"forwarder", "sender"}} ELSE {})
    /\ ring = <<>>
    /\ was_transmitting = FALSE /\ hold_frames = 0
    /\ seq_num = 0
    /\ queue = <<>> /\ outgoing = <<>>
    /\ heard = [seq |-> 0, end |-> TRUE]
    /\ quiet = HoldMax + 1
    /\ lost = {} /\ received = {}
    /\ endLost = FALSE
    /\ frames = 0

-----------------------------------------------------------------------------
\* port_put_frame: what does not fit is dropped, all of it once the encoder has ended.
PutFrame(kind) ==
    /\ frames < MaxFrames /\ frames' = frames + 1
    /\ ring' = IF Len(ring) < RingFrames THEN Append(ring, kind) ELSE ring
    /\ UNCHANGED <<tasks, gateVars, lost, queue, outgoing, heard, received>>

\* Mutant: voice does not start the hold over.
GateKeepsHold(kind) ==
    CASE kind = "voice"
           -> [state |-> "Transmitting", was |-> TRUE, hold |-> hold_frames]
      [] kind = "quiet" /\ was_transmitting /\ hold_frames < HoldMax
           -> [state |-> "Transmitting", was |-> TRUE, hold |-> hold_frames + 1]
      [] kind = "quiet" /\ was_transmitting /\ hold_frames >= HoldMax
           -> [state |-> "Terminator", was |-> FALSE, hold |-> 0]
      [] OTHER -> [state |-> "Silent", was |-> FALSE, hold |-> hold_frames]

\* Mutant: the hold ends in silence, without a terminator.
GateStopsShort(kind) ==
    CASE kind = "voice"
           -> [state |-> "Transmitting", was |-> TRUE, hold |-> 0]
      [] kind = "quiet" /\ was_transmitting /\ hold_frames < HoldMax
           -> [state |-> "Transmitting", was |-> TRUE, hold |-> hold_frames + 1]
      [] OTHER -> [state |-> "Silent", was |-> FALSE, hold |-> 0]

\* What the encoder does with a frame, and its gate afterwards.
Gate(kind) ==
    CASE kind = "voice"
           -> [state |-> "Transmitting", was |-> TRUE, hold |-> 0]
      [] kind = "quiet" /\ was_transmitting /\ hold_frames < HoldMax
           -> [state |-> "Transmitting", was |-> TRUE, hold |-> hold_frames + 1]
      [] kind = "quiet" /\ was_transmitting /\ hold_frames >= HoldMax
           -> [state |-> "Terminator", was |-> FALSE, hold |-> 0]
      [] OTHER -> [state |-> "Silent", was |-> FALSE, hold |-> hold_frames]

\* A frame leaves the ring and passes the gate, unless the gate keeps it back.
Pass(gate) ==
    /\ "encoder" \in tasks
    /\ ring # <<>>
    /\ ring' = Tail(ring)
    /\ was_transmitting' = gate.was
    /\ hold_frames' = gate.hold
    /\ quiet' = IF Head(ring) = "voice" THEN 0
                ELSE IF quiet > HoldMax THEN quiet ELSE quiet + 1
    /\ UNCHANGED <<outgoing, heard, received, frames>>

\* Mutant: a dropped frame takes no number.
NumberKept(gate) ==
    LET packet == [seq |-> seq_num, end |-> gate.state = "Terminator"]
        full   == Len(queue) = QueueCapacity
    IN  /\ queue' = IF full THEN queue ELSE Append(queue, packet)
        /\ seq_num' = IF full THEN seq_num ELSE seq_num + 1
        /\ lost' = IF full THEN lost \cup {seq_num} ELSE lost
        /\ endLost' = (full /\ packet.end)

\* try_send: at a full queue the frame is dropped, its number is not.
Number(gate) ==
    LET packet == [seq |-> seq_num, end |-> gate.state = "Terminator"]
        full   == Len(queue) = QueueCapacity
    IN  /\ queue' = IF full THEN queue ELSE Append(queue, packet)
        /\ seq_num' = seq_num + 1
        /\ lost' = IF full THEN lost \cup {seq_num} ELSE lost
        /\ endLost' = (full /\ packet.end)

EncodeFrame ==
    /\ "forwarder" \in tasks
    /\ Pass(Gate(Head(ring)))
    /\ Gate(Head(ring)).state # "Silent"
    /\ Number(Gate(Head(ring)))
    /\ UNCHANGED tasks

\* TrySendError::Closed: the forwarder has ended, and so does the encoder.
EncoderStops ==
    /\ "forwarder" \notin tasks
    /\ Pass(Gate(Head(ring)))
    /\ Gate(Head(ring)).state # "Silent"
    /\ tasks' = tasks \ {"encoder"}
    /\ endLost' = (Gate(Head(ring)).state = "Terminator")
    /\ UNCHANGED <<seq_num, queue, lost>>

\* The encoder refuses the frame: no packet, and no number either.
EncodeFails ==
    /\ CanFail
    /\ Pass(Gate(Head(ring)))
    /\ Gate(Head(ring)).state # "Silent"
    /\ endLost' = (Gate(Head(ring)).state = "Terminator")
    /\ UNCHANGED <<tasks, seq_num, queue, lost>>

StaySilent ==
    /\ Pass(Gate(Head(ring)))
    /\ Gate(Head(ring)).state = "Silent"
    /\ UNCHANGED <<tasks, seq_num, queue, lost, endLost>>

\* Mutant: the forwarder takes the latest frame.
ForwardLatest ==
    /\ {"forwarder", "sender"} \subseteq tasks
    /\ queue # <<>>
    /\ outgoing' = Append(outgoing, Last(queue))
    /\ queue' = Front(queue)
    /\ UNCHANGED <<tasks, ring, gateVars, lost, heard, received, frames>>

\* The voice forwarder: send_voice cannot block, outgoing_tx is unbounded.
Forward ==
    /\ {"forwarder", "sender"} \subseteq tasks
    /\ queue # <<>>
    /\ outgoing' = Append(outgoing, Head(queue))
    /\ queue' = Tail(queue)
    /\ UNCHANGED <<tasks, ring, gateVars, lost, heard, received, frames>>

\* The send loop has ended: send_voice fails, and the forwarder drops the queue.
ForwardFails ==
    /\ "forwarder" \in tasks /\ "sender" \notin tasks
    /\ queue # <<>>
    /\ tasks' = tasks \ {"forwarder"}
    /\ lost' = lost \cup Numbers(queue)
    /\ queue' = <<>>
    /\ UNCHANGED <<ring, gateVars, outgoing, heard, received, frames>>

\* The encoder has ended, and the queue with it.
ForwardEnds ==
    /\ "forwarder" \in tasks /\ "encoder" \notin tasks
    /\ queue = <<>>
    /\ tasks' = tasks \ {"forwarder"}
    /\ UNCHANGED <<ring, gateVars, lost, queue, outgoing, heard, received, frames>>

\* The send loop and the connection.
Send ==
    /\ "sender" \in tasks
    /\ outgoing # <<>>
    /\ outgoing' = Tail(outgoing)
    /\ heard' = Head(outgoing)
    /\ received' = received \cup {Head(outgoing).seq}
    /\ UNCHANGED <<tasks, ring, gateVars, lost, queue, frames>>

\* A packet, or a ping, cannot be sent: the loop ends, and outgoing_rx with it.
SendFails ==
    /\ CanFail
    /\ "sender" \in tasks
    /\ tasks' = tasks \ {"sender"}
    /\ lost' = lost \cup Numbers(outgoing)
    /\ outgoing' = <<>>
    /\ UNCHANGED <<ring, gateVars, queue, heard, received, frames>>

Next ==
    \/ \E kind \in {"voice", "quiet"} : PutFrame(kind)
    \/ EncodeFrame \/ EncoderStops \/ EncodeFails \/ StaySilent
    \/ Forward \/ ForwardFails \/ ForwardEnds
    \/ Send \/ SendFails

Spec == Init /\ [][Next]_vars

-----------------------------------------------------------------------------
\* The gate is open exactly from a voice frame until HoldMax quiet frames have
\* followed it (bridge.rs:22-23, 109-122), whatever came before.
GateFollowsVoice == was_transmitting <=> quiet <= HoldMax

Distinct(packets) ==
    \A i, j \in 1..Len(packets) : packets[i].seq = packets[j].seq => i = j

\* Every number given is with the server, on its way there, or that of a frame
\* dropped at the full queue or with the connection, and of one of these only
\* (bridge.rs:131-152, control.rs:198-220): a gap in what the server gets is a frame
\* that was dropped, a repeat cannot happen.
FramesAccountedFor ==
    /\ Numbers(queue) \cup Numbers(outgoing) \cup lost \cup received = 0..seq_num - 1
    /\ Distinct(queue) /\ Distinct(outgoing) /\ Numbers(queue) \cap Numbers(outgoing) = {}
    /\ (Numbers(queue) \cup Numbers(outgoing)) \cap (lost \cup received) = {}
    /\ lost \cap received = {}

\* The server gets the frames in the order in which they were spoken, through ring,
\* queue, forwarder and send loop.
HeardInOrder ==
    [][received' # received => \A n \in received : n < heard'.seq]_vars

\* Once the encoder is silent and nothing is under way, the server has been told
\* that the caller stopped talking, unless the terminator itself was dropped at the
\* full queue or refused by the encoder (bridge.rs:118-121, 133-143), or the
\* connection has failed.
TalkEnds ==
    ~was_transmitting /\ queue = <<>> /\ outgoing = <<>> /\ "sender" \in tasks
      => heard.end \/ endLost
=============================================================================
