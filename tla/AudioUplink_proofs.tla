-------------------------- MODULE AudioUplink_proofs --------------------------
(***************************************************************************)
(* Proofs about AudioUplink for any capacities of ring and queue, any hold *)
(* of the silence gate and any number of frames, with or without failures  *)
(* of the encoder and of the connection.                                   *)
(***************************************************************************)
EXTENDS AudioUplink, SequenceTheorems, TLAPS

\* TypeOK without its bounds, on which nothing below depends.
Numbered == [seq : Nat, end : BOOLEAN]
QueuesOK ==
    /\ ring \in Seq({"voice", "quiet"})
    /\ queue \in Seq(Numbered) /\ outgoing \in Seq(Numbered)
    /\ seq_num \in Nat /\ received \subseteq Nat

\* While the gate is open, the hold counts the quiet frames.
GateOK ==
    /\ hold_frames \in Nat /\ quiet \in Nat
    /\ hold_frames <= HoldMax /\ quiet <= HoldMax + 1
    /\ was_transmitting => hold_frames = quiet
    /\ GateFollowsVoice

\* The numbers rise from what the server has, over what is sent and what is queued,
\* to the next one.
NumbersRise ==
    /\ \A i, j \in 1..Len(queue) : i < j => queue[i].seq < queue[j].seq
    /\ \A i, j \in 1..Len(outgoing) : i < j => outgoing[i].seq < outgoing[j].seq
    /\ \A i \in 1..Len(outgoing), j \in 1..Len(queue) : outgoing[i].seq < queue[j].seq
    /\ \A n \in received :
         /\ n < seq_num
         /\ \A i \in 1..Len(outgoing) : n < outgoing[i].seq
         /\ \A i \in 1..Len(queue) : n < queue[i].seq
    /\ \A i \in 1..Len(outgoing) : outgoing[i].seq < seq_num
    /\ \A i \in 1..Len(queue) : queue[i].seq < seq_num

\* The packet the server will get last, of those there are.
Newest ==
    IF queue # <<>> THEN queue[Len(queue)]
    ELSE IF outgoing # <<>> THEN outgoing[Len(outgoing)] ELSE heard

SpurtClosed == "sender" \in tasks /\ ~was_transmitting => Newest.end \/ endLost

\* No number is missing, and none is lost that is still under way.
Accounted ==
    /\ Numbers(queue) \cup Numbers(outgoing) \cup lost \cup received = 0..seq_num - 1
    /\ lost \cap (Numbers(queue) \cup Numbers(outgoing) \cup received) = {}

UplinkInv == QueuesOK /\ GateOK /\ NumbersRise /\ SpurtClosed /\ Accounted

\* A call starts silent, with empty queues.
LEMMA UplinkInvInit == Init => UplinkInv
<1> SUFFICES ASSUME Init PROVE UplinkInv
  OBVIOUS
<1>1. /\ ring \in Seq({"voice", "quiet"}) /\ Len(ring) = 0
      /\ queue \in Seq(Numbered) /\ Len(queue) = 0
      /\ outgoing \in Seq(Numbered) /\ Len(outgoing) = 0
  BY DEF Init
<1>2. QueuesOK
  BY <1>1 DEF Init, QueuesOK
<1>3. GateOK
  BY CapacitiesAssumption DEF Init, GateOK, GateFollowsVoice
<1>4. NumbersRise
  BY <1>1 DEF Init, NumbersRise
<1>5. SpurtClosed
  BY DEF Init, SpurtClosed, Newest
<1>6. Accounted
  <2>1. Numbers(queue) = {} /\ Numbers(outgoing) = {}
    BY <1>1 DEF Numbers
  <2> QED
    BY <2>1 DEF Init, Accounted
<1> QED
  BY <1>2, <1>3, <1>4, <1>5, <1>6 DEF UplinkInv

\* What Append and Tail do to a queue of packets or frames.
LEMMA AppendSeq ==
  ASSUME NEW S, NEW q \in Seq(S), NEW e \in S
  PROVE  /\ Append(q, e) \in Seq(S) /\ Append(q, e) # <<>>
         /\ Len(Append(q, e)) = Len(q) + 1 /\ Len(q) \in Nat
         /\ \A i \in 1..Len(q) : Append(q, e)[i] = q[i]
         /\ Append(q, e)[Len(q) + 1] = e
  OBVIOUS

\* The same for the head that leaves.
LEMMA TailSeq ==
  ASSUME NEW S, NEW q \in Seq(S), q # <<>>
  PROVE  /\ Tail(q) \in Seq(S) /\ Len(q) \in Nat \ {0}
         /\ Len(Tail(q)) = Len(q) - 1
         /\ \A i \in 1..Len(Tail(q)) : Tail(q)[i] = q[i + 1]
         /\ Head(q) = q[1] /\ Head(q) \in S
         /\ Tail(q) = <<>> <=> Len(q) = 1
<1>1. /\ Tail(q) \in Seq(S) /\ Len(q) \in Nat \ {0}
      /\ Len(Tail(q)) = Len(q) - 1
      /\ \A i \in 1..Len(Tail(q)) : Tail(q)[i] = q[i + 1]
      /\ Head(q) = q[1] /\ Head(q) \in S
  OBVIOUS
<1>2. Tail(q) = <<>> <=> Len(Tail(q)) = 0
  BY <1>1, EmptySeq
<1> QED
  BY <1>1, <1>2

\* The numbers of a sequence that grows, or shrinks at its head.
LEMMA NumbersAppend ==
  ASSUME NEW S, NEW q \in Seq(S), NEW e \in S
  PROVE  Numbers(Append(q, e)) = Numbers(q) \cup {e.seq}
<1>1. /\ Len(Append(q, e)) = Len(q) + 1 /\ Len(q) \in Nat
      /\ \A i \in 1..Len(q) : Append(q, e)[i] = q[i]
      /\ Append(q, e)[Len(q) + 1] = e
  BY AppendSeq
<1>2. 1..Len(Append(q, e)) = 1..Len(q) \cup {Len(q) + 1}
  BY <1>1
<1> QED
  BY <1>1, <1>2 DEF Numbers

\* The same for the head that leaves.
LEMMA NumbersTail ==
  ASSUME NEW S, NEW q \in Seq(S), q # <<>>
  PROVE  Numbers(q) = {Head(q).seq} \cup Numbers(Tail(q))
<1>1. /\ Len(q) \in Nat \ {0} /\ Len(Tail(q)) = Len(q) - 1
      /\ \A i \in 1..Len(Tail(q)) : Tail(q)[i] = q[i + 1]
      /\ Head(q) = q[1]
  BY TailSeq
<1>2. \A i \in 1..Len(Tail(q)) : i + 1 \in 1..Len(q)
  BY <1>1
<1>3. \A i \in 1..Len(q) :
        i = 1 \/ (i - 1 \in 1..Len(Tail(q)) /\ q[i] = Tail(q)[i - 1])
  <2> SUFFICES ASSUME NEW i \in 1..Len(q), i # 1
               PROVE  i - 1 \in 1..Len(Tail(q)) /\ q[i] = Tail(q)[i - 1]
    OBVIOUS
  <2>1. i - 1 \in 1..Len(Tail(q)) /\ (i - 1) + 1 = i
    BY <1>1
  <2> QED
    BY <1>1, <2>1
<1>4. 1 \in 1..Len(q)
  BY <1>1
<1> QED
  BY <1>1, <1>2, <1>3, <1>4 DEF Numbers

\* The gate: what it makes of a frame, from the two counters.
LEMMA GateStep ==
  ASSUME GateOK, NEW kind \in {"voice", "quiet"}, NEW w, NEW h, NEW q,
         w = Gate(kind).was, h = Gate(kind).hold,
         q = IF kind = "voice" THEN 0 ELSE IF quiet > HoldMax THEN quiet ELSE quiet + 1
  PROVE  /\ h \in Nat /\ q \in Nat
         /\ h <= HoldMax /\ q <= HoldMax + 1
         /\ w => h = q
         /\ w <=> q <= HoldMax
         /\ Gate(kind).state = "Silent" => ~was_transmitting
         /\ Gate(kind).state = "Transmitting" => w
         /\ Gate(kind).state \in {"Transmitting", "Terminator", "Silent"}
<1> USE CapacitiesAssumption DEF GateOK, GateFollowsVoice
<1>1. CASE kind = "voice"
  <2>1. Gate(kind) = [state |-> "Transmitting", was |-> TRUE, hold |-> 0]
    BY <1>1 DEF Gate
  <2>2. w = TRUE /\ h = 0 /\ q = 0 /\ Gate(kind).state = "Transmitting"
    BY <1>1, <2>1
  <2> QED
    BY <2>2
<1>2. CASE kind = "quiet" /\ was_transmitting /\ hold_frames < HoldMax
  <2>1. Gate(kind) = [state |-> "Transmitting", was |-> TRUE, hold |-> hold_frames + 1]
    BY <1>2 DEF Gate
  <2>2. w = TRUE /\ h = hold_frames + 1 /\ q = quiet + 1 /\ Gate(kind).state = "Transmitting"
    BY <1>2, <2>1
  <2> QED
    BY <1>2, <2>2
<1>3. CASE kind = "quiet" /\ was_transmitting /\ hold_frames >= HoldMax
  <2>1. Gate(kind) = [state |-> "Terminator", was |-> FALSE, hold |-> 0]
    BY <1>3 DEF Gate
  <2>2. w = FALSE /\ h = 0 /\ q = HoldMax + 1 /\ Gate(kind).state = "Terminator"
    BY <1>3, <2>1
  <2> QED
    BY <1>3, <2>2
<1>4. CASE kind = "quiet" /\ ~was_transmitting
  <2>1. Gate(kind) = [state |-> "Silent", was |-> FALSE, hold |-> hold_frames]
    BY <1>4 DEF Gate
  <2>2. w = FALSE /\ h = hold_frames /\ q = quiet /\ Gate(kind).state = "Silent"
    BY <1>4, <2>1
  <2> QED
    BY <1>4, <2>2
<1> QED
  BY <1>1, <1>2, <1>3, <1>4

\* A frame leaves the ring, and its passing keeps the gate right.
LEMMA PassStep ==
  ASSUME UplinkInv, ring # <<>>, Pass(Gate(Head(ring)))
  PROVE  /\ ring' \in Seq({"voice", "quiet"})
         /\ GateOK'
         /\ Gate(Head(ring)).state = "Silent" => ~was_transmitting
         /\ Gate(Head(ring)).state = "Transmitting" => was_transmitting'
         /\ Gate(Head(ring)).state \in {"Transmitting", "Terminator", "Silent"}
         /\ UNCHANGED <<outgoing, heard, received, frames>>
<1>1. Tail(ring) \in Seq({"voice", "quiet"}) /\ Head(ring) \in {"voice", "quiet"}
  BY TailSeq DEF UplinkInv, QueuesOK
<1>2. GateOK
  BY DEF UplinkInv
<1>3. /\ ring' = Tail(ring)
      /\ was_transmitting' = Gate(Head(ring)).was
      /\ hold_frames' = Gate(Head(ring)).hold
      /\ quiet' = IF Head(ring) = "voice" THEN 0
                  ELSE IF quiet > HoldMax THEN quiet ELSE quiet + 1
      /\ UNCHANGED <<outgoing, heard, received, frames>>
  BY DEF Pass
<1> QED
  BY <1>1, <1>2, <1>3, GateStep DEF GateOK, GateFollowsVoice

\* port_put_frame touches only the ring.
LEMMA PutFrameStep ==
  ASSUME UplinkInv, NEW kind \in {"voice", "quiet"}, PutFrame(kind)
  PROVE  UplinkInv'
<1>1. ring' \in Seq({"voice", "quiet"})
  BY AppendSeq DEF PutFrame, UplinkInv, QueuesOK
<1>2. QueuesOK' /\ GateOK' /\ NumbersRise' /\ SpurtClosed' /\ Accounted'
  BY <1>1 DEF PutFrame, gateVars, UplinkInv, QueuesOK, GateOK, GateFollowsVoice, NumbersRise,
              SpurtClosed, Newest, Accounted
<1> QED
  BY <1>2 DEF UplinkInv

\* An encoded frame takes the next number, whether it is queued or dropped.
LEMMA EncodeFrameStep ==
  ASSUME UplinkInv, EncodeFrame
  PROVE  UplinkInv'
<1> DEFINE gate   == Gate(Head(ring))
           packet == [seq |-> seq_num, end |-> gate.state = "Terminator"]
<1>1. Pass(gate) /\ Number(gate) /\ ring # <<>> /\ gate.state # "Silent" /\ tasks' = tasks
  BY DEF EncodeFrame, Pass
<1>2. /\ ring' \in Seq({"voice", "quiet"}) /\ GateOK'
      /\ ~was_transmitting' => gate.state = "Terminator"
      /\ UNCHANGED <<outgoing, heard, received, frames>>
  BY <1>1, PassStep
<1>3. /\ packet \in Numbered /\ packet.seq = seq_num
      /\ gate.state = "Terminator" => packet.end
  BY DEF UplinkInv, QueuesOK, Numbered
<1>4. /\ queue' = IF Len(queue) = QueueCapacity THEN queue ELSE Append(queue, packet)
      /\ seq_num' = seq_num + 1
      /\ endLost' = (Len(queue) = QueueCapacity /\ packet.end)
      /\ lost' = IF Len(queue) = QueueCapacity THEN lost \cup {seq_num} ELSE lost
  BY <1>1 DEF Number
<1> HIDE DEF gate, packet
<1>5. /\ queue \in Seq(Numbered) /\ outgoing \in Seq(Numbered) /\ Len(queue) \in Nat
      /\ seq_num \in Nat /\ seq_num + 1 \in Nat /\ seq_num < seq_num + 1 /\ received \subseteq Nat
  BY DEF UplinkInv, QueuesOK
<1>6. /\ \A i \in 1..Len(queue) : queue[i].seq \in Nat
      /\ \A i \in 1..Len(outgoing) : outgoing[i].seq \in Nat
  <2>1. /\ \A i \in 1..Len(queue) : queue[i] \in Numbered
        /\ \A i \in 1..Len(outgoing) : outgoing[i] \in Numbered
    BY <1>5
  <2> QED
    BY <2>1 DEF Numbered
<1>7. /\ \A n \in received : n < seq_num + 1
      /\ \A i \in 1..Len(outgoing) : outgoing[i].seq < seq_num + 1
      /\ \A i \in 1..Len(queue) : queue[i].seq < seq_num + 1
  BY <1>5, <1>6 DEF UplinkInv, NumbersRise
<1>10. /\ 0..(seq_num + 1) - 1 = 0..seq_num - 1 \cup {seq_num}
       /\ seq_num \notin 0..seq_num - 1
  BY <1>5
<1>8. CASE Len(queue) = QueueCapacity
  <2>1. queue' = queue /\ (endLost' <=> packet.end)
    BY <1>4, <1>8
  <2>2. QueuesOK'
    BY <1>2, <1>4, <1>5, <2>1 DEF QueuesOK
  <2>3. NumbersRise'
    BY <1>2, <1>4, <1>7, <2>1 DEF UplinkInv, NumbersRise
  <2>4. SpurtClosed'
    BY <1>2, <1>3, <2>1 DEF SpurtClosed
  <2>5. Accounted'
    BY <1>2, <1>4, <1>8, <1>10, <2>1 DEF UplinkInv, Accounted
  <2> QED
    BY <1>2, <2>2, <2>3, <2>4, <2>5 DEF UplinkInv
<1>9. CASE Len(queue) # QueueCapacity
  <2>1. /\ queue' \in Seq(Numbered) /\ Len(queue') = Len(queue) + 1 /\ queue' # <<>>
        /\ \A i \in 1..Len(queue) : queue'[i] = queue[i]
        /\ queue'[Len(queue) + 1] = packet
    BY <1>3, <1>4, <1>5, <1>9, AppendSeq
  <2>2. QueuesOK'
    BY <1>2, <1>4, <1>5, <2>1 DEF QueuesOK
  <2>3. NumbersRise'
    <3>1. \A i \in 1..Len(queue') :
            \/ i \in 1..Len(queue) /\ queue'[i] = queue[i]
            \/ i = Len(queue) + 1 /\ queue'[i].seq = seq_num
      BY <1>3, <1>5, <2>1
    <3>2. \A i, j \in 1..Len(queue') : i < j => queue'[i].seq < queue'[j].seq
      <4>1. /\ \A i, j \in 1..Len(queue) : i < j => queue[i].seq < queue[j].seq
            /\ \A i \in 1..Len(queue) : queue[i].seq < seq_num
        BY DEF UplinkInv, NumbersRise
      <4>2. \A i \in 1..Len(queue) : ~(Len(queue) + 1 < i)
        BY <1>5
      <4> QED
        BY <1>5, <1>6, <3>1, <4>1, <4>2
    <3>3. /\ \A i \in 1..Len(outgoing), j \in 1..Len(queue') : outgoing[i].seq < queue'[j].seq
          /\ \A n \in received, j \in 1..Len(queue') : n < queue'[j].seq
          /\ \A j \in 1..Len(queue') : queue'[j].seq < seq_num + 1
      BY <1>5, <1>7, <3>1 DEF UplinkInv, NumbersRise
    <3> QED
      BY <1>2, <1>4, <1>7, <3>2, <3>3 DEF UplinkInv, NumbersRise
  <2>4. SpurtClosed'
    <3>1. Newest' = packet
      BY <2>1 DEF Newest
    <3> QED
      BY <1>2, <1>3, <3>1 DEF SpurtClosed
  <2>5. Accounted'
    <3>1. Numbers(queue') = Numbers(queue) \cup {seq_num} /\ lost' = lost
      BY <1>3, <1>4, <1>5, <1>9, NumbersAppend
    <3> QED
      BY <1>2, <1>4, <1>10, <3>1 DEF UplinkInv, Accounted
  <2> QED
    BY <1>2, <2>2, <2>3, <2>4, <2>5 DEF UplinkInv
<1> QED
  BY <1>8, <1>9

\* A frame the encoder refuses, or the gate keeps back, takes no number.
LEMMA UnnumberedStep ==
  ASSUME UplinkInv, EncodeFails \/ StaySilent \/ EncoderStops
  PROVE  UplinkInv'
<1> DEFINE gate == Gate(Head(ring))
<1>1. /\ Pass(gate) /\ ring # <<>> /\ UNCHANGED <<seq_num, queue, lost>>
      /\ "sender" \in tasks' => "sender" \in tasks
  BY DEF EncodeFails, StaySilent, EncoderStops, Pass
<1>2. /\ ring' \in Seq({"voice", "quiet"}) /\ GateOK'
      /\ gate.state = "Silent" => ~was_transmitting
      /\ gate.state = "Transmitting" => was_transmitting'
      /\ gate.state \in {"Transmitting", "Terminator", "Silent"}
      /\ UNCHANGED <<outgoing, heard, received, frames>>
  BY <1>1, PassStep
<1>3. QueuesOK' /\ NumbersRise' /\ Newest' = Newest /\ Accounted'
  BY <1>1, <1>2 DEF UplinkInv, QueuesOK, NumbersRise, Newest, Accounted
<1>4. \/ gate.state # "Silent" /\ (endLost' <=> gate.state = "Terminator")
      \/ gate.state = "Silent" /\ endLost' = endLost
  BY DEF EncodeFails, StaySilent, EncoderStops
<1> HIDE DEF gate
<1>5. SpurtClosed'
  BY <1>1, <1>2, <1>3, <1>4 DEF UplinkInv, SpurtClosed
<1> QED
  BY <1>2, <1>3, <1>5 DEF UplinkInv

\* The forwarder moves the oldest packet behind those being sent.
LEMMA ForwardStep ==
  ASSUME UplinkInv, Forward
  PROVE  UplinkInv'
<1>1. /\ queue \in Seq(Numbered) /\ outgoing \in Seq(Numbered) /\ queue # <<>>
      /\ queue' = Tail(queue) /\ outgoing' = Append(outgoing, Head(queue))
      /\ UNCHANGED <<tasks, ring, gateVars, lost, heard, received, frames>>
  BY DEF Forward, UplinkInv, QueuesOK
<1>2. /\ queue' \in Seq(Numbered) /\ Len(queue) \in Nat \ {0} /\ Len(queue') = Len(queue) - 1
      /\ \A i \in 1..Len(queue') : queue'[i] = queue[i + 1]
      /\ Head(queue) = queue[1] /\ Head(queue) \in Numbered
      /\ queue' = <<>> <=> Len(queue) = 1
  BY <1>1, TailSeq
<1>3. /\ outgoing' \in Seq(Numbered) /\ Len(outgoing') = Len(outgoing) + 1 /\ outgoing' # <<>>
      /\ Len(outgoing) \in Nat
      /\ \A i \in 1..Len(outgoing) : outgoing'[i] = outgoing[i]
      /\ outgoing'[Len(outgoing) + 1] = queue[1]
  BY <1>1, <1>2, AppendSeq
<1>4. QueuesOK'
  BY <1>1, <1>2, <1>3 DEF UplinkInv, QueuesOK, gateVars
<1>5. GateOK'
  BY <1>1 DEF UplinkInv, GateOK, GateFollowsVoice, gateVars
<1>6. NumbersRise'
  <2>1. \A i \in 1..Len(queue') : i + 1 \in 1..Len(queue) /\ queue'[i] = queue[i + 1]
    BY <1>2
  <2>2. \A i \in 1..Len(outgoing') :
          \/ i \in 1..Len(outgoing) /\ outgoing'[i] = outgoing[i]
          \/ i = Len(outgoing) + 1 /\ outgoing'[i] = queue[1]
    BY <1>3
  <2>3. 1 \in 1..Len(queue) /\ \A i \in 1..Len(queue') : 1 < i + 1
    BY <1>2
  <2>4. \A i, j \in 1..Len(queue') : i < j => queue'[i].seq < queue'[j].seq
    <3>1. \A i, j \in 1..Len(queue') : i < j => i + 1 < j + 1
      BY <1>2
    <3> QED
      BY <2>1, <3>1 DEF UplinkInv, NumbersRise
  <2>5. \A i, j \in 1..Len(outgoing') : i < j => outgoing'[i].seq < outgoing'[j].seq
    BY <1>3, <2>2, <2>3 DEF UplinkInv, NumbersRise
  <2>6. \A i \in 1..Len(outgoing'), j \in 1..Len(queue') : outgoing'[i].seq < queue'[j].seq
    BY <2>1, <2>2, <2>3 DEF UplinkInv, NumbersRise
  <2>7. /\ \A n \in received, i \in 1..Len(outgoing') : n < outgoing'[i].seq
        /\ \A i \in 1..Len(outgoing') : outgoing'[i].seq < seq_num
    BY <2>2, <2>3 DEF UplinkInv, NumbersRise
  <2>8. /\ \A n \in received, i \in 1..Len(queue') : n < queue'[i].seq
        /\ \A i \in 1..Len(queue') : queue'[i].seq < seq_num
    BY <2>1 DEF UplinkInv, NumbersRise
  <2> QED
    BY <1>1, <2>4, <2>5, <2>6, <2>7, <2>8 DEF UplinkInv, NumbersRise, gateVars
<1>7. SpurtClosed'
  <2>1. Newest' = Newest
    <3>1. CASE Len(queue) = 1
      BY <1>1, <1>2, <1>3, <3>1 DEF Newest
    <3>2. CASE Len(queue) # 1
      <4>1. Len(queue') \in 1..Len(queue') /\ Len(queue') + 1 = Len(queue)
        BY <1>2, <3>2
      <4> QED
        BY <1>1, <1>2, <3>2, <4>1 DEF Newest
    <3> QED
      BY <3>1, <3>2
  <2> QED
    BY <1>1, <2>1 DEF UplinkInv, SpurtClosed, gateVars
<1>8. Accounted'
  <2>1. /\ Numbers(queue) = {Head(queue).seq} \cup Numbers(queue')
        /\ Numbers(outgoing') = Numbers(outgoing) \cup {Head(queue).seq}
    BY <1>1, <1>2, NumbersTail, NumbersAppend
  <2> QED
    BY <1>1, <2>1 DEF UplinkInv, Accounted, gateVars
<1> QED
  BY <1>4, <1>5, <1>6, <1>7, <1>8 DEF UplinkInv

\* The forwarder or the send loop ends, with what it still held.
LEMMA WindDownStep ==
  ASSUME UplinkInv, ForwardFails \/ ForwardEnds \/ SendFails
  PROVE  UplinkInv'
<1>1. UNCHANGED <<ring, gateVars, heard, received, frames>>
  BY DEF ForwardFails, ForwardEnds, SendFails
<1>2. /\ queue' \in {queue, <<>>} /\ outgoing' \in {outgoing, <<>>}
      /\ "sender" \in tasks' => "sender" \in tasks /\ UNCHANGED <<queue, outgoing>>
  BY DEF ForwardFails, ForwardEnds, SendFails
<1>3. /\ <<>> \in Seq(Numbered) /\ Len(<<>>) = 0 /\ 1..0 = {}
      /\ Numbers(<<>>) = {}
  BY DEF Numbers
<1>4. QueuesOK' /\ GateOK' /\ SpurtClosed'
  BY <1>1, <1>2, <1>3 DEF UplinkInv, QueuesOK, GateOK, GateFollowsVoice, SpurtClosed, Newest,
     gateVars
<1>5. /\ queue' = queue \/ 1..Len(queue') = {}
      /\ outgoing' = outgoing \/ 1..Len(outgoing') = {}
  BY <1>2, <1>3
<1>6. NumbersRise'
  BY <1>1, <1>5 DEF UplinkInv, NumbersRise, gateVars
<1>7. Numbers(queue) \cup Numbers(outgoing) \cup lost
        = Numbers(queue') \cup Numbers(outgoing') \cup lost'
  BY <1>3 DEF ForwardFails, ForwardEnds, SendFails
<1>8. ASSUME NEW n \in lost'
      PROVE  n \notin Numbers(queue') \cup Numbers(outgoing') \cup received'
  <2>1. CASE n \in lost
    BY <1>1, <1>2, <1>3, <2>1 DEF UplinkInv, Accounted
  <2>2. CASE n \in Numbers(queue) /\ ForwardFails
    <3>1. queue' = <<>> /\ outgoing' = outgoing
      BY <2>2 DEF ForwardFails
    <3>2. PICK j \in 1..Len(queue) : n = queue[j].seq
      BY <2>2 DEF Numbers
    <3>3. n \notin received /\ n \notin Numbers(outgoing)
      <4>1. /\ \A m \in received : m < n /\ m \in Nat
            /\ \A i \in 1..Len(outgoing) : outgoing[i].seq < n
        BY <3>2 DEF UplinkInv, NumbersRise, QueuesOK
      <4>2. queue[j] \in Numbered
        BY <3>2 DEF UplinkInv, QueuesOK
      <4>3. n \in Nat
        BY <3>2, <4>2 DEF Numbered
      <4> QED
        BY <4>1, <4>3 DEF Numbers
    <3> QED
      BY <1>1, <1>3, <3>1, <3>3
  <2>3. CASE n \in Numbers(outgoing) /\ SendFails
    <3>1. queue' = queue /\ outgoing' = <<>>
      BY <2>3 DEF SendFails
    <3>2. PICK j \in 1..Len(outgoing) : n = outgoing[j].seq
      BY <2>3 DEF Numbers
    <3>3. n \notin received /\ n \notin Numbers(queue)
      <4>1. /\ \A m \in received : m < n /\ m \in Nat
            /\ \A i \in 1..Len(queue) : n < queue[i].seq
        BY <3>2 DEF UplinkInv, NumbersRise, QueuesOK
      <4>2. outgoing[j] \in Numbered
        BY <3>2 DEF UplinkInv, QueuesOK
      <4>3. n \in Nat
        BY <3>2, <4>2 DEF Numbered
      <4> QED
        BY <4>1, <4>3 DEF Numbers
    <3> QED
      BY <1>1, <1>3, <3>1, <3>3
  <2> QED
    BY <1>8, <2>1, <2>2, <2>3 DEF ForwardFails, ForwardEnds, SendFails
<1>9. Accounted'
  BY <1>1, <1>7, <1>8 DEF UplinkInv, Accounted, gateVars
<1> QED
  BY <1>4, <1>6, <1>9 DEF UplinkInv

\* The server gets the oldest packet under way.
LEMMA SendStep ==
  ASSUME UplinkInv, Send
  PROVE  UplinkInv' /\ \A n \in received : n < heard'.seq
<1>1. /\ outgoing \in Seq(Numbered) /\ outgoing # <<>> /\ outgoing' = Tail(outgoing)
      /\ heard' = Head(outgoing) /\ received' = received \cup {Head(outgoing).seq}
      /\ UNCHANGED <<tasks, ring, gateVars, lost, queue, frames>>
  BY DEF Send, UplinkInv, QueuesOK
<1>2. /\ outgoing' \in Seq(Numbered) /\ Len(outgoing) \in Nat \ {0}
      /\ Len(outgoing') = Len(outgoing) - 1
      /\ \A i \in 1..Len(outgoing') : outgoing'[i] = outgoing[i + 1]
      /\ Head(outgoing) = outgoing[1] /\ Head(outgoing) \in Numbered
      /\ outgoing' = <<>> <=> Len(outgoing) = 1
  BY <1>1, TailSeq
<1>3. QueuesOK'
  BY <1>1, <1>2 DEF UplinkInv, QueuesOK, gateVars, Numbered
<1>4. GateOK'
  BY <1>1 DEF UplinkInv, GateOK, GateFollowsVoice, gateVars
<1>5. /\ 1 \in 1..Len(outgoing)
      /\ \A i \in 1..Len(outgoing') :
           i + 1 \in 1..Len(outgoing) /\ outgoing'[i] = outgoing[i + 1] /\ 1 < i + 1
  BY <1>2
<1>6. \A i, j \in 1..Len(outgoing') : i < j => outgoing'[i].seq < outgoing'[j].seq
  BY <1>5 DEF UplinkInv, NumbersRise
<1>7. /\ \A i \in 1..Len(outgoing'), j \in 1..Len(queue) : outgoing'[i].seq < queue[j].seq
      /\ \A i \in 1..Len(outgoing') : outgoing'[i].seq < seq_num
  BY <1>5 DEF UplinkInv, NumbersRise
<1>8. \A n \in received' :
        /\ n < seq_num
        /\ \A i \in 1..Len(outgoing') : n < outgoing'[i].seq
        /\ \A i \in 1..Len(queue) : n < queue[i].seq
  BY <1>1, <1>2, <1>5 DEF UplinkInv, NumbersRise
<1>9. NumbersRise'
  BY <1>1, <1>6, <1>7, <1>8 DEF UplinkInv, NumbersRise, gateVars
<1>10. SpurtClosed'
  <2>1. Newest' = Newest
    <3>1. CASE queue # <<>>
      BY <1>1, <3>1 DEF Newest
    <3>2. CASE queue = <<>> /\ Len(outgoing) = 1
      BY <1>1, <1>2, <3>2 DEF Newest
    <3>3. CASE queue = <<>> /\ Len(outgoing) # 1
      <4>1. Len(outgoing') \in 1..Len(outgoing') /\ Len(outgoing') + 1 = Len(outgoing)
        BY <1>2, <3>3
      <4> QED
        BY <1>1, <1>2, <3>3, <4>1 DEF Newest
    <3> QED
      BY <3>1, <3>2, <3>3
  <2> QED
    BY <1>1, <2>1 DEF UplinkInv, SpurtClosed, gateVars
<1>11. \A n \in received : n < heard'.seq
  BY <1>1, <1>2, <1>5 DEF UplinkInv, NumbersRise
<1>12. Accounted'
  <2>1. Numbers(outgoing) = {Head(outgoing).seq} \cup Numbers(outgoing')
    BY <1>1, NumbersTail
  <2> QED
    BY <1>1, <2>1 DEF UplinkInv, Accounted, gateVars
<1> QED
  BY <1>3, <1>4, <1>9, <1>10, <1>11, <1>12 DEF UplinkInv

\* Every step keeps the invariant, and what the server gets is newer than all before.
LEMMA UplinkInvStep ==
  UplinkInv /\ [Next]_vars =>
    UplinkInv' /\ (received' # received => \A n \in received : n < heard'.seq)
<1> SUFFICES ASSUME UplinkInv, [Next]_vars
             PROVE  UplinkInv' /\ (received' # received => \A n \in received : n < heard'.seq)
  OBVIOUS
<1>1. ASSUME UNCHANGED vars
      PROVE  UplinkInv' /\ received' = received
  BY <1>1 DEF vars, gateVars, UplinkInv, QueuesOK, GateOK, GateFollowsVoice, NumbersRise,
              SpurtClosed, Newest, Accounted
<1>2. Send \/ received' = received
  BY <1>1 DEF Next, vars, PutFrame, EncodeFrame, EncodeFails, StaySilent, Pass, Forward,
              EncoderStops, ForwardFails, ForwardEnds, SendFails
<1> QED
  BY <1>1, <1>2, PutFrameStep, EncodeFrameStep, UnnumberedStep, ForwardStep, WindDownStep,
     SendStep DEF Next

\* The invariant holds throughout.
LEMMA UplinkInvariant == Spec => []UplinkInv
<1>1. UplinkInv /\ [Next]_vars => UplinkInv'
  BY UplinkInvStep
<1> QED
  BY UplinkInvInit, <1>1, PTL DEF Spec

\* The gate is open exactly from a voice frame until HoldMax quiet frames have
\* followed it, for every HoldMax (bridge.rs:109-122).
THEOREM GateIsExact == Spec => []GateFollowsVoice
<1>1. UplinkInv => GateFollowsVoice
  BY DEF UplinkInv, GateOK
<1> QED
  BY <1>1, UplinkInvariant, PTL

\* A talk spurt that is over has been ended with a terminator, unless that was
\* dropped or refused (bridge.rs:118-143).
THEOREM SpurtsEnd == Spec => []TalkEnds
<1>1. UplinkInv => TalkEnds
  BY DEF UplinkInv, SpurtClosed, Newest, TalkEnds
<1> QED
  BY <1>1, UplinkInvariant, PTL

\* Every number given is with the server, under way or lost, and only one of these
\* (bridge.rs:131-152, control.rs:198-220), for any capacity of ring and queue,
\* through the failure of the connection.
THEOREM NumbersAreAccountedFor == Spec => []FramesAccountedFor
<1>1. UplinkInv => FramesAccountedFor
  <2> SUFFICES ASSUME UplinkInv PROVE FramesAccountedFor
    OBVIOUS
  <2>1. /\ \A i \in 1..Len(queue) : queue[i] \in Numbered
        /\ \A i \in 1..Len(outgoing) : outgoing[i] \in Numbered
        /\ Len(queue) \in Nat /\ Len(outgoing) \in Nat
    BY DEF UplinkInv, QueuesOK
  <2>2. /\ \A i \in 1..Len(queue) : queue[i].seq \in Nat
        /\ \A i \in 1..Len(outgoing) : outgoing[i].seq \in Nat
        /\ received \subseteq Nat
    BY <2>1 DEF Numbered, UplinkInv, QueuesOK
  <2>3. Distinct(queue) /\ Distinct(outgoing)
    <3>1. ASSUME NEW i \in 1..Len(queue), NEW j \in 1..Len(queue), i # j
          PROVE  queue[i].seq # queue[j].seq
      <4>1. queue[i].seq < queue[j].seq \/ queue[j].seq < queue[i].seq
        BY <2>1, <3>1 DEF UplinkInv, NumbersRise
      <4> QED
        BY <2>2, <4>1
    <3>2. ASSUME NEW i \in 1..Len(outgoing), NEW j \in 1..Len(outgoing), i # j
          PROVE  outgoing[i].seq # outgoing[j].seq
      <4>1. outgoing[i].seq < outgoing[j].seq \/ outgoing[j].seq < outgoing[i].seq
        BY <2>1, <3>2 DEF UplinkInv, NumbersRise
      <4> QED
        BY <2>2, <4>1
    <3> QED
      BY <3>1, <3>2 DEF Distinct
  <2>4. \A i \in 1..Len(outgoing), j \in 1..Len(queue) : outgoing[i].seq # queue[j].seq
    BY <2>2 DEF UplinkInv, NumbersRise
  <2>5. \A n \in received :
          /\ \A i \in 1..Len(outgoing) : n # outgoing[i].seq
          /\ \A i \in 1..Len(queue) : n # queue[i].seq
    BY <2>2 DEF UplinkInv, NumbersRise
  <2>6. /\ Numbers(queue) \cap Numbers(outgoing) = {}
        /\ received \cap (Numbers(queue) \cup Numbers(outgoing)) = {}
    BY <2>4, <2>5 DEF Numbers
  <2> QED
    BY <2>3, <2>6 DEF UplinkInv, Accounted, FramesAccountedFor
<1> QED
  BY <1>1, UplinkInvariant, PTL

\* The server gets the frames in the order of their numbers, whatever is dropped at
\* the full queue, of any capacity.
THEOREM FramesArriveInOrder == Spec => HeardInOrder
<1>1. UplinkInv /\ [Next]_vars =>
        [received' # received => \A n \in received : n < heard'.seq]_vars
  BY UplinkInvStep
<1> QED
  BY <1>1, UplinkInvariant, PTL DEF Spec, HeardInOrder
-----------------------------------------------------------------------------
(* Types *)

\* Ring and queue keep their capacities, and a number is only given to a frame that was
\* put and has left the ring.
BoundsOK ==
    /\ tasks \subseteq {"encoder", "forwarder", "sender"}
    /\ Len(ring) <= RingFrames /\ Len(queue) <= QueueCapacity
    /\ frames \in 0..MaxFrames /\ seq_num + Len(ring) <= frames
    /\ heard \in Numbered /\ heard.seq \in received \cup {0}

FlagsOK == was_transmitting \in BOOLEAN /\ endLost \in BOOLEAN

\* What is put, dropped, numbered and sent stays within these bounds.
LEMMA BoundsStep == UplinkInv /\ BoundsOK /\ [Next]_vars => BoundsOK'
<1> SUFFICES ASSUME UplinkInv, BoundsOK, [Next]_vars
             PROVE  BoundsOK'
  OBVIOUS
<1>0. /\ ring \in Seq({"voice", "quiet"}) /\ Len(ring) \in Nat
      /\ queue \in Seq(Numbered) /\ Len(queue) \in Nat
      /\ outgoing \in Seq(Numbered)
      /\ seq_num \in Nat /\ received \subseteq Nat
      /\ RingFrames \in Nat \ {0} /\ QueueCapacity \in Nat \ {0} /\ MaxFrames \in Nat
  BY CapacitiesAssumption DEF UplinkInv, QueuesOK
<1>1. ASSUME NEW kind \in {"voice", "quiet"}, PutFrame(kind)
      PROVE  BoundsOK'
  <2>1. Len(Append(ring, kind)) = Len(ring) + 1
    BY <1>0, AppendSeq
  <2>2. /\ frames < MaxFrames /\ frames' = frames + 1
        /\ Len(ring') = IF Len(ring) < RingFrames THEN Len(ring) + 1 ELSE Len(ring)
        /\ UNCHANGED <<tasks, seq_num, queue, heard, received>>
    BY <1>1, <2>1 DEF PutFrame, gateVars
  <2> QED
    BY <1>0, <2>2 DEF BoundsOK
<1>2. ASSUME EncodeFrame \/ EncoderStops \/ EncodeFails \/ StaySilent
      PROVE  BoundsOK'
  <2>1. ring # <<>> /\ ring' = Tail(ring) /\ UNCHANGED <<heard, received, frames>>
        /\ tasks' \subseteq tasks
    BY <1>2 DEF EncodeFrame, EncoderStops, EncodeFails, StaySilent, Pass
  <2>2. Len(ring') = Len(ring) - 1 /\ Len(ring) >= 1
    BY <1>0, <2>1, TailSeq
  <2>3. \/ seq_num' = seq_num /\ queue' = queue
        \/ seq_num' = seq_num + 1 /\ queue' = queue
        \/ seq_num' = seq_num + 1 /\ Len(queue) # QueueCapacity
             /\ \E e \in Numbered : queue' = Append(queue, e)
    <3>1. CASE EncodeFrame
      <4> DEFINE e == [seq |-> seq_num, end |-> Gate(Head(ring)).state = "Terminator"]
      <4>1. e \in Numbered
        BY <1>0 DEF Numbered
      <4>2. /\ queue' = IF Len(queue) = QueueCapacity THEN queue ELSE Append(queue, e)
            /\ seq_num' = seq_num + 1
        BY <3>1 DEF EncodeFrame, Number
      <4> HIDE DEF e
      <4> QED
        BY <4>1, <4>2
    <3>2. CASE EncoderStops \/ EncodeFails \/ StaySilent
      BY <3>2 DEF EncoderStops, EncodeFails, StaySilent
    <3> QED
      BY <1>2, <3>1, <3>2
  <2>4. Len(queue') <= QueueCapacity
    <3>1. ASSUME NEW e \in Numbered PROVE Len(Append(queue, e)) = Len(queue) + 1
      BY <1>0, AppendSeq
    <3> QED
      BY <1>0, <2>3, <3>1 DEF BoundsOK
  <2>5. seq_num' + Len(ring') <= frames'
    BY <1>0, <2>1, <2>2, <2>3 DEF BoundsOK
  <2>6. Len(ring') <= RingFrames
    BY <1>0, <2>2 DEF BoundsOK
  <2> QED
    BY <2>1, <2>4, <2>5, <2>6 DEF BoundsOK
<1>3. ASSUME Forward \/ ForwardFails \/ ForwardEnds \/ SendFails
      PROVE  BoundsOK'
  <2>1. /\ tasks' \subseteq tasks /\ UNCHANGED <<ring, seq_num, heard, received, frames>>
        /\ queue' = queue \/ queue' = <<>> \/ (queue # <<>> /\ queue' = Tail(queue))
    BY <1>3 DEF Forward, ForwardFails, ForwardEnds, SendFails, gateVars
  <2>2. Len(queue') <= QueueCapacity
    <3>1. CASE queue' = queue \/ queue' = <<>>
      BY <1>0, <3>1 DEF BoundsOK
    <3>2. CASE queue # <<>> /\ queue' = Tail(queue)
      <4>1. Len(queue') = Len(queue) - 1
        BY <1>0, <3>2, TailSeq
      <4> QED
        BY <1>0, <4>1 DEF BoundsOK
    <3> QED
      BY <2>1, <3>1, <3>2
  <2> QED
    BY <2>1, <2>2 DEF BoundsOK
<1>4. ASSUME Send
      PROVE  BoundsOK'
  <2>1. Head(outgoing) \in Numbered
    BY <1>0, <1>4, TailSeq DEF Send
  <2>2. /\ heard' = Head(outgoing) /\ received' = received \cup {Head(outgoing).seq}
        /\ UNCHANGED <<tasks, ring, seq_num, queue, frames>>
    BY <1>4 DEF Send, gateVars
  <2> QED
    BY <2>1, <2>2 DEF BoundsOK
<1>5. CASE UNCHANGED vars
  BY <1>5 DEF vars, gateVars, BoundsOK
<1> QED
  BY <1>1, <1>2, <1>3, <1>4, <1>5 DEF Next

\* The gate and the fate of a terminator are yes or no.
LEMMA FlagsStep == FlagsOK /\ [Next]_vars => FlagsOK'
<1> SUFFICES ASSUME FlagsOK, [Next]_vars
             PROVE  FlagsOK'
  OBVIOUS
<1>1. \A kind : Gate(kind).was \in BOOLEAN
  BY DEF Gate
<1>2. was_transmitting' = was_transmitting \/ was_transmitting' = Gate(Head(ring)).was
  BY DEF Next, PutFrame, EncodeFrame, EncoderStops, EncodeFails, StaySilent, Pass, Forward,
    ForwardFails, ForwardEnds, Send, SendFails, gateVars, vars
<1>3. was_transmitting' \in BOOLEAN
  BY <1>1, <1>2, Zenon DEF FlagsOK
<1>4. \/ endLost' = endLost
      \/ endLost' = (Gate(Head(ring)).state = "Terminator")
      \/ endLost' = (Len(queue) = QueueCapacity /\ Gate(Head(ring)).state = "Terminator")
  BY DEF Next, PutFrame, EncodeFrame, EncoderStops, EncodeFails, StaySilent, Pass, Number,
    Forward, ForwardFails, ForwardEnds, Send, SendFails, gateVars, vars
<1>5. endLost' \in BOOLEAN
  BY <1>4, Zenon DEF FlagsOK
<1> QED
  BY <1>3, <1>5 DEF FlagsOK

\* A sequence is one of packets when its elements are.
LEMMA Packets ==
    ASSUME NEW q \in Seq(Numbered), \A i \in 1..Len(q) : q[i] \in Packet
    PROVE  q \in Seq(Packet)
OBVIOUS

\* Ring, gate, queues and numbers keep their types and capacities: no number is given
\* beyond the frames put, for any capacities and any hold (media_port.rs:55-75,
\* bridge.rs:87-152).
THEOREM UplinkTypes == Spec => []TypeOK
<1>1. Init => BoundsOK /\ FlagsOK
  <2> SUFFICES ASSUME Init PROVE BoundsOK /\ FlagsOK
    OBVIOUS
  <2>1. /\ Len(ring) = 0 /\ Len(queue) = 0 /\ seq_num = 0 /\ frames = 0
        /\ tasks \subseteq {"encoder", "forwarder", "sender"}
        /\ heard = [seq |-> 0, end |-> TRUE]
    BY DEF Init
  <2>2. heard \in Numbered /\ heard.seq = 0
    BY <2>1 DEF Numbered
  <2>3. FlagsOK
    BY DEF Init, FlagsOK
  <2> QED
    BY <2>1, <2>2, <2>3, CapacitiesAssumption DEF BoundsOK
<1>2. UplinkInv /\ BoundsOK /\ FlagsOK => TypeOK
  <2> SUFFICES ASSUME UplinkInv, BoundsOK, FlagsOK PROVE TypeOK
    OBVIOUS
  <2>0. /\ queue \in Seq(Numbered) /\ Len(queue) \in Nat
        /\ outgoing \in Seq(Numbered) /\ Len(outgoing) \in Nat
        /\ ring \in Seq({"voice", "quiet"}) /\ Len(ring) \in Nat
        /\ seq_num \in Nat /\ received \subseteq Nat /\ MaxFrames \in Nat /\ HoldMax \in Nat
    BY CapacitiesAssumption DEF UplinkInv, QueuesOK
  <2>1. seq_num \in 0..MaxFrames /\ frames \in 0..MaxFrames
    BY <2>0 DEF BoundsOK
  <2>2. /\ \A i \in 1..Len(queue) : queue[i] \in Numbered /\ queue[i].seq < seq_num
        /\ \A i \in 1..Len(outgoing) : outgoing[i] \in Numbered /\ outgoing[i].seq < seq_num
        /\ \A n \in received : n < seq_num
    BY <2>0 DEF UplinkInv, NumbersRise
  <2>3. ASSUME NEW p \in Numbered, p.seq <= seq_num
        PROVE  p \in Packet
    <3>1. p.seq \in Nat /\ p.end \in BOOLEAN
      BY DEF Numbered
    <3>2. p.seq \in 0..MaxFrames
      BY <2>0, <2>1, <2>3, <3>1
    <3> QED
      BY <3>2 DEF Packet, Numbered
  <2>4. ASSUME NEW i \in 1..Len(queue) PROVE queue[i] \in Packet
    <3>1. queue[i] \in Numbered /\ queue[i].seq < seq_num
      BY <2>2
    <3>2. queue[i].seq \in Nat
      BY <3>1 DEF Numbered
    <3>3. queue[i].seq <= seq_num
      BY <2>0, <3>1, <3>2
    <3> QED
      BY <2>3, <3>1, <3>3
  <2>5. ASSUME NEW i \in 1..Len(outgoing) PROVE outgoing[i] \in Packet
    <3>1. outgoing[i] \in Numbered /\ outgoing[i].seq < seq_num
      BY <2>2
    <3>2. outgoing[i].seq \in Nat
      BY <3>1 DEF Numbered
    <3>3. outgoing[i].seq <= seq_num
      BY <2>0, <3>1, <3>2
    <3> QED
      BY <2>3, <3>1, <3>3
  <2>6. queue \in Seq(Packet) /\ outgoing \in Seq(Packet)
    <3>1. queue \in Seq(Packet)
      <4>1. queue \in Seq(Numbered) /\ \A i \in 1..Len(queue) : queue[i] \in Packet
        BY <2>0, <2>4
      <4> QED
        BY <4>1, Packets
    <3>2. outgoing \in Seq(Packet)
      <4>1. outgoing \in Seq(Numbered) /\ \A i \in 1..Len(outgoing) : outgoing[i] \in Packet
        BY <2>0, <2>5
      <4> QED
        BY <4>1, Packets
    <3> QED
      BY <3>1, <3>2
  <2>7. heard \in Packet
    <3>1. heard.seq <= seq_num
      <4>1. CASE heard.seq = 0
        BY <2>0, <4>1
      <4>2. CASE heard.seq \in received
        <5>1. heard.seq < seq_num /\ heard.seq \in Nat
          BY <2>0, <2>2, <4>2
        <5> QED
          BY <2>0, <5>1
      <4> QED
        BY <4>1, <4>2 DEF BoundsOK
    <3> QED
      BY <2>3, <3>1 DEF BoundsOK
  <2>8. lost \subseteq 0..MaxFrames /\ received \subseteq 0..MaxFrames
    <3>1. lost \subseteq 0..seq_num - 1 /\ received \subseteq 0..seq_num - 1
      BY DEF UplinkInv, Accounted
    <3> QED
      BY <2>0, <2>1, <3>1
  <2>9. hold_frames \in 0..HoldMax /\ quiet \in 0..HoldMax + 1
    BY <2>0 DEF UplinkInv, GateOK
  <2>10. was_transmitting \in BOOLEAN /\ endLost \in BOOLEAN
    BY DEF FlagsOK
  <2> QED
    BY <2>0, <2>1, <2>6, <2>7, <2>8, <2>9, <2>10 DEF TypeOK, BoundsOK
<1> QED
  BY <1>1, <1>2, BoundsStep, FlagsStep, UplinkInvariant, PTL DEF Spec
=============================================================================
