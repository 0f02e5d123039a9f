-------------------------- MODULE AudioMixer_proofs --------------------------
(***************************************************************************)
(* What the decoders of WavAudio compute, for files of any length and      *)
(* rate, and that AudioMixer plays every speaker in order, for any number  *)
(* of speakers and packets and any capacities.                             *)
(***************************************************************************)
EXTENDS AudioMixer, WellFoundedInduction, TLAPS

(***************************************************************************)
(* The WAV decoders.                                                       *)
(***************************************************************************)
\* The quotient and the remainder of a division.
LEMMA Division ==
    ASSUME NEW a \in Nat, NEW b \in Nat \ {0}
    PROVE  /\ a \div b \in Nat
           /\ (a \div b) * b <= a
           /\ a < (a \div b) * b + b
<1>1. a \div b \in Nat /\ a % b \in 0..(b - 1) /\ a = b * (a \div b) + (a % b)
  BY SMT
<1>2. QED
  BY <1>1, SMT

\* A quotient is below n as soon as the dividend is below n times the divisor.
LEMMA QuotientBelow ==
    ASSUME NEW a \in Nat, NEW b \in Nat \ {0}, NEW n \in Nat, a < n * b
    PROVE  a \div b < n
<1>1. a \div b \in Nat /\ (a \div b) * b < n * b
  BY Division, SMT
<1>2. QED
  BY <1>1, SMT

LEMMA Products ==
    ASSUME NEW a \in Nat, NEW b \in Nat
    PROVE  a * b \in Nat
BY SMT

\* What is rounded up: the least count whose b-fold is at least a.
LEMMA RoundedUp ==
    ASSUME NEW a \in Nat, NEW b \in Nat \ {0}
    PROVE  /\ CeilDiv(a, b) \in Nat
           /\ a <= CeilDiv(a, b) * b
           /\ CeilDiv(a, b) * b < a + b
<1>1. a + b - 1 \in Nat
  BY SMT
<1>2. QED
  BY <1>1, Division, SMT DEF CeilDiv

\* Every sample decode_wav_48k mixes is one of the file (sounds.rs:85-98): neither
\* samples[idx] nor its neighbour is out of bounds, whatever the length and the rate.
THEOREM EffectsStayInBounds ==
    ASSUME NEW n \in Nat, NEW rate \in Nat \ {0},
           NEW i \in Nat, i < EffectLength(n, rate)
    PROVE  /\ rate # EffectRate => EffectIndex(i, rate) < n
           /\ rate # EffectRate => EffectNext(i, n, rate) < n
<1> SUFFICES ASSUME rate # EffectRate
             PROVE  EffectIndex(i, rate) < n /\ EffectNext(i, n, rate) < n
  OBVIOUS
<1> DEFINE len == CeilDiv(n * EffectRate, rate)
<1>1. EffectRate \in Nat \ {0}
  BY DEF EffectRate
<1>2. i < len
  BY DEF EffectLength
<1>3. n * EffectRate \in Nat /\ i * rate \in Nat
  BY <1>1, Products
<1>4. len \in Nat /\ len * rate < n * EffectRate + rate
  BY <1>3, RoundedUp
<1>5. (i + 1) * rate <= len * rate
  <2> HIDE DEF len
  <2> QED  BY <1>2, <1>4, SMT
<1>6. (i + 1) * rate = i * rate + rate
  BY SMT
<1>7. i * rate < n * EffectRate
  <2> HIDE DEF len
  <2> DEFINE p == i * rate
             q == n * EffectRate
             r == len * rate
             t == (i + 1) * rate
  <2>1. p \in Nat /\ q \in Nat /\ r \in Nat /\ t \in Nat
    BY <1>3, <1>4, Products
  <2>2. r < q + rate /\ t <= r /\ t = p + rate
    BY <1>4, <1>5, <1>6
  <2>3. p < q
    <3> HIDE DEF p, q, r, t
    <3> QED  BY <2>1, <2>2, SMT
  <2> QED  BY <2>3
<1>8. EffectIndex(i, rate) < n
  BY <1>1, <1>3, <1>7, QuotientBelow DEF EffectIndex
<1>9. QED
  BY <1>8 DEF EffectNext

\* Every sample linear_resample mixes is one of its input (tts.rs:876-891): its length
\* is rounded to the nearest, yet the last of it still falls into the input.
THEOREM ResamplingStaysInBounds ==
    ASSUME NEW n \in Nat, NEW in \in Nat, NEW out \in Nat,
           NEW i \in Nat, i < ResampledLength(n, in, out)
    PROVE  /\ Left(i, in, out) \in Nat /\ Left(i, in, out) < n
           /\ Right(i, n, in, out) \in Nat /\ Right(i, n, in, out) < n
<1>1. n # 0 /\ in # 0 /\ out # 0
  BY SMT DEF ResampledLength
<1>2. i * in \in Nat /\ n * out \in Nat
  BY Products
<1>3. i * in < n * out
  <2>1. CASE in = out
    <3>1. i < n
      BY <1>1, <2>1 DEF ResampledLength
    <3> QED  BY <1>1, <2>1, <3>1, SMT
  <2>2. CASE in # out
    <3> DEFINE a == 2 * n * out + in
               len == a \div (2 * in)
    <3>1. a \in Nat /\ 2 * in \in Nat \ {0} /\ 2 * n * out = 2 * (n * out)
      BY <1>1, <1>2, SMT
    <3>2. len \in Nat /\ len * (2 * in) <= a
      BY <3>1, Division
    <3>3. i < len
      BY <1>1, <2>2 DEF ResampledLength
    <3>4. (i + 1) * (2 * in) <= len * (2 * in)
      <4> HIDE DEF len
      <4> QED  BY <3>1, <3>2, <3>3, SMT
    <3>5. (i + 1) * (2 * in) = 2 * (i * in) + 2 * in
      BY SMT
    <3>6. 2 * (i * in) + 2 * in <= 2 * (n * out) + in
      <4> DEFINE r == len * (2 * in)
                 p == 2 * (i * in) + 2 * in
      <4>1. r \in Int /\ p \in Int /\ a \in Int
        BY <1>2, <3>1, <3>2, Products
      <4>2. p <= r /\ r <= a
        BY <3>2, <3>4, <3>5
      <4>3. p <= a
        <5> HIDE DEF p, r, a
        <5> QED  BY <4>1, <4>2, SMT
      <4> QED  BY <4>3, <3>1
    <3>7. QED
      <4> DEFINE p == i * in
                 q == n * out
      <4>1. p \in Nat /\ q \in Nat /\ 2 * p + 2 * in <= 2 * q + in
        BY <1>2, <3>6
      <4>2. p < q
        <5> HIDE DEF p, q
        <5> QED  BY <1>1, <4>1, SMT
      <4> QED  BY <4>2
  <2> QED  BY <2>1, <2>2
<1>4. Left(i, in, out) \in Nat /\ Left(i, in, out) < n
  BY <1>1, <1>2, <1>3, Division, QuotientBelow DEF Left
<1>5. QED
  BY <1>4, SMT DEF Right

\* Resampling keeps the duration of its input, to half a sample of the output
\* (tts.rs:876-877): a phrase is neither cut nor stretched.
THEOREM ResamplingKeepsDuration ==
    ASSUME NEW n \in Nat \ {0}, NEW in \in Nat \ {0}, NEW out \in Nat \ {0}
    PROVE  /\ 2 * (ResampledLength(n, in, out) * in) <= 2 * (n * out) + in
           /\ 2 * (n * out) <= 2 * (ResampledLength(n, in, out) * in) + in
<1>1. CASE in = out
  BY <1>1, SMT DEF ResampledLength
<1>2. CASE in # out
  <2> DEFINE a == 2 * n * out + in
             len == a \div (2 * in)
  <2>1. a \in Nat /\ 2 * in \in Nat \ {0} /\ a = 2 * (n * out) + in
    BY SMT
  <2>2. len \in Nat /\ len * (2 * in) <= a /\ a < len * (2 * in) + 2 * in
    BY <2>1, Division
  <2>3. ResampledLength(n, in, out) = len
    BY <1>2 DEF ResampledLength
  <2>4. len * (2 * in) = 2 * (len * in)
    <3> HIDE DEF len
    <3> QED  BY <2>2, SMT
  <2>5. len * in \in Nat /\ n * out \in Nat
    BY <2>2, Products
  <2>6. 2 * (len * in) <= 2 * (n * out) + in /\ 2 * (n * out) <= 2 * (len * in) + in
    <3> DEFINE p == len * in
               q == n * out
    <3>1. p \in Nat /\ q \in Nat /\ 2 * p <= 2 * q + in /\ 2 * q + in < 2 * p + 2 * in
      BY <2>1, <2>2, <2>4, <2>5
    <3> HIDE DEF p, q
    <3>2. 2 * p <= 2 * q + in /\ 2 * q <= 2 * p + in
      BY <3>1, SMT
    <3> QED  BY <3>2 DEF p, q
  <2> QED  BY <2>3, <2>6
<1> QED  BY <1>1, <1>2

(***************************************************************************)
(* The mixer.                                                              *)
(***************************************************************************)
State == [packets : Seq(Packet), pcm : Seq(Nat), idle : Int]

\* What the proofs need to know of the types.
MixerTypes ==
    /\ opus \in Seq(Packet)
    /\ DOMAIN speakers \subseteq Speakers
    /\ \A s \in DOMAIN speakers : speakers[s] \in State
    /\ ring \in Seq([Speakers -> Nat])
    /\ heard \in [Speakers -> Nat]
    /\ arrived \in 0..MaxArrivals

\* Packet x of speaker s is at position i of stage k.
Has(s, k, i, x) ==
    \/ k = 0 /\ i = 0 /\ x = heard[s]
    \/ k = 1 /\ i \in 1..Len(ring) /\ ring[i][s] # 0 /\ x = ring[i][s]
    \/ k = 2 /\ s \in DOMAIN speakers /\ i \in 1..Len(speakers[s].pcm)
         /\ x = speakers[s].pcm[i]
    \/ k = 3 /\ s \in DOMAIN speakers /\ i \in 1..Len(speakers[s].packets)
         /\ x = speakers[s].packets[i].id
    \/ k = 4 /\ i \in 1..Len(opus) /\ opus[i].speaker = s /\ x = opus[i].id

\* No packet is ahead of an earlier one, and none is from the future.
InOrder ==
    \A s \in Speakers : \A k, l, i, j, x, y \in Nat :
      Has(s, k, i, x) /\ Has(s, l, j, y) /\ (k < l \/ (k = l /\ i < j)) => x <= y
Known == \A s \in Speakers : \A k, i, x \in Nat : Has(s, k, i, x) => x <= arrived

\* A set of naturals that is not empty has a least element.
LEMMA LeastElement ==
    ASSUME NEW S \in SUBSET Nat, S # {}
    PROVE  Min(S) \in S /\ \A x \in S : Min(S) <= x
<1>1. IsWellFoundedOn(OpToRel(<, Nat), Nat)
  BY NatLessThanWellFounded
<1>2. PICK m \in S : \A y \in S : ~(<<y, m>> \in OpToRel(<, Nat))
  BY <1>1, WFMin
<1>3. \A y \in S : m <= y
  <2> SUFFICES ASSUME NEW y \in S PROVE m <= y
    OBVIOUS
  <2>1. y \in Nat /\ m \in Nat /\ ~(<<y, m>> \in OpToRel(<, Nat))
    BY <1>2
  <2>2. ~(y < m)
    BY <2>1 DEF OpToRel
  <2>3. y \in Nat /\ m \in Nat
    OBVIOUS
  <2> QED  BY <2>2, <2>3, SMT
<1> QED  BY <1>3 DEF Min

\* The fields of a packet.
LEMMA PacketType ==
    \A p \in Packet : p.speaker \in Speakers /\ p.id \in Nat /\ p.frames \in Nat \cup {Bad}
<1> SUFFICES ASSUME NEW p \in Packet
             PROVE  p.speaker \in Speakers /\ p.id \in Nat /\ p.frames \in Nat \cup {Bad}
  OBVIOUS
<1>1. p.speaker \in Speakers /\ p.id \in 1..MaxArrivals /\ p.frames \in PacketFrames
  BY DEF Packet
<1>2. MaxArrivals \in Nat /\ PacketFrames \subseteq Nat \cup {Bad}
  BY MixerAssumption
<1>3. p.id \in Nat
  BY <1>1, <1>2, SMT
<1> QED  BY <1>1, <1>2, <1>3

\* What decoding does to a speaker: the first d packets go, and the PCM, if it is new,
\* is all of the last of these.
LEMMA Decoding ==
    ASSUME NEW state \in State
    PROVE  /\ Decode(state).packets \in Seq(Packet) /\ Decode(state).pcm \in Seq(Nat)
           /\ \E d \in Nat :
                /\ \A i \in 1..Len(Decode(state).packets) :
                     /\ i + d \in 1..Len(state.packets)
                     /\ Decode(state).packets[i] = state.packets[i + d]
                /\ state.pcm # <<>> => d = 0 /\ Decode(state).pcm = state.pcm
                /\ state.pcm = <<>> => \A i \in 1..Len(Decode(state).pcm) :
                     d \in 1..Len(state.packets)
                       /\ Decode(state).pcm[i] = state.packets[d].id
<1>1. CASE state.pcm # <<>>
  <2>1. Decode(state) = state
    BY <1>1 DEF Decode
  <2>2. \A i \in 1..Len(state.packets) : i + 0 = i
    BY SMT
  <2>3. 0 \in Nat /\ state.packets \in Seq(Packet) /\ state.pcm \in Seq(Nat)
    BY DEF State
  <2> QED  BY <1>1, <2>1, <2>2, <2>3
<1>2. CASE state.pcm = <<>>
  <2> DEFINE p    == state.packets
             full == {i \in 1..Len(p) : p[i].frames # 0}
             n    == IF full = {} THEN Len(p) ELSE Min(full)
             ok   == full # {} /\ p[n].frames # Bad
             pcm  == IF ok THEN [i \in 1..p[n].frames |-> p[n].id] ELSE <<>>
  <2>1. p \in Seq(Packet) /\ Len(p) \in Nat
    BY SMT DEF State
  <2>2. full # {} => n \in 1..Len(p)
    <3>1. full \subseteq 1..Len(p) /\ (full # {} => n = Min(full))
      OBVIOUS
    <3>2. full \in SUBSET Nat
      BY <3>1, SMT
    <3> HIDE DEF full, n
    <3> QED  BY <3>1, <3>2, LeastElement
  <2>3. n \in 0..Len(p)
    BY <2>1, <2>2, SMT
  <2>4. Decode(state) = [state EXCEPT !.packets = SubSeq(p, n + 1, Len(p)), !.pcm = pcm]
    BY <1>2 DEF Decode
  <2>5. Decode(state).packets = SubSeq(p, n + 1, Len(p)) /\ Decode(state).pcm = pcm
    BY <2>4 DEF State
  <2>6. ok => n \in 1..Len(p) /\ p[n].frames # Bad
    BY <2>2
  <2> HIDE DEF p, full, ok, n, pcm
  <2>11. ok => p[n] \in Packet
    BY <2>1, <2>6
  <2>7. ok => p[n].frames \in Nat /\ p[n].id \in Nat
    BY <2>6, <2>11, PacketType
  <2>8. pcm \in Seq(Nat) /\ \A i \in 1..Len(pcm) : ok /\ pcm[i] = p[n].id
    <3>1. CASE ok
      <4> DEFINE f == p[n].frames
                 x == p[n].id
      <4>1. f \in Nat /\ x \in Nat /\ pcm = [i \in 1..f |-> x]
        BY <2>7, <3>1 DEF pcm
      <4> HIDE DEF f
      <4>2. pcm \in Seq(Nat) /\ Len(pcm) = f /\ \A i \in 1..f : pcm[i] = x
        <5> HIDE DEF x
        <5> QED  BY <4>1, SMT
      <4> QED  BY <3>1, <4>2
    <3>2. CASE ~ok
      <4>1. pcm = <<>>
        BY <3>2 DEF pcm
      <4>2. <<>> \in Seq(Nat) /\ Len(<<>>) = 0
        BY SMT
      <4>3. \A i \in 1..0 : FALSE
        BY SMT
      <4> QED  BY <4>1, <4>2, <4>3
    <3> QED  BY <3>1, <3>2
  <2>9. /\ SubSeq(p, n + 1, Len(p)) \in Seq(Packet)
        /\ \A i \in 1..Len(SubSeq(p, n + 1, Len(p))) :
             i + n \in 1..Len(p) /\ SubSeq(p, n + 1, Len(p))[i] = p[i + n]
    BY <2>1, <2>3, SMT
  <2>10. n \in Nat
    BY <2>1, <2>3, SMT
  <2> QED  BY <1>2, <2>5, <2>6, <2>8, <2>9, <2>10 DEF p
<1> QED  BY <1>1, <1>2

\* The smaller of two numbers is one of them.
LEMMA MinOfTwo == ASSUME NEW a \in Int, NEW b \in Int PROVE Min({a, b}) \in {a, b}
<1>1. \E m \in {a, b} : \A y \in {a, b} : m <= y
  <2>1. a <= b \/ b <= a
    BY SMT
  <2>2. a <= a /\ b <= b
    BY SMT
  <2> QED  BY <2>1, <2>2
<1> QED  BY <1>1 DEF Min

\* What the first element of a sequence and the rest of it are.
LEMMA HeadTail ==
    ASSUME NEW S, NEW seq \in Seq(S), seq # <<>>
    PROVE  /\ Len(seq) \in Nat \ {0} /\ Head(seq) = seq[1] /\ Head(seq) \in S
           /\ Tail(seq) \in Seq(S) /\ Len(Tail(seq)) = Len(seq) - 1
           /\ \A i \in 1..Len(Tail(seq)) : i + 1 \in 1..Len(seq) /\ Tail(seq)[i] = seq[i + 1]
BY SMT

\* What a sequence is after an element is appended.
LEMMA Appended ==
    ASSUME NEW S, NEW seq \in Seq(S), NEW e \in S
    PROVE  /\ Append(seq, e) \in Seq(S) /\ Len(seq) \in Nat
           /\ Len(Append(seq, e)) = Len(seq) + 1
           /\ \A i \in 1..Len(seq) + 1 :
                \/ i \in 1..Len(seq) /\ Append(seq, e)[i] = seq[i]
                \/ i = Len(seq) + 1 /\ Append(seq, e)[i] = e
BY SMT

\* The jitter queue: one packet may leave at the head, one enters at the end.
LEMMA Queueing ==
    ASSUME NEW packets \in Seq(Packet), NEW p \in Packet
    PROVE  /\ Queued(packets, p) \in Seq(Packet)
           /\ \E c \in {0, 1} : \A i \in 1..Len(Queued(packets, p)) :
                \/ /\ i < Len(Queued(packets, p)) /\ i + c \in 1..Len(packets)
                   /\ Queued(packets, p)[i] = packets[i + c]
                \/ i = Len(Queued(packets, p)) /\ Queued(packets, p)[i] = p
<1>1. CASE Len(packets) >= MaxPackets
  <2>1. packets # <<>>
    <3>1. Len(packets) # 0
      BY <1>1, MixerAssumption, SMT
    <3> QED  BY <3>1, SMT
  <2>2. /\ Tail(packets) \in Seq(Packet)
        /\ \A i \in 1..Len(Tail(packets)) :
             i + 1 \in 1..Len(packets) /\ Tail(packets)[i] = packets[i + 1]
    BY <2>1, HeadTail
  <2>3. Queued(packets, p) = Append(Tail(packets), p)
    BY <1>1 DEF Queued
  <2>4. /\ Queued(packets, p) \in Seq(Packet) /\ Len(Tail(packets)) \in Nat
        /\ Len(Queued(packets, p)) = Len(Tail(packets)) + 1
        /\ \A i \in 1..Len(Tail(packets)) + 1 :
             \/ i \in 1..Len(Tail(packets)) /\ Queued(packets, p)[i] = Tail(packets)[i]
             \/ i = Len(Tail(packets)) + 1 /\ Queued(packets, p)[i] = p
    BY <2>2, <2>3, Appended
  <2>5. \A i \in 1..Len(Tail(packets)) : i < Len(Tail(packets)) + 1
    BY <2>4, SMT
  <2> QED  BY <2>2, <2>4, <2>5
<1>2. CASE ~(Len(packets) >= MaxPackets)
  <2>1. Queued(packets, p) = Append(packets, p)
    BY <1>2 DEF Queued
  <2>2. /\ Queued(packets, p) \in Seq(Packet) /\ Len(packets) \in Nat
        /\ Len(Queued(packets, p)) = Len(packets) + 1
        /\ \A i \in 1..Len(packets) + 1 :
             \/ i \in 1..Len(packets) /\ Queued(packets, p)[i] = packets[i]
             \/ i = Len(packets) + 1 /\ Queued(packets, p)[i] = p
    BY <2>1, Appended
  <2>3. \A i \in 1..Len(packets) : i < Len(packets) + 1 /\ i + 0 = i
    BY <2>2, SMT
  <2> QED  BY <2>2, <2>3
<1> QED  BY <1>1, <1>2

\* The state the decoder keeps of a packet's speaker before it is queued.
StateOf(s) == IF s \in DOMAIN speakers THEN speakers[s] ELSE NewSpeaker

\* What a received packet does to the decoder.
LEMMA Receiving ==
    ASSUME MixerTypes, Receive
    PROVE  /\ opus # <<>> /\ opus' = Tail(opus) /\ Head(opus) \in Packet
           /\ UNCHANGED <<ring, heard, arrived>>
           /\ DOMAIN speakers' = DOMAIN speakers \cup {Head(opus).speaker}
           /\ \A s \in DOMAIN speakers' : s # Head(opus).speaker => speakers'[s] = speakers[s]
           /\ LET s == Head(opus).speaker IN
                /\ StateOf(s) \in State
                /\ speakers'[s] = [StateOf(s) EXCEPT !.packets = Queued(@, Head(opus)),
                                                     !.idle = 0]
<1> DEFINE p == Head(opus)
<1>1. opus # <<>> /\ opus' = Tail(opus) /\ UNCHANGED <<ring, heard, arrived>>
  BY DEF Receive
<1>2. p \in Packet
  BY <1>1, HeadTail DEF MixerTypes
<1>3. speakers' = [x \in DOMAIN speakers \cup {p.speaker} |->
                     IF x = p.speaker THEN [StateOf(p.speaker) EXCEPT !.packets = Queued(@, p),
                                                                      !.idle = 0]
                     ELSE speakers[x]]
  BY DEF Receive, StateOf
<1>4. NewSpeaker \in State
  <2>1. <<>> \in Seq(Packet) /\ <<>> \in Seq(Nat) /\ 0 \in Int
    BY SMT
  <2> QED  BY <2>1 DEF NewSpeaker, State
<1>5. StateOf(p.speaker) \in State
  BY <1>4 DEF MixerTypes, StateOf
<1> QED
  BY <1>1, <1>2, <1>3, <1>5

\* What a tick makes of a speaker's PCM, decoded as it is.
LEMMA Ticking ==
    ASSUME MixerTypes, NEW d \in {1, IdleTimeout + 1}, Tick(d)
    PROVE  /\ UNCHANGED <<opus, heard, arrived>>
           /\ DOMAIN speakers' \subseteq DOMAIN speakers
           /\ \A s \in DOMAIN speakers' : LET decoded == Decode(speakers[s]) IN
                /\ speakers'[s].packets = decoded.packets
                /\ speakers'[s].pcm = IF decoded.pcm # <<>> THEN Tail(decoded.pcm) ELSE <<>>
                /\ speakers'[s] = [packets |-> speakers'[s].packets,
                                   pcm |-> speakers'[s].pcm, idle |-> speakers'[s].idle]
                /\ speakers'[s].idle \in Int
                /\ speakers'[s].idle = Min({speakers[s].idle + d, IdleTimeout + 1})
           /\ \E mixed \in [Speakers -> Nat] :
                /\ ring' = ring \/ ring' = Append(ring, mixed)
                /\ \A s \in Speakers : mixed[s] # 0 =>
                     /\ s \in DOMAIN speakers /\ Decode(speakers[s]).pcm # <<>>
                     /\ mixed[s] = Head(Decode(speakers[s]).pcm)
<1> DEFINE decoded == [s \in DOMAIN speakers |-> Decode(speakers[s])]
           idle(s) == Min({speakers[s].idle + d, IdleTimeout + 1})
           stays   == {s \in DOMAIN speakers : ~Stale(decoded[s], idle(s))}
           voices  == {s \in stays : decoded[s].pcm # <<>>}
           mixed   == [s \in Speakers |-> IF s \in voices THEN Head(decoded[s].pcm) ELSE 0]
<1>1. /\ UNCHANGED <<opus, heard, arrived>>
      /\ speakers' = [s \in stays |->
                        [packets |-> decoded[s].packets,
                         pcm     |-> IF s \in voices THEN Tail(decoded[s].pcm) ELSE <<>>,
                         idle    |-> idle(s)]]
      /\ ring' = ring \/ ring' = Append(ring, mixed)
  BY DEF Tick
<1>2. IdleTimeout \in Nat
  BY MixerAssumption
<1>3. \A s \in DOMAIN speakers : idle(s) \in Int
  <2> SUFFICES ASSUME NEW s \in DOMAIN speakers PROVE idle(s) \in Int
    OBVIOUS
  <2>1. speakers[s].idle \in Int
    BY DEF MixerTypes, State
  <2>2. speakers[s].idle + d \in Int /\ IdleTimeout + 1 \in Int
    BY <1>2, <2>1, SMT
  <2> QED  BY <2>2, MinOfTwo
<1>4. \A s \in DOMAIN speakers : decoded[s].pcm \in Seq(Nat)
  BY Decoding DEF MixerTypes
<1>5. \A s \in voices : Head(decoded[s].pcm) \in Nat
  BY <1>4, HeadTail
<1>6. mixed \in [Speakers -> Nat]
  BY <1>5
<1>7. \A s \in Speakers : mixed[s] # 0 =>
        /\ s \in DOMAIN speakers /\ Decode(speakers[s]).pcm # <<>>
        /\ mixed[s] = Head(Decode(speakers[s]).pcm)
  OBVIOUS
<1>8. \A s \in DOMAIN speakers' :
        /\ s \in DOMAIN speakers
        /\ speakers'[s] = [packets |-> Decode(speakers[s]).packets,
                           pcm |-> IF Decode(speakers[s]).pcm # <<>>
                                   THEN Tail(Decode(speakers[s]).pcm) ELSE <<>>,
                           idle |-> idle(s)]
  BY <1>1
<1>9. \A s \in DOMAIN speakers' : speakers'[s].idle = idle(s)
  <2> HIDE DEF idle
  <2> QED  BY <1>8
<1>10. \A s \in DOMAIN speakers' :
         speakers'[s].idle = Min({speakers[s].idle + d, IdleTimeout + 1})
  BY <1>9
<1> HIDE DEF mixed, idle
<1> QED
  BY <1>1, <1>3, <1>6, <1>7, <1>8, <1>10

\* The types are kept.
LEMMA MixerTyped ==
    /\ Init => MixerTypes
    /\ MixerTypes /\ [Next]_vars => MixerTypes'
<1> USE MixerAssumption
<1>1. ASSUME Init PROVE MixerTypes
  <2>1. <<>> \in Seq(Packet) /\ <<>> \in Seq([Speakers -> Nat]) /\ DOMAIN <<>> = {}
    BY SMT
  <2>2. 0 \in 0..MaxArrivals
    BY SMT
  <2> QED  BY <1>1, <2>1, <2>2 DEF Init, MixerTypes, NoVoice
<1>2. ASSUME MixerTypes, [Next]_vars PROVE MixerTypes'
  <2>1. ASSUME NEW s \in Speakers, NEW n \in PacketFrames, Arrive(s, n) PROVE MixerTypes'
    <3> DEFINE p == [speaker |-> s, id |-> arrived', frames |-> n]
    <3>1. arrived \in 0..MaxArrivals /\ arrived < MaxArrivals /\ arrived' = arrived + 1
      BY <1>2, <2>1 DEF Arrive, MixerTypes
    <3>2. arrived' \in 1..MaxArrivals /\ arrived' \in 0..MaxArrivals
      BY <3>1, SMT
    <3>3. p \in Packet
      BY <3>2 DEF Packet
    <3>4. opus' = opus \/ opus' = Append(opus, p)
      BY <2>1 DEF Arrive
    <3> HIDE DEF p
    <3>5. opus' \in Seq(Packet)
      <4>1. opus \in Seq(Packet)
        BY <1>2 DEF MixerTypes
      <4>2. Append(opus, p) \in Seq(Packet)
        BY <3>3, <4>1, Appended
      <4> QED  BY <3>4, <4>1, <4>2
    <3> QED  BY <1>2, <2>1, <3>2, <3>5 DEF Arrive, MixerTypes
  <2>2. ASSUME NEW n, AskSound(n) PROVE MixerTypes'
    BY <1>2, <2>2 DEF AskSound, MixerTypes
  <2>3. CASE Stop
    <3>1. DOMAIN <<>> = {}
      BY SMT
    <3> QED  BY <1>2, <2>3, <3>1 DEF Stop, MixerTypes
  <2>4. CASE Receive
    <3>1. Head(opus).speaker \in Speakers
      BY <1>2, <2>4, Receiving, PacketType
    <3>2. opus' \in Seq(Packet)
      <4>1. opus \in Seq(Packet)
        BY <1>2 DEF MixerTypes
      <4>2. opus # <<>> /\ opus' = Tail(opus)
        BY <1>2, <2>4, Receiving
      <4> QED  BY <4>1, <4>2, HeadTail
    <3>3. speakers'[Head(opus).speaker] \in State
      <4> DEFINE st == StateOf(Head(opus).speaker)
      <4>1. st \in State /\ Head(opus) \in Packet
        BY <1>2, <2>4, Receiving
      <4>2. st.packets \in Seq(Packet)
        BY <4>1 DEF State
      <4>3. Queued(st.packets, Head(opus)) \in Seq(Packet)
        BY <4>1, <4>2, Queueing
      <4>4. speakers'[Head(opus).speaker]
              = [st EXCEPT !.packets = Queued(st.packets, Head(opus)), !.idle = 0]
        BY <1>2, <2>4, Receiving
      <4> HIDE DEF st
      <4>5. st = [packets |-> st.packets, pcm |-> st.pcm, idle |-> st.idle]
            /\ st.pcm \in Seq(Nat)
        BY <4>1 DEF State
      <4>6. speakers'[Head(opus).speaker]
              = [packets |-> Queued(st.packets, Head(opus)), pcm |-> st.pcm, idle |-> 0]
        BY <4>4, <4>5
      <4>7. 0 \in Int
        BY SMT
      <4> QED  BY <4>3, <4>5, <4>6, <4>7 DEF State
    <3>4. \A s \in DOMAIN speakers' : speakers'[s] \in State
      BY <1>2, <2>4, <3>3, Receiving DEF MixerTypes
    <3> QED  BY <1>2, <2>4, <3>1, <3>2, <3>4, Receiving DEF MixerTypes
  <2>5. ASSUME NEW d \in {1, IdleTimeout + 1}, Tick(d) PROVE MixerTypes'
    <3>1. ASSUME NEW s \in DOMAIN speakers' PROVE speakers'[s] \in State
      <4>1. speakers[s] \in State
        BY <1>2, <2>5, <3>1, Ticking DEF MixerTypes
      <4>2. Decode(speakers[s]).packets \in Seq(Packet) /\ Decode(speakers[s]).pcm \in Seq(Nat)
        BY <4>1, Decoding
      <4>3. <<>> \in Seq(Nat)
        BY SMT
      <4>4. speakers'[s].packets \in Seq(Packet) /\ speakers'[s].pcm \in Seq(Nat)
            /\ speakers'[s].idle \in Int
        <5> DEFINE pcm == Decode(speakers[s]).pcm
        <5>1. /\ speakers'[s].packets = Decode(speakers[s]).packets
              /\ speakers'[s].pcm = IF pcm # <<>> THEN Tail(pcm) ELSE <<>>
              /\ speakers'[s].idle \in Int
          BY <1>2, <2>5, <3>1, Ticking
        <5>2. pcm # <<>> => Tail(pcm) \in Seq(Nat)
          BY <4>2, HeadTail
        <5> QED  BY <4>2, <4>3, <5>1, <5>2
      <4>5. speakers'[s] = [packets |-> speakers'[s].packets,
                            pcm |-> speakers'[s].pcm, idle |-> speakers'[s].idle]
        BY <1>2, <2>5, <3>1, Ticking
      <4> QED  BY <4>4, <4>5 DEF State
    <3>2. ring' \in Seq([Speakers -> Nat])
      <4>1. PICK mixed \in [Speakers -> Nat] : ring' = ring \/ ring' = Append(ring, mixed)
        BY <1>2, <2>5, Ticking
      <4>2. ring \in Seq([Speakers -> Nat])
        BY <1>2 DEF MixerTypes
      <4>3. Append(ring, mixed) \in Seq([Speakers -> Nat])
        BY <4>2, Appended
      <4> QED  BY <4>1, <4>2, <4>3
    <3> QED  BY <1>2, <2>5, <3>1, <3>2, Ticking DEF MixerTypes
  <2>6. CASE GetFrame
    <3>1. ring # <<>> /\ ring' = Tail(ring) /\ UNCHANGED <<opus, speakers, arrived>>
          /\ heard' = [s \in Speakers |-> IF Head(ring)[s] = 0 THEN heard[s] ELSE Head(ring)[s]]
      BY <2>6 DEF GetFrame
    <3>2. Head(ring) \in [Speakers -> Nat] /\ ring' \in Seq([Speakers -> Nat])
      BY <1>2, <3>1, HeadTail DEF MixerTypes
    <3>3. heard' \in [Speakers -> Nat]
      BY <1>2, <3>1, <3>2 DEF MixerTypes
    <3> QED  BY <1>2, <3>1, <3>2, <3>3 DEF MixerTypes
  <2>7. CASE UNCHANGED vars
    BY <1>2, <2>7 DEF vars, MixerTypes
  <2> QED  BY <1>2, <2>1, <2>2, <2>3, <2>4, <2>5, <2>6, <2>7 DEF Next
<1> QED  BY <1>1, <1>2

\* A packet at a place that is not later is not later.
LEMMA Compare ==
    ASSUME InOrder, NEW s \in Speakers, NEW k \in Nat, NEW l \in Nat, NEW i \in Nat, NEW j \in Nat,
           NEW x \in Nat, NEW y \in Nat, Has(s, k, i, x), Has(s, l, j, y),
           k < l \/ (k = l /\ i <= j)
    PROVE  x <= y
<1>1. CASE k = l /\ i = j
  <2>1. x = y
    <3>1. k = 0 \/ k = 1 \/ k = 2 \/ k = 3 \/ k = 4
      BY DEF Has
    <3>2. 0 # 1 /\ 0 # 2 /\ 0 # 3 /\ 0 # 4 /\ 1 # 2 /\ 1 # 3 /\ 1 # 4 /\ 2 # 3 /\ 2 # 4 /\ 3 # 4
      BY SMT
    <3> QED  BY <1>1, <3>1, <3>2 DEF Has
  <2> QED  BY <2>1, SMT
<1>2. CASE ~(k = l /\ i = j)
  <2>1. k < l \/ (k = l /\ i < j)
    BY <1>2, SMT
  <2> QED  BY <2>1 DEF InOrder
<1> QED  BY <1>1, <1>2

\* Packets that stay where they are, or are dropped, stay in order.
LEMMA StayInOrder ==
    ASSUME InOrder, Known, arrived' = arrived,
           \A s \in Speakers : \A k, i, x \in Nat : Has(s, k, i, x)' => Has(s, k, i, x)
    PROVE  InOrder' /\ Known'
<1>1. Known'
  BY DEF Known
<1>2. ASSUME NEW s \in Speakers,
             NEW k \in Nat, NEW l \in Nat, NEW i \in Nat, NEW j \in Nat,
             NEW x \in Nat, NEW y \in Nat, Has(s, k, i, x)', Has(s, l, j, y)',
             k < l \/ (k = l /\ i < j)
      PROVE  x <= y
  <2>1. Has(s, k, i, x) /\ Has(s, l, j, y)
    BY <1>2
  <2> QED  BY <1>2, <2>1 DEF InOrder
<1> QED  BY <1>1, <1>2 DEF InOrder

\* A packet that arrives is the last of all.
LEMMA ArrivesInOrder ==
    ASSUME MixerTypes, InOrder, Known, NEW s0 \in Speakers, NEW n \in PacketFrames,
           Arrive(s0, n)
    PROVE  InOrder' /\ Known'
<1> USE MixerAssumption
<1>1. /\ arrived \in Nat /\ arrived' = arrived + 1 /\ Len(opus) \in Nat
      /\ UNCHANGED <<speakers, ring, heard>>
  BY SMT DEF Arrive, MixerTypes
<1>2. ASSUME NEW s \in Speakers, NEW k \in Nat, NEW i \in Nat, NEW x \in Nat, Has(s, k, i, x)'
      PROVE  Has(s, k, i, x) \/ (k = 4 /\ i = Len(opus) + 1 /\ x = arrived + 1)
  <2>1. CASE k = 4
    <3> DEFINE p == [speaker |-> s0, id |-> arrived', frames |-> n]
    <3>1. opus' = opus \/ opus' = Append(opus, p)
      BY DEF Arrive
    <3>2. CASE opus' = opus
      BY <1>1, <1>2, <3>2 DEF Has
    <3>3. CASE opus' = Append(opus, p)
      <4>1. p \in [speaker : Speakers, id : Nat, frames : PacketFrames]
            /\ opus \in Seq(Packet)
        <5>1. arrived' \in Nat
          BY <1>1, SMT
        <5> QED  BY <5>1 DEF MixerTypes
      <4>2. Packet \subseteq Packet \cup {p} /\ p \in Packet \cup {p} /\ p.id = arrived'
        OBVIOUS
      <4> HIDE DEF p
      <4>3. opus \in Seq(Packet \cup {p})
        BY <4>1, <4>2, SMT
      <4>4. \A m \in 1..Len(opus) + 1 :
              \/ m \in 1..Len(opus) /\ Append(opus, p)[m] = opus[m]
              \/ m = Len(opus) + 1 /\ Append(opus, p)[m] = p
        BY <4>2, <4>3, Appended
      <4>5. Len(Append(opus, p)) = Len(opus) + 1
        BY <4>2, <4>3, Appended
      <4>6. i \in 1..Len(opus) + 1 /\ opus'[i].speaker = s /\ x = opus'[i].id
        BY <1>2, <2>1, <3>3, <4>5, SMT DEF Has
      <4> QED  BY <1>1, <2>1, <3>3, <4>2, <4>4, <4>6 DEF Has
    <3> QED  BY <3>1, <3>2, <3>3
  <2>2. CASE k # 4
    BY <1>1, <1>2, <2>2 DEF Has
  <2> QED  BY <2>1, <2>2
<1>3. Known'
  <2> SUFFICES ASSUME NEW s \in Speakers, NEW k \in Nat, NEW i \in Nat, NEW x \in Nat,
                      Has(s, k, i, x)'
               PROVE  x <= arrived'
    BY DEF Known
  <2>1. x <= arrived \/ x = arrived + 1
    BY <1>2 DEF Known
  <2> QED  BY <1>1, <2>1, SMT
<1>4. InOrder'
  <2> SUFFICES ASSUME NEW s \in Speakers,
                      NEW k \in Nat, NEW l \in Nat, NEW i \in Nat, NEW j \in Nat,
                      NEW x \in Nat, NEW y \in Nat, Has(s, k, i, x)', Has(s, l, j, y)',
                      k < l \/ (k = l /\ i < j)
               PROVE  x <= y
    BY DEF InOrder
  <2>1. Has(s, k, i, x) \/ (k = 4 /\ i = Len(opus) + 1 /\ x = arrived + 1)
    BY <1>2
  <2>2. Has(s, l, j, y) \/ (l = 4 /\ j = Len(opus) + 1 /\ y = arrived + 1)
    BY <1>2
  <2>3. CASE Has(s, k, i, x) /\ Has(s, l, j, y)
    BY <2>3 DEF InOrder
  <2>4. CASE Has(s, k, i, x) /\ y = arrived + 1
    <3>1. x <= arrived
      BY <2>4 DEF Known
    <3> QED  BY <1>1, <2>4, <3>1, SMT
  <2>5. CASE k = 4 /\ i = Len(opus) + 1 /\ x = arrived + 1
    <3>1. l = 4 \/ l < 4
      <4>1. l = 0 \/ l = 1 \/ l = 2 \/ l = 3 \/ l = 4
        BY <2>2 DEF Has
      <4> QED  BY <4>1, SMT
    <3>2. l = 4 /\ j > Len(opus) + 1
      BY <1>1, <2>5, <3>1, SMT
    <3>3. Has(s, l, j, y) => j <= Len(opus)
      <4> SUFFICES ASSUME Has(s, l, j, y) PROVE j <= Len(opus)
        OBVIOUS
      <4>1. j \in 1..Len(opus)
        BY <3>2, SMT DEF Has
      <4> QED  BY <1>1, <4>1, SMT
    <3> QED  BY <1>1, <2>2, <3>2, <3>3, SMT
  <2> QED  BY <2>1, <2>2, <2>3, <2>4, <2>5
<1> QED  BY <1>3, <1>4

\* pjsip takes the head of the ring.
LEMMA HeardInTurn ==
    ASSUME MixerTypes, InOrder, Known, GetFrame
    PROVE  InOrder' /\ Known'
<1>1. /\ ring # <<>> /\ ring' = Tail(ring) /\ UNCHANGED <<opus, speakers, arrived>>
      /\ heard' = [s \in Speakers |-> IF Head(ring)[s] = 0 THEN heard[s] ELSE Head(ring)[s]]
  BY DEF GetFrame
<1>2. /\ Len(ring) \in Nat \ {0} /\ Head(ring) = ring[1]
      /\ \A i \in 1..Len(Tail(ring)) : i + 1 \in 1..Len(ring) /\ Tail(ring)[i] = ring[i + 1]
  BY <1>1, HeadTail DEF MixerTypes
<1>3. 1 \in 1..Len(ring)
  BY <1>2, SMT
<1>4. ASSUME NEW s \in Speakers, NEW k \in Nat, NEW i \in Nat, NEW x \in Nat, Has(s, k, i, x)'
      PROVE  \E k0, i0 \in Nat :
               /\ Has(s, k0, i0, x)
               /\ \/ k = 0 /\ i = 0 /\ k0 = 0 /\ i0 = 0
                  \/ k = 0 /\ i = 0 /\ k0 = 1 /\ i0 = 1
                  \/ k = 1 /\ i >= 1 /\ k0 = 1 /\ i0 = i + 1
                  \/ k > 1 /\ k0 = k /\ i0 = i
  <2>1. CASE k = 0
    <3>1. k = 0 /\ i = 0 /\ x = heard'[s]
      <4>1. 0 # 1 /\ 0 # 2 /\ 0 # 3 /\ 0 # 4
        BY SMT
      <4> QED  BY <1>4, <2>1, <4>1 DEF Has
    <3>2. x = (IF ring[1][s] = 0 THEN heard[s] ELSE ring[1][s])
      BY <1>1, <1>2, <3>1
    <3>3. 0 \in Nat /\ 1 \in Nat
      OBVIOUS
    <3>4. Has(s, 0, 0, x) \/ Has(s, 1, 1, x)
      BY <1>3, <3>2 DEF Has
    <3> QED  BY <3>1, <3>3, <3>4
  <2>2. CASE k = 1
    <3>1. i \in 1..Len(ring') /\ ring'[i][s] # 0 /\ x = ring'[i][s]
      <4>1. 1 # 0 /\ 1 # 2 /\ 1 # 3 /\ 1 # 4
        BY SMT
      <4> QED  BY <1>4, <2>2, <4>1 DEF Has
    <3>2. i + 1 \in 1..Len(ring) /\ ring'[i] = ring[i + 1]
      BY <1>1, <1>2, <3>1
    <3>3. Has(s, 1, i + 1, x)
      BY <3>1, <3>2 DEF Has
    <3>4. i + 1 \in Nat /\ 1 \in Nat /\ i >= 1
      BY <3>1, SMT
    <3> QED  BY <2>2, <3>3, <3>4
  <2>3. CASE k # 0 /\ k # 1
    <3>1. Has(s, k, i, x)
      BY <1>1, <1>4, <2>3 DEF Has
    <3>2. k > 1
      BY <2>3, SMT
    <3> QED  BY <3>1, <3>2
  <2> QED  BY <2>1, <2>2, <2>3
<1>5. Known'
  BY <1>1, <1>4 DEF Known
<1>6. InOrder'
  <2> SUFFICES ASSUME NEW s \in Speakers,
                      NEW k \in Nat, NEW l \in Nat, NEW i \in Nat, NEW j \in Nat,
                      NEW x \in Nat, NEW y \in Nat, Has(s, k, i, x)', Has(s, l, j, y)',
                      k < l \/ (k = l /\ i < j)
               PROVE  x <= y
    BY DEF InOrder
  <2>1. PICK k0 \in Nat, i0 \in Nat :
               /\ Has(s, k0, i0, x)
               /\ \/ k = 0 /\ i = 0 /\ k0 = 0 /\ i0 = 0
                  \/ k = 0 /\ i = 0 /\ k0 = 1 /\ i0 = 1
                  \/ k = 1 /\ i >= 1 /\ k0 = 1 /\ i0 = i + 1
                  \/ k > 1 /\ k0 = k /\ i0 = i
    BY <1>4
  <2>2. PICK l0 \in Nat, j0 \in Nat :
               /\ Has(s, l0, j0, y)
               /\ \/ l = 0 /\ j = 0 /\ l0 = 0 /\ j0 = 0
                  \/ l = 0 /\ j = 0 /\ l0 = 1 /\ j0 = 1
                  \/ l = 1 /\ j >= 1 /\ l0 = 1 /\ j0 = j + 1
                  \/ l > 1 /\ l0 = l /\ j0 = j
    BY <1>4
  <2>3. k0 < l0 \/ (k0 = l0 /\ i0 <= j0)
    BY <2>1, <2>2, SMT
  <2> QED  BY <2>1, <2>2, <2>3, Compare
<1> QED  BY <1>5, <1>6

\* Where a packet at position i of stage k was before the decoder received the head of
\* the channel, when its speaker's queue then has m packets, and c were dropped.
Received(k, i, k0, i0, m, c) ==
    \/ k < 3 /\ k0 = k /\ i0 = i
    \/ k = 3 /\ i < m /\ k0 = 3 /\ i0 = i + c
    \/ k = 3 /\ i = m /\ k0 = 4 /\ i0 = 1
    \/ k = 4 /\ i >= 1 /\ k0 = 4 /\ i0 = i + 1

\* The decoder receives the head of the channel.
LEMMA ReceivedInTurn ==
    ASSUME MixerTypes, InOrder, Known, Receive
    PROVE  InOrder' /\ Known'
<1> DEFINE p  == Head(opus)
           st == StateOf(p.speaker)
<1>1. opus # <<>> /\ opus' = Tail(opus) /\ UNCHANGED <<ring, heard, arrived>>
  BY Receiving
<1>2. /\ Len(opus) \in Nat \ {0} /\ p = opus[1] /\ p \in Packet
      /\ \A i \in 1..Len(Tail(opus)) : i + 1 \in 1..Len(opus) /\ Tail(opus)[i] = opus[i + 1]
  BY <1>1, HeadTail DEF MixerTypes
<1>3. 1 \in 1..Len(opus)
  BY <1>2, SMT
<1>4. ASSUME NEW s \in Speakers
      PROVE  \E m, c \in Nat : \A k, i, x \in Nat : Has(s, k, i, x)' =>
               \E k0, i0 \in Nat : Has(s, k0, i0, x) /\ Received(k, i, k0, i0, m, c)
  <2>1. ASSUME NEW i \in Nat, NEW x \in Nat, NEW k \in Nat, k = 4, Has(s, 4, i, x)',
               NEW m \in Nat, NEW c \in Nat
        PROVE  \E k0, i0 \in Nat : Has(s, k0, i0, x) /\ Received(k, i, k0, i0, m, c)
    <3>1. i \in 1..Len(opus') /\ opus'[i].speaker = s /\ x = opus'[i].id
      <4>1. 4 # 0 /\ 4 # 1 /\ 4 # 2 /\ 4 # 3
        BY SMT
      <4> QED  BY <2>1, <4>1 DEF Has
    <3>2. Has(s, 4, i + 1, x)
      BY <1>1, <1>2, <3>1 DEF Has
    <3>3. i + 1 \in Nat /\ 4 \in Nat /\ i >= 1
      BY <3>1, SMT
    <3>4. Received(4, i, 4, i + 1, m, c)
      BY <3>3 DEF Received
    <3> QED  BY <2>1, <3>2, <3>3, <3>4
  <2>2. CASE s # p.speaker
    <3>1. s \in DOMAIN speakers' <=> s \in DOMAIN speakers
      BY <2>2, Receiving
    <3>2. s \in DOMAIN speakers => speakers'[s] = speakers[s]
      BY <2>2, <3>1, Receiving
    <3> DEFINE m == IF s \in DOMAIN speakers THEN Len(speakers[s].packets) + 1 ELSE 0
    <3>3. m \in Nat /\ (s \in DOMAIN speakers => m = Len(speakers[s].packets) + 1
                          /\ Len(speakers[s].packets) \in Nat)
      <4>1. s \in DOMAIN speakers => Len(speakers[s].packets) \in Nat
        BY SMT DEF MixerTypes, State
      <4> QED  BY <4>1
    <3> HIDE DEF m
    <3>4. ASSUME NEW k \in Nat, NEW i \in Nat, NEW x \in Nat, Has(s, k, i, x)'
          PROVE  \E k0, i0 \in Nat : Has(s, k0, i0, x) /\ Received(k, i, k0, i0, m, 0)
      <4>1. CASE k = 4
        BY <2>1, <3>3, <3>4, <4>1
      <4>2. CASE k # 4
        <5>1. Has(s, k, i, x)
          BY <1>1, <3>1, <3>2, <3>4, <4>2 DEF Has
        <5>2. k < 3 \/ (k = 3 /\ s \in DOMAIN speakers /\ i \in 1..Len(speakers[s].packets))
          <6>1. 0 < 3 /\ 1 < 3 /\ 2 < 3
            BY SMT
          <6> QED  BY <4>2, <5>1, <6>1 DEF Has
        <5>3. k < 3 \/ (k = 3 /\ i < m)
          BY <3>3, <5>2, SMT
        <5>4. Received(k, i, k, i, m, 0)
          BY <5>3, SMT DEF Received
        <5> QED  BY <5>1, <5>4
      <4> QED  BY <4>1, <4>2
    <3>5. 0 \in Nat
      BY SMT
    <3> QED  BY <3>3, <3>4, <3>5
  <2>3. CASE s = p.speaker
    <3>1. /\ st \in State /\ s \in DOMAIN speakers'
          /\ speakers'[s] = [st EXCEPT !.packets = Queued(st.packets, p), !.idle = 0]
      BY <2>3, Receiving
    <3>2. st.packets \in Seq(Packet)
      BY <3>1 DEF State
    <3>3. speakers'[s].packets = Queued(st.packets, p) /\ speakers'[s].pcm = st.pcm
      <4> HIDE DEF st
      <4> QED  BY <3>1 DEF State
    <3> DEFINE q == Queued(st.packets, p)
               m == Len(q)
    <3>4. PICK c \in {0, 1} : \A i \in 1..Len(q) :
                \/ i < Len(q) /\ i + c \in 1..Len(st.packets) /\ q[i] = st.packets[i + c]
                \/ i = Len(q) /\ q[i] = p
      BY <1>2, <3>2, Queueing
    <3>5. m \in Nat /\ c \in Nat
      <4>1. q \in Seq(Packet)
        BY <1>2, <3>2, Queueing
      <4> HIDE DEF q
      <4> QED  BY <4>1, SMT
    <3>6. \A i \in 1..Len(st.packets) : s \in DOMAIN speakers /\ st = speakers[s]
      <4>1. CASE s \in DOMAIN speakers
        BY <2>3, <4>1 DEF StateOf
      <4>2. CASE s \notin DOMAIN speakers
        <5>1. st.packets = <<>>
          BY <2>3, <4>2 DEF StateOf, NewSpeaker
        <5> HIDE DEF st
        <5>2. \A i \in 1..Len(st.packets) : FALSE
          BY <5>1, SMT
        <5> QED  BY <5>2
      <4> QED  BY <4>1, <4>2
    <3>7. \A i \in 1..Len(st.pcm) : s \in DOMAIN speakers /\ st = speakers[s]
      <4>1. CASE s \in DOMAIN speakers
        BY <2>3, <4>1 DEF StateOf
      <4>2. CASE s \notin DOMAIN speakers
        <5>1. st.pcm = <<>>
          BY <2>3, <4>2 DEF StateOf, NewSpeaker
        <5> HIDE DEF st
        <5>2. \A i \in 1..Len(st.pcm) : FALSE
          BY <5>1, SMT
        <5> QED  BY <5>2
      <4> QED  BY <4>1, <4>2
    <3> HIDE DEF st, p, q, m
    <3>8. ASSUME NEW k \in Nat, NEW i \in Nat, NEW x \in Nat, Has(s, k, i, x)'
          PROVE  \E k0, i0 \in Nat : Has(s, k0, i0, x) /\ Received(k, i, k0, i0, m, c)
      <4>1. CASE k = 4
        BY <2>1, <3>5, <3>8, <4>1
      <4>2. CASE k = 0 \/ k = 1 \/ k = 2
        <5>1. Has(s, k, i, x)
          <6>1. CASE k = 2
            <7>1. i \in 1..Len(st.pcm) /\ x = st.pcm[i]
              <8>1. 2 # 0 /\ 2 # 1 /\ 2 # 3 /\ 2 # 4
                BY SMT
              <8> QED  BY <3>3, <3>8, <6>1, <8>1 DEF Has
            <7> QED  BY <3>7, <6>1, <7>1 DEF Has
          <6>2. CASE k # 2
            <7>1. k # 3 /\ k # 4
              BY <4>2, SMT
            <7> QED  BY <1>1, <3>8, <6>2, <7>1 DEF Has
          <6> QED  BY <6>1, <6>2
        <5>2. Received(k, i, k, i, m, c)
          BY <4>2, SMT DEF Received
        <5> QED  BY <5>1, <5>2
      <4>3. CASE k = 3
        <5>1. i \in 1..Len(q) /\ x = q[i].id
          <6>1. 3 # 0 /\ 3 # 1 /\ 3 # 2 /\ 3 # 4
            BY SMT
          <6> QED  BY <3>3, <3>8, <4>3, <6>1 DEF Has, q
        <5>2. CASE i < Len(q) /\ i + c \in 1..Len(st.packets) /\ q[i] = st.packets[i + c]
          <6>1. Has(s, 3, i + c, x)
            BY <3>6, <5>1, <5>2 DEF Has
          <6>2. Received(k, i, 3, i + c, m, c)
            BY <4>3, <5>2 DEF Received, m
          <6>3. i + c \in Nat /\ 3 \in Nat
            BY <3>5, SMT
          <6> QED  BY <6>1, <6>2, <6>3
        <5>3. CASE i = Len(q) /\ q[i] = p
          <6>1. Has(s, 4, 1, x)
            BY <1>2, <1>3, <2>3, <5>1, <5>3 DEF Has
          <6>2. Received(k, i, 4, 1, m, c)
            BY <4>3, <5>3 DEF Received, m
          <6>3. 1 \in Nat /\ 4 \in Nat
            OBVIOUS
          <6> QED  BY <6>1, <6>2, <6>3
        <5> QED  BY <3>4, <5>1, <5>2, <5>3
      <4>4. k = 0 \/ k = 1 \/ k = 2 \/ k = 3 \/ k = 4
        BY <3>8 DEF Has
      <4> QED  BY <4>1, <4>2, <4>3, <4>4
    <3> QED  BY <3>5, <3>8
  <2> QED  BY <2>2, <2>3
<1>5. Known'
  BY <1>1, <1>4 DEF Known
<1>6. InOrder'
  <2> SUFFICES ASSUME NEW s \in Speakers,
                      NEW k \in Nat, NEW l \in Nat, NEW i \in Nat, NEW j \in Nat,
                      NEW x \in Nat, NEW y \in Nat, Has(s, k, i, x)', Has(s, l, j, y)',
                      k < l \/ (k = l /\ i < j)
               PROVE  x <= y
    BY DEF InOrder
  <2>1. PICK m \in Nat, c \in Nat : \A kk, ii, xx \in Nat : Has(s, kk, ii, xx)' =>
               \E k0, i0 \in Nat : Has(s, k0, i0, xx) /\ Received(kk, ii, k0, i0, m, c)
    BY <1>4
  <2>2. PICK k0 \in Nat, i0 \in Nat : Has(s, k0, i0, x) /\ Received(k, i, k0, i0, m, c)
    BY <2>1
  <2>3. PICK l0 \in Nat, j0 \in Nat : Has(s, l0, j0, y) /\ Received(l, j, l0, j0, m, c)
    BY <2>1
  <2>4. k0 < l0 \/ (k0 = l0 /\ i0 <= j0)
    BY <2>2, <2>3, SMT DEF Received
  <2> QED  BY <2>2, <2>3, <2>4, Compare
<1> QED  BY <1>5, <1>6

\* Where a packet was before a tick: n frames are in the ring, d packets were decoded,
\* and the PCM was empty or is still what it was.
Ticked(k, i, k0, i0, n, d, empty) ==
    \/ k = 0 /\ i = 0 /\ k0 = 0 /\ i0 = 0
    \/ k = 1 /\ i <= n /\ k0 = 1 /\ i0 = i
    \/ k = 1 /\ i = n + 1 /\ ~empty /\ k0 = 2 /\ i0 = 1
    \/ k = 1 /\ i = n + 1 /\ empty /\ k0 = 3 /\ i0 = d
    \/ k = 2 /\ i >= 1 /\ ~empty /\ k0 = 2 /\ i0 = i + 1
    \/ k = 2 /\ i >= 1 /\ empty /\ k0 = 3 /\ i0 = d
    \/ k = 3 /\ i >= 1 /\ k0 = 3 /\ i0 = i + d
    \/ k = 4 /\ k0 = 4 /\ i0 = i

\* A tick decodes, mixes the head of the PCM and forgets who is idle.
LEMMA TickedInTurn ==
    ASSUME MixerTypes, InOrder, Known, NEW t \in {1, IdleTimeout + 1}, Tick(t)
    PROVE  InOrder' /\ Known'
<1>1. UNCHANGED <<opus, heard, arrived>> /\ DOMAIN speakers' \subseteq DOMAIN speakers
  BY Ticking
<1>2. PICK mixed \in [Speakers -> Nat] :
                /\ ring' = ring \/ ring' = Append(ring, mixed)
                /\ \A s \in Speakers : mixed[s] # 0 =>
                     /\ s \in DOMAIN speakers /\ Decode(speakers[s]).pcm # <<>>
                     /\ mixed[s] = Head(Decode(speakers[s]).pcm)
  BY Ticking
<1>3. /\ Len(ring) \in Nat
      /\ \A i \in 1..Len(ring') :
           \/ i \in 1..Len(ring) /\ ring'[i] = ring[i]
           \/ i = Len(ring) + 1 /\ ring'[i] = mixed
  <2>1. ring \in Seq([Speakers -> Nat])
    BY DEF MixerTypes
  <2>2. /\ Len(Append(ring, mixed)) = Len(ring) + 1 /\ Len(ring) \in Nat
        /\ \A i \in 1..Len(ring) + 1 :
             \/ i \in 1..Len(ring) /\ Append(ring, mixed)[i] = ring[i]
             \/ i = Len(ring) + 1 /\ Append(ring, mixed)[i] = mixed
    BY <2>1, Appended
  <2>3. CASE ring' = ring
    BY <2>2, <2>3
  <2>4. CASE ring' = Append(ring, mixed)
    BY <2>2, <2>4
  <2> QED  BY <1>2, <2>3, <2>4
<1>4. ASSUME NEW s \in DOMAIN speakers
      PROVE  \E d \in Nat :
               /\ \A i \in 1..Len(Decode(speakers[s]).packets) :
                    /\ i + d \in 1..Len(speakers[s].packets)
                    /\ Decode(speakers[s]).packets[i] = speakers[s].packets[i + d]
               /\ \A i \in 1..Len(Decode(speakers[s]).pcm) :
                    \/ /\ speakers[s].pcm # <<>> /\ i \in 1..Len(speakers[s].pcm)
                       /\ Decode(speakers[s]).pcm[i] = speakers[s].pcm[i]
                    \/ /\ speakers[s].pcm = <<>> /\ d \in 1..Len(speakers[s].packets)
                       /\ Decode(speakers[s]).pcm[i] = speakers[s].packets[d].id
  <2>1. speakers[s] \in State
    BY DEF MixerTypes
  <2>2. PICK d \in Nat :
                /\ \A i \in 1..Len(Decode(speakers[s]).packets) :
                     /\ i + d \in 1..Len(speakers[s].packets)
                     /\ Decode(speakers[s]).packets[i] = speakers[s].packets[i + d]
                /\ speakers[s].pcm # <<>> => d = 0 /\ Decode(speakers[s]).pcm = speakers[s].pcm
                /\ speakers[s].pcm = <<>> => \A i \in 1..Len(Decode(speakers[s]).pcm) :
                     d \in 1..Len(speakers[s].packets)
                       /\ Decode(speakers[s]).pcm[i] = speakers[s].packets[d].id
    BY <2>1, Decoding
  <2>3. \A i \in 1..Len(Decode(speakers[s]).pcm) :
                    \/ /\ speakers[s].pcm # <<>> /\ i \in 1..Len(speakers[s].pcm)
                       /\ Decode(speakers[s]).pcm[i] = speakers[s].pcm[i]
                    \/ /\ speakers[s].pcm = <<>> /\ d \in 1..Len(speakers[s].packets)
                       /\ Decode(speakers[s]).pcm[i] = speakers[s].packets[d].id
    BY <2>2
  <2> QED  BY <2>2, <2>3
<1>5. ASSUME NEW s \in Speakers, s \notin DOMAIN speakers,
             NEW k \in Nat, NEW i \in Nat, NEW x \in Nat, Has(s, k, i, x)'
      PROVE  Has(s, k, i, x)
  <2>1. s \notin DOMAIN speakers' /\ mixed[s] = 0
    BY <1>1, <1>2, <1>5
  <2>2. CASE k = 1
    <3>1. i \in 1..Len(ring') /\ ring'[i][s] # 0 /\ x = ring'[i][s]
      <4>1. 1 # 0 /\ 1 # 2 /\ 1 # 3 /\ 1 # 4
        BY SMT
      <4> QED  BY <1>5, <2>2, <4>1 DEF Has
    <3> QED  BY <1>3, <2>1, <2>2, <3>1 DEF Has
  <2>3. CASE k # 1
    BY <1>1, <1>5, <2>1, <2>3 DEF Has
  <2> QED  BY <2>2, <2>3
<1>6. ASSUME NEW s \in DOMAIN speakers
      PROVE  \E n, d \in Nat, empty \in BOOLEAN :
               \A k, i, x \in Nat : Has(s, k, i, x)' =>
                 \E k0, i0 \in Nat : Has(s, k0, i0, x) /\ Ticked(k, i, k0, i0, n, d, empty)
  <2> DEFINE n   == Len(ring)
             pcm == Decode(speakers[s]).pcm
  <2>1. PICK d \in Nat :
               /\ \A i \in 1..Len(Decode(speakers[s]).packets) :
                    /\ i + d \in 1..Len(speakers[s].packets)
                    /\ Decode(speakers[s]).packets[i] = speakers[s].packets[i + d]
               /\ \A i \in 1..Len(pcm) :
                    \/ /\ speakers[s].pcm # <<>> /\ i \in 1..Len(speakers[s].pcm)
                       /\ pcm[i] = speakers[s].pcm[i]
                    \/ /\ speakers[s].pcm = <<>> /\ d \in 1..Len(speakers[s].packets)
                       /\ pcm[i] = speakers[s].packets[d].id
    BY <1>4
  <2> DEFINE empty == speakers[s].pcm = <<>>
  <2>2. s \in Speakers /\ n \in Nat /\ empty \in BOOLEAN
    BY <1>3 DEF MixerTypes
  <2>3. pcm \in Seq(Nat)
    BY Decoding DEF MixerTypes
  <2>4. s \in DOMAIN speakers' =>
          /\ speakers'[s].packets = Decode(speakers[s]).packets
          /\ speakers'[s].pcm = IF pcm # <<>> THEN Tail(pcm) ELSE <<>>
    BY Ticking
  <2> HIDE DEF n, pcm, empty
  \* The packet a frame of the PCM is of, before the tick
  <2>5. ASSUME NEW j \in 1..Len(pcm), NEW x \in Nat, x = pcm[j]
        PROVE  \/ ~empty /\ Has(s, 2, j, x)
               \/ empty /\ Has(s, 3, d, x)
    BY <2>1, <2>5 DEF Has, empty
  <2>6. ASSUME NEW k \in Nat, NEW i \in Nat, NEW x \in Nat, Has(s, k, i, x)'
        PROVE  \E k0, i0 \in Nat : Has(s, k0, i0, x) /\ Ticked(k, i, k0, i0, n, d, empty)
    <3>0. {0, 1, 2, 3, 4} \subseteq Nat
      BY SMT
    <3>1. CASE k = 0
      <4>1. i = 0 /\ x = heard'[s]
        <5>1. 0 # 1 /\ 0 # 2 /\ 0 # 3 /\ 0 # 4
          BY SMT
        <5> QED  BY <2>6, <3>1, <5>1 DEF Has
      <4>2. Has(s, 0, 0, x) /\ Ticked(k, i, 0, 0, n, d, empty)
        BY <1>1, <3>1, <4>1 DEF Has, Ticked
      <4> QED  BY <3>0, <4>2
    <3>2. CASE k = 1
      <4>1. i \in 1..Len(ring') /\ ring'[i][s] # 0 /\ x = ring'[i][s]
        <5>1. 1 # 0 /\ 1 # 2 /\ 1 # 3 /\ 1 # 4
          BY SMT
        <5> QED  BY <2>6, <3>2, <5>1 DEF Has
      <4>2. CASE i \in 1..Len(ring) /\ ring'[i] = ring[i]
        <5>1. Has(s, 1, i, x)
          BY <4>1, <4>2 DEF Has
        <5>2. i <= n
          BY <1>3, <4>2, SMT DEF n
        <5>3. Ticked(k, i, 1, i, n, d, empty)
          BY <3>2, <5>2 DEF Ticked
        <5> QED  BY <3>0, <5>1, <5>3
      <4>3. CASE i = Len(ring) + 1 /\ ring'[i] = mixed
        <5>1. pcm # <<>> /\ x = Head(pcm)
          BY <1>2, <2>2, <4>1, <4>3 DEF pcm
        <5>2. Len(pcm) \in Nat \ {0} /\ x = pcm[1]
          BY <2>3, <5>1, HeadTail
        <5>3. 1 \in 1..Len(pcm)
          BY <5>2, SMT
        <5>4. (~empty /\ Has(s, 2, 1, x)) \/ (empty /\ Has(s, 3, d, x))
          BY <2>5, <5>2, <5>3
        <5>5. (~empty => Ticked(k, i, 2, 1, n, d, empty))
              /\ (empty => Ticked(k, i, 3, d, n, d, empty))
          BY <3>2, <4>3 DEF Ticked, n
        <5> QED  BY <3>0, <5>4, <5>5
      <4> QED  BY <1>3, <4>1, <4>2, <4>3
    <3>3. CASE k = 2
      <4>1. s \in DOMAIN speakers' /\ i \in 1..Len(speakers'[s].pcm) /\ x = speakers'[s].pcm[i]
        <5>1. 2 # 0 /\ 2 # 1 /\ 2 # 3 /\ 2 # 4
          BY SMT
        <5> QED  BY <2>6, <3>3, <5>1 DEF Has
      <4>2. \A j \in 1..Len(<<>>) : FALSE
        BY SMT
      <4>3. pcm # <<>> /\ speakers'[s].pcm = Tail(pcm)
        BY <2>4, <4>1, <4>2
      <4>4. i + 1 \in 1..Len(pcm) /\ x = pcm[i + 1]
        BY <2>3, <4>1, <4>3, HeadTail
      <4>5. (~empty /\ Has(s, 2, i + 1, x)) \/ (empty /\ Has(s, 3, d, x))
        BY <2>5, <4>4
      <4>6. i >= 1 /\ i + 1 \in Nat
        BY <4>1, SMT
      <4>7. (~empty => Ticked(k, i, 2, i + 1, n, d, empty))
            /\ (empty => Ticked(k, i, 3, d, n, d, empty))
        BY <3>3, <4>6 DEF Ticked
      <4> QED  BY <3>0, <4>5, <4>6, <4>7
    <3>4. CASE k = 3
      <4>1. /\ s \in DOMAIN speakers' /\ i \in 1..Len(speakers'[s].packets)
            /\ x = speakers'[s].packets[i].id
        <5>1. 3 # 0 /\ 3 # 1 /\ 3 # 2 /\ 3 # 4
          BY SMT
        <5> QED  BY <2>6, <3>4, <5>1 DEF Has
      <4>2. Has(s, 3, i + d, x)
        BY <2>1, <2>4, <4>1 DEF Has
      <4>3. i >= 1 /\ i + d \in Nat
        BY <4>1, SMT
      <4>4. Ticked(k, i, 3, i + d, n, d, empty)
        BY <3>4, <4>3 DEF Ticked
      <4> QED  BY <3>0, <4>2, <4>3, <4>4
    <3>5. CASE k = 4
      <4>1. Has(s, 4, i, x)
        BY <1>1, <2>6, <3>5 DEF Has
      <4>2. Ticked(k, i, 4, i, n, d, empty)
        BY <3>5 DEF Ticked
      <4> QED  BY <3>0, <4>1, <4>2
    <3>6. k = 0 \/ k = 1 \/ k = 2 \/ k = 3 \/ k = 4
      BY <2>6 DEF Has
    <3> QED  BY <3>1, <3>2, <3>3, <3>4, <3>5, <3>6
  <2>7. \A k, i, x \in Nat : Has(s, k, i, x)' =>
          \E k0, i0 \in Nat : Has(s, k0, i0, x) /\ Ticked(k, i, k0, i0, n, d, empty)
    BY <2>6
  <2>8. n \in Nat /\ d \in Nat /\ empty \in BOOLEAN
    BY <2>2
  <2> USE <2>8
  <2> WITNESS n \in Nat, d \in Nat, empty \in BOOLEAN
  <2> QED  BY <2>7
<1>7. Known'
  <2> SUFFICES ASSUME NEW s \in Speakers, NEW k \in Nat, NEW i \in Nat, NEW x \in Nat,
                      Has(s, k, i, x)'
               PROVE  x <= arrived'
    BY DEF Known
  <2>1. \E k0, i0 \in Nat : Has(s, k0, i0, x)
    <3>1. CASE s \in DOMAIN speakers
      BY <1>6, <3>1
    <3>2. CASE s \notin DOMAIN speakers
      BY <1>5, <3>2
    <3> QED  BY <3>1, <3>2
  <2> QED  BY <1>1, <2>1 DEF Known
<1>8. InOrder'
  <2> SUFFICES ASSUME NEW s \in Speakers,
                      NEW k \in Nat, NEW l \in Nat, NEW i \in Nat, NEW j \in Nat,
                      NEW x \in Nat, NEW y \in Nat, Has(s, k, i, x)', Has(s, l, j, y)',
                      k < l \/ (k = l /\ i < j)
               PROVE  x <= y
    BY DEF InOrder
  <2>1. CASE s \in DOMAIN speakers
    <3>1. PICK n \in Nat, d \in Nat, empty \in BOOLEAN :
               \A kk, ii, xx \in Nat : Has(s, kk, ii, xx)' =>
                 \E k0, i0 \in Nat : Has(s, k0, i0, xx) /\ Ticked(kk, ii, k0, i0, n, d, empty)
      BY <1>6, <2>1
    <3>2. PICK k0 \in Nat, i0 \in Nat : Has(s, k0, i0, x) /\ Ticked(k, i, k0, i0, n, d, empty)
      BY <3>1
    <3>3. PICK l0 \in Nat, j0 \in Nat : Has(s, l0, j0, y) /\ Ticked(l, j, l0, j0, n, d, empty)
      BY <3>1
    <3>4. k0 < l0 \/ (k0 = l0 /\ i0 <= j0)
      <4>1. CASE empty
        BY <3>2, <3>3, <4>1, SMT DEF Ticked
      <4>2. CASE ~empty
        BY <3>2, <3>3, <4>2, SMT DEF Ticked
      <4> QED  BY <4>1, <4>2
    <3> QED  BY <3>2, <3>3, <3>4, Compare
  <2>2. CASE s \notin DOMAIN speakers
    <3>1. Has(s, k, i, x) /\ Has(s, l, j, y)
      BY <1>5, <2>2
    <3> QED  BY <3>1 DEF InOrder
  <2> QED  BY <2>1, <2>2
<1> QED  BY <1>7, <1>8

\* The places of PlayedInOrder are those of Has.
LEMMA PlacesHave ==
    ASSUME MixerTypes, NEW s \in Speakers, NEW a \in Places(s)
    PROVE  a[1] \in Nat /\ a[2] \in Nat /\ a[3] \in Nat /\ Has(s, a[1], a[2], a[3])
<1>1. CASE a = <<0, 0, heard[s]>>
  <2>1. a[1] = 0 /\ a[2] = 0 /\ a[3] = heard[s]
    BY <1>1
  <2>2. heard[s] \in Nat /\ 0 \in Nat
    BY DEF MixerTypes
  <2> QED  BY <2>1, <2>2 DEF Has
<1>2. ASSUME NEW i \in 1..Len(ring), ring[i][s] # 0, a = <<1, i, ring[i][s]>>
      PROVE  a[1] \in Nat /\ a[2] \in Nat /\ a[3] \in Nat /\ Has(s, a[1], a[2], a[3])
  <2>1. a[1] = 1 /\ a[2] = i /\ a[3] = ring[i][s]
    BY <1>2
  <2>2. ring[i] \in [Speakers -> Nat] /\ i \in Nat
    BY SMT DEF MixerTypes
  <2>3. Has(s, a[1], a[2], a[3])
    BY <1>2, <2>1 DEF Has
  <2> QED  BY <2>1, <2>2, <2>3
<1>3. ASSUME s \in DOMAIN speakers, NEW i \in 1..Len(speakers[s].pcm),
             a = <<2, i, speakers[s].pcm[i]>>
      PROVE  a[1] \in Nat /\ a[2] \in Nat /\ a[3] \in Nat /\ Has(s, a[1], a[2], a[3])
  <2>1. a[1] = 2 /\ a[2] = i /\ a[3] = speakers[s].pcm[i]
    BY <1>3
  <2>2. speakers[s].pcm \in Seq(Nat)
    BY <1>3 DEF MixerTypes, State
  <2>3. speakers[s].pcm[i] \in Nat /\ i \in Nat
    BY <2>2, SMT
  <2>4. Has(s, a[1], a[2], a[3])
    BY <1>3, <2>1 DEF Has
  <2> QED  BY <2>1, <2>3, <2>4
<1>4. ASSUME s \in DOMAIN speakers, NEW i \in 1..Len(speakers[s].packets),
             a = <<3, i, speakers[s].packets[i].id>>
      PROVE  a[1] \in Nat /\ a[2] \in Nat /\ a[3] \in Nat /\ Has(s, a[1], a[2], a[3])
  <2>1. a[1] = 3 /\ a[2] = i /\ a[3] = speakers[s].packets[i].id
    BY <1>4
  <2>2. speakers[s].packets \in Seq(Packet)
    BY <1>4 DEF MixerTypes, State
  <2>3. speakers[s].packets[i] \in Packet /\ i \in Nat
    BY <2>2, SMT
  <2>4. Has(s, a[1], a[2], a[3])
    BY <1>4, <2>1 DEF Has
  <2> QED  BY <2>1, <2>3, <2>4, PacketType
<1>5. ASSUME NEW i \in 1..Len(opus), opus[i].speaker = s, a = <<4, i, opus[i].id>>
      PROVE  a[1] \in Nat /\ a[2] \in Nat /\ a[3] \in Nat /\ Has(s, a[1], a[2], a[3])
  <2>1. a[1] = 4 /\ a[2] = i /\ a[3] = opus[i].id
    BY <1>5
  <2>2. opus[i] \in Packet /\ i \in Nat
    BY SMT DEF MixerTypes
  <2>3. Has(s, a[1], a[2], a[3])
    BY <1>5, <2>1 DEF Has
  <2> QED  BY <2>1, <2>2, <2>3, PacketType
<1> QED
  BY <1>1, <1>2, <1>3, <1>4, <1>5 DEF Places

\* At the start there is nothing to be heard.
LEMMA StartsInOrder == Init => InOrder /\ Known
<1> SUFFICES ASSUME Init PROVE InOrder /\ Known
  OBVIOUS
<1>1. ASSUME NEW s \in Speakers, NEW k \in Nat, NEW i \in Nat, NEW x \in Nat, Has(s, k, i, x)
      PROVE  x = 0
  <2>1. ring = <<>> /\ opus = <<>> /\ speakers = <<>> /\ heard[s] = 0
    BY DEF Init, NoVoice
  <2>2. /\ \A j \in 1..Len(ring) : FALSE
        /\ \A j \in 1..Len(opus) : FALSE
        /\ s \notin DOMAIN speakers
    <3>1. Len(<<>>) = 0 /\ DOMAIN <<>> = {}
      BY SMT
    <3>2. \A j \in 1..0 : FALSE
      BY SMT
    <3>3. Len(ring) = 0 /\ Len(opus) = 0 /\ DOMAIN speakers = {}
      BY <2>1, <3>1
    <3> QED  BY <3>2, <3>3
  <2> QED  BY <1>1, <2>1, <2>2 DEF Has
<1>2. arrived = 0 /\ 0 <= 0
  BY SMT DEF Init
<1>3. InOrder
  <2>1. \A s \in Speakers : \A k, i, x \in Nat : Has(s, k, i, x) => x = 0
    BY <1>1
  <2> QED  BY <1>2, <2>1 DEF InOrder
<1> QED  BY <1>1, <1>2, <1>3 DEF Known

\* The packets of a speaker stay in order from the channel to its ear, and none is from
\* the future.
MixerInOrder == MixerTypes /\ InOrder /\ Known

\* Every step keeps that order.
LEMMA OrderKept ==
    /\ Init => MixerInOrder
    /\ MixerInOrder /\ [Next]_vars => MixerInOrder'
<1>1. Init => MixerInOrder
  BY MixerTyped, StartsInOrder DEF MixerInOrder
<1>2. MixerInOrder /\ [Next]_vars => MixerInOrder'
  <2> SUFFICES ASSUME MixerTypes, InOrder, Known, [Next]_vars PROVE InOrder' /\ Known'
    BY MixerTyped DEF MixerInOrder
  <2>1. CASE \E s \in Speakers, n \in PacketFrames : Arrive(s, n)
    BY <2>1, ArrivesInOrder
  <2>2. CASE \E n \in SoundLengths : AskSound(n)
    <3>1. UNCHANGED <<opus, speakers, ring, heard, arrived>>
      BY <2>2 DEF AskSound
    <3> QED  BY <3>1, StayInOrder DEF Has
  <2>3. CASE Stop
    <3>1. UNCHANGED <<opus, ring, heard, arrived>> /\ speakers' = <<>>
      BY <2>3 DEF Stop
    <3>2. DOMAIN <<>> = {}
      BY SMT
    <3>3. \A s \in Speakers : \A k, i, x \in Nat : Has(s, k, i, x)' => Has(s, k, i, x)
      BY <3>1, <3>2 DEF Has
    <3> QED  BY <3>1, <3>3, StayInOrder
  <2>4. CASE Receive
    BY <2>4, ReceivedInTurn
  <2>5. CASE \E d \in {1, IdleTimeout + 1} : Tick(d)
    BY <2>5, TickedInTurn
  <2>6. CASE GetFrame
    BY <2>6, HeardInTurn
  <2>7. CASE UNCHANGED vars
    BY <2>7, StayInOrder DEF vars, Has
  <2> QED  BY <2>1, <2>2, <2>3, <2>4, <2>5, <2>6, <2>7 DEF Next
<1> QED  BY <1>1, <1>2

\* However packets are dropped on their way, and however late the decoder ticks, what
\* the caller hears of a speaker is in the order in which it was sent
\* (bridge.rs:201-232, 275-309), for any number of speakers and any capacities.
THEOREM SpeakersAreHeardInOrder == Spec => []PlayedInOrder
<1>1. MixerInOrder => PlayedInOrder
  <2> SUFFICES ASSUME MixerInOrder, NEW s \in Speakers, NEW a \in Places(s), NEW b \in Places(s),
                      Earlier(a, b)
               PROVE  a[3] <= b[3]
    BY DEF PlayedInOrder
  <2>1. a[1] \in Nat /\ a[2] \in Nat /\ a[3] \in Nat /\ Has(s, a[1], a[2], a[3])
    BY PlacesHave DEF MixerInOrder
  <2>2. b[1] \in Nat /\ b[2] \in Nat /\ b[3] \in Nat /\ Has(s, b[1], b[2], b[3])
    BY PlacesHave DEF MixerInOrder
  <2> QED  BY <2>1, <2>2 DEF MixerInOrder, InOrder, Earlier
<1> QED  BY <1>1, OrderKept, PTL DEF Spec

\* A speaker whose decoding leaves neither packets nor PCM had nothing to decode.
LEMMA DecodedToNothing ==
    ASSUME NEW state \in State, Decode(state).pcm = <<>>, Decode(state).packets = <<>>
    PROVE  /\ state.pcm = <<>>
           /\ \A i \in 1..Len(state.packets) : state.packets[i].frames \in {0, Bad}
<1>1. state.pcm = <<>>
  <2> SUFFICES ASSUME state.pcm # <<>> PROVE FALSE
    OBVIOUS
  <2>1. Decode(state) = state
    BY DEF Decode
  <2> QED  BY <2>1
<1> DEFINE p    == state.packets
           full == {i \in 1..Len(p) : p[i].frames # 0}
           n    == IF full = {} THEN Len(p) ELSE Min(full)
           ok   == full # {} /\ p[n].frames # Bad
           pcm  == IF ok THEN [i \in 1..p[n].frames |-> p[n].id] ELSE <<>>
<1>2. p \in Seq(Packet) /\ Len(p) \in Nat
  BY SMT DEF State
<1>3. Decode(state) = [state EXCEPT !.packets = SubSeq(p, n + 1, Len(p)), !.pcm = pcm]
  BY <1>1 DEF Decode
<1>4. SubSeq(p, n + 1, Len(p)) = <<>> /\ pcm = <<>>
  BY <1>3 DEF State
<1>5. CASE full = {}
  BY <1>1, <1>5
<1>6. CASE full # {}
  <2>1. full \subseteq 1..Len(p) /\ n = Min(full)
    BY <1>6
  <2>2. full \in SUBSET Nat
    BY <2>1, SMT
  <2>3. n \in full /\ \A i \in full : n <= i
    <3> HIDE DEF full, n
    <3> QED  BY <1>6, <2>1, <2>2, LeastElement
  <2>4. n \in 1..Len(p) /\ p[n].frames # 0
    BY <2>3
  <2>5. \A i \in 1..Len(p) : i \in full <=> p[i].frames # 0
    OBVIOUS
  <2>6. p[n].frames = Bad
    <3> SUFFICES ASSUME p[n].frames # Bad PROVE FALSE
      OBVIOUS
    <3> DEFINE f == p[n].frames
               x == p[n].id
    <3>1. p[n] \in Packet
      <4> HIDE DEF p, n
      <4> QED  BY <1>2, <2>4
    <3>2. f \in Nat \ {0}
      BY <2>4, <3>1, PacketType
    <3>3. [i \in 1..f |-> x] = <<>>
      BY <1>4, <1>6
    <3> HIDE DEF f, x
    <3>4. DOMAIN [i \in 1..f |-> x] = 1..f /\ DOMAIN <<>> = {}
      BY SMT
    <3>5. 1 \in 1..f
      BY <3>2, SMT
    <3> QED  BY <3>3, <3>4, <3>5
  <2> HIDE DEF p, full, n, ok, pcm
  <2>7. n = Len(p)
    <3>1. Len(SubSeq(p, n + 1, Len(p))) = Len(p) - n
      BY <1>2, <2>4, SMT
    <3>2. Len(SubSeq(p, n + 1, Len(p))) = 0
      <4>1. Len(<<>>) = 0
        BY SMT
      <4> QED  BY <1>4, <4>1
    <3>3. n \in Nat /\ Len(p) \in Nat
      BY <1>2, <2>4, SMT
    <3> QED  BY <3>1, <3>2, <3>3, SMT
  <2>8. ASSUME NEW i \in 1..Len(p) PROVE p[i].frames \in {0, Bad}
    <3>1. CASE i = n
      BY <2>6, <3>1
    <3>2. CASE i # n
      <4>1. ~(n <= i)
        BY <1>2, <2>7, <3>2, SMT
      <4>2. i \notin full
        BY <2>3, <4>1
      <4> QED  BY <2>5, <4>2
    <3> QED  BY <3>1, <3>2
  <2> QED  BY <1>1, <2>8 DEF p
<1> QED  BY <1>5, <1>6

\* The elements of a sequence are at its positions.
LEMMA Elements ==
    ASSUME NEW seq, NEW e \in ToSet(seq)
    PROVE  \E i \in 1..Len(seq) : e = seq[i]
BY DEF ToSet

\* No speaker with something left to say is forgotten (bridge.rs:218-225), for any
\* capacities and however late the ticks come.
THEOREM NobodyIsCutOff == Spec => IdleHadNothing
<1>1. ASSUME MixerTypes, Next, running', NEW s \in DOMAIN speakers \ DOMAIN speakers'
      PROVE  /\ speakers[s].pcm = <<>>
             /\ \A p \in ToSet(speakers[s].packets) : p.frames \in {0, Bad}
  <2>1. CASE \E v \in Speakers, n \in PacketFrames : Arrive(v, n)
    BY <1>1, <2>1 DEF Arrive
  <2>2. CASE \E n \in SoundLengths : AskSound(n)
    BY <1>1, <2>2 DEF AskSound
  <2>3. CASE Stop
    BY <1>1, <2>3 DEF Stop
  <2>4. CASE Receive
    BY <1>1, <2>4, Receiving
  <2>5. ASSUME NEW d \in {1, IdleTimeout + 1}, Tick(d)
        PROVE  Decode(speakers[s]).pcm = <<>> /\ Decode(speakers[s]).packets = <<>>
    <3> DEFINE decoded == [v \in DOMAIN speakers |-> Decode(speakers[v])]
               idle(v) == Min({speakers[v].idle + d, IdleTimeout + 1})
               stays   == {v \in DOMAIN speakers : ~Stale(decoded[v], idle(v))}
    <3>1. DOMAIN speakers' = stays
      BY <2>5 DEF Tick
    <3>2. Stale(decoded[s], idle(s))
      <4> HIDE DEF idle, decoded
      <4> QED  BY <1>1, <3>1
    <3>3. decoded[s] = Decode(speakers[s])
      BY <1>1
    <3> HIDE DEF decoded, idle
    <3> QED  BY <3>2, <3>3 DEF Stale
  <2>6. CASE GetFrame
    BY <1>1, <2>6 DEF GetFrame
  <2>7. CASE \E d \in {1, IdleTimeout + 1} : Tick(d)
    <3>1. Decode(speakers[s]).pcm = <<>> /\ Decode(speakers[s]).packets = <<>>
      BY <2>5, <2>7
    <3>2. speakers[s] \in State
      BY <1>1 DEF MixerTypes
    <3>3. /\ speakers[s].pcm = <<>>
          /\ \A i \in 1..Len(speakers[s].packets) : speakers[s].packets[i].frames \in {0, Bad}
      BY <3>1, <3>2, DecodedToNothing
    <3> QED  BY <3>3, Elements
  <2> QED  BY <1>1, <2>1, <2>2, <2>3, <2>4, <2>6, <2>7 DEF Next
<1>2. MixerTypes /\ [Next]_vars =>
        [running' => \A s \in DOMAIN speakers \ DOMAIN speakers' :
           /\ speakers[s].pcm = <<>>
           /\ \A p \in ToSet(speakers[s].packets) : p.frames \in {0, Bad}]_vars
  BY <1>1
<1> QED
  BY <1>2, MixerTyped, PTL DEF Spec, IdleHadNothing

-----------------------------------------------------------------------------
(***************************************************************************)
(* Sounds are counted to the last sample, and no buffer outgrows its       *)
(* capacity.                                                               *)
(***************************************************************************)
\* The length of a decoded sound is a number of samples, whatever file it is of.
LEMMA SoundLengthsAreNat == SoundLengths \subseteq Nat
<1> USE MixerAssumption
<1>1. ASSUME NEW n \in Nat, NEW rate \in Nat \ {0}
      PROVE  EffectLength(n, rate) \in Nat
  <2>1. n * EffectRate \in Nat
    BY Products DEF EffectRate
  <2> QED  BY <2>1, RoundedUp DEF EffectLength
<1>2. ASSUME NEW e \in Effects
      PROVE  EffectLength(EffectSamples(e.bytes), e.rate) \in Nat
  <2>1. e.bytes - HeaderBytes \in Nat /\ e.rate \in Nat \ {0} /\ 2 \in Nat \ {0}
    BY SMT DEF HeaderBytes
  <2>2. EffectSamples(e.bytes) \in Nat
    BY <2>1, Division DEF EffectSamples
  <2> QED  BY <1>1, <2>1, <2>2
<1>3. ASSUME NEW n \in Nat, NEW in \in Nat, NEW out \in Nat
      PROVE  ResampledLength(n, in, out) \in Nat
  <2>1. CASE n # 0 /\ in # 0 /\ out # 0 /\ in # out
    <3> DEFINE a == 2 * n * out + in
               b == 2 * in
    <3>1. n * out \in Nat /\ 2 * n * out = 2 * (n * out)
      BY Products, SMT
    <3>2. a \in Nat /\ b \in Nat \ {0}
      BY <2>1, <3>1, SMT
    <3>3. ResampledLength(n, in, out) = a \div b
      BY <2>1 DEF ResampledLength
    <3> HIDE DEF a, b
    <3> QED  BY <3>2, <3>3, Division
  <2>2. CASE n = 0 \/ in = 0 \/ out = 0
    BY <2>2 DEF ResampledLength
  <2>3. CASE n # 0 /\ in # 0 /\ out # 0 /\ in = out
    BY <2>3 DEF ResampledLength
  <2> QED  BY <2>1, <2>2, <2>3
<1>4. ASSUME NEW p \in Phrases
      PROVE  SpeechLength(p.samples, p.channels, p.rate, SampleRate) \in Nat
  <2>1. p.samples \in Nat /\ p.channels \in Nat \ {0} /\ p.rate \in Nat
    OBVIOUS
  <2>2. MonoLength(p.samples, p.channels) \in Nat
    BY <2>1, RoundedUp DEF MonoLength
  <2> QED  BY <1>3, <2>1, <2>2 DEF SpeechLength
<1> QED  BY <1>2, <1>4 DEF SoundLengths

\* As long as the decoder runs, what it has been asked to play is what it has played and
\* what is still queued.
SoundsAccounted == running => promised = given + sounds

SoundTypes ==
    /\ running \in BOOLEAN
    /\ sounds \in Nat /\ promised \in Nat /\ given \in Nat
    /\ asked \in 0..MaxSounds

\* No step makes up or loses a sample, but for the end of the decoder.
LEMMA SoundsCounted ==
    /\ Init => SoundTypes /\ SoundsAccounted
    /\ SoundTypes /\ SoundsAccounted /\ [Next]_vars => SoundTypes' /\ SoundsAccounted'
<1> USE MixerAssumption
<1>1. ASSUME Init PROVE SoundTypes /\ SoundsAccounted
  BY <1>1, SMT DEF Init, SoundTypes, SoundsAccounted
<1>2. ASSUME SoundTypes, SoundsAccounted, [Next]_vars PROVE SoundTypes' /\ SoundsAccounted'
  <2>1. ASSUME NEW n \in SoundLengths, AskSound(n) PROVE SoundTypes' /\ SoundsAccounted'
    <3>1. n \in Nat
      BY SoundLengthsAreNat
    <3>2. /\ asked < MaxSounds /\ asked' = asked + 1 /\ promised' = promised + n
          /\ sounds' = IF running THEN sounds + n ELSE sounds
          /\ UNCHANGED <<running, given>>
      BY <2>1 DEF AskSound
    <3>3. asked' \in 0..MaxSounds /\ promised' \in Nat /\ sounds' \in Nat
      BY <1>2, <3>1, <3>2, SMT DEF SoundTypes
    <3>4. running => promised' = given + sounds'
      BY <1>2, <3>1, <3>2, SMT DEF SoundTypes, SoundsAccounted
    <3> QED  BY <1>2, <3>2, <3>3, <3>4 DEF SoundTypes, SoundsAccounted
  <2>2. CASE Stop
    <3>1. running' = FALSE /\ sounds' = 0 /\ UNCHANGED <<asked, promised, given>>
      BY <2>2 DEF Stop
    <3> QED  BY <1>2, <3>1 DEF SoundTypes, SoundsAccounted
  <2>3. ASSUME NEW d \in {1, IdleTimeout + 1}, Tick(d) PROVE SoundTypes' /\ SoundsAccounted'
    <3>1. /\ sounds' = sounds - Drain /\ given' = given + Drain
          /\ UNCHANGED <<running, asked, promised>>
      BY <2>3 DEF Tick
    <3>2. FrameSamples \in Nat
      <4>1. SampleRate * 10 \in Nat /\ 1000 \in Nat \ {0}
        BY SMT
      <4> QED  BY <4>1, Division DEF FrameSamples
    <3>3. Drain \in Nat /\ Drain <= sounds
      BY <1>2, <3>2, SMT DEF Drain, SoundTypes
    <3>4. sounds' \in Nat /\ given' \in Nat /\ given' + sounds' = given + sounds
      BY <1>2, <3>1, <3>3, SMT DEF SoundTypes
    <3> QED  BY <1>2, <3>1, <3>4 DEF SoundTypes, SoundsAccounted
  <2>4. CASE \/ \E s \in Speakers, n \in PacketFrames : Arrive(s, n)
             \/ Receive \/ GetFrame \/ UNCHANGED vars
    <3>1. UNCHANGED <<running, sounds, promised, given, asked>>
      BY <2>4 DEF Arrive, Receive, GetFrame, vars
    <3> QED  BY <1>2, <3>1 DEF SoundTypes, SoundsAccounted
  <2> QED  BY <1>2, <2>1, <2>2, <2>3, <2>4 DEF Next
<1> QED  BY <1>1, <1>2

\* Of the sounds and phrases asked for, no sample is lost and none played twice while the
\* decoder runs (bridge.rs:275-309, session.rs:827), for files and phrases of any length
\* and rate, however many of them share a frame.
THEOREM SoundsAreAccountedFor == Spec => []SoundsAccounted
  BY SoundsCounted, PTL DEF Spec

\* Channel, jitter queues and ring keep to their capacities, the idle times to the
\* timeout, and the PCM of a speaker is of packets.
LensOK ==
    /\ Len(opus) <= QueueCapacity
    /\ \A s \in DOMAIN speakers :
         /\ Len(speakers[s].packets) <= MaxPackets
         /\ \A i \in 1..Len(speakers[s].pcm) : speakers[s].pcm[i] # 0
         /\ speakers[s].idle \in 0..IdleTimeout + 1
    /\ Len(ring) <= RingFrames

\* The jitter queue makes room before it is full.
LEMMA QueuedLength ==
    ASSUME NEW packets \in Seq(Packet), NEW p \in Packet, Len(packets) <= MaxPackets
    PROVE  Len(Queued(packets, p)) <= MaxPackets
<1> USE MixerAssumption
<1>1. Len(packets) \in Nat /\ MaxPackets \in Nat \ {0}
  BY SMT
<1>2. CASE Len(packets) >= MaxPackets
  <2>1. packets # <<>>
    <3>1. Len(packets) # 0
      BY <1>1, <1>2, SMT
    <3> QED  BY <3>1, SMT
  <2>2. Tail(packets) \in Seq(Packet) /\ Len(Tail(packets)) = Len(packets) - 1
    BY <2>1, HeadTail
  <2>3. Len(Append(Tail(packets), p)) = Len(Tail(packets)) + 1
    BY <2>2, Appended
  <2> QED  BY <1>1, <1>2, <2>2, <2>3, SMT DEF Queued
<1>3. CASE ~(Len(packets) >= MaxPackets)
  <2>1. Len(Append(packets, p)) = Len(packets) + 1
    BY Appended
  <2> QED  BY <1>1, <1>3, <2>1, SMT DEF Queued
<1> QED  BY <1>2, <1>3

\* A tick keeps a speaker that stays within its bounds.
LEMMA TickedLengths ==
    ASSUME MixerTypes, LensOK, NEW d \in {1, IdleTimeout + 1}, Tick(d), NEW s \in DOMAIN speakers'
    PROVE  /\ Len(speakers'[s].packets) <= MaxPackets
           /\ \A i \in 1..Len(speakers'[s].pcm) : speakers'[s].pcm[i] # 0
           /\ speakers'[s].idle \in 0..IdleTimeout + 1
<1> USE MixerAssumption
<1> DEFINE before == speakers[s]
           decoded == Decode(speakers[s])
<1>1. /\ s \in DOMAIN speakers /\ before \in State
      /\ speakers'[s].packets = decoded.packets
      /\ speakers'[s].pcm = IF decoded.pcm # <<>> THEN Tail(decoded.pcm) ELSE <<>>
  BY Ticking DEF MixerTypes
<1>2. /\ before.packets \in Seq(Packet) /\ before.pcm \in Seq(Nat)
      /\ Len(before.packets) <= MaxPackets
      /\ \A i \in 1..Len(before.pcm) : before.pcm[i] # 0
      /\ before.idle \in 0..IdleTimeout + 1
  BY <1>1 DEF LensOK, State
<1>3. decoded.packets \in Seq(Packet) /\ decoded.pcm \in Seq(Nat)
  BY <1>1, Decoding
<1>4. PICK c \in Nat :
        /\ \A i \in 1..Len(decoded.packets) :
             /\ i + c \in 1..Len(before.packets)
             /\ decoded.packets[i] = before.packets[i + c]
        /\ before.pcm # <<>> => c = 0 /\ decoded.pcm = before.pcm
        /\ before.pcm = <<>> => \A i \in 1..Len(decoded.pcm) :
             c \in 1..Len(before.packets) /\ decoded.pcm[i] = before.packets[c].id
  BY <1>1, Decoding
<1>5. speakers'[s].idle \in 0..IdleTimeout + 1
  <2> DEFINE times == {before.idle + d, IdleTimeout + 1}
  <2>1. speakers'[s].idle = Min(times)
    <3>1. \A x \in DOMAIN speakers' :
             speakers'[x].idle = Min({speakers[x].idle + d, IdleTimeout + 1})
      BY Ticking
    <3> QED  BY <3>1
  <2>2. before.idle + d \in Nat /\ IdleTimeout + 1 \in Nat
    <3>1. before.idle \in 0..IdleTimeout + 1 /\ IdleTimeout \in Nat
      BY <1>2
    <3> HIDE DEF before
    <3> QED  BY <3>1, SMT
  <2>3. times \in SUBSET Nat /\ times # {} /\ IdleTimeout + 1 \in times
    BY <2>2
  <2> HIDE DEF times
  <2>4. Min(times) \in times /\ Min(times) <= IdleTimeout + 1
    BY <2>3, LeastElement
  <2>5. Min(times) \in Nat
    BY <2>3, <2>4
  <2> QED  BY <2>1, <2>2, <2>4, <2>5, SMT
<1> HIDE DEF before, decoded
<1>6. Len(speakers'[s].packets) <= MaxPackets
  <2>1. Len(decoded.packets) \in Nat /\ Len(before.packets) \in Nat
    BY <1>2, <1>3, SMT
  <2>2. CASE Len(decoded.packets) = 0
    BY <1>1, <2>2, SMT
  <2>3. CASE Len(decoded.packets) # 0
    <3>1. Len(decoded.packets) \in 1..Len(decoded.packets)
      BY <2>1, <2>3, SMT
    <3>2. Len(decoded.packets) + c \in 1..Len(before.packets)
      BY <1>4, <3>1
    <3>3. MaxPackets \in Nat
      OBVIOUS
    <3>4. Len(decoded.packets) <= MaxPackets
      BY <1>2, <2>1, <3>2, <3>3, SMT
    <3> QED  BY <1>1, <3>4
  <2> QED  BY <2>2, <2>3
<1>7. \A i \in 1..Len(decoded.pcm) : decoded.pcm[i] # 0
  <2> SUFFICES ASSUME NEW i \in 1..Len(decoded.pcm) PROVE decoded.pcm[i] # 0
    OBVIOUS
  <2>1. CASE before.pcm # <<>>
    BY <1>2, <1>4, <2>1
  <2>2. CASE before.pcm = <<>>
    <3>1. c \in 1..Len(before.packets) /\ decoded.pcm[i] = before.packets[c].id
      BY <1>4, <2>2
    <3>2. before.packets[c] \in Packet
      BY <1>2, <3>1
    <3>3. before.packets[c].id \in 1..MaxArrivals
      BY <3>2 DEF Packet
    <3> QED  BY <3>1, <3>3, SMT
  <2> QED  BY <2>1, <2>2
<1>8. \A i \in 1..Len(speakers'[s].pcm) : speakers'[s].pcm[i] # 0
  <2>1. CASE decoded.pcm # <<>>
    <3>1. \A i \in 1..Len(Tail(decoded.pcm)) :
             i + 1 \in 1..Len(decoded.pcm) /\ Tail(decoded.pcm)[i] = decoded.pcm[i + 1]
      BY <1>3, <2>1, HeadTail
    <3> QED  BY <1>1, <1>7, <2>1, <3>1
  <2>2. CASE decoded.pcm = <<>>
    <3>1. Len(speakers'[s].pcm) = 0 /\ 1..0 = {}
      BY <1>1, <2>2, SMT
    <3> QED  BY <3>1
  <2> QED  BY <2>1, <2>2
<1> QED  BY <1>5, <1>6, <1>8

\* Every step keeps to the capacities.
LEMMA LengthsKept ==
    /\ Init => LensOK
    /\ MixerTypes /\ LensOK /\ [Next]_vars => LensOK'
<1> USE MixerAssumption
<1>1. ASSUME Init PROVE LensOK
  <2>1. Len(opus) = 0 /\ Len(ring) = 0 /\ DOMAIN speakers = {}
    BY <1>1, SMT DEF Init
  <2> QED  BY <2>1 DEF LensOK
<1>2. ASSUME MixerTypes, LensOK, [Next]_vars PROVE LensOK'
  <2>0. /\ opus \in Seq(Packet) /\ Len(opus) \in Nat
        /\ ring \in Seq([Speakers -> Nat]) /\ Len(ring) \in Nat
        /\ QueueCapacity \in Nat /\ RingFrames \in Nat
    BY <1>2, SMT DEF MixerTypes
  <2>1. ASSUME NEW s \in Speakers, NEW n \in PacketFrames, Arrive(s, n) PROVE LensOK'
    <3> DEFINE p == [speaker |-> s, id |-> arrived', frames |-> n]
    <3>1. /\ arrived \in 0..MaxArrivals /\ arrived < MaxArrivals /\ arrived' = arrived + 1
          /\ UNCHANGED <<speakers, ring>>
          /\ opus' = IF Len(opus) < QueueCapacity THEN Append(opus, p) ELSE opus
      BY <1>2, <2>1 DEF Arrive, MixerTypes
    <3>2. arrived' \in 1..MaxArrivals
      BY <3>1, SMT
    <3>3. p \in Packet
      BY <3>2 DEF Packet
    <3> HIDE DEF p
    <3>4. Len(Append(opus, p)) = Len(opus) + 1
      BY <2>0, <3>3, Appended
    <3>5. Len(opus') <= QueueCapacity
      <4>1. CASE Len(opus) < QueueCapacity
        BY <2>0, <3>1, <3>4, <4>1, SMT
      <4>2. CASE ~(Len(opus) < QueueCapacity)
        BY <1>2, <3>1, <4>2 DEF LensOK
      <4> QED  BY <4>1, <4>2
    <3> QED  BY <1>2, <3>1, <3>5 DEF LensOK
  <2>2. CASE \/ \E n \in SoundLengths : AskSound(n)
             \/ UNCHANGED vars
    BY <1>2, <2>2 DEF AskSound, vars, LensOK
  <2>3. CASE Stop
    <3>1. DOMAIN speakers' = {} /\ UNCHANGED <<opus, ring>>
      BY <2>3, SMT DEF Stop
    <3> QED  BY <1>2, <3>1 DEF LensOK
  <2>4. CASE Receive
    <3> DEFINE p == Head(opus)
               st == StateOf(Head(opus).speaker)
    <3>1. /\ opus # <<>> /\ opus' = Tail(opus) /\ p \in Packet /\ ring' = ring
          /\ DOMAIN speakers' = DOMAIN speakers \cup {p.speaker}
          /\ \A x \in DOMAIN speakers' : x # p.speaker => speakers'[x] = speakers[x]
          /\ st \in State
          /\ speakers'[p.speaker] = [st EXCEPT !.packets = Queued(@, p), !.idle = 0]
      BY <1>2, <2>4, Receiving
    <3>2. Len(opus') <= QueueCapacity
      <4>1. Len(opus') = Len(opus) - 1
        BY <2>0, <3>1, HeadTail
      <4> QED  BY <1>2, <2>0, <4>1, SMT DEF LensOK
    <3>3. /\ st.packets \in Seq(Packet) /\ Len(st.packets) <= MaxPackets
          /\ \A i \in 1..Len(st.pcm) : st.pcm[i] # 0
      <4>1. CASE p.speaker \in DOMAIN speakers
        BY <1>2, <3>1, <4>1 DEF StateOf, LensOK, State
      <4>2. CASE p.speaker \notin DOMAIN speakers
        <5>1. st.packets = <<>> /\ st.pcm = <<>>
          BY <4>2 DEF StateOf, NewSpeaker
        <5>2. Len(<<>>) = 0 /\ 0 <= MaxPackets /\ 1..0 = {} /\ <<>> \in Seq(Packet)
          BY SMT
        <5> QED  BY <5>1, <5>2
      <4> QED  BY <4>1, <4>2
    <3> HIDE DEF p, st
    <3>4. st = [packets |-> st.packets, pcm |-> st.pcm, idle |-> st.idle]
      BY <3>1 DEF State
    <3>5. speakers'[p.speaker] = [packets |-> Queued(st.packets, p), pcm |-> st.pcm, idle |-> 0]
      BY <3>1, <3>4
    <3>6. Len(Queued(st.packets, p)) <= MaxPackets
      BY <3>1, <3>3, QueuedLength
    <3>7. 0 \in 0..IdleTimeout + 1
      BY SMT
    <3>8. /\ Len(speakers'[p.speaker].packets) <= MaxPackets
          /\ \A i \in 1..Len(speakers'[p.speaker].pcm) : speakers'[p.speaker].pcm[i] # 0
          /\ speakers'[p.speaker].idle \in 0..IdleTimeout + 1
      BY <3>3, <3>5, <3>6, <3>7
    <3>9. ASSUME NEW x \in DOMAIN speakers'
          PROVE  /\ Len(speakers'[x].packets) <= MaxPackets
                 /\ \A i \in 1..Len(speakers'[x].pcm) : speakers'[x].pcm[i] # 0
                 /\ speakers'[x].idle \in 0..IdleTimeout + 1
      <4>1. CASE x = p.speaker
        BY <3>8, <4>1
      <4>2. CASE x # p.speaker
        <5>1. x \in DOMAIN speakers /\ speakers'[x] = speakers[x]
          BY <3>1, <3>9, <4>2
        <5> QED  BY <1>2, <5>1 DEF LensOK
      <4> QED  BY <4>1, <4>2
    <3> QED  BY <1>2, <3>1, <3>2, <3>9 DEF LensOK
  <2>5. ASSUME NEW d \in {1, IdleTimeout + 1}, Tick(d) PROVE LensOK'
    <3>1. PICK mixed \in [Speakers -> Nat] : ring' = ring \/ ring' = Append(ring, mixed)
      BY <1>2, <2>5, Ticking
    <3>2. opus' = opus /\ (ring' = ring \/ Len(ring) < RingFrames)
      BY <2>5 DEF Tick
    <3>3. Len(Append(ring, mixed)) = Len(ring) + 1
      BY <2>0, Appended
    <3>4. Len(ring') <= RingFrames
      <4>1. CASE ring' = ring
        BY <1>2, <4>1 DEF LensOK
      <4>2. CASE ring' # ring
        <5>1. Len(ring') = Len(ring) + 1 /\ Len(ring) < RingFrames
          BY <3>1, <3>2, <3>3, <4>2
        <5> QED  BY <2>0, <5>1, SMT
      <4> QED  BY <4>1, <4>2
    <3>5. \A s \in DOMAIN speakers' :
            /\ Len(speakers'[s].packets) <= MaxPackets
            /\ \A i \in 1..Len(speakers'[s].pcm) : speakers'[s].pcm[i] # 0
            /\ speakers'[s].idle \in 0..IdleTimeout + 1
      BY <1>2, <2>5, TickedLengths
    <3> QED  BY <1>2, <3>2, <3>4, <3>5 DEF LensOK
  <2>6. CASE GetFrame
    <3>1. ring # <<>> /\ ring' = Tail(ring) /\ UNCHANGED <<opus, speakers>>
      BY <2>6 DEF GetFrame
    <3>2. Len(ring') = Len(ring) - 1
      BY <2>0, <3>1, HeadTail
    <3>3. Len(ring') <= RingFrames
      BY <1>2, <2>0, <3>2, SMT DEF LensOK
    <3> QED  BY <1>2, <3>1, <3>3 DEF LensOK
  <2> QED  BY <1>2, <2>1, <2>2, <2>3, <2>4, <2>5, <2>6 DEF Next
<1> QED  BY <1>1, <1>2

\* The packets in the ring, at the ear and in the PCM are among those that arrived.
LEMMA PacketsArrived ==
    ASSUME MixerInOrder, NEW s \in Speakers
    PROVE  /\ heard[s] \in 0..MaxArrivals
           /\ \A i \in 1..Len(ring) : ring[i][s] \in 0..MaxArrivals
           /\ s \in DOMAIN speakers =>
                \A i \in 1..Len(speakers[s].pcm) : speakers[s].pcm[i] \in 0..MaxArrivals
<1>1. /\ ring \in Seq([Speakers -> Nat]) /\ heard \in [Speakers -> Nat]
      /\ arrived \in 0..MaxArrivals
      /\ s \in DOMAIN speakers => speakers[s].pcm \in Seq(Nat)
  BY DEF MixerInOrder, MixerTypes, State
<1>2. MaxArrivals \in Nat
  BY MixerAssumption
<1>3. ASSUME NEW k \in Nat, NEW i \in Nat, NEW x \in Nat, Has(s, k, i, x)
      PROVE  x \in 0..MaxArrivals
  <2>1. x <= arrived
    BY <1>3 DEF MixerInOrder, Known
  <2> QED  BY <1>1, <1>2, <2>1, SMT
<1>4. heard[s] \in 0..MaxArrivals
  <2>1. heard[s] \in Nat /\ Has(s, 0, 0, heard[s])
    BY <1>1 DEF Has
  <2>2. 0 \in Nat
    BY SMT
  <2> QED  BY <1>3, <2>1, <2>2
<1>5. ASSUME NEW i \in 1..Len(ring) PROVE ring[i][s] \in 0..MaxArrivals
  <2>1. i \in Nat /\ 1 \in Nat /\ ring[i] \in [Speakers -> Nat]
    BY <1>1, SMT
  <2>2. ring[i][s] \in Nat
    BY <2>1
  <2>3. CASE ring[i][s] = 0
    BY <1>2, <2>3, SMT
  <2>4. CASE ring[i][s] # 0
    <3>1. Has(s, 1, i, ring[i][s])
      BY <2>4 DEF Has
    <3> QED  BY <1>3, <2>1, <2>2, <3>1
  <2> QED  BY <2>3, <2>4
<1>6. ASSUME s \in DOMAIN speakers, NEW i \in 1..Len(speakers[s].pcm)
      PROVE  speakers[s].pcm[i] \in 0..MaxArrivals
  <2> DEFINE pcm == speakers[s].pcm
  <2>1. pcm \in Seq(Nat)
    BY <1>1, <1>6
  <2>2. Has(s, 2, i, pcm[i])
    BY <1>6 DEF Has
  <2> HIDE DEF pcm
  <2>3. i \in 1..Len(pcm)
    BY <1>6 DEF pcm
  <2>4. i \in Nat /\ 2 \in Nat /\ pcm[i] \in Nat
    BY <2>1, <2>3, SMT
  <2>5. pcm[i] \in 0..MaxArrivals
    BY <1>3, <2>2, <2>4
  <2> QED  BY <2>5 DEF pcm
<1> QED  BY <1>4, <1>5, <1>6

\* A sequence is one of the elements it has.
LEMMA SequenceOf ==
    ASSUME NEW S, NEW T, NEW seq \in Seq(S), \A i \in 1..Len(seq) : seq[i] \in T
    PROVE  seq \in Seq(T)
BY SMT

\* Ring, ear and PCM hold packets, and nothing grows beyond its capacity, for any number
\* of speakers and packets (bridge.rs:151-339).
THEOREM MixerKeepsTypes == Spec => []TypeOK
<1>1. MixerInOrder /\ LensOK /\ SoundTypes => TypeOK
  <2> SUFFICES ASSUME MixerInOrder, LensOK, SoundTypes PROVE TypeOK
    OBVIOUS
  <2>1. MixerTypes
    BY DEF MixerInOrder
  <2>2. heard \in Mixed
    <3>1. heard \in [Speakers -> Nat] /\ \A s \in Speakers : heard[s] \in 0..MaxArrivals
      BY <2>1, PacketsArrived DEF MixerTypes
    <3> QED  BY <3>1 DEF Mixed
  <2>3. ring \in Seq(Mixed)
    <3>1. ring \in Seq([Speakers -> Nat])
      BY <2>1 DEF MixerTypes
    <3>2. ASSUME NEW i \in 1..Len(ring) PROVE ring[i] \in Mixed
      <4>1. ring[i] \in [Speakers -> Nat]
        BY <3>1, SMT
      <4>2. \A s \in Speakers : ring[i][s] \in 0..MaxArrivals
        BY PacketsArrived
      <4> QED  BY <4>1, <4>2 DEF Mixed
    <3> QED  BY <3>1, <3>2, SequenceOf
  <2>4. ASSUME NEW s \in DOMAIN speakers
        PROVE  /\ speakers[s].packets \in Seq(Packet)
               /\ speakers[s].pcm \in Seq(1..MaxArrivals)
    <3> DEFINE pcm == speakers[s].pcm
    <3>1. s \in Speakers /\ speakers[s] \in State
      BY <2>1 DEF MixerTypes
    <3>2. speakers[s].packets \in Seq(Packet) /\ pcm \in Seq(Nat)
      BY <3>1 DEF State
    <3>3. \A i \in 1..Len(pcm) : pcm[i] \in 0..MaxArrivals /\ pcm[i] # 0
      BY <3>1, PacketsArrived DEF LensOK
    <3> HIDE DEF pcm
    <3>4. ASSUME NEW i \in 1..Len(pcm) PROVE pcm[i] \in 1..MaxArrivals
      <4>1. pcm[i] \in 0..MaxArrivals /\ pcm[i] # 0 /\ MaxArrivals \in Nat
        BY <3>3, MixerAssumption
      <4> QED  BY <4>1, SMT
    <3>5. pcm \in Seq(1..MaxArrivals)
      BY <3>2, <3>4, SequenceOf
    <3> QED  BY <3>2, <3>5 DEF pcm
  <2>5. opus \in Seq(Packet) /\ DOMAIN speakers \subseteq Speakers /\ arrived \in 0..MaxArrivals
    BY <2>1 DEF MixerTypes
  <2> QED  BY <2>2, <2>3, <2>4, <2>5 DEF TypeOK, LensOK, SoundTypes
<1>2. Init => MixerInOrder /\ LensOK /\ SoundTypes /\ SoundsAccounted
  BY OrderKept, LengthsKept, SoundsCounted
<1>3. MixerInOrder /\ LensOK /\ SoundTypes /\ SoundsAccounted /\ [Next]_vars
        => (MixerInOrder /\ LensOK /\ SoundTypes /\ SoundsAccounted)'
  BY OrderKept, LengthsKept, SoundsCounted DEF MixerInOrder
<1> QED  BY <1>1, <1>2, <1>3, PTL DEF Spec
=============================================================================
