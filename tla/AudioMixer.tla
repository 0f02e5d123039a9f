----------------------------- MODULE AudioMixer -----------------------------
(***************************************************************************)
(* What the caller hears: the mixed decoder task takes Opus packets of the *)
(* Mumble speakers and sound effects, mixes one 10 ms frame per tick and   *)
(* pushes it into the ring buffer pjsip's media thread reads.              *)
(*                                                                         *)
(* A packet is the number of 10 ms frames it decodes to, or Bad; packets   *)
(* carry the order in which they arrived.  Audio is the set of its         *)
(* sources: a packet of each speaker heard.  Sound effects and synthesized *)
(* phrases are counted in samples, as the decoders of WavAudio give them.  *)
(***************************************************************************)
EXTENDS WavAudio, SequencesExt, FiniteSetsExt

CONSTANTS
    Speakers,       \* Mumble session ids
    PacketFrames,   \* frames a packet may decode to
    MaxPackets,     \* max_packets_per_speaker
    QueueCapacity,  \* capacity of opus_to_decoder
    RingFrames,     \* capacity of the ring buffer, in frames
    IdleTimeout,    \* SPEAKER_IDLE_TIMEOUT, in ticks
    SampleRate,     \* audio.sample_rate, at which the mixer runs
    Effects,        \* the WAV files of the sound effects: their bytes and rate
    Phrases,        \* what the TTS server answers: samples, channels and rate
    MaxArrivals,    \* bound on the packets of the call
    MaxSounds       \* bound on its sound effects and phrases

Bad == -1

ASSUME MixerAssumption ==
    /\ PacketFrames \subseteq Nat \cup {Bad}
    /\ {MaxPackets, QueueCapacity, RingFrames} \subseteq Nat \ {0}
    /\ {IdleTimeout, MaxArrivals, MaxSounds} \subseteq Nat
    /\ SampleRate \in Nat /\ SampleRate >= 100
    /\ \A e \in Effects : e.bytes \in Nat /\ e.bytes >= HeaderBytes /\ e.rate \in Nat \ {0}
    /\ \A p \in Phrases : {p.samples, p.channels, p.rate} \subseteq Nat /\ p.channels # 0

\* The samples of a 10 ms frame, and the lengths a sound may have.
FrameSamples == (SampleRate * 10) \div 1000
SoundLengths ==
    {EffectLength(EffectSamples(e.bytes), e.rate) : e \in Effects}
      \cup {SpeechLength(p.samples, p.channels, p.rate, SampleRate) : p \in Phrases}

VARIABLES
    running,    \* the decoder task
    opus,       \* opus_to_decoder
    speakers,   \* SpeakerState of the speakers known
    sounds,     \* samples of sounds, in sound_tx and sound_queue
    ring,       \* mumble_to_sip: the packets in each frame
    (* history *)
    heard,      \* the last packet of each speaker that the caller heard
    arrived,    \* packets so far
    asked,      \* sounds asked for
    promised,   \* their samples
    given       \* the samples of them mixed so far

vars == <<running, opus, speakers, sounds, ring, heard, arrived, asked, promised, given>>

Packet == [speaker : Speakers, id : 1..MaxArrivals, frames : PacketFrames]
Mixed == [Speakers -> 0..MaxArrivals]
NoVoice == [s \in Speakers |-> 0]

TypeOK ==
    /\ running \in BOOLEAN
    /\ opus \in Seq(Packet) /\ Len(opus) <= QueueCapacity
    /\ DOMAIN speakers \subseteq Speakers
    /\ \A s \in DOMAIN speakers :
         /\ speakers[s].packets \in Seq(Packet)
         /\ Len(speakers[s].packets) <= MaxPackets
         /\ speakers[s].pcm \in Seq(1..MaxArrivals)
         /\ speakers[s].idle \in 0..IdleTimeout + 1
    /\ {sounds, promised, given} \subseteq Nat
    /\ ring \in Seq(Mixed) /\ Len(ring) <= RingFrames
    /\ heard \in Mixed
    /\ arrived \in 0..MaxArrivals /\ asked \in 0..MaxSounds

Init ==
    /\ running = TRUE
    /\ opus = <<>>
    /\ speakers = <<>>
    /\ sounds = 0
    /\ ring = <<>>
    /\ heard = NoVoice
    /\ arrived = 0 /\ asked = 0 /\ promised = 0 /\ given = 0

-----------------------------------------------------------------------------
\* The event task: a packet that finds the channel full is dropped.
Arrive(s, n) ==
    /\ running
    /\ arrived < MaxArrivals /\ arrived' = arrived + 1
    /\ opus' = IF Len(opus) < QueueCapacity
               THEN Append(opus, [speaker |-> s, id |-> arrived', frames |-> n])
               ELSE opus
    /\ UNCHANGED <<running, speakers, sounds, ring, heard, asked, promised, given>>

\* A chime or a phrase: once the decoder has stopped, there is nobody to mix it.
AskSound(n) ==
    /\ asked < MaxSounds /\ asked' = asked + 1
    /\ promised' = promised + n
    /\ sounds' = IF running THEN sounds + n ELSE sounds
    /\ UNCHANGED <<running, opus, speakers, ring, heard, arrived, given>>

\* The connection has closed: the event task ends and with it the only sender; the
\* decoder, with all it holds, stops at the end of the channel.
Stop ==
    /\ running
    /\ opus = <<>>
    /\ running' = FALSE
    /\ speakers' = <<>> /\ sounds' = 0
    /\ UNCHANGED <<opus, ring, heard, arrived, asked, promised, given>>

NewSpeaker == [packets |-> <<>>, pcm |-> <<>>, idle |-> 0]

\* The jitter queue: the oldest packet makes room.
Queued(packets, p) ==
    Append(IF Len(packets) >= MaxPackets THEN Tail(packets) ELSE packets, p)

Receive ==
    /\ running
    /\ opus # <<>>
    /\ opus' = Tail(opus)
    /\ LET p     == Head(opus)
           s     == p.speaker
           state == IF s \in DOMAIN speakers THEN speakers[s] ELSE NewSpeaker
       IN  speakers' = [x \in DOMAIN speakers \cup {s} |->
                          IF x = s THEN [state EXCEPT !.packets = Queued(@, p), !.idle = 0]
                          ELSE speakers[x]]
    /\ UNCHANGED <<running, sounds, ring, heard, arrived, asked, promised, given>>

\* Mutant: a packet that cannot be decoded stays at the head of the queue.
DecodeKeepsBad(state) ==
    LET p    == state.packets
        full == {i \in 1..Len(p) : p[i].frames # 0}
        n    == IF full = {} THEN Len(p) ELSE Min(full)
        ok   == full # {} /\ p[n].frames # Bad
    IN  IF state.pcm # <<>> THEN state
        ELSE [state EXCEPT !.packets = SubSeq(p, IF full # {} /\ ~ok THEN n ELSE n + 1, Len(p)),
                           !.pcm = IF ok THEN [i \in 1..p[n].frames |-> p[n].id] ELSE <<>>]

\* Mutant: the latest packet is decoded.
DecodeLatest(state) ==
    LET p == state.packets IN
    IF state.pcm # <<>> \/ p = <<>> THEN state
    ELSE [state EXCEPT !.packets = Front(p),
                       !.pcm = IF Last(p).frames > 0
                               THEN [i \in 1..Last(p).frames |-> Last(p).id] ELSE <<>>]

\* A speaker without audio: packets are decoded until one yields audio, or fails.
Decode(state) ==
    LET p    == state.packets
        full == {i \in 1..Len(p) : p[i].frames # 0}
        n    == IF full = {} THEN Len(p) ELSE Min(full)
        ok   == full # {} /\ p[n].frames # Bad
    IN  IF state.pcm # <<>> THEN state
        ELSE [state EXCEPT !.packets = SubSeq(p, n + 1, Len(p)),
                           !.pcm = IF ok THEN [i \in 1..p[n].frames |-> p[n].id] ELSE <<>>]

\* Mutant: only the time decides.
StaleByTime(state, idle) == state.pcm = <<>> /\ idle > IdleTimeout

Stale(state, idle) == state.pcm = <<>> /\ state.packets = <<>> /\ idle > IdleTimeout

\* Mutant: a last, partial frame waits for more.
DrainWholeFrames == IF sounds < FrameSamples THEN 0 ELSE FrameSamples

\* drain_count: two sounds in a row may share a frame.
Drain == IF sounds < FrameSamples THEN sounds ELSE FrameSamples

\* One turn of the interval; d is the time since the last one, as ticks are skipped
\* when the task is late.
Tick(d) ==
    /\ running
    /\ LET decoded == [s \in DOMAIN speakers |-> Decode(speakers[s])]
           idle(s) == Min({speakers[s].idle + d, IdleTimeout + 1})
           stays   == {s \in DOMAIN speakers : ~Stale(decoded[s], idle(s))}
           voices  == {s \in stays : decoded[s].pcm # <<>>}
           sound   == sounds > 0
           mixed   == [s \in Speakers |-> IF s \in voices THEN Head(decoded[s].pcm) ELSE 0]
       IN  /\ speakers' = [s \in stays |->
                             [packets |-> decoded[s].packets,
                              pcm     |-> IF s \in voices THEN Tail(decoded[s].pcm) ELSE <<>>,
                              idle    |-> idle(s)]]
           /\ sounds' = sounds - Drain
           /\ given' = given + Drain
           /\ ring' = IF (voices # {} \/ sound) /\ Len(ring) < RingFrames
                      THEN Append(ring, mixed) ELSE ring
    /\ UNCHANGED <<running, opus, heard, arrived, asked, promised>>

\* port_get_frame; from an empty ring it makes silence, and changes nothing here.
GetFrame ==
    /\ ring # <<>>
    /\ ring' = Tail(ring)
    /\ heard' = [s \in Speakers |-> IF Head(ring)[s] = 0 THEN heard[s] ELSE Head(ring)[s]]
    /\ UNCHANGED <<running, opus, speakers, sounds, arrived, asked, promised, given>>

Next ==
    \/ \E s \in Speakers, n \in PacketFrames : Arrive(s, n)
    \/ \E n \in SoundLengths : AskSound(n)
    \/ Stop \/ Receive
    \/ \E d \in {1, IdleTimeout + 1} : Tick(d)
    \/ GetFrame

Spec == Init /\ [][Next]_vars

\* The interval keeps ticking while the task runs, and the task takes what is sent.
Fairness == WF_vars(\E d \in {1, IdleTimeout + 1} : Tick(d)) /\ WF_vars(Receive)

FairSpec == Spec /\ Fairness

-----------------------------------------------------------------------------
\* Where the packets of a speaker are: its ear, the ring, the PCM, its queue and the
\* channel, as triples of the stage, the position in it and the packet.
Places(s) ==
    {<<0, 0, heard[s]>>}
      \cup {<<1, i, ring[i][s]>> : i \in {j \in 1..Len(ring) : ring[j][s] # 0}}
      \cup (IF s \in DOMAIN speakers
            THEN {<<2, i, speakers[s].pcm[i]>> : i \in 1..Len(speakers[s].pcm)}
                   \cup {<<3, i, speakers[s].packets[i].id>> :
                           i \in 1..Len(speakers[s].packets)}
            ELSE {})
      \cup {<<4, i, opus[i].id>> : i \in {j \in 1..Len(opus) : opus[j].speaker = s}}

Earlier(a, b) == a[1] < b[1] \/ (a[1] = b[1] /\ a[2] < b[2])

\* Through channel, jitter queue, decoder and ring, however much is dropped on the
\* way, a speaker is heard in order (bridge.rs:201-232, 275-309).
PlayedInOrder ==
    \A s \in Speakers : \A a, b \in Places(s) : Earlier(a, b) => a[3] <= b[3]

\* A speaker forgotten as idle had nothing left to say, even when its queue could
\* not be decoded and the ticks came late (bridge.rs:218-225).
IdleHadNothing ==
    [][running' => \A s \in DOMAIN speakers \ DOMAIN speakers' :
         /\ speakers[s].pcm = <<>>
         /\ \A p \in ToSet(speakers[s].packets) : p.frames \in {0, Bad}]_vars

\* What a speaker has queued is decoded or dropped in the end: a packet that cannot
\* be decoded does not silence its speaker (bridge.rs:201-216).
QueuesDrain ==
    \A s \in Speakers :
      [](running => <>(~running \/ (s \in DOMAIN speakers => speakers[s].packets = <<>>)))

\* "Always provide immediate audible feedback for DTMF navigation"
\* (session.rs:827): every sample of every sound and phrase asked for is mixed, with
\* or without voices beside it, to the last, partial frame, as long as the decoder
\* runs.  When the Mumble connection closes under a call that stays up, it no longer
\* does.
SoundsGiven == <>[](given = promised \/ ~running)
=============================================================================
