---------------------------- MODULE MCAudioMixer ----------------------------
(* Small instances of AudioMixer. *)
EXTENDS AudioMixer

CONSTANTS s1, s2

TwoSpeakers == {s1, s2}
AnyPacket   == {Bad, 0, 2}

\* At 200 Hz a frame has two samples: an effect whose one sample (and an odd byte) is
\* resampled to three, a frame and a half, and a stereo phrase of as many.  Two of them
\* in a row share a frame.
AnEffect == {[bytes |-> HeaderBytes + 3, rate |-> 20000]}
APhrase  == {[samples |-> 12, channels |-> 2, rate |-> 400]}

\* The decoders on all files of up to eight samples: they read nothing outside of
\* their input, as the theorems state of every file.
ASSUME SmallFilesInBounds ==
    \A n \in 1..8, in, out \in 1..9 :
      \A i \in 0..ResampledLength(n, in, out) - 1 : Right(i, n, in, out) \in 0..n - 1
=============================================================================
