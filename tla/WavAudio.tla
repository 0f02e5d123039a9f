------------------------------ MODULE WavAudio ------------------------------
(***************************************************************************)
(* The sample arithmetic of the two WAV decoders: decode_wav_48k for the   *)
(* embedded sound effects, and mix_to_mono and linear_resample for what    *)
(* the TTS server answers.  Samples are counted and indexed from 0, as in  *)
(* the code; what they are worth is data.  The code computes with f64, the *)
(* model with the exact quotients.                                         *)
(***************************************************************************)
EXTENDS Integers

CeilDiv(a, b) == (a + b - 1) \div b

EffectRate == 48000
HeaderBytes == 44

\* The samples decode_wav_48k reads: all that follows a header of fixed length.
EffectSamples(bytes) == (bytes - HeaderBytes) \div 2

\* Its result for n samples at rate, and the two samples its i-th is mixed from.
EffectLength(n, rate) ==
    IF rate = EffectRate THEN n ELSE CeilDiv(n * EffectRate, rate)
EffectIndex(i, rate) == (i * rate) \div EffectRate
EffectNext(i, n, rate) ==
    IF EffectIndex(i, rate) + 1 < n THEN EffectIndex(i, rate) + 1 ELSE EffectIndex(i, rate)

\* mix_to_mono: a last, partial frame counts.
MonoLength(n, channels) == IF channels <= 1 THEN n ELSE CeilDiv(n, channels)

\* linear_resample: n * out / in to the nearest integer, halves up.
ResampledLength(n, in, out) ==
    CASE n = 0 \/ in = 0 \/ out = 0 -> 0
      [] n # 0 /\ in # 0 /\ in = out -> n
      [] OTHER -> (2 * n * out + in) \div (2 * in)
Left(i, in, out) == (i * in) \div out
Right(i, n, in, out) ==
    IF Left(i, in, out) + 1 <= n - 1 THEN Left(i, in, out) + 1 ELSE n - 1

\* The length of a synthesized phrase (decode_and_resample_wav).
SpeechLength(n, channels, in, out) == ResampledLength(MonoLength(n, channels), in, out)
=============================================================================
