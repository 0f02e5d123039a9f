---------------------------- MODULE MCTtsRuntime ----------------------------
(* Small instances of TtsRuntime. *)
EXTENDS TtsRuntime

CONSTANTS r1, r2, r3, p1, p2

ThreeRequests == {r1, r2, r3}
TwoPhrases    == {p1, p2}
=============================================================================
