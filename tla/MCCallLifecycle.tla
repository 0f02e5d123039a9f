--------------------------- MODULE MCCallLifecycle ---------------------------
(* Small instances of CallLifecycle. *)
EXTENDS CallLifecycle, TLC

CONSTANTS k1, k2, s1, s2

TwoCalls  == {k1, k2}
OneSlot   == {s1}
TwoSlots  == {s1, s2}
NoFaults  == {}
AllFaults == {"add_port", "remove_port", "remove_op", "get_info"}

\* Calls are interchangeable, and so are call ids.
Symmetry == Permutations(TwoCalls) \cup Permutations(TwoSlots)
=============================================================================
