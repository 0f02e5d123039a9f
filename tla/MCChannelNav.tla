---------------------------- MODULE MCChannelNav ----------------------------
(* Small instances of ChannelNav. *)
EXTENDS ChannelNav

CONSTANTS u1, u2

OneUser  == {u1}
TwoUsers == {u1, u2}
NoUsers  == {}
\* Channel 1 has been removed.
WithGap == {0, 2, 3}
AnyTarget == {None, 2}
AnyLanding == {0, 2}
\* Never stored, the root, a removed channel, an existing one, one above the highest.
AnyLastChannel == {None, 0, 1, 2, 4}
=============================================================================
