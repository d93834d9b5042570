------------------------- MODULE MCChannelLifecycle -------------------------
(* Two users of close(), a server task and a client-style owner.           *)
EXTENDS ChannelLifecycle

CONSTANTS u1, u2, d1, o1

MCClosers == {u1, u2}
MCDroppers == {d1}
MCOwners == {o1}

=============================================================================
