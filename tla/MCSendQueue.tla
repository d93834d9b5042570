----------------------------- MODULE MCSendQueue -----------------------------
(* Four senders on a channel with one, two or unlimited slots.             *)
EXTENDS SendQueue, TLC

CONSTANTS s1, s2, s3, s4

MCSenders == {s1, s2, s3, s4}
MCLimits == {0, 1, 2}

=============================================================================
