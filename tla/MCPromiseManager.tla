-------------------------- MODULE MCPromiseManager --------------------------
(* Small instances of PromiseManager for TLC.                              *)
EXTENDS PromiseRefinement, TLC

CONSTANTS c1, c2, c3, i1, i2, i3, iLong

MCCalls == {c1, c2, c3}
MCTwoCalls == {c1, c2}
MCIds == {i1, i2, i3}
MCTwoIds == {i1, i2}
MCOneId == {i1, iLong}
MCLongIds == {iLong}
MCNoIds == {}
MCTimeouts == {0, None}

FreshSymmetry == Permutations(MCCalls) \union Permutations(MCIds)
ReuseSymmetry == Permutations(MCCalls) \union Permutations(MCTwoIds)

=============================================================================
