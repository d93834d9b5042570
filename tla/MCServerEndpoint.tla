-------------------------- MODULE MCServerEndpoint --------------------------
(* Two connections to one endpoint.                                        *)
EXTENDS ServerEndpoint

CONSTANTS w1, w2

MCTwo == {w1, w2}
MCOne == {w1}

=============================================================================
