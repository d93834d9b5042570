-------------------------- MODULE MCProtocolHandler --------------------------
(* All signatures with up to one positional-only, two standard and two      *)
(* keyword-only parameters.                                                 *)
EXTENDS ProtocolHandler, TLC

MCSignatures ==
    {sig \in [positionalOnly : 0 .. 1, standard : 0 .. 2, optional : 0 .. 3,
              keywordRequired : 0 .. 1, keywordOptional : 0 .. 1,
              varArgs : BOOLEAN, varKeywords : BOOLEAN] : IsSignature(sig)}

MCParamLists ==
    {NoParams} \cup {Named(names) : names \in SUBSET (0 .. 4)}
               \cup {Listed(count) : count \in 0 .. 4}

=============================================================================
