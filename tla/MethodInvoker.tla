---------------------------- MODULE MethodInvoker ----------------------------
(***************************************************************************)
(* RpcMethodInvoker: which methods a peer may call, and how the params of  *)
(* a request become the arguments of a Python call.                        *)
(*                                                                         *)
(* A parameter is its place in the signature: the positional-only ones     *)
(* come first, then the standard ones, then the keyword-only ones.  The    *)
(* last `optional' positional ones have a default, as Python demands.      *)
(* Place 0 is a name the signature does not have.                          *)
(***************************************************************************)
EXTENDS Integers

(* What the name of the requested method stands for.                       *)
Accesses == {"public", "builtin", "private", "missing", "notCallable"}

(* validate_method.  A private name starts with "_"; ping and              *)
(* _get_channel_id_ are exposed although the second does.                  *)
MayCall(access) == access \in {"public", "builtin"}

-----------------------------------------------------------------------------
(* Signatures: inspect.signature of a bound method.                        *)
IsSignature(sig) ==
    /\ sig.positionalOnly \in Nat
    /\ sig.standard \in Nat
    /\ sig.optional \in 0 .. sig.positionalOnly + sig.standard
    /\ sig.keywordRequired \in Nat
    /\ sig.keywordOptional \in Nat
    /\ sig.varArgs \in BOOLEAN
    /\ sig.varKeywords \in BOOLEAN

Positional(sig) == sig.positionalOnly + sig.standard
KeywordOnly(sig) == sig.keywordRequired + sig.keywordOptional

Nullary ==
    [positionalOnly |-> 0, standard |-> 0, optional |-> 0,
     keywordRequired |-> 0, keywordOptional |-> 0,
     varArgs |-> FALSE, varKeywords |-> FALSE]

(* len(method_params): *args and **kwargs are left out.                    *)
MaxCount(sig) == Positional(sig) + KeywordOnly(sig)

(* The parameters without a default.                                       *)
Required(sig) ==
    (1 .. Positional(sig) - sig.optional)
        \cup (Positional(sig) + 1 .. Positional(sig) + sig.keywordRequired)

RequiredCount(sig) ==
    Positional(sig) - sig.optional + sig.keywordRequired

-----------------------------------------------------------------------------
(* convert_params: params is absent, a set of names, or a list of count    *)
(* values.  The value named by place i, and the i-th of a list, is i.      *)
NoParams == [kind |-> "none"]
Named(names) == [kind |-> "named", names |-> names]
Listed(count) == [kind |-> "listed", count |-> count]

IsParams(params) ==
    \/ params = NoParams
    \/ /\ params.kind = "named"
       /\ params = Named(params.names)
       /\ params.names \subseteq Nat
    \/ /\ params.kind = "listed"
       /\ params = Listed(params.count)
       /\ params.count \in Nat

(* Mutant: methods with keyword-only parameters are let through.           *)
ListRefused_KeywordOnly(sig, count) ==
    \/ count > MaxCount(sig)
    \/ count < RequiredCount(sig)

(* _convert_positional_params raises ValueError.                           *)
ListRefused(sig, count) ==
    \/ KeywordOnly(sig) > 0
    \/ count > MaxCount(sig)
    \/ count < RequiredCount(sig)

ParamsRefused(sig, params) ==
    params.kind = "listed" /\ ListRefused(sig, params.count)

Arguments(params) ==
    CASE params.kind = "none"   -> [i \in {} |-> i]
      [] params.kind = "named"  -> [i \in params.names |-> i]
      [] params.kind = "listed" -> [i \in 1 .. params.count |-> i]

-----------------------------------------------------------------------------
(* External: how Python binds the arguments of a call.                     *)
ByKeyword(sig) == sig.positionalOnly + 1 .. MaxCount(sig)

(* The call by keyword: a name the signature cannot take by keyword goes   *)
(* to **kwargs or is a TypeError.                                          *)
BindsByName(sig, names) ==
    /\ names \subseteq ByKeyword(sig) \/ sig.varKeywords
    /\ Required(sig) \subseteq names \cap ByKeyword(sig)

(* The call by position with count values: the reference for a list.       *)
BindsByPosition(sig, count) ==
    /\ count <= Positional(sig) \/ sig.varArgs
    /\ Required(sig) \subseteq 1 .. count
    /\ Required(sig) \subseteq 1 .. Positional(sig)

(* What each call gives to the parameters; **kwargs and *args are left out. *)
BoundByName(sig, args) ==
    [i \in DOMAIN args \cap ByKeyword(sig) |-> args[i]]

BoundByPosition(sig, count) ==
    [i \in {j \in 1 .. count : j <= Positional(sig)} |-> i]

(* The converted list binds, and binds what a call by position would.      *)
ListAgrees(sig, count) ==
    /\ BindsByName(sig, 1 .. count)
    /\ BindsByPosition(sig, count)
    /\ BoundByName(sig, Arguments(Listed(count))) = BoundByPosition(sig, count)

(* Values of the list go, by their names, to positional-only parameters:   *)
(* f(a = 0, /, **kw) with [1] receives kw = {"a": 1}.                      *)
Astray(sig, count) == sig.positionalOnly > 0 /\ count > 0

(* Python would take the list, and the code or the call by name does not.  *)
RefusedWithoutNeed(sig, count) ==
    /\ ListRefused(sig, count) \/ ~BindsByName(sig, 1 .. count)
    /\ BindsByPosition(sig, count)

=============================================================================
