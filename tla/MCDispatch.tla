----------------------------- MODULE MCDispatch -----------------------------
(* A call and the call that its method makes, or two calls that cross.       *)
EXTENDS DispatchRefinement

=============================================================================
