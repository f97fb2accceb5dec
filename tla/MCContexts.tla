----------------------------- MODULE MCContexts -----------------------------
(* Instances of Contexts for TLC. *)
EXTENDS ContextsInv

\* The last device has a driver without reinit.
FirstOnly == {1}
=============================================================================
