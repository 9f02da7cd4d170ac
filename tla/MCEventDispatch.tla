--------------------------- MODULE MCEventDispatch ---------------------------
(***************************************************************************)
(* Small instances of EventDispatch for TLC: how the names are bound to    *)
(* the consumers of a run.                                                 *)
(***************************************************************************)
EXTENDS EventDispatch, TLC

\* Two consumers: the first binds name 1, the second the names left.
FirstBinds1 == <<{1}, {}>>

\* Two consumers that bind no name with a callback.
TwoBindNone == <<{}, {}>>

\* One consumer that only has the catch-all callbacks.
NoneBound == <<{}>>

\* The attached clients are interchangeable.
Clients == Permutations(External)
=============================================================================
