--------------------------- MODULE MCJobLifecycle ---------------------------
(* Model-checking instances of JobLifecycle. *)
EXTENDS JobLifecycle, TLC

\* Jobs, providers and request slots are interchangeable.
Symmetry == Permutations(Jobs) \cup Permutations(Providers) \cup Permutations(Requests)
=============================================================================
