----------------------------- MODULE MCAsyncTask -----------------------------
(***************************************************************************)
(* Model-checking instance of AsyncTask: t1 and t2 are tasks of a scope,   *)
(* the first joined by the second, and t3 is in an AbortOnDropHandle.      *)
(***************************************************************************)
EXTENDS AsyncTask, TLC

CONSTANTS t1, t2, t3

Nested == t1 :> t2 @@ t2 :> Main @@ t3 :> Main
Symmetry == Permutations(Runner)
=============================================================================
