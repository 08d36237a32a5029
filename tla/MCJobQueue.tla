----------------------------- MODULE MCJobQueue -----------------------------
(* Instances of JobQueue for TLC. *)
EXTENDS JobQueue, TLC

CONSTANTS i1, i2, c1

TwoImports == (i1 :> "import") @@ (i2 :> "import")
ImportScheduled == (i1 :> "import") @@ (c1 :> "scheduled")

(* Two imports can be told apart by nothing but their names. *)
SwapImports == Permutations({i1, i2})
=============================================================================
