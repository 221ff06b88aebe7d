-------------------------- MODULE MCTaskSubmit --------------------------
(* Small instances of TaskSubmit. *)
EXTENDS TaskSubmit, TLC

CONSTANTS r1, r2, r3, r4, k1

\* Two requests repeat one key, the third has none.
SharedKey == (r1 :> k1) @@ (r2 :> k1) @@ (r3 :> NoKey)

\* Nobody sends a key.
Unkeyed == [r \in Requests |-> NoKey]

\* Sound where no request is told apart by its key.
RequestSymmetry == Permutations(Requests)
=========================================================================
