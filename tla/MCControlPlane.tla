---------------------------- MODULE MCControlPlane ----------------------------
(***************************************************************************)
(* ControlPlane on small instances.  Sessions, provider ids, images and    *)
(* the slots of one kind are interchangeable.                              *)
(***************************************************************************)
EXTENDS ControlPlane, TLC

Symmetry == Permutations(Sessions) \cup Permutations(Instances) \cup Permutations(Images)
              \cup Permutations(Provs) \cup Permutations(Deleters) \cup Permutations(Conns) \cup Permutations(Reqs)

=============================================================================
