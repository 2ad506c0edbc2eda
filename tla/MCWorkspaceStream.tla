------------------------- MODULE MCWorkspaceStream -------------------------
(* Instances of WorkspaceStream: the publishers are interchangeable. *)
EXTENDS WorkspaceStream, TLC
PublisherSymmetry == Permutations(Publishers)
=============================================================================
