---------------------------- MODULE MCEventHub ----------------------------
(* Instances of EventHub: a subscriber of one workspace. *)
EXTENDS EventHub

CONSTANTS w1

OneWorkspace == [p \in Publishers |-> w1]

=============================================================================
