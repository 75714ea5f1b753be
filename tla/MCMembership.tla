---------------------------- MODULE MCMembership ----------------------------
(* Instances of Membership for TLC. *)
EXTENDS Membership

CONSTANTS m1, m2, c1, u1, g1

MCGroupOf == [c \in Claims |-> g1]

\* Every Member is for the user, or for the group of the one claim.
MCRefOf == [m \in Members |-> IF Claims = {} THEN u1 ELSE c1]

=============================================================================
