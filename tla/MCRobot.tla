------------------------------ MODULE MCRobot ------------------------------
(* Instances of Robot for TLC. *)
EXTENDS Robot

CONSTANTS o1, s1, s2

MCRobotName == [o \in Objects |-> "robot$ci"]

MCDest == [o \in Objects |-> s1]

=============================================================================
