--------------------------- MODULE MCControlChannel ---------------------------
EXTENDS ControlChannel

CONSTANTS d1, s1, s2, s3

(* One device and the sockets of its reconnections, opened in any order:   *)
(* devices share no entry of the channel's maps.                           *)
OneDevice == [s \in {s1, s2, s3} |-> d1]

==============================================================================
