------------------------------ MODULE MCDocker ------------------------------
(* Instances of Docker for TLC. *)
EXTENDS Docker
=============================================================================
