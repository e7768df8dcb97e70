------------------------------- MODULE MCHall -------------------------------
(* A small instance of Hall for TLC: three connections, so that a kick and a *)
(* bystander meet; two users and two game servers to confuse.  A liveness    *)
(* property is checked with the rest, hence no symmetry.                     *)
EXTENDS Hall
=============================================================================
