----------------------------- MODULE MCTwinArms -----------------------------
(* Tapes of four draws for the mesh and two for the overlay. *)
EXTENDS TwinArms

MCSeeds == [mesh : [1 .. 4 -> 0 .. 3], overlay : [1 .. 2 -> {0, 3}]]
=============================================================================
