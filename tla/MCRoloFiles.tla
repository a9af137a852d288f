----------------------------- MODULE MCRoloFiles -----------------------------
(* RoloFiles for TLC: the instances are interchangeable.                    *)
EXTENDS RoloFiles

Interchangeable == Permutations(Procs)
=============================================================================
