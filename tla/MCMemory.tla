------------------------------- MODULE MCMemory -------------------------------
(* A small instance of Memory for TLC.                                        *)
EXTENDS Memory

Symmetric == Permutations(Blocks) \cup Permutations(Slices) \cup Permutations(Data)

===============================================================================
