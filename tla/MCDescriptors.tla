--------------------------- MODULE MCDescriptors ---------------------------
(* Small instances of Descriptors. *)
EXTENDS Descriptors, TLC

CONSTANTS t1, t2, f1

Tasks2 == {t1, t2}
Symmetry == Permutations(Tasks2)
OneFile == {f1}
============================================================================
