------------------------------ MODULE MCMemory ------------------------------
(* A small instance of Memory: two pages behind one page table. *)
EXTENDS Memory, TLC

CONSTANTS s1, s2, s3, p1, p2, tab

Spaces == {s1, s2, s3}
Symmetry == Permutations(Spaces)
Pages == {p1, p2}
Tables == {tab}
PageToTable == p1 :> tab @@ p2 :> tab

(* States that differ only in which frame is which are the same state: a   *)
(* frame is known by the slots that hold it, and of the others only how    *)
(* many there are with which count and contents.                           *)
HeldAt(f) == {<<s, x>> \in Space \X Slot : own[s][x] = f}
Spare == {f \in Frame : HeldAt(f) = {}}
UpToFrameNames ==
    <<live, owned, mode, {<<HeldAt(f), refs[f], mem[f]>> : f \in Frame \ Spare},
      {<<r, v, Cardinality({f \in Spare : refs[f] = r /\ mem[f] = v})>> :
           r \in 0..RefMax, v \in Value}>>
============================================================================
