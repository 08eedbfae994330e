----------------------------- MODULE MCEnlistment -----------------------------
(* Small instances of Enlistment: the slots are interchangeable.          *)
EXTENDS Enlistment, TLC
CONSTANTS i1, s1, s2

MCOne == {i1}
MCSlots == {s1, s2}
MCSymmetry == Permutations(Identities) \cup Permutations(Slots)
=============================================================================
