--------------------------- MODULE MCReadCursors ---------------------------
(* ReadCursors with interchangeable tabs, for safety. *)
EXTENDS ReadCursors, TLC

TabSymmetry == Permutations(Tabs)
=============================================================================
