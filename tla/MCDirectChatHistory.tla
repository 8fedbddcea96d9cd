------------------------- MODULE MCDirectChatHistory -------------------------
(***************************************************************************)
(* The instance TLC checks with several callers.  Every caller runs the    *)
(* same code and only safety is asked of that instance, so the callers are *)
(* interchangeable.                                                        *)
(***************************************************************************)
EXTENDS DirectChatHistoryInv, TLC

CallerSymmetry == Permutations(Callers)
=============================================================================
