--------------------------- MODULE MCTrapDispatch ---------------------------
(***************************************************************************)
(* An instance of TrapDispatch for TLC: alarm 1 and the USB controller,    *)
(* and alarm 2, which has no handler.                                      *)
(***************************************************************************)
EXTENDS TrapDispatch

AllPriorities == [Irqs -> 0..Levels]

=============================================================================
