---------------------------- MODULE LogicalReplay ----------------------------
(***************************************************************************)
(* What a window promises, free of any encoding: its logical instructions, *)
(* applied in order, append bytes to the target until it is complete.      *)
(* This is codec.replay_window; a decoder of the encoded window must do    *)
(* the same, instruction by instruction.                                   *)
(***************************************************************************)
EXTENDS Replay

VARIABLES
  window,   \* [source, target, instructions]
  applied,  \* the number of instructions applied
  output    \* the bytes of the target they produced

Init ==
  /\ IsWindow(window)
  /\ applied = 0
  /\ output = <<>>

Apply ==
  /\ applied < Len(window.instructions)
  /\ LET instruction == window.instructions[applied + 1]
     IN  /\ Replayable(window, instruction, output)
         /\ output' = output \o Produced(window, instruction, output)
  /\ applied' = applied + 1
  /\ UNCHANGED window

Spec == Init /\ [][Apply]_<<window, applied, output>>
=============================================================================
