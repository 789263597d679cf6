------------------------------- MODULE Replay -------------------------------
(***************************************************************************)
(* codec.replay_window as operators: the bytes that the instructions of a  *)
(* window stand for, and which windows it accepts.  A window is a record   *)
(* of its source segment, its target and its instructions.                 *)
(***************************************************************************)
EXTENDS Instructions

(* WindowTrace: the instructions tile the target without gap or overlap.   *)
IsWindow(w) ==
  LET end(i) == w.instructions[i].position + w.instructions[i].size
      n == Len(w.instructions)
  IN  /\ \A i \in 1..n :
           w.instructions[i].position = IF i = 1 THEN 0 ELSE end(i - 1)
      /\ Len(w.target) = IF n = 0 THEN 0 ELSE end(n)

(* Bytes a COPY yields when the output it reads from grows under it.       *)
Copied(source, out, address, size) ==
  LET byte[i \in 0..(size - 1)] ==
        LET at == address + i
            here == Len(source) + Len(out)
        IN  IF at < Len(source) THEN source[at + 1]
            ELSE IF at < here THEN out[at - Len(source) + 1]
            ELSE byte[at - here]
  IN  [i \in 1..size |-> byte[i - 1]]

(* The bytes an instruction stands for, when out precedes it.              *)
Produced(w, instruction, out) ==
  CASE instruction.type = ADD  ->
         SubSeq(w.target, instruction.position + 1,
                instruction.position + instruction.size)
    [] instruction.type = RUN  ->
         [i \in 1..instruction.size |-> instruction.byte]
    [] instruction.type = COPY ->
         Copied(w.source, out, instruction.address, instruction.size)

(* replay_window refuses a COPY that starts in the source and leaves it,   *)
(* and one that reads at or past the end of the output.                    *)
Replayable(w, instruction, out) ==
  instruction.type = COPY =>
    IF instruction.address < Len(w.source)
    THEN instruction.address + instruction.size <= Len(w.source)
    ELSE instruction.address < Len(w.source) + Len(out)

(* replay_window on a whole window: the output so far after each           *)
(* instruction, and whether it accepts the window.                         *)
Outputs(w) ==
  LET out[i \in 0..Len(w.instructions)] ==
        IF i = 0 THEN <<>>
        ELSE out[i - 1] \o Produced(w, w.instructions[i], out[i - 1])
  IN  out

Accepts(w) ==
  LET out == Outputs(w)
      n == Len(w.instructions)
  IN  /\ \A i \in 1..n : Replayable(w, w.instructions[i], out[i - 1])
      /\ out[n] = w.target
=============================================================================
