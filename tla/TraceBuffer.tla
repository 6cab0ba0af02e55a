----------------------------- MODULE TraceBuffer -----------------------------
(***************************************************************************)
(* The instruction trace buffer of a core: a ring of lines, an instruction *)
(* taking one line or more, and what dsu_get_instr_trace_buffer makes of   *)
(* it.  The address space of the buffer is 16 times its size (256 lines in *)
(* 0x10000 bytes); the lines repeat in it, as the code takes for granted.  *)
(***************************************************************************)
EXTENDS Integers, Sequences

CONSTANT Lines

ASSUME LinesAssumption == Lines \in Nat \ {0}

Space == 16 * Lines
At(ring, a) == ring[a % Lines]

(* Variant: not wrapped. *)
FirstLineUnwrapped(pointer, skip, count) == pointer - skip - count
(* Go back over the lines to skip and the lines to read. *)
FirstLine(pointer, skip, count) == (pointer - skip - count) % Space

(* Up to the end of the space, then the rest from its start. *)
ReadSize(first, count) == IF first + count > Space THEN Space - first ELSE count
Fetch(ring, first, count) == [k \in 1..count |-> At(ring, first + k - 1)]

(* A line is the first of its instruction or a continuation. *)
Begins(line) == line.part = 0

(* The core writes an instruction of size lines at the pointer. *)
Record(ring, pointer, c, id, size) ==
  [a \in 0..(Lines - 1) |->
     LET k == (a - pointer) % Lines
     IN  IF k < size THEN [core |-> c, id |-> id, part |-> k] ELSE ring[a]]
=============================================================================
