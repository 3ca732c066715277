-------------------------------- MODULE Video -------------------------------
(***************************************************************************)
(* The text screen (drivers/serial/i386.c) as operators on a record        *)
(*   [vx, vy, vmem, stray]                                                 *)
(* the cursor, the cells row by row, and whether a cell outside the screen *)
(* was written.  A cell that was never written or was cleared is "".  "NL" *)
(* and "BS" are the characters newline and backspace.                      *)
(***************************************************************************)
EXTENDS Integers, Sequences

CONSTANTS Columns, Rows  \* 80 and 25

ASSUME VideoAssumption == Columns \in Nat \ {0} /\ Rows \in Nat \ {0}

Cell == 0..(Columns * Rows - 1)

IsVideo(v, Chars) ==
  /\ v.vx \in Int /\ v.vy \in Int
  /\ v.vmem \in [Cell -> Chars \cup {""}]
  /\ v.stray \in BOOLEAN

video_clear == [vx |-> 0, vy |-> 0, vmem |-> [p \in Cell |-> ""], stray |-> FALSE]

\* Faulty variant: the last row keeps its text.
scroll_without_memset(v) ==
  [v EXCEPT !.vmem = [p \in Cell |-> IF p + Columns \in Cell THEN v.vmem[p + Columns] ELSE v.vmem[p]],
            !.vy = @ - 1]

video_scroll(v) ==
  [v EXCEPT !.vmem = [p \in Cell |-> IF p + Columns \in Cell THEN v.vmem[p + Columns] ELSE ""],
            !.vy = @ - 1]

\* The end of video_putc: wrap, then scroll.
Advance(v) ==
  LET w == IF v.vx >= Columns THEN [v EXCEPT !.vx = 0, !.vy = @ + 1] ELSE v
  IN  IF w.vy >= Rows THEN video_scroll(w) ELSE w

PutGlyph(v, c) ==
  LET p == v.vx + v.vy * Columns
  IN  Advance([v EXCEPT !.vmem = IF p \in Cell THEN [@ EXCEPT ![p] = c] ELSE @,
                        !.stray = @ \/ p \notin Cell,
                        !.vx = @ + 1])

\* A backspace prints a space one column to the left and steps back again.
video_putc(v, c) ==
  CASE c = "NL" -> Advance([v EXCEPT !.vx = 0, !.vy = @ + 1])
    [] c = "BS" -> Advance([PutGlyph([v EXCEPT !.vx = @ - 1], " ") EXCEPT !.vx = @ - 1])
    [] OTHER    -> PutGlyph(v, c)
=============================================================================
