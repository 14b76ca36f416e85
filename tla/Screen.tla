------------------------------- MODULE Screen -------------------------------
(* The text screen (devices/vga.c) and what it must show.                    *)
(*                                                                           *)
(* The cursor is in column cx of row cy, both from 0.                        *)
EXTENDS Integers, Sequences

CONSTANTS COL_CNT, ROW_CNT, TabStop

EmptyRow == [x \in 1 .. COL_CNT |-> " "]
cls == [fb |-> [y \in 1 .. ROW_CNT |-> EmptyRow], cx |-> 0, cy |-> 0]
newline(v) ==
    IF v.cy + 1 >= ROW_CNT
    THEN [v EXCEPT !.cx = 0, !.cy = ROW_CNT - 1, !.fb = Append(Tail(@), EmptyRow)]
    ELSE [v EXCEPT !.cx = 0, !.cy = @ + 1]
vga_putc(v, c) ==
    LET tab == ((v.cx + TabStop) \div TabStop) * TabStop
        written == [v EXCEPT !.fb[v.cy + 1][v.cx + 1] = c, !.cx = @ + 1]
    IN  CASE c = "newline" -> newline(v)
          [] c = "formfeed" -> cls
          [] c = "backspace" -> IF v.cx > 0 THEN [v EXCEPT !.cx = @ - 1] ELSE v
          [] c = "return" -> [v EXCEPT !.cx = 0]
          [] c = "tab" -> IF tab >= COL_CNT THEN newline([v EXCEPT !.cx = tab]) ELSE [v EXCEPT !.cx = tab]
          [] c = "bell" -> v
          [] OTHER -> IF written.cx >= COL_CNT THEN newline(written) ELSE written
RECURSIVE Shows(_, _)
Shows(v, text) == IF text = <<>> THEN v ELSE Shows(vga_putc(v, Head(text)), Tail(text))
-----------------------------------------------------------------------------
(* What it must show *)

\* the lines of a text of letters and newlines; a full line ends itself
RECURSIVE Lines(_, _)
Lines(text, line) ==
    IF text = <<>> THEN <<line>>
    ELSE LET longer == Append(line, Head(text))
         IN  CASE Head(text) = "newline" -> <<line>> \o Lines(Tail(text), <<>>)
               [] Head(text) # "newline" /\ Len(longer) = COL_CNT -> <<longer>> \o Lines(Tail(text), <<>>)
               [] OTHER -> Lines(Tail(text), longer)
ScreenRight(text, v) ==
    LET lines == Lines(text, <<>>)
        scrolled == IF Len(lines) > ROW_CNT THEN Len(lines) - ROW_CNT ELSE 0
        Row(y) == IF y + scrolled > Len(lines) THEN <<>> ELSE lines[y + scrolled]
    IN  /\ v.cx < COL_CNT /\ v.cy < ROW_CNT
        /\ (\A i \in DOMAIN text : text[i] \in {"a", "b", "newline"}) =>
             /\ v.cx = Len(lines[Len(lines)]) /\ v.cy = Len(lines) - scrolled - 1
             /\ \A y \in 1 .. ROW_CNT : v.fb[y] = Row(y) \o [i \in 1 .. (COL_CNT - Len(Row(y))) |-> " "]

Texts == UNION {[1 .. n -> {"a", "b", "newline", "formfeed", "backspace", "return", "tab", "bell"}] : n \in 0 .. 3}
         \union [1 .. 7 -> {"a", "newline"}] \union [1 .. 5 -> {"a", "b", "tab", "backspace"}]
=============================================================================
