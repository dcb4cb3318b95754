------------------------------ MODULE Terminal ------------------------------
(***************************************************************************)
(* The text terminal behind /dev/console: the ANSI automaton of devfs.c,   *)
(* the dispatch of klib.c and the two drivers it chooses from, the         *)
(* framebuffer (framebuffer.c) with its back buffer and dirty rectangle,   *)
(* and VGA text mode (vga.c), which writes to the screen at once.          *)
(*                                                                         *)
(* The terminal is a record t.  The unit of the framebuffer is a character *)
(* cell: a glyph is always drawn whole.  A cell holds the character and    *)
(* its colour.  Characters are strings; "ESC" is the escape character,     *)
(* "NL", "CR", "BS", "TAB" the controls, "U2", "U3", "U4" the lead bytes   *)
(* of UTF-8 sequences of that length, "UC" a continuation byte.            *)
(***************************************************************************)
EXTENDS Integers, Sequences, SequencesExt, FiniteSetsExt, Functions

CONSTANTS Rows, Cols,      \* size of the screen in cells
          TabStop,         \* 4
          AnsiBuffer       \* sizeof(ansi_buffer) - 1

TerminalAssumption ==
  /\ Rows \in Nat \ {0} /\ Cols \in Nat \ {0} /\ AnsiBuffer \in Nat \ {0}
  /\ TabStop \in Nat \ {0} /\ Cols % TabStop = 0
ASSUME TerminalAssumption

DigitOf == [c \in {"0", "1", "2", "3", "4", "5", "6", "7", "8", "9"} |->
              CASE c = "0" -> 0 [] c = "1" -> 1 [] c = "2" -> 2 [] c = "3" -> 3
                [] c = "4" -> 4 [] c = "5" -> 5 [] c = "6" -> 6 [] c = "7" -> 7
                [] c = "8" -> 8 [] OTHER -> 9]
Digit == DOMAIN DigitOf
Parameter == Digit \cup {";", " ", "?"}
Final == {"H", "f", "J", "m", "l", "h", "A", "a", "b", "["}   \* of 0x40 .. 0x7E, those used
Lead == [c \in {"U2", "U3", "U4"} |-> IF c = "U2" THEN 1 ELSE IF c = "U3" THEN 2 ELSE 3]
Control == {"NL", "CR", "BS", "TAB"}

LightGrey == 7
Cell == (0 .. Rows - 1) \X (0 .. Cols - 1)
BlankCell == <<" ", 0>>
Glyph(c, colour) == IF c = " " THEN BlankCell ELSE <<c, colour>>

NothingDirty == [x0 |-> Cols, y0 |-> Rows, x1 |-> 0, y1 |-> 0]
AllDirty == [x0 |-> 0, y0 |-> 0, x1 |-> Cols, y1 |-> Rows]

Fresh(framebuffer) ==
  [fb |-> framebuffer, ansi |-> "IDLE", params |-> <<>>, x |-> 0, y |-> 0,
   utf8 |-> 0, fg |-> LightGrey, pen |-> LightGrey,
   back |-> [c \in Cell |-> BlankCell], screen |-> [c \in Cell |-> BlankCell],
   dirty |-> NothingDirty]

-----------------------------------------------------------------------------
(* Drawing.  With a framebuffer a change goes to the back buffer and its   *)
(* rectangle is marked; VGA memory is the screen.                          *)
mark_dirty(d, x, y) ==
  [x0 |-> Min({d.x0, x}), y0 |-> Min({d.y0, y}),
   x1 |-> Max({d.x1, x + 1}), y1 |-> Max({d.y1, y + 1})]

Drawn(t, image, dirty) ==
  IF t.fb THEN [t EXCEPT !.back = image, !.dirty = dirty]
  ELSE [t EXCEPT !.back = image, !.screen = image]

render_glyph(t, glyph) ==
  Drawn(t, [t.back EXCEPT ![<<t.y, t.x>>] = Glyph(glyph, t.pen)], mark_dirty(t.dirty, t.x, t.y))

ScrollUnmarked(t) ==                           \* fault: the moved lines are not marked
  Drawn([t EXCEPT !.y = @ - 1],
        [c \in Cell |-> IF c[1] = Rows - 1 THEN BlankCell ELSE t.back[<<c[1] + 1, c[2]>>]],
        t.dirty)
fb_scroll_up(t) ==
  Drawn([t EXCEPT !.y = @ - 1],
        [c \in Cell |-> IF c[1] = Rows - 1 THEN BlankCell ELSE t.back[<<c[1] + 1, c[2]>>]],
        AllDirty)
CheckScroll(t) == IF t.y >= Rows THEN fb_scroll_up(t) ELSE t

Advanced(t) == IF t.x + 1 >= Cols THEN [t EXCEPT !.x = 0, !.y = @ + 1] ELSE [t EXCEPT !.x = @ + 1]
Shown(t, glyph) == CheckScroll(Advanced(render_glyph(t, glyph)))

Tabbed(t) ==                                   \* VGA blanks what a tab skips
  LET stop == (t.x \div TabStop + 1) * TabStop
      moved == IF stop >= Cols THEN [t EXCEPT !.x = 0, !.y = @ + 1] ELSE [t EXCEPT !.x = stop]
  IN CheckScroll(
       IF t.fb THEN moved
       ELSE Drawn(moved, [c \in Cell |-> IF c[1] = t.y /\ c[2] \in t.x .. stop - 1
                                         THEN BlankCell ELSE t.back[c]], t.dirty))

Controlled(t, c) ==
  CASE c = "NL" -> CheckScroll([t EXCEPT !.x = 0, !.y = @ + 1])
    [] c = "CR" -> [t EXCEPT !.x = 0]
    [] c = "TAB" -> Tabbed(t)
    [] c = "BS" -> IF t.x = 0 THEN t ELSE render_glyph([t EXCEPT !.x = @ - 1], " ")

(* fb_putc collects UTF-8 sequences: the glyph appears with the last byte, *)
(* a byte that does not continue one starts anew.  VGA knows bytes only.   *)
fb_putc(t, c) ==
  IF t.utf8 > 0 /\ c = "UC"
  THEN LET u == [t EXCEPT !.utf8 = @ - 1] IN IF u.utf8 = 0 THEN Shown(u, "?") ELSE CheckScroll(u)
  ELSE LET u == [t EXCEPT !.utf8 = 0]
       IN IF c \in Control THEN Controlled(u, c)
          ELSE IF c \in DOMAIN Lead THEN [u EXCEPT !.utf8 = Lead[c]]
          ELSE Shown(u, IF c = "UC" THEN "?" ELSE c)

vga_putc(t, c) == IF c \in Control THEN Controlled(t, c) ELSE Shown(t, c)

k_putchar(t, c) == IF t.fb THEN fb_putc(t, c) ELSE vga_putc(t, c)

k_clear(t) == Drawn([t EXCEPT !.x = 0, !.y = 0], [c \in Cell |-> BlankCell], AllDirty)

(* The framebuffer ignores a coordinate that is off the screen, VGA clips. *)
k_set_cursor(t, row, col) ==
  LET Into(n, size) == Max({0, Min({n, size - 1})})
  IN IF t.fb THEN [t EXCEPT !.x = IF col \in 0 .. Cols - 1 THEN col ELSE @,
                            !.y = IF row \in 0 .. Rows - 1 THEN row ELSE @]
     ELSE [t EXCEPT !.x = Into(col, Cols), !.y = Into(row, Rows)]

fb_flush(t) ==
  LET In(c) == c[1] \in t.dirty.y0 .. t.dirty.y1 - 1 /\ c[2] \in t.dirty.x0 .. t.dirty.x1 - 1
  IN [t EXCEPT !.screen = [c \in Cell |-> IF In(c) THEN t.back[c] ELSE t.screen[c]],
               !.dirty = NothingDirty]

-----------------------------------------------------------------------------
(* Control sequences: ESC [ parameters final.                              *)
Number(s, from, start) ==                      \* the digits at from, appended to start
  LET stop == CHOOSE j \in from .. Len(s) + 1 :
                /\ j <= Len(s) => s[j] \notin Digit
                /\ \A k \in from .. j - 1 : s[k] \in Digit
  IN <<FoldLeft(LAMBDA n, c : 10 * n + DigitOf[c], start, SubSeq(s, from, stop - 1)), stop>>

CursorPosition(t, p) ==                        \* p: the parameters before the final
  LET row == Number(p, 1, 1)                   \* the code starts from row = 1
      next == IF row[2] <= Len(p) /\ p[row[2]] = ";" THEN row[2] + 1 ELSE row[2]
      col == Number(p, next, 0)[1]
  IN k_set_cursor(t, row[1] - 1, (IF col = 0 THEN 1 ELSE col) - 1)

EraseDisplay(t, p) ==
  IF p = <<>> \/ Head(p) \in {"2", "3"} THEN k_set_cursor(k_clear(t), 0, 0) ELSE t

(* Colours of a rendition: 0 resets, 1 makes the colours after it bright   *)
(* (in this sequence only), 30 .. 37 and 90 .. 97 set the foreground.      *)
Rendition(state, n) ==                         \* <<colour, bold>>
  CASE n = 0 -> <<LightGrey, FALSE>>
    [] n = 1 -> <<state[1], TRUE>>
    [] n \in 30 .. 37 -> <<IF state[2] THEN n - 30 + 8 ELSE n - 30, state[2]>>
    [] n \in 90 .. 97 -> <<n - 90 + 8, state[2]>>
    [] OTHER -> state

Renditions(p) ==                               \* the numbers of p
  LET starts == {i \in DOMAIN p : p[i] \in Digit /\ (i = 1 \/ p[i - 1] \notin Digit)}
  IN [k \in 1 .. Cardinality(starts) |->
        Number(p, CHOOSE i \in starts : Cardinality({j \in starts : j <= i}) = k, 0)[1]]

Skips == {";", " "} \cup Digit                 \* what the loop over p gets past
SelectGraphics(t, p) ==
  LET fg == IF p = <<>> THEN LightGrey
            ELSE FoldLeft(Rendition, <<t.fg, FALSE>>, Renditions(p))[1]
  IN IF Range(p) \subseteq Skips THEN [t EXCEPT !.fg = fg, !.pen = fg]
     ELSE [t EXCEPT !.ansi = "STUCK"]          \* the loop does not advance

process_ansi_csi(t) ==
  LET p == Front(t.params)
      final == Last(t.params)
      done == [t EXCEPT !.ansi = "IDLE", !.params = <<>>]
  IN IF Head(t.params) = "?" THEN done
     ELSE CASE final = "J" -> EraseDisplay(done, p)
            [] final \in {"H", "f"} -> CursorPosition(done, p)
            [] final = "m" -> SelectGraphics(done, p)
            [] OTHER -> done

Collected(t, c) == IF Len(t.params) < AnsiBuffer THEN [t EXCEPT !.params = Append(@, c)] ELSE t

Dispatch(t, c) ==                              \* one byte of a write
  CASE t.ansi = "IDLE" -> IF c = "ESC" THEN [t EXCEPT !.ansi = "ESCAPE"] ELSE k_putchar(t, c)
    [] t.ansi = "ESCAPE" ->
         IF c = "[" THEN [t EXCEPT !.ansi = "COLLECTING", !.params = <<>>]
         ELSE [k_putchar(k_putchar(t, "ESC"), c) EXCEPT !.ansi = "IDLE"]
    [] t.ansi = "COLLECTING" ->
         IF c \in Parameter THEN Collected(t, c)
         ELSE IF c \in Final THEN process_ansi_csi(Collected(t, c))
         ELSE [t EXCEPT !.ansi = "IDLE", !.params = <<>>]
    [] t.ansi = "STUCK" -> t

devfs_console_write(t, bytes) ==
  LET u == FoldLeft(Dispatch, t, bytes) IN IF u.ansi = "STUCK" THEN u ELSE fb_flush(u)

-----------------------------------------------------------------------------
(* Between two writes to the console everything that was drawn can be     *)
(* seen, whatever the bytes were (framebuffer.c: every change is marked,   *)
(* fb_flush copies the marked rectangle), and the cursor is on the screen. *)
NothingStaysHidden(t) == t.back = t.screen /\ <<t.y, t.x>> \in Cell
=============================================================================
