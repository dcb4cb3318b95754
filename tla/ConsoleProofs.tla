--------------------------- MODULE ConsoleProofs ---------------------------
(***************************************************************************)
(* What is drawn can be seen, and the line the shell edits is in order.    *)
(*                                                                         *)
(* A write of the console is a fold over its bytes: what Dispatch keeps,   *)
(* the write keeps (FoldProofs).  What it keeps is IsTerminal: the cursor  *)
(* is on the screen, and wherever the back buffer differs from the screen  *)
(* the dirty rectangle marks the cell.                                     *)
(***************************************************************************)
EXTENDS Console, SequenceTheorems, TLAPS

USE DEF TerminalAssumption

(* Every byte is a string; those the code names are listed because the     *)
(* provers do not know that a literal is a string.                         *)
Byte ==
  STRING \cup
  {"ESC", "NL", "CR", "BS", "TAB", " ", "[", "~", "^", "!", "0", "1", "2", "3", "H", "J", "F",
   "A", "B", "C", "D", "K", "L", "U", "a", "b", "c", "d", "k", "l", "u",
   "^A", "^B", "^C", "^D", "^K", "^L", "^U"}

-----------------------------------------------------------------------------
(* The terminal.                                                           *)
Rectangle == [x0 : Int, y0 : Int, x1 : Int, y1 : Int]
IsImage(image) == image = [c \in Cell |-> image[c]]
Marked(d, c) == c[1] \in d.y0 .. d.y1 - 1 /\ c[2] \in d.x0 .. d.x1 - 1
AnsiState == {"IDLE", "ESCAPE", "COLLECTING", "STUCK"}

Field == {"fb", "ansi", "params", "x", "y", "utf8", "fg", "pen", "back", "screen", "dirty"}
Shaped(t) == t = [f \in Field |-> t[f]]

(* Between the drawing of a glyph and the scrolling the cursor may be on   *)
(* the line below the last.                                                *)
Within(t, lines) ==
  /\ Shaped(t) /\ t.fb \in BOOLEAN /\ t.ansi \in AnsiState /\ t.params \in Seq(Byte)
  /\ t.x \in 0 .. Cols - 1 /\ t.y \in 0 .. lines - 1
  /\ IsImage(t.back) /\ IsImage(t.screen) /\ t.dirty \in Rectangle
  /\ \A c \in Cell : t.back[c] # t.screen[c] => t.fb /\ Marked(t.dirty, c)

IsTerminal(t) == Within(t, Rows)

LEMMA Sizes == Rows \in Nat \ {0} /\ Cols \in Nat \ {0} /\ AnsiBuffer \in Nat \ {0}
               /\ TabStop \in Nat \ {0}
  BY TerminalAssumption

LEMMA MinMaxOfTwo ==
  ASSUME NEW a \in Int, NEW b \in Int
  PROVE  /\ Min({a, b}) \in Int /\ Min({a, b}) <= a /\ Min({a, b}) <= b
         /\ Max({a, b}) \in Int /\ Max({a, b}) >= a /\ Max({a, b}) >= b
         /\ Min({a, b}) \in {a, b} /\ Max({a, b}) \in {a, b}
  <1>1. \E m \in {a, b} : \A y \in {a, b} : m <= y
    OBVIOUS
  <1>2. Min({a, b}) \in {a, b} /\ \A y \in {a, b} : Min({a, b}) <= y
    BY <1>1 DEF Min
  <1>3. \E m \in {a, b} : \A y \in {a, b} : m >= y
    OBVIOUS
  <1>4. Max({a, b}) \in {a, b} /\ \A y \in {a, b} : Max({a, b}) >= y
    BY <1>3 DEF Max
  <1>5. PICK m \in {a, b} : m = Min({a, b})
    BY <1>2
  <1>6. PICK n \in {a, b} : n = Max({a, b})
    BY <1>4
  <1> QED BY <1>2, <1>4, <1>5, <1>6

(* Marking a cell marks it and keeps the marks there were.                 *)
LEMMA MarkingMarks ==
  ASSUME NEW d \in Rectangle, NEW x \in Int, NEW y \in Int
  PROVE  /\ mark_dirty(d, x, y) \in Rectangle
         /\ Marked(mark_dirty(d, x, y), <<y, x>>)
         /\ \A c \in Int \X Int : Marked(d, c) => Marked(mark_dirty(d, x, y), c)
  <1> DEFINE r == mark_dirty(d, x, y)
  <1>1. d.x0 \in Int /\ d.y0 \in Int /\ d.x1 \in Int /\ d.y1 \in Int
    BY DEF Rectangle
  <1>2. PICK a \in Int : a = Min({d.x0, x}) /\ a <= d.x0 /\ a <= x
    BY <1>1, MinMaxOfTwo
  <1>3. PICK b \in Int : b = Min({d.y0, y}) /\ b <= d.y0 /\ b <= y
    BY <1>1, MinMaxOfTwo
  <1>a. PICK right \in Int, below \in Int : right = x + 1 /\ below = y + 1
    OBVIOUS
  <1>4. PICK e \in Int : e = Max({d.x1, x + 1}) /\ e >= d.x1 /\ e >= x + 1
    <2>1. Max({d.x1, right}) \in Int /\ Max({d.x1, right}) >= d.x1 /\ Max({d.x1, right}) >= right
      BY <1>1, MinMaxOfTwo
    <2> QED BY <2>1, <1>a
  <1>5. PICK f \in Int : f = Max({d.y1, y + 1}) /\ f >= d.y1 /\ f >= y + 1
    <2>1. Max({d.y1, below}) \in Int /\ Max({d.y1, below}) >= d.y1 /\ Max({d.y1, below}) >= below
      BY <1>1, MinMaxOfTwo
    <2> QED BY <2>1, <1>a
  <1>6. r = [x0 |-> a, y0 |-> b, x1 |-> e, y1 |-> f]
    BY <1>2, <1>3, <1>4, <1>5 DEF mark_dirty
  <1> HIDE DEF r
  <1>7. r.x0 = a /\ r.y0 = b /\ r.x1 = e /\ r.y1 = f /\ r \in Rectangle
    BY <1>6 DEF Rectangle
  <1>8. Marked(r, <<y, x>>)
    BY <1>2, <1>3, <1>4, <1>5, <1>7 DEF Marked
  <1>9. ASSUME NEW c \in Int \X Int, Marked(d, c) PROVE Marked(r, c)
    BY <1>1, <1>2, <1>3, <1>4, <1>5, <1>7, <1>9 DEF Marked
  <1> QED BY <1>7, <1>8, <1>9 DEF r

LEMMA AllIsMarked ==
  AllDirty \in Rectangle /\ NothingDirty \in Rectangle /\ \A c \in Cell : Marked(AllDirty, c)
  BY Sizes DEF AllDirty, NothingDirty, Rectangle, Marked, Cell

(* Drawing keeps the terminal in order if what it changes is marked.       *)
LEMMA DrawnIsTerminal ==
  ASSUME NEW lines, NEW t, Within(t, lines), NEW image, NEW dirty \in Rectangle,
         IsImage(image), \A c \in Cell : image[c] # t.screen[c] => Marked(dirty, c) \/ ~t.fb
  PROVE  /\ Within(Drawn(t, image, dirty), lines)
         /\ Drawn(t, image, dirty).x = t.x /\ Drawn(t, image, dirty).y = t.y
  <1>1. CASE t.fb
    BY <1>1 DEF Drawn, Within, Shaped, Field
  <1>2. CASE ~t.fb
    BY <1>2 DEF Drawn, Within, Shaped, Field
  <1> QED BY <1>1, <1>2

(* The cursor moves, and nothing else.                                     *)
LEMMA MovedIsTerminal ==
  ASSUME NEW lines, NEW t, Within(t, lines), NEW more, NEW x \in 0 .. Cols - 1, NEW y \in 0 .. more - 1
  PROVE  LET u == [t EXCEPT !.x = x, !.y = y]
         IN Within(u, more) /\ u.fb = t.fb /\ u.dirty = t.dirty /\ u.x = x /\ u.y = y
  <1> DEFINE u == [t EXCEPT !.x = x, !.y = y]
  <1>1. /\ u.fb = t.fb /\ u.ansi = t.ansi /\ u.params = t.params /\ u.utf8 = t.utf8
        /\ u.fg = t.fg /\ u.pen = t.pen /\ u.back = t.back /\ u.screen = t.screen
        /\ u.dirty = t.dirty /\ u.x = x /\ u.y = y
    BY DEF Within, Shaped, Field
  <1>2. Shaped(u)
    BY DEF Within, Shaped, Field
  <1> HIDE DEF u
  <1>3. Within(u, more)
    BY <1>1, <1>2 DEF Within
  <1> QED BY <1>1, <1>3 DEF u

LEMMA MovedAlongLine ==
  ASSUME NEW lines, NEW t, Within(t, lines), NEW x \in 0 .. Cols - 1
  PROVE  Within([t EXCEPT !.x = x], lines)
  <1>1. PICK y \in 0 .. lines - 1 : y = t.y
    BY DEF Within
  <1>2. [t EXCEPT !.x = x] = [t EXCEPT !.x = x, !.y = y]
    BY <1>1 DEF Within, Shaped, Field
  <1>3. Within([t EXCEPT !.x = x, !.y = y], lines)
    BY MovedIsTerminal
  <1> QED BY <1>2, <1>3

LEMMA MovedAcrossLines ==
  ASSUME NEW lines, NEW t, Within(t, lines), NEW more, NEW y \in 0 .. more - 1
  PROVE  Within([t EXCEPT !.y = y], more)
  <1>1. PICK x \in 0 .. Cols - 1 : x = t.x
    BY DEF Within
  <1>2. [t EXCEPT !.y = y] = [t EXCEPT !.x = x, !.y = y]
    BY <1>1 DEF Within, Shaped, Field
  <1>3. Within([t EXCEPT !.x = x, !.y = y], more)
    BY MovedIsTerminal
  <1> QED BY <1>2, <1>3

LEMMA CellsAreDrawn ==
  ASSUME NEW x \in 0 .. Cols - 1, NEW y \in 0 .. Rows - 1
  PROVE  <<y, x>> \in Cell /\ x \in Int /\ y \in Int
  BY Sizes DEF Cell

(* A glyph at the cursor.                                                  *)
LEMMA GlyphIsTerminal ==
  ASSUME NEW t, IsTerminal(t), NEW glyph
  PROVE  /\ IsTerminal(render_glyph(t, glyph))
         /\ render_glyph(t, glyph).x = t.x /\ render_glyph(t, glyph).y = t.y
  <1> DEFINE image == [t.back EXCEPT ![<<t.y, t.x>>] = Glyph(glyph, t.pen)]
             dirty == mark_dirty(t.dirty, t.x, t.y)
  <1>1. <<t.y, t.x>> \in Cell /\ t.x \in Int /\ t.y \in Int /\ t.dirty \in Rectangle
    BY CellsAreDrawn DEF IsTerminal, Within
  <1>2. IsImage(image) /\ \A c \in Cell : c # <<t.y, t.x>> => image[c] = t.back[c]
    BY <1>1 DEF IsTerminal, Within, IsImage
  <1>3. /\ dirty \in Rectangle /\ Marked(dirty, <<t.y, t.x>>)
        /\ \A c \in Int \X Int : Marked(t.dirty, c) => Marked(dirty, c)
    BY <1>1, MarkingMarks
  <1>4. \A c \in Cell : c \in Int \X Int
    BY Sizes DEF Cell
  <1> HIDE DEF image, dirty
  <1>5. \A c \in Cell : image[c] # t.screen[c] => Marked(dirty, c) \/ ~t.fb
    BY <1>2, <1>3, <1>4 DEF IsTerminal, Within
  <1>6. render_glyph(t, glyph) = Drawn(t, image, dirty)
    BY DEF render_glyph, image, dirty
  <1> QED BY <1>2, <1>3, <1>5, <1>6, DrawnIsTerminal DEF IsTerminal

(* Scrolling shows every line one higher, with a blank one at the end.     *)
LEMMA ScrollIsTerminal ==
  ASSUME NEW t, Within(t, Rows + 1)
  PROVE  IsTerminal(CheckScroll(t))
  <1>1. CASE t.y >= Rows
    <2> DEFINE u == [t EXCEPT !.y = @ - 1]
               image == [c \in Cell |-> IF c[1] = Rows - 1 THEN BlankCell ELSE t.back[<<c[1] + 1, c[2]>>]]
    <2>1. IsTerminal(u)
      <3>1. t.y - 1 \in 0 .. Rows - 1
        BY <1>1, Sizes DEF Within
      <3> QED BY <3>1, MovedAcrossLines DEF IsTerminal
    <2>2. IsImage(image)
      BY DEF IsImage
    <2> HIDE DEF u, image
    <2>3. IsTerminal(Drawn(u, image, AllDirty))
      BY <2>1, <2>2, AllIsMarked, DrawnIsTerminal DEF IsTerminal
    <2>4. CheckScroll(t) = Drawn(u, image, AllDirty)
      BY <1>1 DEF CheckScroll, fb_scroll_up, u, image
    <2> QED BY <2>3, <2>4
  <1>2. CASE ~(t.y >= Rows)
    <2>1. CheckScroll(t) = t
      BY <1>2 DEF CheckScroll
    <2>2. t.y \in 0 .. Rows - 1
      BY <1>2, Sizes DEF Within
    <2> QED BY <2>1, <2>2 DEF IsTerminal, Within
  <1> QED BY <1>1, <1>2

LEMMA ShownIsTerminal ==
  ASSUME NEW t, IsTerminal(t), NEW glyph
  PROVE  IsTerminal(Shown(t, glyph))
  <1> DEFINE u == render_glyph(t, glyph)
  <1>1. IsTerminal(u)
    BY GlyphIsTerminal
  <1> HIDE DEF u
  <1>2. Within(Advanced(u), Rows + 1)
    <2>1. CASE u.x + 1 >= Cols
      <3>1. 0 \in 0 .. Cols - 1 /\ u.y + 1 \in 0 .. (Rows + 1) - 1
        BY <1>1, Sizes DEF IsTerminal, Within
      <3>2. PICK y \in 0 .. (Rows + 1) - 1 : y = u.y + 1
        BY <3>1
      <3>3. Advanced(u) = [u EXCEPT !.x = 0, !.y = y]
        BY <2>1, <3>2 DEF Advanced
      <3>4. Within([u EXCEPT !.x = 0, !.y = y], Rows + 1)
        BY <1>1, <3>1, MovedIsTerminal DEF IsTerminal
      <3> QED BY <3>3, <3>4
    <2>2. CASE ~(u.x + 1 >= Cols)
      <3>1. u.x + 1 \in 0 .. Cols - 1 /\ u.y \in 0 .. (Rows + 1) - 1
        BY <1>1, <2>2, Sizes DEF IsTerminal, Within
      <3>2. PICK x \in 0 .. Cols - 1, y \in 0 .. (Rows + 1) - 1 : x = u.x + 1 /\ y = u.y
        BY <3>1
      <3>3. Advanced(u) = [u EXCEPT !.x = x, !.y = y]
        BY <1>1, <2>2, <3>2 DEF Advanced, IsTerminal, Within, Shaped, Field
      <3>4. Within([u EXCEPT !.x = x, !.y = y], Rows + 1)
        BY <1>1, MovedIsTerminal DEF IsTerminal
      <3> QED BY <3>3, <3>4
    <2> QED BY <2>1, <2>2
  <1>3. Shown(t, glyph) = CheckScroll(Advanced(u))
    BY DEF Shown, u
  <1> QED BY <1>2, <1>3, ScrollIsTerminal

(* A tab; VGA blanks what it skips.                                        *)
LEMMA TabIsTerminal ==
  ASSUME NEW t, IsTerminal(t)
  PROVE  IsTerminal(Tabbed(t))
  <1> DEFINE stop == (t.x \div TabStop + 1) * TabStop
             moved == IF stop >= Cols THEN [t EXCEPT !.x = 0, !.y = @ + 1] ELSE [t EXCEPT !.x = stop]
             image == [c \in Cell |-> IF c[1] = t.y /\ c[2] \in t.x .. stop - 1
                                      THEN BlankCell ELSE t.back[c]]
  <1>1. stop \in Nat
    <2>1. t.x \in Nat
      BY Sizes DEF IsTerminal, Within
    <2>2. \A a \in Nat, s \in Nat \ {0} : (a \div s + 1) * s \in Nat
      OBVIOUS
    <2> QED BY <2>1, <2>2, Sizes
  <1> HIDE DEF stop
  <1>2. Within(moved, Rows + 1)
    <2>1. CASE stop >= Cols
      <3>1. 0 \in 0 .. Cols - 1 /\ t.y + 1 \in 0 .. (Rows + 1) - 1
        BY Sizes DEF IsTerminal, Within
      <3>2. moved = [t EXCEPT !.x = 0, !.y = t.y + 1]
        BY <2>1
      <3> HIDE DEF moved
      <3> QED BY <3>1, <3>2, MovedIsTerminal DEF IsTerminal
    <2>2. CASE ~(stop >= Cols)
      <3>1. stop \in 0 .. Cols - 1 /\ t.y \in 0 .. (Rows + 1) - 1
        BY <1>1, <2>2, Sizes DEF IsTerminal, Within
      <3>2. moved = [t EXCEPT !.x = stop, !.y = t.y]
        BY <2>2 DEF IsTerminal, Within, Shaped, Field
      <3> HIDE DEF moved
      <3> QED BY <3>1, <3>2, MovedIsTerminal DEF IsTerminal
    <2> QED BY <2>1, <2>2
  <1>3. moved.fb = t.fb /\ moved.dirty = t.dirty
    BY DEF IsTerminal, Within, Shaped, Field
  <1>4. IsImage(image)
    BY DEF IsImage
  <1>5. CASE t.fb
    <2>1. Tabbed(t) = CheckScroll(moved)
      BY <1>5 DEF Tabbed, moved, stop
    <2> HIDE DEF moved
    <2> QED BY <1>2, <2>1, ScrollIsTerminal
  <1>6. CASE ~t.fb
    <2>1. Tabbed(t) = CheckScroll(Drawn(moved, image, t.dirty))
      BY <1>6 DEF Tabbed, moved, image, stop
    <2>2. t.dirty \in Rectangle
      BY DEF IsTerminal, Within
    <2> HIDE DEF moved, image
    <2>3. Within(Drawn(moved, image, t.dirty), Rows + 1)
      BY <1>2, <1>3, <1>4, <1>6, <2>2, DrawnIsTerminal
    <2> QED BY <2>1, <2>3, ScrollIsTerminal
  <1> QED BY <1>5, <1>6

LEMMA ControlIsTerminal ==
  ASSUME NEW t, IsTerminal(t), NEW c \in Control
  PROVE  IsTerminal(Controlled(t, c))
  <1>1. CASE c = "NL"
    <2>1. Within([t EXCEPT !.x = 0, !.y = t.y + 1], Rows + 1)
      <3>1. 0 \in 0 .. Cols - 1 /\ t.y + 1 \in 0 .. (Rows + 1) - 1
        BY Sizes DEF IsTerminal, Within
      <3> QED BY <3>1, MovedIsTerminal DEF IsTerminal
    <2> QED BY <1>1, <2>1, ScrollIsTerminal DEF Controlled
  <1>2. CASE c = "CR"
    <2>1. 0 \in 0 .. Cols - 1 /\ Controlled(t, c) = [t EXCEPT !.x = 0]
      BY <1>2, Sizes DEF Controlled
    <2> QED BY <2>1, MovedAlongLine DEF IsTerminal
  <1>3. CASE c = "TAB"
    BY <1>3, TabIsTerminal DEF Controlled
  <1>4. CASE c = "BS" /\ t.x = 0
    BY <1>4 DEF Controlled
  <1>5. CASE c = "BS" /\ t.x # 0
    <2>1. IsTerminal([t EXCEPT !.x = t.x - 1])
      <3>1. t.x - 1 \in 0 .. Cols - 1
        BY <1>5, Sizes DEF IsTerminal, Within
      <3> QED BY <3>1, MovedAlongLine DEF IsTerminal
    <2> QED BY <1>5, <2>1, GlyphIsTerminal DEF Controlled
  <1> QED BY <1>1, <1>2, <1>3, <1>4, <1>5 DEF Control

(* One character, by either driver.                                        *)
LEMMA CharacterIsTerminal ==
  ASSUME NEW t, IsTerminal(t), NEW c
  PROVE  IsTerminal(k_putchar(t, c))
  <1>1. CASE ~t.fb
    BY <1>1, ControlIsTerminal, ShownIsTerminal DEF k_putchar, vga_putc
  <1>2. CASE t.fb /\ t.utf8 > 0 /\ c = "UC"
    <2> DEFINE u == [t EXCEPT !.utf8 = @ - 1]
    <2>1. IsTerminal(u)
      BY DEF IsTerminal, Within, Shaped, Field
    <2>2. Within(u, Rows + 1)
      BY <2>1, Sizes DEF IsTerminal, Within
    <2>3. k_putchar(t, c) = IF u.utf8 = 0 THEN Shown(u, "?") ELSE CheckScroll(u)
      BY <1>2 DEF k_putchar, fb_putc
    <2> HIDE DEF u
    <2> QED BY <2>1, <2>2, <2>3, ShownIsTerminal, ScrollIsTerminal
  <1>3. CASE t.fb /\ ~(t.utf8 > 0 /\ c = "UC")
    <2> DEFINE u == [t EXCEPT !.utf8 = 0]
    <2>1. ASSUME NEW v, NEW n, IsTerminal(v) PROVE IsTerminal([v EXCEPT !.utf8 = n])
      <3> DEFINE w == [v EXCEPT !.utf8 = n]
      <3>1. /\ w.fb = v.fb /\ w.ansi = v.ansi /\ w.params = v.params /\ w.x = v.x /\ w.y = v.y
            /\ w.back = v.back /\ w.screen = v.screen /\ w.dirty = v.dirty /\ Shaped(w)
        BY <2>1 DEF IsTerminal, Within, Shaped, Field
      <3> HIDE DEF w
      <3>2. IsTerminal(w)
        BY <2>1, <3>1 DEF IsTerminal, Within
      <3> QED BY <3>2 DEF w
    <2>2. k_putchar(t, c) = IF c \in Control THEN Controlled(u, c)
                            ELSE IF c \in DOMAIN Lead THEN [u EXCEPT !.utf8 = Lead[c]]
                            ELSE Shown(u, IF c = "UC" THEN "?" ELSE c)
      BY <1>3 DEF k_putchar, fb_putc
    <2>3. IsTerminal(u)
      BY <2>1
    <2> HIDE DEF u
    <2>4. IsTerminal([u EXCEPT !.utf8 = Lead[c]])
      BY <2>1, <2>3
    <2>5. CASE c \in Control
      BY <2>2, <2>3, <2>5, ControlIsTerminal
    <2>6. CASE c \notin Control
      BY <2>2, <2>3, <2>4, <2>6, ShownIsTerminal
    <2> QED BY <2>5, <2>6
  <1>4. t.fb \in BOOLEAN
    BY DEF IsTerminal, Within
  <1> QED BY <1>1, <1>2, <1>3, <1>4

LEMMA ClearIsTerminal ==
  ASSUME NEW t, IsTerminal(t)
  PROVE  IsTerminal(k_clear(t))
  <1>1. IsTerminal([t EXCEPT !.x = 0, !.y = 0])
    <2>1. 0 \in 0 .. Cols - 1 /\ 0 \in 0 .. Rows - 1
      BY Sizes
    <2> QED BY <2>1, MovedIsTerminal DEF IsTerminal
  <1>2. IsImage([c \in Cell |-> BlankCell])
    BY DEF IsImage
  <1> QED BY <1>1, <1>2, AllIsMarked, DrawnIsTerminal DEF IsTerminal, k_clear

(* A field of the automaton that nothing on the screen depends on.         *)
LEMMA StateIsTerminal ==
  ASSUME NEW t, IsTerminal(t), NEW a \in AnsiState, NEW p \in Seq(Byte), NEW v
  PROVE  /\ IsTerminal([t EXCEPT !.ansi = a])
         /\ IsTerminal([t EXCEPT !.params = p])
         /\ IsTerminal([t EXCEPT !.ansi = a, !.params = p])
         /\ IsTerminal([t EXCEPT !.fg = v, !.pen = v])
  BY DEF IsTerminal, Within, Shaped, Field

LEMMA CursorIsSet ==
  ASSUME NEW t, IsTerminal(t), NEW row \in Int, NEW col \in Int
  PROVE  IsTerminal(k_set_cursor(t, row, col))
  <1>1. CASE t.fb
    <2> DEFINE x == IF col \in 0 .. Cols - 1 THEN col ELSE t.x
               y == IF row \in 0 .. Rows - 1 THEN row ELSE t.y
    <2>1. x \in 0 .. Cols - 1 /\ y \in 0 .. Rows - 1
      BY DEF IsTerminal, Within
    <2>2. k_set_cursor(t, row, col) = [t EXCEPT !.x = x, !.y = y]
      BY <1>1 DEF k_set_cursor
    <2> HIDE DEF x, y
    <2>3. PICK a \in 0 .. Cols - 1, b \in 0 .. Rows - 1 : a = x /\ b = y
      BY <2>1
    <2>4. Within([t EXCEPT !.x = a, !.y = b], Rows)
      BY MovedIsTerminal DEF IsTerminal
    <2> QED BY <2>2, <2>3, <2>4 DEF IsTerminal
  <1>2. CASE ~t.fb
    <2> DEFINE Into(n, size) == Max({0, Min({n, size - 1})})
    <2>1. ASSUME NEW n \in Int, NEW size \in Nat \ {0} PROVE Into(n, size) \in 0 .. size - 1
      <3>1. PICK top \in Int : top = size - 1
        OBVIOUS
      <3>2. PICK m \in Int : m = Min({n, top}) /\ m <= top
        BY MinMaxOfTwo
      <3>3. Max({0, m}) \in {0, m} /\ Max({0, m}) >= 0
        BY MinMaxOfTwo
      <3> QED BY <3>1, <3>2, <3>3
    <2>2. PICK x \in 0 .. Cols - 1, y \in 0 .. Rows - 1 : x = Into(col, Cols) /\ y = Into(row, Rows)
      BY <2>1, Sizes
    <2>3. k_set_cursor(t, row, col) = [t EXCEPT !.x = x, !.y = y]
      BY <1>2, <2>2 DEF k_set_cursor
    <2>4. Within([t EXCEPT !.x = x, !.y = y], Rows)
      BY MovedIsTerminal DEF IsTerminal
    <2> QED BY <2>3, <2>4 DEF IsTerminal
  <1>3. t.fb \in BOOLEAN
    BY DEF IsTerminal, Within
  <1> QED BY <1>1, <1>2, <1>3

-----------------------------------------------------------------------------
(* Control sequences.  The number at a place is a fold over its digits.    *)
AddDigit(n, c) == 10 * n + DigitOf[c]
IsInteger(n) == n \in Int
EachDigit == INSTANCE FoldProofs WITH Op <- AddDigit, Good <- IsInteger

LEMMA DigitsAreNumbers ==
  \A c \in Digit : DigitOf[c] \in Int
  BY DEF Digit, DigitOf

LEMMA NumbersAreNumbers ==
  ASSUME NEW s \in Seq(Byte), NEW from \in 1 .. Len(s) + 1, NEW start \in Int
  PROVE  Number(s, from, start)[1] \in Int /\ Number(s, from, start)[2] \in from .. Len(s) + 1
  <1> DEFINE Stops(j) == /\ j <= Len(s) => s[j] \notin Digit
                         /\ \A k \in from .. j - 1 : s[k] \in Digit
             stop == CHOOSE j \in from .. Len(s) + 1 : Stops(j)
             digits == SubSeq(s, from, stop - 1)
             ends == {j \in from .. Len(s) + 1 : j <= Len(s) => s[j] \notin Digit}
  <1>1. Len(s) \in Nat /\ from \in Nat /\ from <= Len(s) + 1 /\ from >= 1
    OBVIOUS
  <1>2. Len(s) + 1 \in ends /\ ends \in SUBSET Nat
    BY <1>1
  <1>3. PICK j \in ends : \A k \in ends : ~(k < j)
    BY <1>2, EachDigit!LeastExists
  <1>4. j \in from .. Len(s) + 1 /\ Stops(j)
    <2>1. j \in from .. Len(s) + 1 /\ (j <= Len(s) => s[j] \notin Digit)
      BY <1>3
    <2>2. ASSUME NEW k \in from .. j - 1, s[k] \notin Digit PROVE FALSE
      BY <1>1, <1>3, <2>1, <2>2
    <2> QED BY <2>1, <2>2
  <1>5. stop \in from .. Len(s) + 1 /\ Stops(stop)
    BY <1>4
  <1> HIDE DEF stop
  <1>6. digits \in Seq(Digit)
    <2>1. digits = [i \in 1 .. stop - from |-> s[from + i - 1]]
      BY <1>1, <1>5
    <2>2. ASSUME NEW i \in 1 .. stop - from PROVE s[from + i - 1] \in Digit
      BY <1>1, <1>5
    <2>3. stop - from \in Nat
      BY <1>1, <1>5
    <2> HIDE DEF digits
    <2> QED BY <2>1, <2>2, <2>3
  <1> HIDE DEF digits
  <1>7. \A x : \A e \in Digit : IsInteger(x) => IsInteger(AddDigit(x, e))
    BY DigitsAreNumbers DEF IsInteger, AddDigit
  <1>8. IsInteger(EachDigit!Folded(start, digits))
    <2>1. IsInteger(start)
      BY DEF IsInteger
    <2> QED BY <1>6, <1>7, <2>1, EachDigit!FoldKeeps
  <1>9. Number(s, from, start) = <<EachDigit!Folded(start, digits), stop>>
    BY DEF Number, stop, digits, AddDigit, EachDigit!Folded, FoldLeft, MapThenFoldSet, Max,
           EachDigit!FoldLeft, EachDigit!MapThenFoldSet, EachDigit!Max
  <1> QED BY <1>5, <1>8, <1>9 DEF IsInteger

LEMMA PositionIsTerminal ==
  ASSUME NEW t, IsTerminal(t), NEW p \in Seq(Byte)
  PROVE  IsTerminal(CursorPosition(t, p))
  <1> DEFINE row == Number(p, 1, 1)
             next == IF row[2] <= Len(p) /\ p[row[2]] = ";" THEN row[2] + 1 ELSE row[2]
             col == Number(p, next, 0)[1]
  <1>1. Len(p) \in Nat /\ 1 \in 1 .. Len(p) + 1
    OBVIOUS
  <1>2. row[1] \in Int /\ row[2] \in 1 .. Len(p) + 1
    BY <1>1, NumbersAreNumbers
  <1> HIDE DEF row
  <1>3. next \in 1 .. Len(p) + 1
    <2>1. PICK stop \in 1 .. Len(p) + 1 : stop = row[2]
      BY <1>2
    <2>2. (next = stop + 1 /\ stop <= Len(p)) \/ next = stop
      BY <2>1
    <2> HIDE DEF next
    <2>3. CASE next = stop + 1 /\ stop <= Len(p)
      BY <1>1, <2>3
    <2> QED BY <2>2, <2>3
  <1> HIDE DEF next
  <1>4. col \in Int
    BY <1>3, NumbersAreNumbers
  <1> HIDE DEF col
  <1>5. PICK r \in Int, c \in Int : r = row[1] - 1 /\ c = (IF col = 0 THEN 1 ELSE col) - 1
    BY <1>2, <1>4
  <1>6. CursorPosition(t, p) = k_set_cursor(t, r, c)
    BY <1>5 DEF CursorPosition, row, next, col
  <1> QED BY <1>6, CursorIsSet

LEMMA EraseIsTerminal ==
  ASSUME NEW t, IsTerminal(t), NEW p
  PROVE  IsTerminal(EraseDisplay(t, p))
  <1>1. IsTerminal(k_set_cursor(k_clear(t), 0, 0))
    BY ClearIsTerminal, CursorIsSet
  <1> QED BY <1>1 DEF EraseDisplay

LEMMA RenditionIsTerminal ==
  ASSUME NEW t, IsTerminal(t), NEW p
  PROVE  IsTerminal(SelectGraphics(t, p))
  <1>1. "STUCK" \in AnsiState /\ << >> \in Seq(Byte)
    BY DEF AnsiState
  <1> QED BY <1>1, StateIsTerminal DEF SelectGraphics

LEMMA SequenceIsTerminal ==
  ASSUME NEW t, IsTerminal(t), t.params # << >>
  PROVE  IsTerminal(process_ansi_csi(t))
  <1> DEFINE p == Front(t.params)
             done == [t EXCEPT !.ansi = "IDLE", !.params = << >>]
  <1>1. IsTerminal(done)
    <2>1. "IDLE" \in AnsiState /\ << >> \in Seq(Byte)
      BY DEF AnsiState
    <2> QED BY <2>1, StateIsTerminal
  <1>2. p \in Seq(Byte)
    <2>1. t.params \in Seq(Byte) /\ Len(t.params) # 0
      BY DEF IsTerminal, Within
    <2> QED BY <2>1 DEF Front
  <1>3. process_ansi_csi(t) = IF Head(t.params) = "?" THEN done
                              ELSE CASE Last(t.params) = "J" -> EraseDisplay(done, p)
                                     [] Last(t.params) \in {"H", "f"} -> CursorPosition(done, p)
                                     [] Last(t.params) = "m" -> SelectGraphics(done, p)
                                     [] OTHER -> done
    BY DEF process_ansi_csi
  <1> HIDE DEF p, done
  <1>4. IsTerminal(EraseDisplay(done, p)) /\ IsTerminal(CursorPosition(done, p))
        /\ IsTerminal(SelectGraphics(done, p))
    BY <1>1, <1>2, EraseIsTerminal, PositionIsTerminal, RenditionIsTerminal
  <1>5. \/ process_ansi_csi(t) = done
        \/ process_ansi_csi(t) = EraseDisplay(done, p)
        \/ process_ansi_csi(t) = CursorPosition(done, p)
        \/ process_ansi_csi(t) = SelectGraphics(done, p)
    BY <1>3
  <1> QED BY <1>1, <1>4, <1>5

LEMMA CollectedIsTerminal ==
  ASSUME NEW t, IsTerminal(t), NEW c \in Byte
  PROVE  IsTerminal(Collected(t, c)) /\ Collected(t, c).params # << >>
  <1>1. t.params \in Seq(Byte) /\ Append(t.params, c) \in Seq(Byte)
    BY DEF IsTerminal, Within
  <1>2. CASE Len(t.params) < AnsiBuffer
    <2> DEFINE longer == Append(t.params, c)
    <2>1. longer \in Seq(Byte) /\ longer # << >>
      BY <1>1
    <2>2. Collected(t, c) = [t EXCEPT !.params = longer]
      BY <1>2 DEF Collected
    <2> HIDE DEF longer
    <2>3. IsTerminal([t EXCEPT !.params = longer])
      BY <2>1, StateIsTerminal DEF AnsiState
    <2>4. [t EXCEPT !.params = longer].params = longer
      BY DEF IsTerminal, Within, Shaped, Field
    <2> QED BY <2>1, <2>2, <2>3, <2>4
  <1>3. CASE ~(Len(t.params) < AnsiBuffer)
    <2>1. Collected(t, c) = t
      BY <1>3 DEF Collected
    <2>2. Len(t.params) # 0
      BY <1>1, <1>3, Sizes
    <2> QED BY <2>1, <2>2
  <1> QED BY <1>2, <1>3

(* One byte of a write.                                                    *)
LEMMA DispatchIsTerminal ==
  ASSUME NEW t, IsTerminal(t), NEW c \in Byte
  PROVE  IsTerminal(Dispatch(t, c))
  <1>0. << >> \in Seq(Byte)
    OBVIOUS
  <1>1. CASE t.ansi = "IDLE"
    <2>1. IsTerminal([t EXCEPT !.ansi = "ESCAPE"])
      BY <1>0, StateIsTerminal DEF AnsiState
    <2> QED BY <1>1, <2>1, CharacterIsTerminal DEF Dispatch
  <1>2. CASE t.ansi = "ESCAPE"
    <2>1. IsTerminal([t EXCEPT !.ansi = "COLLECTING", !.params = << >>])
      BY <1>0, StateIsTerminal DEF AnsiState
    <2>2. IsTerminal(k_putchar(k_putchar(t, "ESC"), c))
      BY CharacterIsTerminal
    <2>3. IsTerminal([k_putchar(k_putchar(t, "ESC"), c) EXCEPT !.ansi = "IDLE"])
      BY <1>0, <2>2, StateIsTerminal DEF AnsiState
    <2> QED BY <1>2, <2>1, <2>3 DEF Dispatch
  <1>3. CASE t.ansi = "COLLECTING"
    <2>1. IsTerminal([t EXCEPT !.ansi = "IDLE", !.params = << >>])
      BY <1>0, StateIsTerminal DEF AnsiState
    <2>2. IsTerminal(Collected(t, c)) /\ IsTerminal(process_ansi_csi(Collected(t, c)))
      BY CollectedIsTerminal, SequenceIsTerminal
    <2> QED BY <1>3, <2>1, <2>2 DEF Dispatch
  <1>4. CASE t.ansi = "STUCK"
    BY <1>4 DEF Dispatch
  <1>5. t.ansi \in AnsiState
    BY DEF IsTerminal, Within
  <1> QED BY <1>1, <1>2, <1>3, <1>4, <1>5 DEF AnsiState

(* A whole write: the fold, then the flush of what it marked.              *)
EachByte == INSTANCE FoldProofs WITH Op <- Dispatch, Good <- IsTerminal

LEMMA FlushShows ==
  ASSUME NEW t, IsTerminal(t)
  PROVE  IsTerminal(fb_flush(t)) /\ NothingStaysHidden(fb_flush(t)) /\ fb_flush(t).ansi = t.ansi
  <1> DEFINE In(c) == Marked(t.dirty, c)
             image == [c \in Cell |-> IF In(c) THEN t.back[c] ELSE t.screen[c]]
             u == [t EXCEPT !.screen = image, !.dirty = NothingDirty]
  <1>1. fb_flush(t) = u
    BY DEF fb_flush, Marked
  <1>2. image = t.back
    <2>1. t.back = [c \in Cell |-> t.back[c]]
      BY DEF IsTerminal, Within, IsImage
    <2>2. ASSUME NEW c \in Cell PROVE image[c] = t.back[c]
      BY DEF IsTerminal, Within
    <2>3. image = [c \in Cell |-> image[c]]
      OBVIOUS
    <2> HIDE DEF image
    <2> QED BY <2>1, <2>2, <2>3
  <1> HIDE DEF image
  <1>3. /\ u.screen = t.back /\ u.back = t.back /\ u.dirty = NothingDirty /\ u.x = t.x /\ u.y = t.y
        /\ u.fb = t.fb /\ u.ansi = t.ansi /\ u.params = t.params
    BY <1>2 DEF IsTerminal, Within, Shaped, Field
  <1>4. Shaped(u)
    BY DEF IsTerminal, Within, Shaped, Field
  <1> HIDE DEF u
  <1>5. IsTerminal(u)
    BY <1>3, <1>4, AllIsMarked DEF IsTerminal, Within
  <1>6. <<t.y, t.x>> \in Cell
    BY CellsAreDrawn DEF IsTerminal, Within
  <1> QED BY <1>1, <1>3, <1>5, <1>6 DEF NothingStaysHidden

(* What holds of the terminal between two writes.                          *)
Flushed(t) == IsTerminal(t) /\ (t.ansi = "STUCK" \/ NothingStaysHidden(t))

LEMMA WriteFlushes ==
  ASSUME NEW t, IsTerminal(t), NEW bytes \in Seq(Byte)
  PROVE  Flushed(devfs_console_write(t, bytes))
  <1> DEFINE u == FoldLeft(Dispatch, t, bytes)
  <1>1. u = EachByte!Folded(t, bytes)
    BY DEF EachByte!Folded, FoldLeft, MapThenFoldSet, Max, EachByte!FoldLeft,
           EachByte!MapThenFoldSet, EachByte!Max
  <1>2. IsTerminal(EachByte!Folded(t, bytes))
    BY DispatchIsTerminal, EachByte!FoldKeeps
  <1>3. devfs_console_write(t, bytes) = IF u.ansi = "STUCK" THEN u ELSE fb_flush(u)
    BY DEF devfs_console_write
  <1> HIDE DEF u
  <1> QED BY <1>1, <1>2, <1>3, FlushShows DEF Flushed

-----------------------------------------------------------------------------
(* The line editor.                                                        *)
EditorField == {"state", "csi", "buffer", "len", "pos", "history", "view", "scratch",
                "scratch_len", "drawn", "out", "result"}
Line == {s \in Seq(Byte) : Len(s) < LineMax}

(* While an entry of the history is shown the scratch line is waiting, and *)
(* its length with it.                                                     *)
IsEditor(e) ==
  /\ e = [f \in EditorField |-> e[f]]
  /\ e.buffer \in Line /\ e.len = Len(e.buffer) /\ e.pos \in 0 .. e.len
  /\ e.history \in Seq(Line) /\ e.view \in 0 .. Len(e.history)
  /\ e.view < Len(e.history) => e.scratch \in Line /\ e.scratch_len = Len(e.scratch)
  /\ e.drawn \in Int /\ e.out \in Seq(Byte)

LEMMA BytesOfStrings ==
  ASSUME NEW s \in Seq(STRING)
  PROVE  s \in Seq(Byte)
  <1>1. STRING \subseteq Byte
    BY DEF Byte
  <1>2. PICK n \in Nat : n = Len(s) /\ s \in [1 .. n -> STRING]
    OBVIOUS
  <1>3. s \in [1 .. n -> Byte]
    BY <1>1, <1>2
  <1> QED BY <1>3

LEMMA EditorSizes == LineMax \in Nat \ {0} /\ HistorySize \in Nat \ {0} /\ Prompt \in Seq(Byte)
  BY LineEditorAssumption, BytesOfStrings DEF LineEditorAssumption

LEMMA EmptyLine == << >> \in Line /\ Len(<< >>) = 0 /\ << >> \in Seq(Byte)
  BY EditorSizes DEF Line

LEMMA BytesTogether ==
  ASSUME NEW a \in Seq(Byte), NEW b \in Seq(Byte)
  PROVE  a \o b \in Seq(Byte) /\ Len(a \o b) = Len(a) + Len(b)
  OBVIOUS

LEMMA OneByte ==
  ASSUME NEW c \in Byte
  PROVE  <<c>> \in Seq(Byte) /\ Len(<<c>>) = 1
  <1>1. Append(<< >>, c) = <<c>> /\ << >> \in Seq(Byte)
    OBVIOUS
  <1>2. Append(<< >>, c) \in Seq(Byte)
    BY <1>1, AppendProperties
  <1> QED BY <1>1, <1>2

(* What a line becomes when a character is put in, or parts are taken out. *)
LEMMA LineInserts ==
  ASSUME NEW s \in Seq(Byte), NEW i \in 0 .. Len(s), NEW c \in Byte
  PROVE  InsertAt(s, i + 1, c) \in Seq(Byte) /\ Len(InsertAt(s, i + 1, c)) = Len(s) + 1
  <1> DEFINE a == SubSeq(s, 1, (i + 1) - 1)
             b == SubSeq(s, i + 1, Len(s))
  <1>1. a \in Seq(Byte) /\ Len(a) = i
    OBVIOUS
  <1>2. b \in Seq(Byte) /\ Len(b) = Len(s) - i
    OBVIOUS
  <1>3. InsertAt(s, i + 1, c) = a \o <<c>> \o b
    BY DEF InsertAt
  <1> HIDE DEF a, b
  <1>4. a \o <<c>> \in Seq(Byte) /\ Len(a \o <<c>>) = i + 1
    BY <1>1, OneByte, BytesTogether
  <1> DEFINE d == a \o <<c>>
  <1>5. d \in Seq(Byte) /\ Len(d) = i + 1
    BY <1>4
  <1> HIDE DEF d
  <1>6. d \o b \in Seq(Byte) /\ Len(d \o b) = Len(d) + Len(b)
    BY <1>2, <1>5, BytesTogether
  <1>7. InsertAt(s, i + 1, c) = d \o b
    BY <1>3 DEF d
  <1>8. Len(d) + Len(b) = Len(s) + 1
    BY <1>2, <1>5
  <1> QED BY <1>6, <1>7, <1>8

LEMMA LineRemoves ==
  ASSUME NEW s \in Seq(Byte), NEW i \in 1 .. Len(s)
  PROVE  RemoveAt(s, i) \in Seq(Byte) /\ Len(RemoveAt(s, i)) = Len(s) - 1
  <1> DEFINE a == SubSeq(s, 1, i - 1)
             b == SubSeq(s, i + 1, Len(s))
  <1>1. a \in Seq(Byte) /\ Len(a) = i - 1
    OBVIOUS
  <1>2. b \in Seq(Byte) /\ Len(b) = Len(s) - i
    OBVIOUS
  <1>3. RemoveAt(s, i) = a \o b
    BY DEF RemoveAt
  <1> HIDE DEF a, b
  <1> QED BY <1>1, <1>2, <1>3

LEMMA LineParts ==
  ASSUME NEW s \in Seq(Byte), NEW i \in 0 .. Len(s)
  PROVE  /\ SubSeq(s, 1, i) \in Seq(Byte) /\ Len(SubSeq(s, 1, i)) = i
         /\ SubSeq(s, i + 1, Len(s)) \in Seq(Byte) /\ Len(SubSeq(s, i + 1, Len(s))) = Len(s) - i
  OBVIOUS

(* The visible length of the prompt is a fold over its bytes.              *)
SkipEscape(st, c) ==
  IF st.escape THEN [st EXCEPT !.escape = c \notin SequenceEnd]
  ELSE IF c = "ESC" THEN [st EXCEPT !.escape = TRUE]
  ELSE [st EXCEPT !.len = @ + 1]
CountsVisible(st) == st \in [escape : BOOLEAN, len : Int]
EachShown == INSTANCE FoldProofs WITH Op <- SkipEscape, Good <- CountsVisible

LEMMA VisibleLength == ansi_visible_len(Prompt) \in Int
  <1> DEFINE st == [escape |-> FALSE, len |-> 0]
  <1>1. CountsVisible(st)
    BY DEF CountsVisible
  <1>2. ASSUME NEW x, NEW c \in Byte, CountsVisible(x)
        PROVE  CountsVisible(SkipEscape(x, c))
    <2>1. CASE x.escape
      BY <1>2, <2>1 DEF CountsVisible, SkipEscape
    <2>2. CASE ~x.escape /\ c = "ESC"
      BY <1>2, <2>2 DEF CountsVisible, SkipEscape
    <2>3. CASE ~x.escape /\ c # "ESC"
      BY <1>2, <2>3 DEF CountsVisible, SkipEscape
    <2> QED BY <2>1, <2>2, <2>3
  <1> HIDE DEF st
  <1>3. CountsVisible(EachShown!Folded(st, Prompt))
    BY <1>1, <1>2, EditorSizes, EachShown!FoldKeeps
  <1>4. ansi_visible_len(Prompt) = EachShown!Folded(st, Prompt).len
    BY DEF ansi_visible_len, st, SkipEscape, EachShown!Folded, FoldLeft, MapThenFoldSet, Max,
           EachShown!FoldLeft, EachShown!MapThenFoldSet, EachShown!Max
  <1> QED BY <1>3, <1>4 DEF CountsVisible

LEMMA SpacesAreBytes ==
  ASSUME NEW n \in Int
  PROVE  Spaces(n) \in Seq(Byte)
  <1>1. PICK m \in Nat : 1 .. n = 1 .. m
    <2>1. CASE n >= 0
      BY <2>1
    <2>2. CASE n < 0
      <3>1. 1 .. n = {} /\ 1 .. 0 = {}
        BY <2>2
      <3> QED BY <3>1
    <2> QED BY <2>1, <2>2
  <1>2. Spaces(n) = [i \in 1 .. m |-> " "]
    BY <1>1 DEF Spaces
  <1>3. [i \in 1 .. m |-> " "] \in [1 .. m -> Byte]
    BY DEF Byte
  <1>4. \A S, s : s \in [1 .. m -> S] => s \in Seq(S)
    OBVIOUS
  <1> QED BY <1>2, <1>3, <1>4

(* Drawing the line changes what is drawn and nothing of the line.         *)
LEMMA RedrawnIsEditor ==
  ASSUME NEW e, IsEditor(e)
  PROVE  IsEditor(redraw_line(e)) /\ redraw_line(e).out \in Seq(Byte)
  <1> DEFINE current == ansi_visible_len(Prompt) + Len(e.buffer)
             erase == IF current >= e.drawn THEN 0
                      ELSE IF e.drawn > DrawnMax THEN (IF current < DrawnMax THEN DrawnMax - current ELSE 0)
                      ELSE e.drawn - current
             back == IF e.pos < Len(e.buffer)
                     THEN <<"CR">> \o Prompt \o SubSeq(e.buffer, 1, e.pos) ELSE << >>
             bytes == <<"CR">> \o Prompt \o e.buffer \o Spaces(erase) \o back
             u == [e EXCEPT !.drawn = current, !.out = bytes]
  <1>1. e.buffer \in Seq(Byte) /\ Len(e.buffer) \in Nat /\ e.drawn \in Int
        /\ e.pos \in 0 .. Len(e.buffer)
    BY DEF IsEditor, Line
  <1>2. current \in Int
    BY <1>1, VisibleLength
  <1>3. DrawnMax \in Nat
    BY LineEditorAssumption DEF LineEditorAssumption
  <1> HIDE DEF current
  <1>4. erase \in Int
    BY <1>1, <1>2, <1>3
  <1> HIDE DEF erase
  <1>5. <<"CR">> \o Prompt \in Seq(Byte)
    <2>1. "CR" \in Byte
      BY DEF Byte
    <2> QED BY <2>1, EditorSizes, OneByte, BytesTogether
  <1> DEFINE start == <<"CR">> \o Prompt
  <1>a. start \in Seq(Byte)
    BY <1>5
  <1> HIDE DEF start
  <1>6. back \in Seq(Byte)
    <2>1. SubSeq(e.buffer, 1, e.pos) \in Seq(Byte)
      BY <1>1, LineParts
    <2>2. start \o SubSeq(e.buffer, 1, e.pos) \in Seq(Byte)
      BY <1>a, <2>1, BytesTogether
    <2>3. << >> \in Seq(Byte)
      OBVIOUS
    <2> QED BY <2>2, <2>3 DEF start
  <1> HIDE DEF back
  <1>7. Spaces(erase) \in Seq(Byte)
    BY <1>4, SpacesAreBytes
  <1>8. bytes \in Seq(Byte)
    <2>1. start \o e.buffer \in Seq(Byte)
      BY <1>1, <1>a
    <2>2. (start \o e.buffer) \o Spaces(erase) \in Seq(Byte)
      BY <1>7, <2>1, BytesTogether
    <2>3. ((start \o e.buffer) \o Spaces(erase)) \o back \in Seq(Byte)
      BY <1>6, <2>2, BytesTogether
    <2> QED BY <2>3 DEF start
  <1> HIDE DEF bytes
  <1>9. redraw_line(e) = u
    BY DEF redraw_line, u, bytes, back, erase, current
  <1>10. /\ u.buffer = e.buffer /\ u.len = e.len /\ u.pos = e.pos /\ u.history = e.history
         /\ u.view = e.view /\ u.scratch = e.scratch /\ u.scratch_len = e.scratch_len
         /\ u.drawn = current /\ u.out = bytes
         /\ u = [f \in EditorField |-> u[f]]
    BY DEF IsEditor, EditorField
  <1> HIDE DEF u
  <1>11. IsEditor(u)
    BY <1>2, <1>8, <1>10 DEF IsEditor
  <1> QED BY <1>8, <1>9, <1>10, <1>11

(* Every edit: the record changes in these fields, the line stays one.     *)
LEMMA EditedIsEditor ==
  ASSUME NEW e, IsEditor(e), NEW u, u = [f \in EditorField |-> u[f]],
         u.buffer \in Line, u.len = Len(u.buffer), u.pos \in 0 .. u.len,
         u.history = e.history, u.view = e.view, u.scratch = e.scratch,
         u.scratch_len = e.scratch_len, u.drawn \in Int, u.out \in Seq(Byte)
  PROVE  IsEditor(u)
  BY DEF IsEditor

LEMMA EditorTypes ==
  ASSUME NEW e, IsEditor(e)
  PROVE  /\ e.buffer \in Seq(Byte) /\ Len(e.buffer) \in Nat /\ e.len = Len(e.buffer)
         /\ e.len < LineMax /\ e.pos \in Nat /\ e.pos <= e.len /\ e.drawn \in Int
         /\ e.out \in Seq(Byte) /\ e.history \in Seq(Line) /\ e.view \in 0 .. Len(e.history)
  BY DEF IsEditor, Line

LEMMA MoveIsEditor ==
  ASSUME NEW e, IsEditor(e), NEW pos \in 0 .. e.len
  PROVE  IsEditor(Move(e, pos))
  <1> DEFINE u == [e EXCEPT !.pos = pos]
  <1>1. IsEditor(u)
    BY DEF IsEditor, EditorField
  <1> QED BY <1>1, RedrawnIsEditor DEF Move

LEMMA InsertIsEditor ==
  ASSUME NEW e, IsEditor(e), NEW c \in Byte
  PROVE  IsEditor(Insert(e, c))
  <1> DEFINE b == InsertAt(e.buffer, e.pos + 1, c)
             u == [e EXCEPT !.buffer = InsertAt(@, e.pos + 1, c), !.pos = @ + 1, !.len = @ + 1]
  <1>1. CASE e.len >= LineMax - 1
    BY <1>1 DEF Insert
  <1>2. CASE ~(e.len >= LineMax - 1)
    <2>1. b \in Seq(Byte) /\ Len(b) = Len(e.buffer) + 1
      BY EditorTypes, LineInserts
    <2>2. /\ u.buffer = b /\ u.len = e.len + 1 /\ u.pos = e.pos + 1
          /\ u.history = e.history /\ u.view = e.view /\ u.scratch = e.scratch
          /\ u.scratch_len = e.scratch_len /\ u.drawn = e.drawn /\ u.out = e.out
          /\ u = [f \in EditorField |-> u[f]]
      BY DEF IsEditor, EditorField
    <2>3. Insert(e, c) = redraw_line(u)
      BY <1>2 DEF Insert
    <2> HIDE DEF b, u
    <2>4. u.buffer \in Line /\ u.len = Len(u.buffer) /\ u.pos \in 0 .. u.len
      <3>1. /\ Len(e.buffer) \in Nat /\ e.len = Len(e.buffer) /\ e.len < LineMax
           /\ e.pos \in Nat /\ e.pos <= e.len /\ LineMax \in Nat
        BY EditorTypes, EditorSizes
      <3>2. u.buffer \in Seq(Byte) /\ Len(u.buffer) = u.len
        BY <1>2, <2>1, <2>2, <3>1
      <3>3. u.len \in Nat /\ u.len < LineMax /\ u.pos \in 0 .. u.len
        BY <1>2, <2>1, <2>2, <3>1
      <3> QED BY <3>2, <3>3 DEF Line
    <2>5. IsEditor(u)
      BY <2>2, <2>4, EditorTypes, EditedIsEditor
    <2> QED BY <2>3, <2>5, RedrawnIsEditor
  <1>3. e.len \in Nat /\ LineMax \in Nat
    BY EditorTypes, EditorSizes
  <1> QED BY <1>1, <1>2

LEMMA RemoveIsEditor ==
  ASSUME NEW e, IsEditor(e)
  PROVE  IsEditor(RemoveHere(e)) /\ IsEditor(Backspace(e))
  <1>1. IsEditor(RemoveHere(e))
    <2> DEFINE b == RemoveAt(e.buffer, e.pos + 1)
               u == [e EXCEPT !.buffer = RemoveAt(@, e.pos + 1), !.len = @ - 1]
    <2>1. CASE e.pos >= e.len
      BY <2>1 DEF RemoveHere
    <2>2. CASE ~(e.pos >= e.len)
      <3>1. b \in Seq(Byte) /\ Len(b) = Len(e.buffer) - 1
        <4>1. e.pos + 1 \in 1 .. Len(e.buffer) /\ e.buffer \in Seq(Byte)
          BY <2>2, EditorTypes
        <4> QED BY <4>1, LineRemoves
      <3>2. /\ u.buffer = b /\ u.len = e.len - 1 /\ u.pos = e.pos
            /\ u.history = e.history /\ u.view = e.view /\ u.scratch = e.scratch
            /\ u.scratch_len = e.scratch_len /\ u.drawn = e.drawn /\ u.out = e.out
            /\ u = [f \in EditorField |-> u[f]]
        BY DEF IsEditor, EditorField
      <3>3. RemoveHere(e) = redraw_line(u)
        BY <2>2 DEF RemoveHere
      <3> HIDE DEF b, u
      <3>4. u.buffer \in Line /\ u.len = Len(u.buffer) /\ u.pos \in 0 .. u.len
        <4>1. /\ Len(e.buffer) \in Nat /\ e.len = Len(e.buffer) /\ e.len < LineMax
             /\ e.pos \in Nat /\ e.pos <= e.len /\ LineMax \in Nat
          BY EditorTypes, EditorSizes
        <4>2. u.buffer \in Seq(Byte) /\ Len(u.buffer) = u.len
          BY <2>2, <3>1, <3>2, <4>1
        <4>3. u.len \in Nat /\ u.len < LineMax /\ u.pos \in 0 .. u.len
          BY <2>2, <3>1, <3>2, <4>1
        <4> QED BY <4>2, <4>3 DEF Line
      <3>5. IsEditor(u)
        BY <3>2, <3>4, EditorTypes, EditedIsEditor
      <3> QED BY <3>3, <3>5, RedrawnIsEditor
    <2> QED BY <2>1, <2>2
  <1>2. IsEditor(Backspace(e))
    <2> DEFINE b == RemoveAt(e.buffer, e.pos)
               u == [e EXCEPT !.buffer = RemoveAt(@, e.pos), !.len = @ - 1, !.pos = @ - 1]
    <2>1. CASE e.pos = 0
      BY <2>1 DEF Backspace
    <2>2. CASE e.pos # 0
      <3>1. b \in Seq(Byte) /\ Len(b) = Len(e.buffer) - 1
        <4>1. e.pos \in 1 .. Len(e.buffer) /\ e.buffer \in Seq(Byte)
          BY <2>2, EditorTypes
        <4> QED BY <4>1, LineRemoves
      <3>2. /\ u.buffer = b /\ u.len = e.len - 1 /\ u.pos = e.pos - 1
            /\ u.history = e.history /\ u.view = e.view /\ u.scratch = e.scratch
            /\ u.scratch_len = e.scratch_len /\ u.drawn = e.drawn /\ u.out = e.out
            /\ u = [f \in EditorField |-> u[f]]
        BY DEF IsEditor, EditorField
      <3>3. Backspace(e) = redraw_line(u)
        BY <2>2 DEF Backspace
      <3> HIDE DEF b, u
      <3>4. u.buffer \in Line /\ u.len = Len(u.buffer) /\ u.pos \in 0 .. u.len
        <4>1. /\ Len(e.buffer) \in Nat /\ e.len = Len(e.buffer) /\ e.len < LineMax
             /\ e.pos \in Nat /\ e.pos <= e.len /\ LineMax \in Nat
          BY EditorTypes, EditorSizes
        <4>2. u.buffer \in Seq(Byte) /\ Len(u.buffer) = u.len
          BY <2>2, <3>1, <3>2, <4>1
        <4>3. u.len \in Nat /\ u.len < LineMax /\ u.pos \in 0 .. u.len
          BY <2>2, <3>1, <3>2, <4>1
        <4> QED BY <4>2, <4>3 DEF Line
      <3>5. IsEditor(u)
        BY <3>2, <3>4, EditorTypes, EditedIsEditor
      <3> QED BY <3>3, <3>5, RedrawnIsEditor
    <2> QED BY <2>1, <2>2
  <1> QED BY <1>1, <1>2

LEMMA KillIsEditor ==
  ASSUME NEW e, IsEditor(e)
  PROVE  IsEditor(KillRight(e)) /\ IsEditor(KillLeft(e))
  <1>0. e.pos \in 0 .. Len(e.buffer) /\ e.buffer \in Seq(Byte)
    BY EditorTypes
  <1>1. IsEditor(KillRight(e))
    <2> DEFINE u == [e EXCEPT !.buffer = SubSeq(@, 1, e.pos), !.len = e.pos]
    <2>1. /\ u.buffer = SubSeq(e.buffer, 1, e.pos) /\ u.len = e.pos /\ u.pos = e.pos
          /\ u.history = e.history /\ u.view = e.view /\ u.scratch = e.scratch
          /\ u.scratch_len = e.scratch_len /\ u.drawn = e.drawn /\ u.out = e.out
          /\ u = [f \in EditorField |-> u[f]]
      BY DEF IsEditor, EditorField
    <2>2. KillRight(e) = e \/ KillRight(e) = redraw_line(u)
      BY DEF KillRight
    <2> HIDE DEF u
    <2>3. u.buffer \in Seq(Byte) /\ Len(u.buffer) = e.pos
      BY <1>0, <2>1, LineParts
    <2>4. u.buffer \in Line /\ u.len = Len(u.buffer) /\ u.pos \in 0 .. u.len
      <3>1. /\ Len(e.buffer) \in Nat /\ e.len = Len(e.buffer) /\ e.len < LineMax
           /\ e.pos \in Nat /\ e.pos <= e.len /\ LineMax \in Nat
        BY EditorTypes, EditorSizes
      <3>2. u.buffer \in Seq(Byte) /\ Len(u.buffer) = u.len
        BY <2>1, <2>3, <3>1
      <3>3. u.len \in Nat /\ u.len < LineMax /\ u.pos \in 0 .. u.len
        BY <2>1, <2>3, <3>1
      <3> QED BY <3>2, <3>3 DEF Line
    <2>5. IsEditor(u)
      BY <2>1, <2>4, EditorTypes, EditedIsEditor
    <2> QED BY <2>2, <2>5, RedrawnIsEditor
  <1>2. IsEditor(KillLeft(e))
    <2> DEFINE u == [e EXCEPT !.buffer = SubSeq(@, e.pos + 1, Len(@)), !.len = @ - e.pos, !.pos = 0]
    <2>1. /\ u.buffer = SubSeq(e.buffer, e.pos + 1, Len(e.buffer)) /\ u.len = e.len - e.pos /\ u.pos = 0
          /\ u.history = e.history /\ u.view = e.view /\ u.scratch = e.scratch
          /\ u.scratch_len = e.scratch_len /\ u.drawn = e.drawn /\ u.out = e.out
          /\ u = [f \in EditorField |-> u[f]]
      BY DEF IsEditor, EditorField
    <2>2. KillLeft(e) = e \/ KillLeft(e) = redraw_line(u)
      BY DEF KillLeft
    <2> HIDE DEF u
    <2>3. u.buffer \in Seq(Byte) /\ Len(u.buffer) = Len(e.buffer) - e.pos
      BY <1>0, <2>1, LineParts
    <2>4. u.buffer \in Line /\ u.len = Len(u.buffer) /\ u.pos \in 0 .. u.len
      <3>1. /\ Len(e.buffer) \in Nat /\ e.len = Len(e.buffer) /\ e.len < LineMax
           /\ e.pos \in Nat /\ e.pos <= e.len /\ LineMax \in Nat
        BY EditorTypes, EditorSizes
      <3>2. u.buffer \in Seq(Byte) /\ Len(u.buffer) = u.len
        BY <1>0, <2>1, <2>3, <3>1
      <3>3. u.len \in Nat /\ u.len < LineMax /\ u.pos \in 0 .. u.len
        BY <1>0, <2>1, <2>3, <3>1
      <3> QED BY <3>2, <3>3 DEF Line
    <2>5. IsEditor(u)
      BY <2>1, <2>4, EditorTypes, EditedIsEditor
    <2> QED BY <2>2, <2>5, RedrawnIsEditor
  <1> QED BY <1>1, <1>2

(* A line comes back: the scratch line is there whenever an entry of the   *)
(* history is shown.                                                       *)
LEMMA RecalledIsEditor ==
  ASSUME NEW e, e = [f \in EditorField |-> e[f]], NEW line \in Line, NEW view \in 0 .. Len(e.history),
         e.history \in Seq(Line), e.drawn \in Int, e.out \in Seq(Byte),
         view < Len(e.history) => e.scratch \in Line /\ e.scratch_len = Len(e.scratch)
  PROVE  IsEditor(Recall(e, line, Len(line), view))
  <1> DEFINE u == [e EXCEPT !.buffer = line, !.len = Len(line), !.pos = Len(line), !.view = view]
  <1>1. /\ u.buffer = line /\ u.len = Len(line) /\ u.pos = Len(line)
        /\ u.history = e.history /\ u.view = view /\ u.scratch = e.scratch
        /\ u.scratch_len = e.scratch_len /\ u.drawn = e.drawn /\ u.out = e.out
        /\ u = [f \in EditorField |-> u[f]]
    BY DEF EditorField
  <1>2. Recall(e, line, Len(line), view) = redraw_line(u)
    BY DEF Recall
  <1> HIDE DEF u
  <1>3. Len(line) \in Nat
    BY DEF Line
  <1>4. IsEditor(u)
    BY <1>1, <1>3 DEF IsEditor
  <1> QED BY <1>2, <1>4, RedrawnIsEditor

LEMMA HistoryIsEditor ==
  ASSUME NEW e, IsEditor(e)
  PROVE  IsEditor(HistoryUp(e)) /\ IsEditor(HistoryDown(e))
  <1>1. Len(e.history) \in Nat /\ e.view \in Nat /\ e.view <= Len(e.history)
    BY EditorTypes
  <1>2. ASSUME NEW i \in 1 .. Len(e.history) PROVE e.history[i] \in Line
    BY <1>2, EditorTypes
  <1>3. IsEditor(HistoryUp(e))
    <2>1. CASE e.view = 0
      BY <2>1 DEF HistoryUp
    <2>2. CASE e.view # 0
      <3> DEFINE saved == IF e.view = Len(e.history)
                          THEN [e EXCEPT !.scratch = e.buffer, !.scratch_len = e.len] ELSE e
      <3>1. PICK line \in Line, view \in 0 .. Len(e.history) : line = e.history[e.view] /\ view = e.view - 1
        BY <1>1, <1>2, <2>2
      <3>2. HistoryUp(e) = Recall(saved, line, Len(line), view)
        BY <2>2, <3>1 DEF HistoryUp
      <3>3. /\ saved = [f \in EditorField |-> saved[f]] /\ saved.history = e.history
            /\ saved.drawn = e.drawn /\ saved.out = e.out
        BY DEF IsEditor, EditorField
      <3>4. saved.scratch \in Line /\ saved.scratch_len = Len(saved.scratch)
        <4>1. CASE e.view = Len(e.history)
          BY <4>1 DEF IsEditor, EditorField
        <4>2. CASE e.view # Len(e.history)
          BY <1>1, <4>2 DEF IsEditor
        <4> QED BY <4>1, <4>2
      <3> HIDE DEF saved
      <3>5. saved.history \in Seq(Line) /\ saved.drawn \in Int /\ saved.out \in Seq(Byte)
            /\ view \in 0 .. Len(saved.history)
        BY <3>3, EditorTypes
      <3> QED BY <3>2, <3>3, <3>4, <3>5, RecalledIsEditor
    <2> QED BY <2>1, <2>2
  <1>4. IsEditor(HistoryDown(e))
    <2>1. CASE e.view >= Len(e.history)
      BY <2>1 DEF HistoryDown
    <2>2. CASE ~(e.view >= Len(e.history)) /\ e.view + 1 = Len(e.history)
      <3>1. PICK line \in Line, view \in 0 .. Len(e.history) :
               line = e.scratch /\ Len(line) = e.scratch_len /\ view = e.view + 1
        <4>1. e.scratch \in Line /\ e.scratch_len = Len(e.scratch)
          BY <1>1, <2>2 DEF IsEditor
        <4>2. e.view + 1 \in 0 .. Len(e.history)
          BY <1>1, <2>2
        <4> QED BY <4>1, <4>2
      <3>2. HistoryDown(e) = Recall(e, line, Len(line), view)
        BY <2>2, <3>1 DEF HistoryDown
      <3>3. ~(view < Len(e.history)) /\ e = [f \in EditorField |-> e[f]]
        BY <1>1, <2>2, <3>1 DEF IsEditor
      <3> QED BY <3>2, <3>3, EditorTypes, RecalledIsEditor
    <2>3. CASE ~(e.view >= Len(e.history)) /\ e.view + 1 # Len(e.history)
      <3>1. e.view + 2 \in 1 .. Len(e.history) /\ e.view + 1 \in 0 .. Len(e.history)
        BY <1>1, <2>3
      <3>2. PICK line \in Line, view \in 0 .. Len(e.history) :
               line = e.history[e.view + 2] /\ view = e.view + 1
        BY <1>2, <3>1
      <3>3. HistoryDown(e) = Recall(e, line, Len(line), view)
        BY <2>3, <3>2 DEF HistoryDown
      <3>4. e.scratch \in Line /\ e.scratch_len = Len(e.scratch) /\ e = [f \in EditorField |-> e[f]]
        BY <1>1, <2>3 DEF IsEditor
      <3> QED BY <3>3, <3>4, EditorTypes, RecalledIsEditor
    <2> QED BY <2>1, <2>2, <2>3
  <1> QED BY <1>3, <1>4

LEMMA FewBytes ==
  ASSUME NEW a \in Byte, NEW b \in Byte, NEW c \in Byte, NEW d \in Byte, NEW e \in Byte,
         NEW f \in Byte, NEW g \in Byte
  PROVE  <<a, b, c>> \in Seq(Byte) /\ <<a, b, c, d>> \in Seq(Byte)
         /\ <<a, b, c, d, e, f, g>> \in Seq(Byte)
  <1>1. <<a, b, c>> \in [1 .. 3 -> Byte] /\ <<a, b, c, d>> \in [1 .. 4 -> Byte]
    OBVIOUS
  <1>2. <<a, b, c, d, e, f, g>> \in [1 .. 7 -> Byte]
    OBVIOUS
  <1>3. \A m \in Nat : \A s \in [1 .. m -> Byte] : s \in Seq(Byte)
    OBVIOUS
  <1>4. 3 \in Nat /\ 4 \in Nat /\ 7 \in Nat
    OBVIOUS
  <1> QED BY <1>1, <1>2, <1>3, <1>4

LEMMA ClearScreenIsBytes == ClearScreen \in Seq(Byte)
  <1>1. "ESC" \in Byte /\ "[" \in Byte /\ "2" \in Byte /\ "J" \in Byte /\ "H" \in Byte
    BY DEF Byte
  <1> QED BY <1>1, FewBytes DEF ClearScreen

(* Fields the line does not depend on.                                     *)
LEMMA StateIsEditor ==
  ASSUME NEW e, IsEditor(e), NEW v, NEW w, NEW bytes \in Seq(Byte)
  PROVE  /\ IsEditor([e EXCEPT !.state = v]) /\ IsEditor([e EXCEPT !.csi = v])
         /\ IsEditor([e EXCEPT !.state = v, !.csi = w]) /\ IsEditor([e EXCEPT !.result = v])
         /\ IsEditor(Says(e, bytes)) /\ Says(e, bytes).out = bytes
         /\ Says(e, bytes).history = e.history
         /\ IsEditor([Says(e, bytes) EXCEPT !.result = v])
  <1>1. IsEditor(Says(e, bytes)) /\ Says(e, bytes).out = bytes /\ Says(e, bytes).history = e.history
    BY DEF IsEditor, EditorField, Says
  <1>2. \A u : IsEditor(u) => IsEditor([u EXCEPT !.result = v])
    BY DEF IsEditor, EditorField
  <1>3. IsEditor([e EXCEPT !.state = v])
    BY DEF IsEditor, EditorField
  <1>4. IsEditor([e EXCEPT !.csi = v])
    BY DEF IsEditor, EditorField
  <1>5. IsEditor([e EXCEPT !.state = v, !.csi = w])
    BY DEF IsEditor, EditorField
  <1> QED BY <1>1, <1>2, <1>3, <1>4, <1>5

LEMMA SequenceIsEditor ==
  ASSUME NEW e, IsEditor(e), NEW c
  PROVE  IsEditor(Sequence(e, c))
  <1>1. e.len \in Nat /\ e.pos \in Nat /\ e.pos <= e.len
    BY EditorTypes
  <1>2. e.pos < e.len => IsEditor(Move(e, e.pos + 1))
    <2>1. e.pos < e.len => e.pos + 1 \in 0 .. e.len
      BY <1>1
    <2> QED BY <2>1, MoveIsEditor
  <1>3. e.pos > 0 => IsEditor(Move(e, e.pos - 1))
    <2>1. e.pos > 0 => e.pos - 1 \in 0 .. e.len
      BY <1>1
    <2> QED BY <2>1, MoveIsEditor
  <1>4. IsEditor(Move(e, 0)) /\ IsEditor(Move(e, e.len))
    <2>1. 0 \in 0 .. e.len /\ e.len \in 0 .. e.len
      BY <1>1
    <2> QED BY <2>1, MoveIsEditor
  <1>5. \/ Sequence(e, c) \in {HistoryUp(e), HistoryDown(e), Move(e, 0), Move(e, e.len), RemoveHere(e), e}
        \/ e.pos < e.len /\ Sequence(e, c) = Move(e, e.pos + 1)
        \/ e.pos > 0 /\ Sequence(e, c) = Move(e, e.pos - 1)
    BY DEF Sequence
  <1> QED BY <1>2, <1>3, <1>4, <1>5, HistoryIsEditor, RemoveIsEditor

LEMMA PlainIsEditor ==
  ASSUME NEW e, IsEditor(e), NEW c \in Byte
  PROVE  IsEditor(Plain(e, c))
  <1>1. "NL" \in Byte /\ "^" \in Byte /\ "C" \in Byte
    BY DEF Byte
  <1>2. <<"NL">> \in Seq(Byte) /\ <<"^", "C", "NL">> \in Seq(Byte)
    BY <1>1, OneByte, FewBytes
  <1>3. IsEditor([e EXCEPT !.state = "ESC"]) /\ IsEditor([Says(e, <<"NL">>) EXCEPT !.result = "line"])
        /\ IsEditor([Says(e, <<"NL">>) EXCEPT !.result = "exit"])
    BY <1>2, StateIsEditor
  <1>4. IsEditor(Move(e, 0)) /\ IsEditor(Move(e, e.len))
    <2>1. 0 \in 0 .. e.len /\ e.len \in 0 .. e.len
      BY EditorTypes
    <2> QED BY <2>1, MoveIsEditor
  <1> DEFINE abandoned == [Says(e, <<"^", "C", "NL">>) EXCEPT !.buffer = << >>, !.len = 0, !.pos = 0,
                             !.view = Len(e.history), !.drawn = 0, !.result = "line"]
             cleared == LET u == redraw_line([e EXCEPT !.drawn = 0])
                        IN Says(u, ClearScreen \o u.out)
  <1>5. IsEditor(abandoned)
    <2> DEFINE said == Says(e, <<"^", "C", "NL">>)
    <2>1. IsEditor(said) /\ said.history = e.history
      BY <1>2, StateIsEditor
    <2> HIDE DEF said
    <2>2. /\ abandoned.buffer = << >> /\ abandoned.len = 0 /\ abandoned.pos = 0
          /\ abandoned.history = said.history /\ abandoned.view = Len(e.history) /\ abandoned.drawn = 0
          /\ abandoned.out = said.out /\ abandoned = [f \in EditorField |-> abandoned[f]]
      BY <2>1 DEF IsEditor, EditorField, said
    <2> HIDE DEF abandoned
    <2>3. Len(e.history) \in Nat
      BY EditorTypes
    <2>4. abandoned.view \in 0 .. Len(abandoned.history) /\ ~(abandoned.view < Len(abandoned.history))
      BY <2>1, <2>2, <2>3
    <2> QED BY <2>1, <2>2, <2>4, EmptyLine DEF IsEditor
  <1>6. IsEditor(cleared)
    <2> DEFINE u == redraw_line([e EXCEPT !.drawn = 0])
    <2>1. IsEditor([e EXCEPT !.drawn = 0])
      <3> DEFINE v == [e EXCEPT !.drawn = 0]
      <3>1. /\ v.buffer = e.buffer /\ v.len = e.len /\ v.pos = e.pos /\ v.drawn = 0
            /\ v.out = e.out /\ v.history = e.history /\ v.view = e.view
            /\ v.scratch = e.scratch /\ v.scratch_len = e.scratch_len
            /\ v = [f \in EditorField |-> v[f]]
        BY DEF IsEditor, EditorField
      <3> HIDE DEF v
      <3>2. IsEditor(v)
        BY <3>1 DEF IsEditor
      <3> QED BY <3>2 DEF v
    <2>2. IsEditor(u) /\ u.out \in Seq(Byte)
      BY <2>1, RedrawnIsEditor
    <2> HIDE DEF u
    <2>3. ClearScreen \o u.out \in Seq(Byte)
      BY <2>2, ClearScreenIsBytes, BytesTogether
    <2>4. IsEditor(Says(u, ClearScreen \o u.out))
      BY <2>2, <2>3, StateIsEditor
    <2> QED BY <2>4 DEF u
  <1>7. Plain(e, c) \in {[e EXCEPT !.state = "ESC"], [Says(e, <<"NL">>) EXCEPT !.result = "line"],
                         [Says(e, <<"NL">>) EXCEPT !.result = "exit"], Backspace(e), Move(e, 0), Move(e, e.len),
                         abandoned, RemoveHere(e), KillRight(e), cleared, KillLeft(e), Insert(e, c), e}
    BY DEF Plain
  <1> HIDE DEF abandoned, cleared
  <1> QED BY <1>3, <1>4, <1>5, <1>6, <1>7, RemoveIsEditor, KillIsEditor, InsertIsEditor

(* One byte read from the keyboard.                                        *)
LEMMA AcceptIsEditor ==
  ASSUME NEW e, IsEditor(e), NEW c \in Byte
  PROVE  IsEditor(Accept(e, c))
  <1> DEFINE silent == Says(e, << >>)
             normal == [silent EXCEPT !.state = "NORMAL"]
             opened == [silent EXCEPT !.state = "CSI", !.csi = << >>]
             longer == [silent EXCEPT !.csi = Append(@, c)]
  <1>1. IsEditor(silent)
    BY EmptyLine, StateIsEditor
  <1> HIDE DEF silent
  <1>2. IsEditor(normal) /\ IsEditor(opened) /\ IsEditor(longer)
    <2>1. << >> \in Seq(Byte)
      BY EmptyLine
    <2> QED BY <1>1, <2>1, StateIsEditor
  <1>3. Accept(e, c) \in {opened, longer, silent, Sequence(normal, c), normal, Plain(normal, c)}
    BY DEF Accept, silent
  <1> HIDE DEF normal, opened, longer
  <1> QED BY <1>1, <1>2, <1>3, SequenceIsEditor, PlainIsEditor

LEMMA StartIsEditor ==
  ASSUME NEW e, IsEditor(e)
  PROVE  IsEditor(StartLine(e)) /\ StartLine(e).out \in Seq(Byte)
  <1> DEFINE u == StartLine(e)
  <1>1. /\ u.buffer = << >> /\ u.len = 0 /\ u.pos = 0 /\ u.drawn = ansi_visible_len(Prompt)
        /\ u.out = Prompt /\ u.history = e.history /\ u.view = e.view /\ u.scratch = e.scratch
        /\ u.scratch_len = e.scratch_len /\ u = [f \in EditorField |-> u[f]]
    BY DEF IsEditor, EditorField, StartLine
  <1> HIDE DEF u
  <1>2. IsEditor(u)
    BY <1>1, EmptyLine, VisibleLength, EditorSizes DEF IsEditor
  <1> QED BY <1>1, <1>2, EditorSizes DEF u

LEMMA NewIsEditor == IsEditor(NewEditor)
  <1> DEFINE u == NewEditor
  <1>1. /\ u.buffer = << >> /\ u.len = 0 /\ u.pos = 0 /\ u.drawn = 0
        /\ u.out = << >> /\ u.history = << >> /\ u.view = 0
        /\ u = [f \in EditorField |-> u[f]]
    BY DEF EditorField, NewEditor
  <1> HIDE DEF u
  <1>2. << >> \in Seq(Line)
    OBVIOUS
  <1>3. IsEditor(u)
    BY <1>1, <1>2, EmptyLine DEF IsEditor
  <1> QED BY <1>3 DEF u

LEMMA AddedIsEditor ==
  ASSUME NEW e, IsEditor(e)
  PROVE  IsEditor(history_add(e))
  <1> DEFINE h == Append(e.history, e.buffer)
             kept == IF Len(h) > HistorySize THEN Tail(h) ELSE h
             u == [e EXCEPT !.history = kept, !.view = Len(kept), !.scratch_len = 0]
  <1>1. h \in Seq(Line) /\ Len(h) \in Nat \ {0}
    BY DEF IsEditor
  <1> HIDE DEF h
  <1>2. kept \in Seq(Line) /\ Len(kept) \in Nat
    BY <1>1
  <1> HIDE DEF kept
  <1>3. /\ u.buffer = e.buffer /\ u.len = e.len /\ u.pos = e.pos /\ u.drawn = e.drawn
        /\ u.out = e.out /\ u.history = kept /\ u.view = Len(kept)
        /\ u = [f \in EditorField |-> u[f]]
    BY DEF IsEditor, EditorField
  <1>4. history_add(e) = e \/ history_add(e) = u
    BY DEF history_add, u, kept, h
  <1> HIDE DEF u
  <1>5. u.view \in 0 .. Len(u.history) /\ ~(u.view < Len(u.history))
    BY <1>2, <1>3
  <1>6. IsEditor(u)
    BY <1>2, <1>3, <1>5 DEF IsEditor
  <1> QED BY <1>4, <1>6

-----------------------------------------------------------------------------
(* The ring of the keyboard: indices that wrap.                            *)
(* Written with a name of its own, so that each step sees what it needs to *)
(* know of the remainder and no more.                                      *)
Wrap(a, r) == a % r

LEMMA SmallModulus ==
  ASSUME NEW r \in Nat \ {0}, NEW a \in Int
  PROVE  /\ a \in 0 .. r - 1 => Wrap(a, r) = a
         /\ a \in r .. 2 * r - 1 => Wrap(a, r) = a - r
         /\ a \in 0 - r .. 0 - 1 => Wrap(a, r) = a + r
         /\ Wrap(a, r) \in 0 .. r - 1
  <1>1. ASSUME NEW b \in 0 .. r - 1 PROVE Wrap(b, r) = b /\ Wrap(b + r, r) = b /\ Wrap(b - r, r) = b
    BY DEF Wrap
  <1>2. CASE a \in 0 .. r - 1
    BY <1>1, <1>2
  <1>3. CASE a \in r .. 2 * r - 1
    <2>1. a - r \in 0 .. r - 1 /\ (a - r) + r = a
      BY <1>3
    <2> QED BY <1>1, <1>3, <2>1
  <1>4. CASE a \in 0 - r .. 0 - 1
    <2>1. a + r \in 0 .. r - 1 /\ (a + r) - r = a
      BY <1>4
    <2> QED BY <1>1, <1>4, <2>1
  <1>5. Wrap(a, r) \in 0 .. r - 1
    BY DEF Wrap
  <1> QED BY <1>2, <1>3, <1>4, <1>5

(* The distance between two places, one of which moves on by n.            *)
LEMMA GapGrows ==
  ASSUME NEW r \in Nat \ {0}, NEW h \in 0 .. r - 1, NEW t \in 0 .. r - 1, NEW m \in 0 .. r - 1,
         NEW n \in Nat, NEW e \in Int, NEW k \in 0 .. r - 1, NEW f \in Int
  PROVE  ( /\ h = t + m \/ h = t + m - r
           /\ k = e \/ k = e - r
           /\ e = h + n /\ f = k - t /\ m + n <= r - 1 )
         => (f = m + n \/ f = m + n - r)
  OBVIOUS

(* The head moves from h by n places to k, the tail stays at t: the        *)
(* distance was m and had room for n.                                      *)
HeadMoves(r, h, t, d, m, n, e, k, f) ==
  /\ r \in Nat \ {0} /\ h \in 0 .. r - 1 /\ t \in 0 .. r - 1 /\ m \in 0 .. r - 1
  /\ n \in Nat /\ d \in Int /\ e \in Int /\ k \in Int /\ f \in Int
  /\ d = h - t /\ m = Wrap(d, r) /\ n <= r - 1 - m
  /\ e = h + n /\ k = Wrap(e, r) /\ f = k - t

LEMMA RingGrows ==
  ASSUME NEW r, NEW h, NEW t, NEW d, NEW m, NEW n, NEW e, NEW k, NEW f,
         HeadMoves(r, h, t, d, m, n, e, k, f)
  PROVE  /\ k \in 0 .. r - 1
         /\ Wrap(f, r) = m + n
         /\ \A i \in 1 .. m :
              Wrap(t + i - 1, r) \in 0 .. r - 1 /\ ~(Wrap(Wrap(t + i - 1, r) - h, r) < n)
  <1> /\ r \in Nat \ {0} /\ h \in 0 .. r - 1 /\ t \in 0 .. r - 1 /\ m \in 0 .. r - 1
      /\ n \in Nat /\ d \in Int /\ e \in Int /\ k \in Int /\ f \in Int
    BY DEF HeadMoves
  <1>0. d = h - t /\ e = h + n
    BY DEF HeadMoves
  <1>1. m = Wrap(d, r) /\ n <= r - 1 - m
    BY DEF HeadMoves
  <1>2. m + n <= r - 1 /\ d \in 0 - r .. r - 1
    BY <1>0, <1>1
  <1>3. h = t + m \/ h = t + m - r
    <2>1. CASE d >= 0
      <3>1. d \in 0 .. r - 1
        BY <1>2, <2>1
      <3>2. Wrap(d, r) = d
        BY <3>1, SmallModulus
      <3> QED BY <1>0, <1>1, <3>2
    <2>2. CASE d < 0
      <3>1. d \in 0 - r .. 0 - 1
        BY <1>2, <2>2
      <3>2. Wrap(d, r) = d + r
        BY <3>1, SmallModulus
      <3> QED BY <1>0, <1>1, <3>2
    <2> QED BY <2>1, <2>2
  <1>4. k = Wrap(e, r) /\ k \in 0 .. r - 1
    BY <1>0, SmallModulus DEF HeadMoves
  <1>5. k = e \/ k = e - r
    <2>1. CASE e < r
      <3>1. e \in 0 .. r - 1
        BY <1>0, <2>1
      <3> QED BY <1>4, <3>1, SmallModulus
    <2>2. CASE e >= r
      <3>1. e \in r .. 2 * r - 1
        BY <1>0, <1>2, <2>2
      <3> QED BY <1>4, <3>1, SmallModulus
    <2> QED BY <2>1, <2>2
  <1>6. Wrap(f, r) = m + n
    <2>1. f = k - t
      BY DEF HeadMoves
    <2>2. f = m + n \/ f = m + n - r
      BY <1>0, <1>2, <1>3, <1>4, <1>5, <2>1, GapGrows
    <2>3. CASE f = m + n
      <3>1. f \in 0 .. r - 1
        BY <1>2, <2>3
      <3> QED BY <2>1, <2>3, <3>1, SmallModulus
    <2>4. CASE f = m + n - r
      <3>1. f \in 0 - r .. 0 - 1 /\ f + r = m + n
        BY <1>2, <2>4
      <3> QED BY <2>1, <3>1, SmallModulus
    <2> QED BY <2>2, <2>3, <2>4
  <1>7. ASSUME NEW i \in 1 .. m
        PROVE  Wrap(t + i - 1, r) \in 0 .. r - 1 /\ ~(Wrap(Wrap(t + i - 1, r) - h, r) < n)
    <2>0. PICK g \in Int : g = t + i - 1
      OBVIOUS
    <2>1. PICK j \in 0 .. r - 1 : j = Wrap(g, r)
      BY SmallModulus
    <2>2. j = g \/ j = g - r
      <3>1. CASE g < r
        <4>1. g \in 0 .. r - 1
          BY <2>0, <3>1
        <4> QED BY <2>1, <4>1, SmallModulus
      <3>2. CASE g >= r
        <4>1. g \in r .. 2 * r - 1
          BY <2>0, <3>2
        <4> QED BY <2>1, <4>1, SmallModulus
      <3> QED BY <3>1, <3>2
    <2>3. PICK b \in Int : b = j - h
      OBVIOUS
    <2>4. Wrap(b, r) = i - 1 - m + r
      <3>1. b = i - 1 - m \/ b = i - 1 - m + r
        BY <1>3, <2>0, <2>2, <2>3
      <3>2. CASE b = i - 1 - m
        <4>1. b \in 0 - r .. 0 - 1 /\ b + r = i - 1 - m + r
          BY <3>2
        <4> QED BY <4>1, SmallModulus
      <3>3. CASE b = i - 1 - m + r
        <4>1. b \in 0 .. r - 1
          BY <3>3
        <4>2. Wrap(b, r) = b
          BY <4>1, SmallModulus
        <4> QED BY <3>3, <4>2
      <3> QED BY <3>1, <3>2, <3>3
    <2>5. ~(Wrap(b, r) < n)
      BY <1>2, <2>4
    <2> QED BY <2>0, <2>1, <2>3, <2>5
  <1> QED BY <1>0, <1>4, <1>6, <1>7

LEMMA RingShrinks ==
  ASSUME NEW r \in Nat \ {0}, NEW h \in 0 .. r - 1, NEW t \in 0 .. r - 1, Wrap(h - t, r) # 0
  PROVE  /\ Wrap(t + 1, r) \in 0 .. r - 1
         /\ Wrap(h - Wrap(t + 1, r), r) = Wrap(h - t, r) - 1
         /\ \A i \in 1 .. Wrap(h - t, r) - 1 :
              Wrap(Wrap(t + 1, r) + i - 1, r) = Wrap(t + (i + 1) - 1, r)
  <1>0. PICK d \in Int, e \in Int : d = h - t /\ e = t + 1
    OBVIOUS
  <1>1. PICK m \in 0 .. r - 1 : m = Wrap(d, r) /\ m # 0
    BY <1>0, SmallModulus
  <1>2. PICK k \in 0 .. r - 1 : k = Wrap(e, r)
    BY SmallModulus
  <1>3. h = t + m \/ h = t + m - r
    <2>1. CASE d >= 0
      <3>1. d \in 0 .. r - 1
        BY <1>0, <2>1
      <3>2. Wrap(d, r) = d
        BY <3>1, SmallModulus
      <3> QED BY <1>0, <1>1, <3>2
    <2>2. CASE d < 0
      <3>1. d \in 0 - r .. 0 - 1
        BY <1>0, <2>2
      <3>2. Wrap(d, r) = d + r
        BY <3>1, SmallModulus
      <3> QED BY <1>0, <1>1, <3>2
    <2> QED BY <2>1, <2>2
  <1>4. k = t + 1 \/ (k = 0 /\ t + 1 = r)
    <2>1. CASE e < r
      <3>1. e \in 0 .. r - 1
        BY <1>0, <2>1
      <3> QED BY <1>0, <1>2, <3>1, SmallModulus
    <2>2. CASE e >= r
      <3>1. e \in r .. 2 * r - 1 /\ e = r
        BY <1>0, <2>2
      <3>2. Wrap(e, r) = e - r
        BY <3>1, SmallModulus
      <3> QED BY <1>0, <1>2, <3>1, <3>2
    <2> QED BY <2>1, <2>2
  <1>5. Wrap(h - k, r) = m - 1
    <2>1. PICK f \in Int : f = h - k
      OBVIOUS
    <2>2. f = m - 1 \/ f = m - 1 - r
      BY <1>1, <1>3, <1>4, <2>1
    <2>3. CASE f = m - 1
      <3>1. f \in 0 .. r - 1
        BY <1>1, <2>3
      <3> QED BY <2>1, <2>3, <3>1, SmallModulus
    <2>4. CASE f = m - 1 - r
      <3>1. f \in 0 - r .. 0 - 1 /\ f + r = m - 1
        BY <1>1, <2>4
      <3> QED BY <2>1, <3>1, SmallModulus
    <2> QED BY <2>2, <2>3, <2>4
  <1>6. ASSUME NEW i \in 1 .. m - 1 PROVE Wrap(k + i - 1, r) = Wrap(t + (i + 1) - 1, r)
    <2>1. CASE k = t + 1
      <3>1. k + i - 1 = t + (i + 1) - 1
        BY <2>1
      <3> QED BY <3>1
    <2>2. CASE k = 0 /\ t + 1 = r
      <3>1. PICK a \in Int, b \in Int : a = k + i - 1 /\ b = t + (i + 1) - 1
        OBVIOUS
      <3>2. a \in 0 .. r - 1 /\ b \in r .. 2 * r - 1 /\ b - r = a
        BY <2>2, <3>1
      <3>3. Wrap(a, r) = a /\ Wrap(b, r) = b - r
        BY <3>2, SmallModulus
      <3> QED BY <3>1, <3>2, <3>3
    <2> QED BY <1>4, <2>1, <2>2
  <1> QED BY <1>0, <1>1, <1>2, <1>5, <1>6

RingInv ==
  /\ kbd_buffer \in [0 .. RingSize - 1 -> Byte]
  /\ kbd_head \in 0 .. RingSize - 1 /\ kbd_tail \in 0 .. RingSize - 1

LEMMA RingIsPositive == RingSize \in Nat \ {0}
  BY KeyboardAssumption DEF KeyboardAssumption

LEMMA PendingBytes ==
  ASSUME RingInv
  PROVE  /\ Pending \in Seq(Byte) /\ Len(Pending) = Wrap(kbd_head - kbd_tail, RingSize)
         /\ Len(Pending) \in 0 .. RingSize - 1
  <1>1. PICK m \in 0 .. RingSize - 1 : m = Wrap(kbd_head - kbd_tail, RingSize)
    <2>1. PICK d \in Int : d = kbd_head - kbd_tail
      BY RingIsPositive DEF RingInv
    <2>2. Wrap(d, RingSize) \in 0 .. RingSize - 1
      BY RingIsPositive, SmallModulus
    <2> QED BY <2>1, <2>2
  <1>2. ASSUME NEW i \in 1 .. m PROVE kbd_buffer[Wrap(kbd_tail + i - 1, RingSize)] \in Byte
    <2>1. Wrap(kbd_tail + i - 1, RingSize) \in 0 .. RingSize - 1
      <3>1. PICK e \in Int : e = kbd_tail + i - 1
        BY RingIsPositive DEF RingInv
      <3> QED BY <3>1, RingIsPositive, SmallModulus
    <2> QED BY <2>1 DEF RingInv
  <1>3. Pending = [i \in 1 .. m |-> kbd_buffer[Wrap(kbd_tail + i - 1, RingSize)]]
    BY <1>1 DEF Pending, Wrap
  <1>4. Pending \in [1 .. m -> Byte] /\ m \in Nat
    BY <1>2, <1>3, RingIsPositive
  <1>5. Pending \in Seq(Byte) /\ Len(Pending) = m
    BY <1>4
  <1> QED BY <1>1, <1>5

(* What is pushed comes after what was waiting.                            *)
LEMMA PushKeepsRing ==
  ASSUME RingInv, NEW bytes \in Seq(Byte), kbd_buffer_push(bytes)
  PROVE  RingInv' /\ IsPrefix(Pending, Pending')
  <1>0. PICK r \in Nat \ {0} : r = RingSize
    BY RingIsPositive
  <1>1. PICK h \in 0 .. r - 1, t \in 0 .. r - 1 : r = RingSize /\ h = kbd_head /\ t = kbd_tail
    BY <1>0 DEF RingInv
  <1>2. PICK m \in 0 .. r - 1 : m = Wrap(h - t, r)
    <2>1. PICK d \in Int : d = h - t
      OBVIOUS
    <2>2. Wrap(d, r) \in 0 .. r - 1
      BY SmallModulus
    <2> QED BY <2>1, <2>2
  <1>3. PICK n \in Nat : n = Fitting(bytes) /\ n <= Len(bytes) /\ n <= r - 1 - m
    <2>1. Room = r - 1 - m
      BY <1>1, <1>2 DEF Room, Wrap
    <2>2. Fitting(bytes) = IF Len(bytes) <= r - 1 - m THEN Len(bytes) ELSE r - 1 - m
      BY <2>1 DEF Fitting
    <2>3. r - 1 - m \in Nat /\ Len(bytes) \in Nat
      OBVIOUS
    <2>4. CASE Len(bytes) <= r - 1 - m
      BY <2>2, <2>3, <2>4
    <2>5. CASE ~(Len(bytes) <= r - 1 - m)
      BY <2>2, <2>3, <2>5
    <2> QED BY <2>4, <2>5
  <1>4. /\ kbd_buffer' = [i \in DOMAIN kbd_buffer |->
                           IF Wrap(i - h, r) < n THEN bytes[Wrap(i - h, r) + 1] ELSE kbd_buffer[i]]
        /\ kbd_head' = Wrap(h + n, r) /\ kbd_tail' = t
    BY <1>1, <1>3 DEF kbd_buffer_push, Wrap
  <1>a. PICK d \in Int, e \in Int : d = h - t /\ e = h + n
    OBVIOUS
  <1>5. PICK k \in Int : k = Wrap(h + n, r)
    <2>1. Wrap(e, r) \in Int
      BY SmallModulus
    <2> QED BY <1>a, <2>1
  <1>6. /\ k \in 0 .. r - 1
        /\ Wrap(k - t, r) = m + n
        /\ \A i \in 1 .. m : Wrap(t + i - 1, r) \in 0 .. r - 1 /\ ~(Wrap(Wrap(t + i - 1, r) - h, r) < n)
    <2>1. n <= r - 1 - m /\ m = Wrap(d, r) /\ k = Wrap(e, r)
      BY <1>a, <1>2, <1>3, <1>5
    <2>2. PICK f \in Int : f = k - t
      OBVIOUS
    <2>3. HeadMoves(r, h, t, d, m, n, e, k, f)
      BY <1>0, <1>1, <1>2, <1>3, <1>5, <1>a, <2>1, <2>2 DEF HeadMoves
    <2>4. k \in 0 .. r - 1 /\ Wrap(f, r) = m + n
      BY <2>3, RingGrows
    <2>5. \A i \in 1 .. m : Wrap(t + i - 1, r) \in 0 .. r - 1 /\ ~(Wrap(Wrap(t + i - 1, r) - h, r) < n)
      BY <2>3, RingGrows
    <2> QED BY <2>2, <2>4, <2>5
  <1>7. RingInv'
    <2>1. ASSUME NEW i \in 0 .. r - 1
          PROVE  (IF Wrap(i - h, r) < n THEN bytes[Wrap(i - h, r) + 1] ELSE kbd_buffer[i]) \in Byte
      <3>1. PICK place \in 0 .. r - 1 : place = Wrap(i - h, r)
        <4>1. PICK at \in Int : at = i - h
          OBVIOUS
        <4>2. Wrap(at, r) \in 0 .. r - 1
          BY SmallModulus
        <4> QED BY <4>1, <4>2
      <3>2. CASE place < n
        <4>1. place + 1 \in 1 .. Len(bytes)
          BY <1>3, <3>2
        <4> QED BY <3>1, <3>2, <4>1
      <3>3. CASE ~(place < n)
        BY <1>1, <3>1, <3>3 DEF RingInv
      <3> QED BY <3>2, <3>3
    <2>2. DOMAIN kbd_buffer = 0 .. r - 1
      BY <1>1 DEF RingInv
    <2>3. kbd_buffer' \in [0 .. r - 1 -> Byte]
      BY <1>4, <2>1, <2>2
    <2> QED BY <1>1, <1>4, <1>5, <1>6, <2>3 DEF RingInv
  <1>8. Pending = [i \in 1 .. m |-> kbd_buffer[Wrap(t + i - 1, r)]]
    BY <1>1, <1>2 DEF Pending, Wrap
  <1>9. Pending' = [i \in 1 .. m + n |-> kbd_buffer'[Wrap(t + i - 1, r)]]
    BY <1>1, <1>4, <1>5, <1>6 DEF Pending, Wrap
  <1>10. ASSUME NEW i \in 1 .. m PROVE kbd_buffer'[Wrap(t + i - 1, r)] = kbd_buffer[Wrap(t + i - 1, r)]
    <2>1. PICK j \in 0 .. r - 1 : j = Wrap(t + i - 1, r) /\ ~(Wrap(j - h, r) < n)
      BY <1>6
    <2>2. j \in DOMAIN kbd_buffer
      BY <1>1 DEF RingInv
    <2>3. kbd_buffer'[j] = kbd_buffer[j]
      BY <1>4, <2>1, <2>2
    <2> QED BY <2>1, <2>3
  <1>11. PICK p \in Seq(Byte) : p = Pending /\ Len(p) = m
    BY <1>1, <1>2, PendingBytes
  <1>12. PICK q \in Seq(Byte) : q = Pending' /\ Len(q) = m + n
    <2>1. ASSUME NEW i \in 1 .. m + n PROVE kbd_buffer'[Wrap(t + i - 1, r)] \in Byte
      <3>1. Wrap(t + i - 1, r) \in 0 .. r - 1
        <4>1. PICK at \in Int : at = t + i - 1
          OBVIOUS
        <4> QED BY <4>1, SmallModulus
      <3> QED BY <1>1, <1>7, <3>1 DEF RingInv
    <2>2. m + n \in Nat
      OBVIOUS
    <2>3. Pending' \in [1 .. m + n -> Byte]
      BY <1>9, <2>1
    <2> QED BY <2>2, <2>3
  <1>13. ASSUME NEW i \in 1 .. m PROVE p[i] = q[i]
    <2>1. p[i] = kbd_buffer[Wrap(t + i - 1, r)]
      BY <1>8, <1>11
    <2>2. i \in 1 .. m + n
      OBVIOUS
    <2>3. q[i] = kbd_buffer'[Wrap(t + i - 1, r)]
      BY <1>9, <1>12, <2>2
    <2> QED BY <1>10, <2>1, <2>3
  <1>14. IsPrefix(p, q)
    <2>1. Len(p) <= Len(q)
      BY <1>11, <1>12
    <2>2. SubSeq(p, 1, Len(p)) = SubSeq(q, 1, Len(p))
      BY <1>11, <1>12, <1>13
    <2> QED BY <2>1, <2>2 DEF IsPrefix
  <1> QED BY <1>7, <1>11, <1>12, <1>14

(* What is taken was the oldest; at least one byte was waiting.            *)
LEMMA TakeKeepsRing ==
  ASSUME RingInv, TakeBytes(1)
  PROVE  RingInv' /\ Pending' = Tail(Pending) /\ Head(Pending) \in Byte
  <1>0. PICK r \in Nat \ {0} : r = RingSize
    BY RingIsPositive
  <1>1. PICK h \in 0 .. r - 1, t \in 0 .. r - 1 : r = RingSize /\ h = kbd_head /\ t = kbd_tail
    BY <1>0 DEF RingInv
  <1>2. PICK p \in Seq(Byte), m \in 0 .. r - 1 :
           p = Pending /\ Len(p) = m /\ m = Wrap(h - t, r) /\ m # 0
    <2>1. PICK p \in Seq(Byte) : p = Pending /\ Len(p) \in 0 .. r - 1 /\ Len(p) = Wrap(h - t, r)
      BY <1>1, PendingBytes
    <2>2. p # << >>
      BY <2>1 DEF TakeBytes, Wrap
    <2>3. Len(p) # 0
      BY <2>2
    <2> QED BY <2>1, <2>3
  <1>3. kbd_tail' = Wrap(t + 1, r) /\ kbd_head' = h /\ kbd_buffer' = kbd_buffer
    <2>1. (IF 1 < Len(p) THEN 1 ELSE Len(p)) = 1
      BY <1>2
    <2> QED BY <1>1, <1>2, <2>1 DEF TakeBytes, Wrap
  <1>4. /\ Wrap(t + 1, r) \in 0 .. r - 1
        /\ Wrap(h - Wrap(t + 1, r), r) = m - 1
        /\ \A i \in 1 .. m - 1 : Wrap(Wrap(t + 1, r) + i - 1, r) = Wrap(t + (i + 1) - 1, r)
    <2>1. Wrap(h - t, r) # 0 /\ Wrap(h - t, r) = m
      BY <1>2
    <2>2. Wrap(t + 1, r) \in 0 .. r - 1
      BY <2>1, RingShrinks
    <2>3. Wrap(h - Wrap(t + 1, r), r) = Wrap(h - t, r) - 1
      BY <2>1, RingShrinks, ZenonT(20)
    <2>4. \A i \in 1 .. Wrap(h - t, r) - 1 : Wrap(Wrap(t + 1, r) + i - 1, r) = Wrap(t + (i + 1) - 1, r)
      BY <2>1, RingShrinks
    <2> QED BY <2>1, <2>2, <2>3, <2>4
  <1>5. RingInv'
    BY <1>1, <1>3, <1>4 DEF RingInv
  <1>6. p = [i \in 1 .. m |-> kbd_buffer[Wrap(t + i - 1, r)]]
    BY <1>1, <1>2 DEF Pending, Wrap
  <1>7. Pending' = [i \in 1 .. m - 1 |-> kbd_buffer[Wrap(Wrap(t + 1, r) + i - 1, r)]]
    BY <1>1, <1>3, <1>4 DEF Pending, Wrap
  <1>8. Tail(p) = [i \in 1 .. m - 1 |-> p[i + 1]]
    <2>1. p # << >>
      BY <1>2
    <2>2. Tail(p) \in Seq(Byte) /\ Len(Tail(p)) = m - 1
          /\ \A i \in 1 .. m - 1 : Tail(p)[i] = p[i + 1]
      BY <1>2, <2>1
    <2>3. m - 1 \in Nat
      BY <1>2
    <2>4. PICK q \in Seq(Byte) : q = Tail(p)
      BY <2>2
    <2>5. Len(q) = m - 1 /\ q \in [1 .. Len(q) -> Byte]
      BY <2>2, <2>4, LenProperties
    <2>6. q = [i \in 1 .. m - 1 |-> q[i]]
      BY <2>5
    <2> QED BY <2>2, <2>4, <2>6
  <1>9. ASSUME NEW i \in 1 .. m - 1
        PROVE  kbd_buffer[Wrap(Wrap(t + 1, r) + i - 1, r)] = p[i + 1]
    <2>1. i + 1 \in 1 .. m
      OBVIOUS
    <2>2. p[i + 1] = kbd_buffer[Wrap(t + (i + 1) - 1, r)]
      BY <1>6, <2>1
    <2> QED BY <1>4, <2>2
  <1>10. Pending' = Tail(p)
    BY <1>7, <1>8, <1>9
  <1>11. Head(p) \in Byte
    BY <1>2
  <1> QED BY <1>2, <1>5, <1>10, <1>11

LEMMA NothingMoves ==
  ASSUME RingInv, UNCHANGED <<kbd_buffer, kbd_head, kbd_tail>>
  PROVE  RingInv' /\ Pending' = Pending /\ IsPrefix(Pending, Pending')
  <1>1. RingInv' /\ Pending' = Pending
    BY DEF RingInv, Pending
  <1>2. PICK p \in Seq(Byte) : p = Pending
    BY PendingBytes
  <1>3. IsPrefix(p, p)
    BY DEF IsPrefix
  <1> QED BY <1>1, <1>2, <1>3

(* Every key pushes bytes, or nothing.                                     *)
LEMMA HandlerKeepsRing ==
  ASSUME RingInv, NEW key, NEW edge, keyboard_handler(key, edge)
  PROVE  RingInv' /\ IsPrefix(Pending, Pending')
  <1>1. CASE Quiet
    BY <1>1, NothingMoves DEF Quiet
  <1>2. CASE key \in DOMAIN Escapes /\ kbd_buffer_push(Escapes[key])
    <2>1. \A c \in {"ESC", "[", "A", "B", "C", "D", "H", "F", "3", "~"} : c \in Byte
      BY DEF Byte
    <2>2. DOMAIN Escapes = {"Up", "Down", "Right", "Left", "Home", "End", "Delete"}
      BY DEF Escapes
    <2>3. Escapes[key] \in {<<"ESC", "[", "A">>, <<"ESC", "[", "B">>, <<"ESC", "[", "C">>,
                            <<"ESC", "[", "D">>, <<"ESC", "[", "H">>, <<"ESC", "[", "F">>,
                            <<"ESC", "[", "3", "~">>}
      BY <1>2, <2>2 DEF Escapes
    <2>4. \A c \in {"A", "B", "C", "D", "H", "F"} : <<"ESC", "[", c>> \in Seq(Byte)
      BY <2>1, FewBytes
    <2>5. <<"ESC", "[", "3", "~">> \in Seq(Byte)
      BY <2>1, FewBytes
    <2>6. Escapes[key] \in Seq(Byte)
      BY <2>3, <2>4, <2>5
    <2> QED BY <1>2, <2>6, PushKeepsRing
  <1>3. CASE key \in DOMAIN Plains /\ kbd_buffer_push(<<Plains[key]>>)
    <2>1. Plains[key] \in Byte
      <3>1. DOMAIN Plains = {"Esc", "Backspace", "Enter", "Tab"}
        BY DEF Plains
      <3>2. Plains[key] \in {"ESC", "BS", "NL", "TAB"}
        BY <1>3, <3>1 DEF Plains
      <3> QED BY <3>2 DEF Byte
    <2>2. <<Plains[key]>> \in Seq(Byte)
      BY <2>1, OneByte
    <2> QED BY <1>3, <2>2, PushKeepsRing
  <1>4. CASE key \in DOMAIN UpperOf /\ kbd_buffer_push(<<translate_scancode(key)>>)
    <2>1. UpperOf[key] \in Byte /\ LowerOf[key] \in Byte
      <3>1. DOMAIN UpperOf = {"a", "b", "c", "d", "k", "l", "u", "one"}
        BY DEF UpperOf
      <3>2. UpperOf[key] \in {"A", "B", "C", "D", "K", "L", "U", "!"}
        BY <1>4, <3>1 DEF UpperOf
      <3>3. LowerOf[key] \in {"a", "b", "c", "d", "k", "l", "u", "1"}
        BY <1>4, <3>1 DEF LowerOf
      <3>4. UpperOf[key] \in Byte
        BY <3>2 DEF Byte
      <3>5. LowerOf[key] \in Byte
        BY <3>3 DEF Byte
      <3> QED BY <3>4, <3>5
    <2>2. <<translate_scancode(key)>> \in Seq(Byte)
      BY <2>1, OneByte DEF translate_scancode
    <2> QED BY <1>4, <2>2, PushKeepsRing
  <1>5. CASE key \in DOMAIN LowerLetter /\ kbd_buffer_push(<<LowerLetter[key]>>)
    <2>1. LowerLetter[key] \in Byte
      <3>1. DOMAIN LowerLetter = {"a", "c", "d", "k", "l", "u", "b"}
        BY DEF LowerLetter
      <3>2. LowerLetter[key] \in {"^A", "^C", "^D", "^K", "^L", "^U", "^B"}
        BY <1>5, <3>1 DEF LowerLetter
      <3> QED BY <3>2 DEF Byte
    <2>2. <<LowerLetter[key]>> \in Seq(Byte)
      BY <2>1, OneByte
    <2> QED BY <1>5, <2>2, PushKeepsRing
  <1> QED BY <1>1, <1>2, <1>3, <1>4, <1>5 DEF keyboard_handler

-----------------------------------------------------------------------------
(* The console.                                                            *)
ConsoleInv == Flushed(term) /\ IsEditor(editor) /\ RingInv

LEMMA FreshIsFlushed ==
  ASSUME NEW framebuffer \in BOOLEAN
  PROVE  Flushed(Fresh(framebuffer))
  <1> DEFINE t == Fresh(framebuffer)
             blank == [c \in Cell |-> BlankCell]
  <1>1. IsImage(blank)
    BY DEF IsImage
  <1>2. /\ t.fb = framebuffer /\ t.ansi = "IDLE" /\ t.params = << >> /\ t.x = 0 /\ t.y = 0
        /\ t.back = blank /\ t.screen = blank /\ t.dirty = NothingDirty
    BY DEF Fresh
  <1>3. Shaped(t)
    BY DEF Fresh, Shaped, Field
  <1> HIDE DEF t, blank
  <1>4. << >> \in Seq(Byte) /\ 0 \in 0 .. Cols - 1 /\ 0 \in 0 .. Rows - 1
    BY Sizes
  <1>5. IsTerminal(t)
    BY <1>1, <1>2, <1>3, <1>4, AllIsMarked DEF IsTerminal, Within, AnsiState
  <1>6. NothingStaysHidden(t)
    BY <1>2, <1>4, CellsAreDrawn DEF NothingStaysHidden
  <1> QED BY <1>5, <1>6 DEF Flushed, t

LEMMA OutputsAreBytes ==
  \A output \in CommandOutput \cup ProgramOutput : output \in Seq(Byte)
  BY ConsoleAssumption, BytesOfStrings DEF ConsoleAssumption

LEMMA KeyboardStarts ==
  ASSUME KeyboardInit
  PROVE  RingInv
  <1>1. "0" \in Byte
    BY DEF Byte
  <1> QED BY <1>1, RingIsPositive DEF KeyboardInit, RingInv

LEMMA StartKeeps ==
  ASSUME NEW e, IsEditor(e), NEW t, IsTerminal(t), NEW greeting \in Seq(Byte), Started(e, t, greeting)
  PROVE  IsEditor(editor') /\ Flushed(term')
  <1> DEFINE s == StartLine(e)
  <1>1. IsEditor(s) /\ s.out \in Seq(Byte)
    BY StartIsEditor
  <1>2. editor' = s /\ term' = devfs_console_write(t, greeting \o s.out)
    BY DEF Started
  <1> HIDE DEF s
  <1>3. greeting \o s.out \in Seq(Byte)
    BY <1>1, BytesTogether
  <1> QED BY <1>1, <1>2, <1>3, WriteFlushes

LEMMA ConsoleStarts ==
  ASSUME ConsoleInit
  PROVE  ConsoleInv
  <1>1. RingInv
    BY KeyboardStarts DEF ConsoleInit
  <1>2. PICK fb \in BOOLEAN :
          \/ /\ user = "shell" /\ editor = StartLine(NewEditor)
             /\ term = devfs_console_write(Fresh(fb), ClearScreen \o editor.out)
          \/ user = "program" /\ editor = NewEditor /\ term = Fresh(fb)
    BY DEF ConsoleInit
  <1>3. Flushed(Fresh(fb)) /\ IsTerminal(Fresh(fb))
    BY FreshIsFlushed DEF Flushed
  <1>4. CASE /\ user = "shell" /\ editor = StartLine(NewEditor)
             /\ term = devfs_console_write(Fresh(fb), ClearScreen \o editor.out)
    <2>1. IsEditor(editor) /\ editor.out \in Seq(Byte)
      BY <1>4, NewIsEditor, StartIsEditor
    <2>2. PICK bytes \in Seq(Byte) : bytes = ClearScreen \o editor.out
      BY <2>1, ClearScreenIsBytes, BytesTogether
    <2>3. Flushed(devfs_console_write(Fresh(fb), bytes))
      BY <1>3, WriteFlushes
    <2> QED BY <1>1, <1>4, <2>1, <2>2, <2>3 DEF ConsoleInv
  <1>5. CASE user = "program" /\ editor = NewEditor /\ term = Fresh(fb)
    BY <1>1, <1>3, <1>5, NewIsEditor DEF ConsoleInv
  <1> QED BY <1>2, <1>4, <1>5

(* One step: the invariant, and what becomes of the waiting bytes.         *)
Survive == IsPrefix(Pending, Pending') \/ Pending' = Tail(Pending)

LEMMA ConsoleStep ==
  ASSUME ConsoleInv, [ConsoleNext]_cvars
  PROVE  ConsoleInv' /\ Survive
  <1> USE DEF ConsoleInv, Survive
  <1>0. IsTerminal(term)
    BY DEF Flushed
  <1>1. ASSUME NEW s \in Scancode, Irq(s[1], s[2]) PROVE ConsoleInv' /\ Survive
    <2>1. keyboard_handler(s[1], s[2]) /\ UNCHANGED <<term, editor>>
      BY <1>1 DEF Irq
    <2>2. RingInv' /\ IsPrefix(Pending, Pending')
      BY <2>1, HandlerKeepsRing
    <2> QED BY <2>1, <2>2 DEF Flushed
  <1>2. CASE ReadKey
    <2>1. TakeBytes(1) /\ editor' = Accept(editor, Head(Pending))
          /\ term' = devfs_console_write(term, editor'.out)
      BY <1>2 DEF ReadKey
    <2>2. RingInv' /\ Pending' = Tail(Pending) /\ Head(Pending) \in Byte
      BY <2>1, TakeKeepsRing
    <2>3. IsEditor(Accept(editor, Head(Pending)))
      BY <2>2, AcceptIsEditor
    <2>4. IsEditor(editor')
      BY <2>1, <2>3
    <2>5. PICK bytes \in Seq(Byte) : bytes = editor'.out
      BY <2>4 DEF IsEditor
    <2>6. Flushed(devfs_console_write(term, bytes))
      BY <1>0, WriteFlushes
    <2>7. Flushed(term')
      BY <2>1, <2>5, <2>6
    <2> QED BY <2>2, <2>4, <2>7
  <1>3. ASSUME NEW o \in CommandOutput, Execute(o) PROVE ConsoleInv' /\ Survive
    <2>1. PICK greeting \in Seq(Byte) : Started(history_add(editor), term, greeting)
      <3>1. o \in Seq(Byte) /\ << >> \in Seq(Byte)
        BY OutputsAreBytes
      <3> QED BY <1>3, <3>1 DEF Execute
    <2>2. UNCHANGED <<kbd_buffer, kbd_head, kbd_tail>>
      BY <1>3 DEF Execute, kvars
    <2>3. IsEditor(editor') /\ Flushed(term')
      BY <1>0, <2>1, AddedIsEditor, StartKeeps
    <2> QED BY <2>2, <2>3, NothingMoves
  <1>4. CASE Respawn
    <2>1. Started(NewEditor, term, ClearScreen) /\ UNCHANGED <<kbd_buffer, kbd_head, kbd_tail>>
      BY <1>4 DEF Respawn, kvars
    <2>2. IsEditor(editor') /\ Flushed(term')
      BY <1>0, <2>1, NewIsEditor, ClearScreenIsBytes, StartKeeps
    <2> QED BY <2>1, <2>2, NothingMoves
  <1>5. ASSUME NEW o \in ProgramOutput, ProgramWrites(o) PROVE ConsoleInv' /\ Survive
    <2>1. term' = devfs_console_write(term, o) /\ editor' = editor
          /\ UNCHANGED <<kbd_buffer, kbd_head, kbd_tail>>
      BY <1>5 DEF ProgramWrites, kvars
    <2>2. Flushed(term')
      BY <1>0, <2>1, OutputsAreBytes, WriteFlushes
    <2> QED BY <2>1, <2>2, NothingMoves
  <1>6. CASE UNCHANGED cvars
    <2>1. UNCHANGED <<kbd_buffer, kbd_head, kbd_tail, term, editor>>
      BY <1>6 DEF cvars
    <2> QED BY <2>1, NothingMoves
  <1> QED BY <1>1, <1>2, <1>3, <1>4, <1>5, <1>6 DEF ConsoleNext

(* The invariant of the console: whatever the terminal shows was flushed,  *)
(* the editor's record describes its line, the ring's indices are in it.   *)
THEOREM ConsoleIsInvariant == ConsoleSpec => []ConsoleInv
  <1>1. ConsoleInit => ConsoleInv
    BY ConsoleStarts
  <1>2. ConsoleInv /\ [ConsoleNext]_cvars => ConsoleInv'
    BY ConsoleStep
  <1> QED BY <1>1, <1>2, PTL DEF ConsoleSpec

(* Every write ends with the back buffer on the screen and the cursor      *)
(* inside of it, for every size of the screen and whatever is written      *)
(* (framebuffer.c:157), unless the automaton hangs.                        *)
THEOREM ScreenIsFlushed == ConsoleSpec => []AllIsVisible
  <1>1. ConsoleInv => AllIsVisible
    BY DEF ConsoleInv, Flushed, AllIsVisible
  <1> QED BY <1>1, ConsoleIsInvariant, PTL

(* The lengths and the cursor that the line editor keeps beside its text   *)
(* are right after any keys, for every length of line and of history.      *)
THEOREM LinesAreConsistent == ConsoleSpec => []EditorIsConsistent
  <1>1. ConsoleInv => EditorIsConsistent
    BY EditorTypes DEF ConsoleInv, EditorIsConsistent
  <1> QED BY <1>1, ConsoleIsInvariant, PTL

(* A step takes the oldest byte of the ring or leaves all that wait where  *)
(* they are, for every size of the ring (keyboard.c:39).                   *)
THEOREM KeysSurvive == ConsoleSpec => UnreadBytesSurvive
  <1>1. ConsoleInv /\ [ConsoleNext]_cvars => [Survive]_cvars
    BY ConsoleStep
  <1> QED BY <1>1, ConsoleIsInvariant, PTL DEF ConsoleSpec, UnreadBytesSurvive, Survive
=============================================================================
