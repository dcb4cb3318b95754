------------------------------ MODULE Console ------------------------------
(***************************************************************************)
(* The console from key to glyph: the keyboard's ring, read through        *)
(* /dev/console by the shell's line editor, whose output goes through the  *)
(* terminal.  The handlers of the kernel run with interrupts off, so a key *)
(* arrives between two calls of the shell; the writes of one redraw_line   *)
(* follow each other, as nobody else writes while the shell reads.         *)
(*                                                                         *)
(* Either the shell has the console or another program that it waits for,  *)
(* which writes what it likes.                                             *)
(***************************************************************************)
EXTENDS Keyboard, LineEditor, Terminal

CONSTANTS
  Scancode,                \* <<key, edge>> typed
  CommandOutput,           \* what commands print: whole lines, or a cleared screen
  ProgramOutput,           \* writes of another program
  MaxKeys, MaxWrites       \* (bounds) scancodes, writes of the other program

ConsoleAssumption == CommandOutput \cup ProgramOutput \subseteq Seq(STRING)
ASSUME ConsoleAssumption

VARIABLES
  term,                    \* the terminal
  editor,                  \* the editor of the shell
  user,                    \* "shell" reads, "command" runs, or a "program" has the console
  inputs                   \* scancodes or writes of the program so far

cvars == <<kbd_buffer, kbd_head, kbd_tail, keys, term, editor, user, inputs>>

Started(e, t, greeting) ==
  LET s == StartLine(e)
  IN editor' = s /\ term' = devfs_console_write(t, greeting \o s.out)

ConsoleInit ==
  /\ KeyboardInit /\ inputs = 0
  /\ \E fb \in BOOLEAN :
       \/ /\ user = "shell" /\ editor = StartLine(NewEditor)
          /\ term = devfs_console_write(Fresh(fb), ClearScreen \o editor.out)
       \/ user = "program" /\ editor = NewEditor /\ term = Fresh(fb)

Irq(key, edge) ==
  /\ user # "program" /\ inputs < MaxKeys /\ keyboard_handler(key, edge)
  /\ inputs' = inputs + 1 /\ UNCHANGED <<term, editor, user>>

ReadKey ==                                     \* read(0, &c, 1) and what follows
  /\ user = "shell" /\ TakeBytes(1)
  /\ editor' = Accept(editor, Head(Pending))
  /\ term' = devfs_console_write(term, editor'.out)
  /\ user' = IF editor'.result = "none" THEN "shell" ELSE "command"
  /\ UNCHANGED inputs

Execute(output) ==                             \* the loop of main, up to the next prompt
  /\ user = "command" /\ editor.result = "line"
  /\ LET e == history_add(editor)
     IN Started(e, term, IF editor.len = 0 THEN <<>> ELSE output)
  /\ user' = "shell" /\ UNCHANGED <<kvars, inputs>>

Respawn ==                                     \* the shell exits, Init starts another
  /\ user = "command" /\ editor.result = "exit"
  /\ Started(NewEditor, term, ClearScreen)
  /\ user' = "shell" /\ UNCHANGED <<kvars, inputs>>

ProgramWrites(output) ==
  /\ user = "program" /\ inputs < MaxWrites /\ term.ansi # "STUCK"
  /\ term' = devfs_console_write(term, output)
  /\ inputs' = inputs + 1 /\ UNCHANGED <<kvars, editor, user>>

ConsoleNext ==
  \/ \E s \in Scancode : Irq(s[1], s[2])
  \/ ReadKey
  \/ \E o \in CommandOutput : Execute(o)
  \/ Respawn
  \/ \E o \in ProgramOutput : ProgramWrites(o)

ConsoleSpec == ConsoleInit /\ [][ConsoleNext]_cvars

-----------------------------------------------------------------------------
(* A byte that waits in the ring is never overwritten: the ring is read    *)
(* from its old end and grows at the other, also when its indices wrap and *)
(* when a key's escape sequence does not fit (keyboard.c:39).              *)
UnreadBytesSurvive ==
  [][IsPrefix(Pending, Pending') \/ Pending' = Tail(Pending)]_cvars

(* What the shell believes about its line is so: the length it keeps is    *)
(* that of the text, also of a text that comes back from the history or    *)
(* the scratch line, the cursor is in it and the buffer holds it.          *)
EditorIsConsistent ==
  user # "program" =>
    /\ editor.len = Len(editor.buffer) /\ editor.pos \in 0 .. editor.len
    /\ editor.len < LineMax /\ editor.view \in 0 .. Len(editor.history)

(* The user sees the line that Enter would run, and nothing else in its    *)
(* row, provided lines fit the screen: redraw_line erases what it drew     *)
(* before, and what is drawn reaches the screen (shell_user.c:725).        *)
PromptText == SelectSeq(Prompt, LAMBDA c : c \in {"#", "$"})
ScreenShowsLine ==
  user = "shell" =>
    LET text == PromptText \o editor.buffer
    IN \A x \in 0 .. Cols - 1 :
         term.screen[<<term.y, x>>][1] = IF x < Len(text) THEN text[x + 1] ELSE " "

(* Every write, key echo and scroll ends with the back buffer on the screen *)
(* and the cursor inside of it: no cell that changed is left out of the     *)
(* dirty rectangle (framebuffer.c:157), unless the automaton hangs.         *)
AllIsVisible == term.ansi = "STUCK" \/ NothingStaysHidden(term)
=============================================================================
