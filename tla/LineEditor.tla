----------------------------- MODULE LineEditor -----------------------------
(***************************************************************************)
(* readline of the shell (shell_user.c): the line being edited, the        *)
(* history, and what is written to the terminal for each byte read.        *)
(*                                                                         *)
(* The editor is a record e.  buffer is the text up to its NUL, len is     *)
(* buf_len, which the code keeps beside it; pos is the cursor, from 0.     *)
(***************************************************************************)
EXTENDS Integers, Sequences, SequencesExt

CONSTANTS Prompt,          \* bytes of the prompt, control sequences included
          Letter,          \* printable characters
          LineMax,         \* max_size
          HistorySize,     \* HISTORY_SIZE
          DrawnMax,        \* 200: what redraw_line clears at most
          CsiBuffer        \* sizeof(csi_buf) - 1

LineEditorAssumption ==
  /\ LineMax \in Nat \ {0} /\ HistorySize \in Nat \ {0} /\ CsiBuffer \in Nat \ {0}
  /\ DrawnMax \in Nat /\ Prompt \in Seq(STRING)
ASSUME LineEditorAssumption

CsiParameter == {"0", "1", "2", "3", "4", "5", "6", "7", "8", "9", ";", "?"}
SequenceEnd == {"[", "m", "H", "J", "A", "B", "C", "D", "F", "~", "a", "b"}  \* 0x40 .. 0x7E

(* The length redraw_line works with: an escape sequence is taken to end   *)
(* with the first byte of 0x40 .. 0x7E after ESC, which is its "[".        *)
ansi_visible_len(s) ==
  FoldLeft(LAMBDA st, c :
             IF st.escape THEN [st EXCEPT !.escape = c \notin SequenceEnd]
             ELSE IF c = "ESC" THEN [st EXCEPT !.escape = TRUE]
             ELSE [st EXCEPT !.len = @ + 1],
           [escape |-> FALSE, len |-> 0], s).len

NewEditor ==
  [state |-> "NORMAL", csi |-> <<>>, buffer |-> <<>>, len |-> 0, pos |-> 0,
   history |-> <<>>, view |-> 0, scratch |-> <<>>, scratch_len |-> 0,
   drawn |-> 0, out |-> <<>>, result |-> "none"]

Says(e, bytes) == [e EXCEPT !.out = bytes]

Spaces(n) == [i \in 1 .. n |-> " "]

NoTail(e) == Says(e, <<"CR">> \o Prompt \o e.buffer)   \* fault: the old tail stays
redraw_line(e) ==
  LET current == ansi_visible_len(Prompt) + Len(e.buffer)
      erase == IF current >= e.drawn THEN 0
               ELSE IF e.drawn > DrawnMax THEN (IF current < DrawnMax THEN DrawnMax - current ELSE 0)
               ELSE e.drawn - current
      back == IF e.pos < Len(e.buffer)
              THEN <<"CR">> \o Prompt \o SubSeq(e.buffer, 1, e.pos) ELSE <<>>
  IN [e EXCEPT !.drawn = current,
               !.out = <<"CR">> \o Prompt \o e.buffer \o Spaces(erase) \o back]

(* The start of readline.                                                  *)
StartLine(e) ==
  [e EXCEPT !.state = "NORMAL", !.csi = <<>>, !.buffer = <<>>, !.len = 0, !.pos = 0,
            !.drawn = ansi_visible_len(Prompt), !.out = Prompt, !.result = "none"]

history_add(e) ==
  IF Len(e.buffer) = 0 \/ (e.history # <<>> /\ Last(e.history) = e.buffer) THEN e
  ELSE LET h == Append(e.history, e.buffer)
           kept == IF Len(h) > HistorySize THEN Tail(h) ELSE h
       IN [e EXCEPT !.history = kept, !.view = Len(kept), !.scratch_len = 0]

-----------------------------------------------------------------------------
(* Editing.  buffer \o NUL moves as a block, buf_len follows.              *)
Move(e, pos) == IF e.pos = pos THEN e ELSE redraw_line([e EXCEPT !.pos = pos])

Insert(e, c) ==
  IF e.len >= LineMax - 1 THEN e
  ELSE redraw_line([e EXCEPT !.buffer = InsertAt(@, e.pos + 1, c), !.pos = @ + 1, !.len = @ + 1])

RemoveHere(e) ==
  IF e.pos >= e.len THEN e
  ELSE redraw_line([e EXCEPT !.buffer = RemoveAt(@, e.pos + 1), !.len = @ - 1])
Backspace(e) ==
  IF e.pos = 0 THEN e
  ELSE redraw_line([e EXCEPT !.buffer = RemoveAt(@, e.pos), !.len = @ - 1, !.pos = @ - 1])
KillRight(e) ==
  IF e.pos >= e.len THEN e
  ELSE redraw_line([e EXCEPT !.buffer = SubSeq(@, 1, e.pos), !.len = e.pos])
KillLeft(e) ==
  IF e.pos = 0 THEN e
  ELSE redraw_line([e EXCEPT !.buffer = SubSeq(@, e.pos + 1, Len(@)), !.len = @ - e.pos, !.pos = 0])

Recall(e, line, len, view) ==
  redraw_line([e EXCEPT !.buffer = line, !.len = len, !.pos = len, !.view = view])

UnsavedLength(e) ==                            \* fault: scratch_len is not set
  IF e.view = 0 THEN e
  ELSE LET saved == IF e.view = Len(e.history) THEN [e EXCEPT !.scratch = e.buffer] ELSE e
           line == e.history[e.view]
       IN Recall(saved, line, Len(line), e.view - 1)
HistoryUp(e) ==
  IF e.view = 0 THEN e
  ELSE LET saved == IF e.view = Len(e.history)
                    THEN [e EXCEPT !.scratch = e.buffer, !.scratch_len = e.len] ELSE e
           line == e.history[e.view]
       IN Recall(saved, line, Len(line), e.view - 1)
HistoryDown(e) ==
  IF e.view >= Len(e.history) THEN e
  ELSE IF e.view + 1 = Len(e.history) THEN Recall(e, e.scratch, e.scratch_len, e.view + 1)
  ELSE Recall(e, e.history[e.view + 2], Len(e.history[e.view + 2]), e.view + 1)

Sequence(e, c) ==                              \* the end of ESC [ csi c
  CASE c = "A" /\ e.csi = <<>> -> HistoryUp(e)
    [] c = "B" /\ e.csi = <<>> -> HistoryDown(e)
    [] c = "C" /\ e.csi = <<>> -> IF e.pos < e.len THEN Move(e, e.pos + 1) ELSE e
    [] c = "D" /\ e.csi = <<>> -> IF e.pos > 0 THEN Move(e, e.pos - 1) ELSE e
    [] c = "H" /\ e.csi = <<>> -> Move(e, 0)
    [] c = "F" /\ e.csi = <<>> -> Move(e, e.len)
    [] c = "~" /\ e.csi = <<"3">> -> RemoveHere(e)
    [] OTHER -> e

ClearScreen == <<"ESC", "[", "2", "J", "ESC", "[", "H">>

Plain(e, c) ==                                 \* a byte outside of a sequence
  CASE c = "ESC" -> [e EXCEPT !.state = "ESC"]
    [] c = "NL" -> [Says(e, <<"NL">>) EXCEPT !.result = "line"]
    [] c = "BS" -> Backspace(e)
    [] c = "^A" -> Move(e, 0)
    [] c = "^C" -> [Says(e, <<"^", "C", "NL">>) EXCEPT !.buffer = <<>>, !.len = 0, !.pos = 0,
                                  !.view = Len(e.history), !.drawn = 0, !.result = "line"]
    [] c = "^D" -> IF e.len = 0 THEN [Says(e, <<"NL">>) EXCEPT !.result = "exit"] ELSE RemoveHere(e)
    [] c = "^E" -> Move(e, e.len)
    [] c = "^K" -> KillRight(e)
    [] c = "^L" -> LET u == redraw_line([e EXCEPT !.drawn = 0])
                   IN Says(u, ClearScreen \o u.out)
    [] c = "^U" -> KillLeft(e)
    [] c \in Letter -> Insert(e, c)
    [] OTHER -> e

Accept(e0, c) ==                               \* one byte read
  LET e == Says(e0, <<>>)
      normal == [e EXCEPT !.state = "NORMAL"]
  IN CASE e.state = "ESC" /\ c = "[" -> [e EXCEPT !.state = "CSI", !.csi = <<>>]
       [] e.state = "CSI" /\ c \in CsiParameter ->
            IF Len(e.csi) < CsiBuffer THEN [e EXCEPT !.csi = Append(@, c)] ELSE e
       [] e.state = "CSI" /\ c \in SequenceEnd -> Sequence(normal, c)
       [] e.state = "CSI" /\ c \notin CsiParameter \cup SequenceEnd -> normal
       [] OTHER -> Plain(normal, c)
=============================================================================
