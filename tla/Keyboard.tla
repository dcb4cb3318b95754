------------------------------ MODULE Keyboard ------------------------------
(***************************************************************************)
(* The PS/2 keyboard (keyboard.c): scancodes come with IRQ 1 and leave as  *)
(* bytes in a ring, from which k_getchar takes them.                       *)
(*                                                                         *)
(* A scancode is a pair <<key, "make" or "break">>, or Extension (0xE0).   *)
(***************************************************************************)
EXTENDS Integers, Sequences

CONSTANT RingSize          \* KBD_BUFFER_SIZE, 256: the indices are bytes

KeyboardAssumption == RingSize \in Nat \ {0, 1}
ASSUME KeyboardAssumption

VARIABLES
  kbd_buffer, kbd_head, kbd_tail,
  keys                     \* the flags shift, ctrl, caps and extended

kvars == <<kbd_buffer, kbd_head, kbd_tail, keys>>

Extension == <<"E0", "make">>
LowerLetter == [a |-> "^A", c |-> "^C", d |-> "^D", k |-> "^K", l |-> "^L", u |-> "^U", b |-> "^B"]
UpperOf == [a |-> "A", b |-> "B", c |-> "C", d |-> "D", k |-> "K", l |-> "L", u |-> "U", one |-> "!"]
LowerOf == [k \in DOMAIN UpperOf |-> IF k = "one" THEN "1" ELSE k]

Escapes ==                                     \* what extended keys send
  [Up |-> <<"ESC", "[", "A">>, Down |-> <<"ESC", "[", "B">>, Right |-> <<"ESC", "[", "C">>,
   Left |-> <<"ESC", "[", "D">>, Home |-> <<"ESC", "[", "H">>, End |-> <<"ESC", "[", "F">>,
   Delete |-> <<"ESC", "[", "3", "~">>]
Plains == [Esc |-> "ESC", Backspace |-> "BS", Enter |-> "NL", Tab |-> "TAB"]

KeyboardInit ==
  /\ kbd_buffer = [i \in 0 .. RingSize - 1 |-> "0"]
  /\ kbd_head = 0 /\ kbd_tail = 0
  /\ keys = [shift |-> FALSE, ctrl |-> FALSE, caps |-> FALSE, extended |-> FALSE]

(* What is to be read, oldest first.                                       *)
Pending ==
  [i \in 1 .. (kbd_head - kbd_tail) % RingSize |-> kbd_buffer[(kbd_tail + i - 1) % RingSize]]

Room == RingSize - 1 - ((kbd_head - kbd_tail) % RingSize)
NoRoomCheck(bytes) == Len(bytes)               \* fault: the tail is overrun
Fitting(bytes) == IF Len(bytes) <= Room THEN Len(bytes) ELSE Room

kbd_buffer_push(bytes) ==                                 \* kbd_buffer_push for each, in order
  LET n == Fitting(bytes)
  IN /\ kbd_buffer' = [i \in DOMAIN kbd_buffer |->
                         LET k == (i - kbd_head) % RingSize
                         IN IF k < n THEN bytes[k + 1] ELSE kbd_buffer[i]]
     /\ kbd_head' = (kbd_head + n) % RingSize
     /\ UNCHANGED kbd_tail

Quiet == UNCHANGED <<kbd_buffer, kbd_head, kbd_tail>>

translate_scancode(key) ==
  IF keys.shift # (keys.caps /\ key \in DOMAIN LowerLetter) THEN UpperOf[key] ELSE LowerOf[key]

keyboard_handler(key, edge) ==
  \/ /\ <<key, edge>> = Extension
     /\ keys' = [keys EXCEPT !.extended = TRUE] /\ Quiet
  \/ /\ keys.extended /\ key # "E0"
     /\ keys' = [keys EXCEPT !.extended = FALSE]
     /\ IF edge = "make" /\ key \in DOMAIN Escapes THEN kbd_buffer_push(Escapes[key]) ELSE Quiet
  \/ /\ ~keys.extended /\ key # "E0" /\ edge = "break"
     /\ keys' = [keys EXCEPT !.shift = @ /\ key \notin {"LShift", "RShift"},
                             !.ctrl = @ /\ key # "LCtrl"]
     /\ Quiet
  \/ /\ ~keys.extended /\ key \in {"LShift", "RShift", "LCtrl", "Caps"} /\ edge = "make"
     /\ keys' = [keys EXCEPT !.shift = @ \/ key \in {"LShift", "RShift"},
                             !.ctrl = @ \/ key = "LCtrl",
                             !.caps = IF key = "Caps" THEN ~@ ELSE @]
     /\ Quiet
  \/ /\ ~keys.extended /\ key \in DOMAIN Plains /\ edge = "make"
     /\ kbd_buffer_push(<<Plains[key]>>) /\ UNCHANGED keys
  \/ /\ ~keys.extended /\ key \in DOMAIN UpperOf /\ edge = "make"
     /\ IF ~keys.ctrl THEN kbd_buffer_push(<<translate_scancode(key)>>)
        ELSE IF key \in DOMAIN LowerLetter THEN kbd_buffer_push(<<LowerLetter[key]>>) ELSE Quiet
     /\ UNCHANGED keys

(* devfs_console_read of at most n bytes, once there is one to read; until *)
(* then the reader yields.                                                 *)
TakeBytes(n) ==
  /\ n > 0 /\ Pending # <<>>
  /\ kbd_tail' = (kbd_tail + (IF n < Len(Pending) THEN n ELSE Len(Pending))) % RingSize
  /\ UNCHANGED <<kbd_buffer, kbd_head, keys>>
=============================================================================
