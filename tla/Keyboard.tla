------------------------------ MODULE Keyboard ------------------------------
(***************************************************************************)
(* The keyboard driver (device/keyboard.c): what intr_keyboard_handler     *)
(* makes of the scan codes, byte by byte, while the user presses, holds    *)
(* and releases keys.  The keyboard runs ahead of the handler by up to     *)
(* MaxBytes bytes.  Module IoQueue models where the characters go.         *)
(*                                                                         *)
(* A character is <<index, column>>, its place in keymap.                  *)
(***************************************************************************)
EXTENDS Integers, Sequences

CONSTANTS
  Keys,         \* the keys: records of code and ext (it sends 0xe0 first)
  MaxBytes,     \* bound: bytes on their way to the handler
  BothSides     \* may the left and the right key of a pair be held together?

VARIABLES
  down,         \* the keys held down
  caps,         \* how often caps lock has sent its make code, modulo 2
  wire,         \* bytes sent and not yet read from KBD_BUF_PORT
  wanted,       \* the characters of these bytes, by the keys as they were sent
  typed,        \* the last character the handler has handed to the ioqueue
  asWanted,     \* it is the one that was wanted
  ctrl_status, shift_status, alt_status, caps_lock_status, ext_scancode

status == <<ctrl_status, shift_status, alt_status, caps_lock_status, ext_scancode>>
vars == <<down, caps, wire, wanted, typed, asWanted, status>>

Prefix == 224                                               \* 0xe0
shift_l_make == 42
shift_r_make == 54
alt_l_make == 56
alt_r_make == 57400                                         \* 0xe038
ctrl_l_make == 29
ctrl_r_make == 57373                                        \* 0xe01d
caps_lock_make == 58

(* Rows of keymap with char_invisible, rows with two characters that are   *)
(* no letter, and what the handler prints for a key.                       *)
invisible == {0, 29, 42, 54, 56, 58}
TwoChars(code) ==
  \/ code < 14 \/ code \in {26, 27, 43} \/ (38 < code /\ code < 42) \/ (50 < code /\ code < 54)
keymap(index, shift) == <<index, IF shift THEN 1 ELSE 0>>
NoChar == <<0, 0>>

Init ==
  /\ down = {} /\ caps = 0 /\ wire = <<>> /\ wanted = <<>>
  /\ typed = NoChar /\ asWanted = TRUE
  /\ ctrl_status = FALSE /\ shift_status = FALSE /\ alt_status = FALSE
  /\ caps_lock_status = FALSE /\ ext_scancode = FALSE

-----------------------------------------------------------------------------
(* The user. *)
Held(codes) == \E k \in down : k.code \in codes
Shifts == {42, 54}
Bytes(k, code) == IF k.ext THEN <<Prefix, code>> ELSE <<code>>
Send(bytes) == Len(wire) + Len(bytes) <= MaxBytes /\ wire' = wire \o bytes
SamePair(k, m) == k.code = m.code \/ {k.code, m.code} \subseteq Shifts

(* What the key should type: a letter follows shift and caps lock, another *)
(* key shift alone.                                                        *)
Wish(k) ==
  IF k.code \in invisible \/ k.code > caps_lock_make THEN <<>>
  ELSE LET upper == IF TwoChars(k.code) THEN Held(Shifts) ELSE Held(Shifts) # (caps = 1)
       IN <<keymap(k.code, upper)>>

SendMake(k) ==
  /\ Send(Bytes(k, k.code))
  /\ caps' = IF k.code = caps_lock_make THEN 1 - caps ELSE caps
  /\ wanted' = wanted \o Wish(k)

Press(k) ==
  /\ k \notin down
  /\ BothSides \/ \A m \in down : ~SamePair(k, m)
  /\ SendMake(k)
  /\ down' = down \cup {k}
  /\ UNCHANGED <<typed, asWanted, status>>

(* A key held down repeats its make code, caps lock too: nothing in the    *)
(* bytes tells that from pressing it again, and it counts as that here.    *)
Repeat(k) ==
  /\ k \in down
  /\ SendMake(k)
  /\ UNCHANGED <<down, typed, asWanted, status>>

Release(k) ==
  /\ k \in down
  /\ Send(Bytes(k, k.code + 128))
  /\ down' = down \ {k}
  /\ UNCHANGED <<caps, wanted, typed, asWanted, status>>

-----------------------------------------------------------------------------
(* intr_keyboard_handler: one byte. *)
IsBreak(scancode) == scancode % 256 >= 128

(* A faulty variant: the right shift key is forgotten. *)
BreakCodeLeft(scancode) ==
  LET make_code == scancode - 128 IN
  /\ ctrl_status' = (ctrl_status /\ make_code \notin {ctrl_l_make, ctrl_r_make})
  /\ shift_status' = (shift_status /\ make_code # shift_l_make)
  /\ alt_status' = (alt_status /\ make_code \notin {alt_l_make, alt_r_make})
  /\ UNCHANGED <<caps_lock_status, wanted, typed, asWanted>>

BreakCode(scancode) ==
  LET make_code == scancode - 128 IN
  /\ ctrl_status' = (ctrl_status /\ make_code \notin {ctrl_l_make, ctrl_r_make})
  /\ shift_status' = (shift_status /\ make_code \notin {shift_l_make, shift_r_make})
  /\ alt_status' = (alt_status /\ make_code \notin {alt_l_make, alt_r_make})
  /\ UNCHANGED <<caps_lock_status, wanted, typed, asWanted>>

(* A faulty variant: shift does not undo caps lock. *)
ShiftedEither(scancode) ==
  IF TwoChars(scancode) THEN shift_status ELSE shift_status \/ caps_lock_status

Shifted(scancode) ==
  IF TwoChars(scancode) THEN shift_status ELSE shift_status # caps_lock_status

(* Whether ioq_full holds is up to the readers: a character that meets a   *)
(* full queue is dropped.                                                  *)
PutChar(c) ==
  /\ wanted' = IF wanted = <<>> THEN <<>> ELSE Tail(wanted)
  /\ \/ typed' = c /\ asWanted' = (wanted # <<>> /\ c = Head(wanted))
     \/ UNCHANGED <<typed, asWanted>>
  /\ UNCHANGED <<ctrl_status, shift_status, alt_status, caps_lock_status>>

(* The prefix is masked off before the control keys are compared. *)
ControlKey(index) ==
  /\ ctrl_status' = (ctrl_status \/ index \in {ctrl_l_make, ctrl_r_make})
  /\ shift_status' = (shift_status \/ index \in {shift_l_make, shift_r_make})
  /\ alt_status' = (alt_status \/ index \in {alt_l_make, alt_r_make})
  /\ caps_lock_status' = (caps_lock_status # (index = caps_lock_make))
  /\ UNCHANGED <<wanted, typed, asWanted>>

MakeCode(scancode) ==
  LET index == scancode % 256 IN
  IF \/ 0 < scancode /\ scancode < 59
     \/ scancode \in {alt_r_make, ctrl_r_make}
  THEN IF index \in invisible THEN ControlKey(index)
                              ELSE PutChar(keymap(index, Shifted(scancode)))
  ELSE UNCHANGED <<ctrl_status, shift_status, alt_status, caps_lock_status,
                   wanted, typed, asWanted>>

(* The byte is compared with 0xe000, which no byte is. *)
IsPrefix(byte) == byte = 57344

intr_keyboard_handler ==
  /\ wire # <<>> /\ wire' = Tail(wire)
  /\ LET byte == Head(wire)
         scancode == IF ext_scancode THEN 57344 + byte ELSE byte IN
     IF IsPrefix(byte)
     THEN /\ ext_scancode' = TRUE
          /\ UNCHANGED <<ctrl_status, shift_status, alt_status, caps_lock_status,
                         wanted, typed, asWanted>>
     ELSE /\ ext_scancode' = FALSE
          /\ IF IsBreak(scancode) THEN BreakCode(scancode) ELSE MakeCode(scancode)
  /\ UNCHANGED <<down, caps>>

Next == (\E k \in Keys : Press(k) \/ Repeat(k) \/ Release(k)) \/ intr_keyboard_handler

Spec == Init /\ [][Next]_vars

-----------------------------------------------------------------------------
(* Every character put in the queue is the one the keys stood for when it  *)
(* was pressed, however far the handler is behind: shift and caps lock are *)
(* taken from the bytes in front of it, characters keep their order, none  *)
(* is made up, and one that a full queue drops takes no other with it.     *)
TypesAsWanted == asWanted

(* With every byte handled the status flags say which control keys are     *)
(* held, the left or the right one, and whether caps lock is on, each make *)
(* code of it having turned it over; every character has been dealt with.  *)
StatusFollowsKeys ==
  wire = <<>> =>
    /\ shift_status = Held(Shifts)
    /\ ctrl_status = Held({29})
    /\ alt_status = Held({56})
    /\ caps_lock_status = (caps = 1)
    /\ wanted = <<>>

(* `ext_scancode records whether the make code starts with 0xe0': the      *)
(* second byte of an extended key is met with the flag set.                *)
PrefixRecorded ==
  [][(wire # <<>> /\ wire' = Tail(wire) /\ Head(wire) = Prefix) => ext_scancode']_vars
=============================================================================
