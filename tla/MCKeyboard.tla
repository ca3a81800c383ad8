----------------------------- MODULE MCKeyboard -----------------------------
(* The keys of the runs: a letter, a digit, both shift keys, both control  *)
(* keys, the right alt key, caps lock and an arrow key.                    *)
EXTENDS Keyboard

Key(code, ext) == [code |-> code, ext |-> ext]
MCKeys ==
  {Key(30, FALSE), Key(2, FALSE), Key(42, FALSE), Key(54, FALSE), Key(29, FALSE),
   Key(29, TRUE), Key(56, TRUE), Key(58, FALSE), Key(72, TRUE)}
=============================================================================
