----------------------------- MODULE KeyReader -----------------------------
(***************************************************************************)
(* read_key (src/src/term.rs): which key a byte from the terminal makes,   *)
(* given the bytes of an escape sequence read before it.                   *)
(***************************************************************************)

\* What is left of the sequence that an Esc has begun: nothing, both of the
\* bytes that follow it, or the second, the first being a bracket or not.
Ground == "ground"
Reading == {Ground, "both", "bracket", "second"}

\* Those that the reader or the picker tells apart; a tilde ends the sequence
\* of many keys, and stands for every byte that means nothing to the picker.
Bytes == {"esc", "[", "A", "ctrl-c", "q", "enter", "tilde"}

NoKey == "none"

ReadingMore(reading, b) ==
  CASE reading = Ground    -> IF b = "esc" THEN "both" ELSE Ground
    [] reading = "both"    -> IF b = "[" THEN "bracket" ELSE "second"
    [] reading = "bracket" -> IF b = "tilde" THEN Ground ELSE "bracket"
    [] OTHER               -> Ground
ReadingAfter(reading, b) ==
  CASE reading = Ground -> IF b = "esc" THEN "both" ELSE Ground
    [] reading = "both" -> IF b = "[" THEN "bracket" ELSE "second"
    [] OTHER            -> Ground

\* An Esc that no bracket follows is the key, and the two bytes are gone; an
\* unknown sequence is dropped, as far as three bytes of it go.
KeyOf(reading, b) ==
  CASE reading = Ground    -> IF b = "esc" THEN NoKey ELSE b
    [] reading = "both"    -> NoKey
    [] reading = "bracket" -> IF b = "A" THEN "up" ELSE NoKey
    [] OTHER               -> "esc"
=============================================================================
