---------------------------- MODULE MCDailyWordle ----------------------------
(* The daily game with words of three letters, every string of two letters
   guessable, and repeated letters in both days' words. *)
EXTENDS DailyWordle

CONSTANTS a, b

MCGuessable == {<<x, y, z>> : x, y, z \in {a, b}}
MCWordOf == <<<<a, b, b>>, <<a, a, b>>>>
=============================================================================
