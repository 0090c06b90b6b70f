----------------------------- MODULE MCTextLink -----------------------------
(* Every pair of plug-ins, with bits of even and odd lengths, chunks of one *)
(* bit and of several characters, and messages that include characters the  *)
(* decoders drop (a line feed in pwm; a question mark, six beeps, and a     *)
(* lower-case letter in morse).  The second setup of ook is its default     *)
(* message, of length 0; a semicolon has an empty string in morse_table,    *)
(* and behind it is a dash in one build and seven dots in the other.        *)
EXTENDS TextLink

MCMorseCode ==
  (65 :> <<".", "-">>) @@ (69 :> <<".">>) @@ (84 :> <<"-">>) @@ (59 :> <<>>)
  @@ (48 :> <<"-", "-", "-", "-", "-">>) @@ (63 :> <<".", ".", "-", "-", ".", ".">>)

Setup(kind, decoder, S, text, buffer, chunk) ==
  [kind |-> kind, decoder |-> decoder, S |-> S, text |-> text, length |-> Len(text),
   behind |-> <<>>, buffer |-> buffer, chunk |-> chunk]

\* The terminator of the message, and fourteen bytes of the heap after it.
Heap == <<0, 65, 200, 0, 0, 0, 255, 7, 0, 0, 127, 85, 0, 33, 0>>

MCSetups ==
  {Setup("ook", "ook", 5, <<72, 255>>, 30, 5),
   [Setup("ook", "ook", 5, <<72>>, 40, 60) EXCEPT !.length = 0, !.behind = Heap],
   Setup("ook", "ook", 8, <<1, 128, 170>>, 64, 100),
   Setup("hi", "ook", 6, <<>>, 40, 64),
   Setup("pwm", "pwm", 4, <<33, 10, 40>>, 100, 60),
   Setup("morse", "morse", 5, <<65, 48, 32, 84, 101, 63, 69>>, 30, 20),
   Setup("morse", "morse", 8, <<63, 69, 69>>, 50, 100),
   [Setup("morse", "morse", 5, <<69, 59, 84>>, 30, 40) EXCEPT !.behind = <<"-">>],
   [Setup("morse", "morse", 5, <<69, 59, 84>>, 30, 40) EXCEPT
      !.behind = <<".", ".", ".", ".", ".", ".", ".">>]}

=============================================================================
