---------------------------- MODULE FieldAngles ----------------------------
(***************************************************************************)
(* field.py's angles, in whole degrees: every tool that compares a          *)
(* commanded turn with a measured one goes through these two.               *)
(***************************************************************************)
EXTENDS Integers

Abs(n) == IF n < 0 THEN -n ELSE n
Least(S) == CHOOSE x \in S : \A y \in S : x <= y

\* wrap(), upper end closed.
\* Mutant: the modulo idiom, which closes the lower end.
wrap_Modulo(d) == ((d + 180) % 360) - 180
wrap(d) == d - 360 * ((d + 179) \div 360)

\* Mutant: the revolutions are guessed from the command, and a half is none.
turn_total_Rounded(commanded, measured) ==
    LET revs == IF Abs(commanded) <= 180 THEN 0 ELSE (commanded + 180) \div 360
    IN revs * 360 + wrap(measured - revs * 360)
turn_total(commanded, measured) == commanded + wrap(measured - commanded)
=============================================================================
