-------------------------------- MODULE MCApart --------------------------------
(* What the parts of Apart are watched with. *)
EXTENDS Apart

\* Around the end of a short month, of a leap year and of a year.
Day(y, m, d) == [year |-> y, month |-> m, day |-> d, sec |-> 36000]
Winters      == {Day(2024, 2, 27), Day(2023, 12, 30)}

\* Databases at some revision with the tables of that or of a later release.
Releases  == {w \in (0 .. 4) \X (0 .. 4) : w[1] <= w[2]}
Databases == {<< >>} \cup Releases
=============================================================================
