----------------------------- MODULE MCGridLOS -----------------------------
(***************************************************************************)
(* Instance of GridLOS: routes of one to four legs, among them all that    *)
(* turn twice after a first leg of 8, with legs shorter than a capture     *)
(* radius, and any way of doubling back.                                   *)
(***************************************************************************)
EXTENDS GridLOS

Go(from, course, length) == Plus(from, Scaled(length, course))

Turns ==
    {LET a == <<8, 0>>
         b == Go(a, <<0, 1>>, n)
         c == Go(b, second, m)
     IN  << <<0, 0>>, a, b, c, Go(c, third, 4)>> :
        second \in Courses, third \in Courses, n \in {2, 4}, m \in {1, 2, 4}}

MCRoutes ==
    Turns \cup
    { << <<0, 0>>, <<8, 0>> >>,                                  \* one leg
      << <<0, 0>>, <<9, 0>>, <<9, 9>>, <<0, 9>>, <<0, 0>> >>,    \* a circuit
      << <<0, 0>>, <<7, 0>>, <<12, 0>>, <<12, 6>> >>,            \* straight on
      << <<0, 0>>, <<8, 0>>, <<9, 0>>, <<10, 0>>, <<11, 0>>,     \* outrun
         <<12, 0>>, <<12, 6>> >>,
      << <<0, 0>>, <<9, 0>>, <<2, 0>> >> }                       \* back again

\* In the first circle, on its rim, and too far from the first leg.
MCOffsets == {<<0, 0>>, <<-3, 0>>, <<0, 3>>, <<1, -2>>, <<2, 2>>,
              <<-5, 5>>, <<3, -4>>}
MCSea     == -8 .. 18
=============================================================================
