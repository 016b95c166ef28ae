----------------------------- MODULE MCExercise -----------------------------
(* Drafts of every shape the grader treats apart, for small runs.          *)
EXTENDS Exercise

Field(e, x) == [expected_output |-> e, expected |-> x, output |-> Absent]

Shape(n, expected, cases) == [key |-> <<"model", n>>, expected |-> expected, cases |-> cases]

Drafts == {
    Shape(1, Blank, <<Field(1, Absent), Field(2, Absent)>>),
    Shape(2, 1, <<Field(Spaces, 2), Field(Absent, Absent)>>),
    Shape(2, Blank, <<Field(Blank, 1)>>),
    Shape(3, Blank, <<Field(Blank, Absent)>>),
    Shape(4, Blank, <<>>) }

(* Nothing to see, and signatures of which one is found in what the        *)
(* interpreter said, or none is.                                           *)
ShownSigns == {{}, {"print_instead_of_return", "name_error"},
               {"accumulator_reset_in_loop", "off_by_one_recursion"}}
=============================================================================
