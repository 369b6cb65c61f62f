----------------------------- MODULE MCReadMealy -----------------------------
(* Instances of ReadMealy for TLC: files within the limits, and files that *)
(* go beyond them in one dimension.                                        *)
EXTENDS ReadMealy

Shape(f, s, i, o) == [format |-> f, states |-> s, inputs |-> i, outputs |-> o]

SmallFiles ==
  {Shape(f, s, i, o) : f \in {"dot", "txt"},
     <<s, i, o>> \in {<<3, 1, 2>>, <<2, 2, 2>>, <<1, 2, 3>>, <<1, 3, 2>>,
                      <<4, 1, 1>>, <<1, 4, 1>>, <<1, 2, 4>>}}
  \cup {Shape("dot", 5, 1, 1), Shape("dot", 1, 2, 5)}

=============================================================================
