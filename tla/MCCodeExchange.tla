--------------------------- MODULE MCCodeExchange ---------------------------
(* Instances of CodeExchange for TLC.                                      *)
EXTENDS CodeExchange

Known(own, known, keys) == [own |-> own, known |-> known, keys |-> keys, usable |-> TRUE]

\* Another person, with all a code needs or without an identity of theirs, and
\* another login of our own where our own is not known.
SomePeople ==
    {Known(FALSE, {"ours", "theirs"}, TRUE), Known(FALSE, {"ours"}, TRUE),
     Known(TRUE, {}, FALSE)}

\* Everything, or half of it in a flow whose code can be drawn.
AllHalves == {Halves}
AllOrShow == [f \in Flows |-> IF f \in LongIds THEN {Halves} ELSE {Halves, {"show"}}]
=============================================================================
