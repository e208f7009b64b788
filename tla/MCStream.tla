------------------------------ MODULE MCStream ------------------------------
(* Every output of up to four bytes, and some longer ones: messages of no   *)
(* byte, of one, of two, lengths of two bytes, lengths that do not end, and *)
(* bodies that do not.                                                      *)
EXTENDS GraphQuery, TLC

MCByte == 0 .. 3

One(b) == <<1, b>>
Two    == <<2, 1, 2, 3>>            \* a length of two bytes, 0 + 1 * 2

MCOutputs ==
    UNION {[1 .. n -> MCByte] : n \in 0 .. 4} \cup
    {Two \o One(1), One(2) \o <<0>> \o One(1), One(3) \o One(1) \o One(2), One(2) \o Two,
     One(2) \o <<2, 2, 2>>, One(1) \o <<2, 2>>, One(1) \o One(2) \o <<3>>}

Frames == {<<>>} \cup {<<a>> : a \in MCByte} \cup {<<a, b>> : a, b \in MCByte}
             \cup {<<a, b, c>> : a, b, c \in MCByte}

\* A message of one byte 3 is malformed, an empty one declares nothing.
MCDeclared ==
    [f \in Frames |-> CASE f = <<>> -> NoTarget
                        [] f = <<3>> -> Malformed
                        [] OTHER -> ToString(f)]
=============================================================================
