----------------------------- MODULE MCParsing -----------------------------
(* Instances of Parsing for TLC.                                            *)
EXTENDS Parsing

(* For the scale 100 they print as -0.07, 0.00, 0.07, 0.30, 1.05 and 1.27   *)
OrderedValues == {-7, 0, 7, 30, 105, 127}

(* Nothing, = and Z1                                                        *)
FieldTexts == {<<>>, <<61>>, <<90, 49>>}
=============================================================================
