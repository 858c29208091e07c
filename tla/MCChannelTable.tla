--------------------------- MODULE MCChannelTable ---------------------------
(* A small instance of the tables of channels, for TLC. *)
EXTENDS ChannelTableProperties

ThreeConv == {"c1", "c2", "c3"}
FromC12   == [c \in Conv |-> IF c = "c3" THEN "S" ELSE "C"]
DataC1    == [e \in End |-> [c \in Conv |-> IF e = "C" /\ c = "c1" THEN 1 ELSE 0]]
OnlyS     == [e \in End |-> IF e = "S" THEN 1 ELSE 0]

=============================================================================
