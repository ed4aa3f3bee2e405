---------------------------- MODULE MCPacedSplit ----------------------------
(***************************************************************************)
(* Instances of PacedSplit for TLC: a packet of two parts and one of three.*)
(***************************************************************************)
EXTENDS PacedSplit

CONSTANTS Short, ShortLen, LongLen

MCSendLen == [pkt \in Packets |-> IF pkt = Short THEN ShortLen ELSE LongLen]

=============================================================================
