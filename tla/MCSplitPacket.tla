---------------------------- MODULE MCSplitPacket ----------------------------
(***************************************************************************)
(* Instances of SplitPacket for TLC: the lengths are given by the cfg.     *)
(***************************************************************************)
EXTENDS SplitPacket

CONSTANTS Short, ShortLen, LongLen

MCSendLen == [pkt \in Packets |-> IF pkt = Short THEN ShortLen ELSE LongLen]

=============================================================================
