---------------------------- MODULE MCThreadPool ----------------------------
(***************************************************************************)
(* Instances of ThreadPool for TLC.                                        *)
(***************************************************************************)
EXTENDS ThreadPool

CONSTANTS w1, w2, plain, serial

MCThreads == <<w1, w2>>
MCPriority == [j \in Jobs |-> JP_LOW]
=============================================================================
