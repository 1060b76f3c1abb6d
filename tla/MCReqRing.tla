---------------------------- MODULE MCReqRing ----------------------------
(* Model-checking instance of ReqRing: commands of one, two and three      *)
(* entries (no data, one segment, one continuation, two continuations),    *)
(* and other requests of one entry and of two.                             *)
EXTENDS ReqRing

MCDsdCounts == {0, 1, 6, 7}
MCPlainSizes == {1, 2}
==========================================================================
