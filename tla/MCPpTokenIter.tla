---------------------------- MODULE MCPpTokenIter ----------------------------
(* Small sources for the token iterator: all token sequences of length at    *)
(* most MaxLen, the empty file among them.                                   *)
EXTENDS PpTokenIter

CONSTANT MaxLen

MCSources == UNION {[1..n -> Token] : n \in 0..MaxLen}
=============================================================================
