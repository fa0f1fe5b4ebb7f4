--------------------------- MODULE MCDedupeEngine ---------------------------
(* Small instance of DedupeEngine for TLC.                                 *)
EXTENDS DedupeEngine

\* The signature tells the rest of a page but not its first byte: pages that differ
\* in the first byte collide.
MCSigOf == [d \in Contents |-> d[2]]
=============================================================================
