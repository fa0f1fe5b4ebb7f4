------------------------- MODULE MCRamDedupeDriver -------------------------
(* Small instances of RamDedupeDriver for TLC.                             *)
EXTENDS RamDedupeDriver, TLC

MCMaps == [p \in Pids |-> IF p = 4 /\ 1 \in Frames THEN <<1, 2>> ELSE <<2>>]

\* Two contents with one signature: a hash collision.
MCSigOf == [c \in Contents |-> "sig"]

\* The mapped frames agree; frame 0, in the larger instance, holds something else.
MCInitMem == {[f \in Frames |-> IF f = 0 THEN a ELSE b] :
                <<a, b>> \in {<<c, d>> \in Contents \X Contents :
                               c = d => Cardinality(Contents) = 1}}

\* Process 4 runs; process 8 may be started later.
MCInitProc == {q \in [Pids -> {"user", "none"}] : \A p \in Pids \ {8} : q[p] = "user"}

\* Any of them run.
MCInitAny == [Pids -> {"user", "none"}]

\* All of them run.
MCInitUsers == {[p \in Pids |-> "user"]}

\* A freed entry reads as it was, or as the entry made in its place: with one frame,
\* or with two and shared.
MCFreed == {[Signature |-> "sig", PageFrameNumbers |-> s, ReferenceCount |-> Len(s),
             Shared |-> Len(s) = 2] : s \in {<<2>>, <<2, 0>>}}

\* Every content has the same signature, so contents are interchangeable too.
Symmetry == Permutations(Clients) \cup Permutations(Contents)
=============================================================================
