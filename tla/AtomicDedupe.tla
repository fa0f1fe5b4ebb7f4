---------------------------- MODULE AtomicDedupe ----------------------------
(***************************************************************************)
(* What the user-mode engine promises to its callers: a scan of a region   *)
(* is one step, and its outcome is given by what the pages hold, without   *)
(* loop, map or signature.  DedupeEngine implements this specification.    *)
(***************************************************************************)
EXTENDS Naturals

CONSTANTS Regions, NumPages, OptedIn, Bytes, Rests

VARIABLES
    pages,   \* the pages of every region
    writes   \* how many writes there were, so that no scan can pass for a write

Indices == 1 .. NumPages
NoHome  == 0

Page(d) == [data |-> d, homeIndex |-> NoHome, shared |-> FALSE]

\* Mutant: only the page before is looked at.
EarlierAdjacent(region, i) == {j \in 1 .. i - 1 : /\ ~region[j].shared /\ j = i - 1
                                                  /\ region[j].data = region[i].data}

\* The earlier pages of a region that an unshared page i can be merged with.
Earlier(region, i) == {j \in 1 .. i - 1 : /\ ~region[j].shared
                                          /\ region[j].data = region[i].data}

\* Page i is a duplicate of an earlier page that is its own home.
Duplicate(region, i) == ~region[i].shared /\ Earlier(region, i) # {}

\* A region after a scan: every duplicate has the first page of its content as home.
Scanned(region) ==
    [i \in DOMAIN region |->
        IF Duplicate(region, i)
        THEN [data |-> region[i].data, shared |-> TRUE,
              homeIndex |-> CHOOSE j \in Earlier(region, i) :
                               \A k \in Earlier(region, i) : j <= k]
        ELSE region[i]]

Init == writes = 0 /\ pages \in [Regions -> [Indices -> {Page(d) : d \in Bytes \X Rests}]]

Scan(r) == /\ r \in OptedIn
           /\ pages' = [pages EXCEPT ![r] = Scanned(@)] /\ UNCHANGED writes

\* The page written is private afterwards; no other page of any region changes.
Write(r, i, b) == /\ pages' = [pages EXCEPT ![r][i] = Page(<<b, @.data[2]>>)]
                  /\ writes' = writes + 1

Next == \E r \in Regions : Scan(r) \/ \E i \in Indices, b \in Bytes : Write(r, i, b)

vars == <<pages, writes>>

Spec == Init /\ [][Next]_vars
=============================================================================
