---------------------------- MODULE DedupeEngine ----------------------------
(***************************************************************************)
(* The user-mode engine of user/dedupe_engine.cpp: scanRegion merges the   *)
(* pages of one region that have the same bytes, writeToPage undoes the    *)
(* sharing of the page it writes.  The engine is called by one thread at a *)
(* time; a scan is one step per page so that its loop can be reasoned      *)
(* about, and nothing else happens while it runs.                          *)
(***************************************************************************)
EXTENDS Naturals, Sequences, FiniteSets

CONSTANTS
    Regions,     \* memory regions
    NoRegion,    \* "no scan is running"
    NumPages,    \* pages of a region
    OptedIn,     \* regions with optIn set
    Bytes,       \* values of the first byte of a page
    Rests,       \* values of the other bytes
    SigOf,       \* signature (hash and fingerprint) of a content; need not be injective
    MaxScanned,  \* bound: no new scan beyond this many pagesScanned
    MaxWrites    \* bound on writesEmulated

Contents == Bytes \X Rests
Sigs     == {SigOf[d] : d \in Contents}
Indices  == 1 .. NumPages
NoHome   == 0            \* homeIndex SIZE_MAX

ASSUME RegionsAssumption ==
    /\ NoRegion \notin Regions /\ OptedIn \subseteq Regions /\ IsFiniteSet(Regions)
    /\ NumPages \in Nat /\ DOMAIN SigOf = Contents

ASSUME BoundsAssumption == MaxScanned \in Nat /\ MaxWrites \in Nat

VARIABLES
    pages,         \* the pages of every region
    stats,         \* DedupeEngine::stats
    scanning,      \* the region scanRegion works on
    index,         \* its loop index
    signatureMap,  \* its local map: indices of the pages kept, by signature
    deduped,       \* ghost: regions not written since their last scan
    stale          \* ghost: shared pages whose representative was written since the merge

vars == <<pages, stats, scanning, index, signatureMap, deduped, stale>>

Pages == [data : Contents, homeIndex : Indices \cup {NoHome}, shared : BOOLEAN]
Stats == [pagesScanned : Nat, duplicatePages : Nat, uniquePages : Nat,
          collisionProbes : Nat, writesEmulated : Nat, writeCowEvents : Nat]

NoSignatures == [s \in Sigs |-> <<>>]

Page(d) == [data |-> d, homeIndex |-> NoHome, shared |-> FALSE]

\* A new engine and regions of any contents.
Init ==
    /\ pages \in [Regions -> [Indices -> {Page(d) : d \in Contents}]]
    /\ stats = [pagesScanned |-> 0, duplicatePages |-> 0, uniquePages |-> 0,
                collisionProbes |-> 0, writesEmulated |-> 0, writeCowEvents |-> 0]
    /\ scanning = NoRegion /\ index = 1 /\ signatureMap = NoSignatures
    /\ deduped = {} /\ stale = {}

-----------------------------------------------------------------------------
\* scanRegion up to its loop; a region that did not opt in is left alone.
ScanBegins(r) ==
    /\ scanning = NoRegion
    /\ r \in OptedIn
    /\ stats.pagesScanned + NumPages <= MaxScanned
    /\ scanning' = r /\ index' = 1 /\ signatureMap' = NoSignatures
    /\ UNCHANGED <<pages, stats, deduped, stale>>

\* A page that is shared already is skipped.
ScanSkips ==
    /\ scanning # NoRegion /\ index \in Indices
    /\ pages[scanning][index].shared
    /\ index' = index + 1
    /\ UNCHANGED <<pages, stats, scanning, signatureMap, deduped, stale>>

makeSignature(p) == SigOf[p.data]

\* Mutants: only the head of the collision list is compared; no bytes are compared.
EqualAtHead(r, i, list) ==
    {k \in DOMAIN list : k = 1 /\ pages[r][list[k]].data = pages[r][i].data}
EqualBySignature(r, i, list) == DOMAIN list

\* Positions of the collision list whose page has the same bytes as page i.
EqualAt(r, i, list) ==
    {k \in DOMAIN list : pages[r][list[k]].data = pages[r][i].data}

markShared(p, rep) == [p EXCEPT !.homeIndex = rep, !.shared = TRUE]

\* mergePage, unless the page has that home already; probes pages were compared with.
mergePage(r, i, rep, probes) ==
    LET new == pages[r][i].homeIndex # rep IN
    /\ pages' = IF new THEN [pages EXCEPT ![r][i] = markShared(@, rep)] ELSE pages
    /\ stats' = [stats EXCEPT !.pagesScanned = @ + 1, !.collisionProbes = @ + probes,
                              !.duplicatePages = IF new THEN @ + 1 ELSE @]

\* The first page of the collision list with the same bytes becomes the home of this one.
ScanMerges ==
    /\ scanning # NoRegion /\ index \in Indices
    /\ ~pages[scanning][index].shared
    /\ LET list == signatureMap[makeSignature(pages[scanning][index])]
           same == EqualAt(scanning, index, list)
       IN  \E k \in same :
             /\ \A l \in same : k <= l
             /\ mergePage(scanning, index, list[k], Len(list))
             /\ stale' = stale \ {<<scanning, index>>}
    /\ index' = index + 1
    /\ UNCHANGED <<scanning, signatureMap, deduped>>

\* No such page: this one joins the collision list.
ScanKeeps ==
    /\ scanning # NoRegion /\ index \in Indices
    /\ ~pages[scanning][index].shared
    /\ LET sig  == makeSignature(pages[scanning][index])
           list == signatureMap[sig]
       IN  /\ EqualAt(scanning, index, list) = {}
           /\ signatureMap' = [signatureMap EXCEPT ![sig] = Append(@, index)]
           /\ stats' = [stats EXCEPT !.pagesScanned = @ + 1,
                                     !.collisionProbes = @ + Len(list),
                                     !.uniquePages = @ + 1]
    /\ index' = index + 1
    /\ UNCHANGED <<pages, scanning, deduped, stale>>

ScanEnds ==
    /\ scanning # NoRegion /\ index = NumPages + 1
    /\ scanning' = NoRegion /\ index' = 1 /\ signatureMap' = NoSignatures
    /\ deduped' = deduped \cup {scanning}
    /\ UNCHANGED <<pages, stats, stale>>

\* A shared page is replaced by a private copy; another one is left as it is.
clonePageForWrite(p) == IF p.shared THEN Page(p.data) ELSE p

\* The page after a write of b to its first byte.
Written(p, b) == [clonePageForWrite(p) EXCEPT !.data = <<b, p.data[2]>>]

\* Mutants: the copy-on-write is not counted; the copy keeps its homeIndex.
WriteUncounted(r, i, b) ==
    /\ scanning = NoRegion
    /\ stats.writesEmulated < MaxWrites
    /\ pages' = [pages EXCEPT ![r][i] = Written(@, b)]
    /\ stats' = [stats EXCEPT !.writesEmulated = @ + 1]
    /\ UNCHANGED <<scanning, index, signatureMap, deduped, stale>>
WriteKeepsHome(r, i, b) ==
    /\ scanning = NoRegion
    /\ stats.writesEmulated < MaxWrites
    /\ pages' = [pages EXCEPT ![r][i].data = <<b, @[2]>>, ![r][i].shared = FALSE]
    /\ stats' = [stats EXCEPT !.writesEmulated = @ + 1]
    /\ UNCHANGED <<scanning, index, signatureMap, deduped, stale>>

\* writeToPage: the clone first, then the byte.
writeToPage(r, i, b) ==
    /\ scanning = NoRegion
    /\ stats.writesEmulated < MaxWrites
    /\ pages' = [pages EXCEPT ![r][i] = Written(@, b)]
    /\ stats' = [stats EXCEPT !.writesEmulated = @ + 1,
                              !.writeCowEvents = IF pages[r][i].shared THEN @ + 1 ELSE @]
    /\ deduped' = deduped \ {r}
    /\ stale' = (stale \ {<<r, i>>}) \cup
                   {<<r, j>> : j \in {j \in Indices \ {i} : pages[r][j].homeIndex = i}}
    /\ UNCHANGED <<scanning, index, signatureMap>>

Next ==
    \/ \E r \in Regions : ScanBegins(r)
    \/ ScanSkips \/ ScanMerges \/ ScanKeeps \/ ScanEnds
    \/ \E r \in Regions, i \in Indices, b \in Bytes : writeToPage(r, i, b)

Spec == Init /\ [][Next]_vars

-----------------------------------------------------------------------------
\* The types of all variables.
TypeOK ==
    /\ pages \in [Regions -> [Indices -> Pages]]
    /\ stats \in Stats
    /\ scanning \in Regions \cup {NoRegion}
    /\ index \in 1 .. NumPages + 1
    /\ signatureMap \in [Sigs -> Seq(Indices)]
    /\ deduped \subseteq Regions
    /\ stale \subseteq Regions \X Indices

SharedPages == {x \in Regions \X Indices : pages[x[1]][x[2]].shared}

\* The counters describe the pages: every duplicate found is still shared or was taken
\* back by one copy-on-write, and every page looked at was counted once.
StatsMatchPages ==
    /\ stats.duplicatePages = stats.writeCowEvents + Cardinality(SharedPages)
    /\ stats.pagesScanned = stats.uniquePages + stats.duplicatePages

\* A shared page's home is an earlier page of the region: following homes never cycles,
\* though a home may itself be merged by a later scan.
HomesPointBack ==
    \A r \in Regions, i \in Indices :
        IF pages[r][i].shared THEN pages[r][i].homeIndex \in 1 .. i - 1
                              ELSE pages[r][i].homeIndex = NoHome

\* A scan finds every duplicate: until the next write, no two unshared pages of a
\* scanned region have the same bytes, whatever collides.
ScanFindsAll ==
    \A r \in deduped : \A i, j \in Indices :
        /\ ~pages[r][i].shared /\ ~pages[r][j].shared
        /\ pages[r][i].data = pages[r][j].data
        => i = j

\* A merge is sound and stays so until the representative itself is written.
SharedEqualsHomeUntilWritten ==
    \A r \in Regions, i \in Indices :
        pages[r][i].shared /\ <<r, i>> \notin stale
            => pages[r][i].data = pages[r][pages[r][i].homeIndex].data

-----------------------------------------------------------------------------
(***************************************************************************)
(* What makes them inductive (proofs: DedupeEngineProofs).                 *)
(***************************************************************************)

\* The local map holds visited pages that were kept, under their own signature ...
MapHoldsKept ==
    scanning # NoRegion =>
        \A s \in Sigs : \A k \in DOMAIN signatureMap[s] :
            LET i == signatureMap[s][k]
            IN  i < index /\ ~pages[scanning][i].shared /\ SigOf[pages[scanning][i].data] = s

\* ... and every such page ...
MapHoldsAllKept ==
    scanning # NoRegion =>
        \A i \in Indices : i < index /\ ~pages[scanning][i].shared =>
            LET list == signatureMap[makeSignature(pages[scanning][i])]
            IN  \E k \in DOMAIN list : list[k] = i

\* ... and no two of them have the same bytes.
KeptAreDistinct ==
    scanning # NoRegion =>
        \A i, j \in Indices :
            /\ i < index /\ ~pages[scanning][i].shared
            /\ j < index /\ ~pages[scanning][j].shared
            /\ pages[scanning][i].data = pages[scanning][j].data
            => i = j

-----------------------------------------------------------------------------
(***************************************************************************)
(* The loop of scanRegion does what one step of AtomicDedupe says.         *)
(***************************************************************************)
LoopFree == INSTANCE AtomicDedupe WITH writes <- stats.writesEmulated

\* The pages as they will be at the end of the scan that is running.
PagesWhenDone ==
    [r \in Regions |-> IF r = scanning THEN LoopFree!Scanned(pages[r]) ELSE pages[r]]

Atomic == INSTANCE AtomicDedupe
            WITH pages <- PagesWhenDone, writes <- stats.writesEmulated

\* A scan leaves exactly the sharing that the contents of the pages alone determine, each
\* duplicate pointing to the first page with its bytes: the map, the collision lists and
\* the order of the loop cannot be seen in the outcome.
ImplementsAtomic == Atomic!Spec

-----------------------------------------------------------------------------
\* Page i is shared: it is a copy of another page or another page is a copy of it.
InSharedGroup(r, i) ==
    pages[r][i].shared \/ \E j \in Indices : pages[r][j].shared /\ pages[r][j].homeIndex = i

\* docs/safety_review.md:15: any write to a shared page triggers a copy-on-write.
WriteToSharedCopies ==
    [][\A r \in Regions, i \in Indices :
          InSharedGroup(r, i) /\ pages'[r][i].data # pages[r][i].data
             => stats'.writeCowEvents = stats.writeCowEvents + 1]_vars
=============================================================================
