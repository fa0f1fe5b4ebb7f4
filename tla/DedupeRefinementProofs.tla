----------------------- MODULE DedupeRefinementProofs -----------------------
(***************************************************************************)
(* DedupeEngine implements AtomicDedupe, for any regions, contents and     *)
(* signature function.  The abstract scan happens when the loop begins;    *)
(* the rest of the loop changes nothing of the outcome.                    *)
(***************************************************************************)
EXTENDS DedupeEngineProofs

Outcome(region) == LoopFree!Scanned(region)

\* The least element of a set is the one CHOOSE picks.
LEMMA LeastChosen ==
    ASSUME NEW S, S \subseteq Nat, NEW m \in S, \A k \in S : m <= k
    PROVE  (CHOOSE j \in S : \A k \in S : j <= k) = m
  <1>1. \A j \in S : (\A k \in S : j <= k) => j = m
    OBVIOUS
  <1> QED
    BY <1>1

\* A record with these three fields is given by them.
LEMMA SameFields ==
    ASSUME NEW D, NEW H, NEW S, NEW u \in [data : D, homeIndex : H, shared : S],
           NEW v \in [data : D, homeIndex : H, shared : S],
           u.data = v.data, u.homeIndex = v.homeIndex, u.shared = v.shared
    PROVE  u = v
  OBVIOUS

\* What marking and writing make of a page, field by field.
LEMMA PageFields ==
    ASSUME NEW p \in Pages, NEW rep, NEW b, ~p.shared => p.homeIndex = NoHome
    PROVE  /\ markShared(p, rep) = [data |-> p.data, homeIndex |-> rep, shared |-> TRUE]
           /\ Written(p, b) = Page(<<b, p.data[2]>>)
  <1> DEFINE D == Contents \cup {<<b, p.data[2]>>}
             H == Indices \cup {NoHome, rep}
             R == [data : D, homeIndex : H, shared : BOOLEAN]
  <1>1. p \in R /\ Page(p.data) \in R /\ Page(p.data).data = p.data
    BY DEF Pages, Page
  <1>2. clonePageForWrite(p) \in R
    BY <1>1 DEF clonePageForWrite
  <1>3. /\ clonePageForWrite(p).homeIndex = NoHome
        /\ clonePageForWrite(p).shared = FALSE
    BY <1>1 DEF clonePageForWrite, Page
  <1>4. Written(p, b) = Page(<<b, p.data[2]>>)
    <2>1. /\ Written(p, b) \in R /\ Written(p, b).data = <<b, p.data[2]>>
          /\ Written(p, b).homeIndex = NoHome /\ Written(p, b).shared = FALSE
      <3> DEFINE q == clonePageForWrite(p)
      <3> HIDE DEF q
      <3>1. q \in R /\ q.homeIndex = NoHome /\ q.shared = FALSE
        BY <1>2, <1>3 DEF q
      <3>2. Written(p, b) = [q EXCEPT !.data = <<b, p.data[2]>>]
        BY DEF Written, q
      <3> QED
        BY ONLY <3>1, <3>2
    <2>2. /\ Page(<<b, p.data[2]>>) \in R /\ Page(<<b, p.data[2]>>).data = <<b, p.data[2]>>
          /\ Page(<<b, p.data[2]>>).homeIndex = NoHome /\ Page(<<b, p.data[2]>>).shared = FALSE
      BY DEF Page
    <2> HIDE DEF D, H
    <2> QED
      BY ONLY <2>1, <2>2, SameFields
  <1>5. markShared(p, rep) = [data |-> p.data, homeIndex |-> rep, shared |-> TRUE]
    <2> DEFINE m == [data |-> p.data, homeIndex |-> rep, shared |-> TRUE]
    <2>1. /\ markShared(p, rep) \in R /\ markShared(p, rep).data = p.data
          /\ markShared(p, rep).homeIndex = rep /\ markShared(p, rep).shared = TRUE
      BY <1>1 DEF markShared
    <2>2. m \in R /\ m.data = p.data /\ m.homeIndex = rep /\ m.shared = TRUE
      BY <1>1
    <2> HIDE DEF D, H, m
    <2> QED
      BY ONLY <2>1, <2>2, SameFields DEF m
  <1> QED
    BY <1>4, <1>5

\* Outside a scan the abstract pages are the pages.
LEMMA NothingPending ==
    ASSUME IInv, scanning = NoRegion
    PROVE  PagesWhenDone = pages
  BY RegionsAssumption DEF IInv, TypeOK, PagesWhenDone

\* A page that the loop merges has one earlier unshared page with its bytes, its new home;
\* the outcome of the scan is the same before and after.
LEMMA MergeKeepsOutcome ==
    ASSUME IInv, ScanMerges
    PROVE  Outcome(pages'[scanning]) = Outcome(pages[scanning])
  <1> DEFINE r == scanning
             old == pages[r]
             list == signatureMap[makeSignature(old[index])]
  <1>1. /\ r \in Regions /\ index \in Indices /\ ~old[index].shared
        /\ old \in [Indices -> Pages] /\ pages \in [Regions -> [Indices -> Pages]]
    BY DEF IInv, TypeOK, ScanMerges
  <1>2. PICK k \in EqualAt(r, index, list) : mergePage(r, index, list[k], Len(list))
    BY DEF ScanMerges
  <1> DEFINE rep == list[k]
  <1>3. /\ rep \in Indices /\ rep < index /\ ~old[rep].shared /\ old[rep].data = old[index].data
    <2>1. makeSignature(old[index]) \in Sigs
      BY <1>1, SignatureType
    <2>2. k \in DOMAIN list /\ list \in Seq(Indices) /\ old[rep].data = old[index].data
      BY <1>2, <2>1 DEF EqualAt, IInv, TypeOK
    <2> QED
      BY <1>1, <2>1, <2>2, RegionsAssumption DEF IInv, MapInv, MapHoldsKept
  <1>4. \A j \in Indices : j < index /\ ~old[j].shared /\ old[j].data = old[index].data => j = rep
    BY <1>1, <1>3, RegionsAssumption DEF IInv, MapInv, KeptAreDistinct
  <1> DEFINE new == [data |-> old[index].data, homeIndex |-> rep, shared |-> TRUE]
  <1>5. pages'[r] = [old EXCEPT ![index] = new]
    <2>1. old[index].homeIndex # rep
      <3>1. old[index].homeIndex = NoHome
        BY <1>1 DEF IInv, HomesPointBack
      <3> QED
        BY <1>3, <3>1, IndexFacts
    <2>2. pages' = [pages EXCEPT ![r][index] = markShared(@, rep)]
      BY <1>2, <2>1 DEF mergePage
    <2>3. markShared(old[index], rep) = new
      <3>1. old[index] \in Pages /\ (~old[index].shared => old[index].homeIndex = NoHome)
        BY <1>1 DEF IInv, HomesPointBack
      <3> HIDE DEF old, rep
      <3> QED
        BY ONLY <3>1, PageFields DEF new
    <2> HIDE DEF new
    <2> QED
      BY ONLY <1>1, <2>2, <2>3
  <1> HIDE DEF new
  <1> DEFINE mid == [old EXCEPT ![index] = new]
  <1>6. /\ new.shared /\ new.data = old[index].data /\ new.homeIndex = rep
        /\ DOMAIN old = Indices /\ DOMAIN mid = Indices
        /\ mid[index] = new /\ \A j \in Indices : j # index => mid[j] = old[j]
    BY <1>1 DEF new
  <1> HIDE DEF mid, old, rep, list
  <1>7. \A j \in Indices : \A i \in 1 .. j - 1 : i \in Indices
    BY IndexFacts
  <1>8. Indices \subseteq Nat /\ index \in Nat /\ rep \in Nat
    BY <1>1, <1>3, IndexFacts
  <1>9. ASSUME NEW j \in Indices
        PROVE  Outcome(mid)[j] = Outcome(old)[j]
    <2>1. CASE j = index
      <3>1. LoopFree!Earlier(old, j) = {rep}
        <4>1. rep \in 1 .. index - 1
          BY <1>3, <1>8, IndexFacts
        <4>2. \A i \in 1 .. index - 1 : i \in Indices /\ i < index
          BY <1>1, <1>7, <1>8
        <4>3. ~old[rep].shared /\ old[rep].data = old[index].data
          BY <1>3 DEF old, rep, list
        <4>4. \A i \in 1 .. index - 1 : ~old[i].shared /\ old[i].data = old[index].data => i = rep
          BY <1>4, <4>2 DEF old, rep, list
        <4> QED
          BY ONLY <2>1, <4>1, <4>3, <4>4 DEF LoopFree!Earlier
      <3>2. (CHOOSE m \in {rep} : \A n \in {rep} : m <= n) = rep
        BY <1>8, LeastChosen
      <3>3. Outcome(old)[j] = new
        BY <1>1, <1>6, <2>1, <3>1, <3>2 DEF Outcome, LoopFree!Scanned, LoopFree!Duplicate, new, old
      <3>4. Outcome(mid)[j] = new
        BY <1>6, <2>1 DEF Outcome, LoopFree!Scanned, LoopFree!Duplicate
      <3> QED
        BY <3>3, <3>4
    <2>2. CASE j # index
      <3>1. mid[j] = old[j]
        BY <1>6, <2>2
      <3>2. CASE index \notin LoopFree!Earlier(old, j)
        <4>1. LoopFree!Earlier(mid, j) = LoopFree!Earlier(old, j)
          <5>1. \A i \in 1 .. j - 1 : /\ ~mid[i].shared /\ mid[i].data = mid[j].data
                                      <=> ~old[i].shared /\ old[i].data = old[j].data
            <6> SUFFICES ASSUME NEW i \in 1 .. j - 1
                         PROVE  /\ ~mid[i].shared /\ mid[i].data = mid[j].data
                                <=> ~old[i].shared /\ old[i].data = old[j].data
              OBVIOUS
            <6>1. CASE i = index
              BY <1>6, <3>1, <3>2, <6>1 DEF LoopFree!Earlier
            <6>2. CASE i # index
              BY <1>6, <1>7, <3>1, <6>2
            <6> QED
              BY <6>1, <6>2
          <5> QED
            BY ONLY <5>1 DEF LoopFree!Earlier
        <4> QED
          BY <1>6, <3>1, <4>1 DEF Outcome, LoopFree!Scanned, LoopFree!Duplicate
      <3>3. CASE index \in LoopFree!Earlier(old, j)
        <4>1. /\ index \in 1 .. j - 1 /\ old[index].data = old[j].data /\ j \in Nat
          BY <3>3, <1>8 DEF LoopFree!Earlier
        <4>2. /\ rep \in LoopFree!Earlier(old, j)
              /\ \A i \in LoopFree!Earlier(old, j) : rep <= i /\ i \in Nat
          <5>1. rep \in 1 .. j - 1
            BY <1>3, <1>8, <4>1, IndexFacts
          <5>2. ASSUME NEW i \in LoopFree!Earlier(old, j)
                PROVE  rep <= i /\ i \in Nat
            <6>1. i \in Indices /\ i \in Nat /\ ~old[i].shared /\ old[i].data = old[index].data
              BY <1>7, <1>8, <4>1 DEF LoopFree!Earlier
            <6>2. i < index => i = rep
              BY <1>4, <6>1 DEF old
            <6> QED
              BY <1>3, <1>8, <6>1, <6>2
          <5> QED
            BY <1>3, <4>1, <5>1, <5>2 DEF LoopFree!Earlier
        <4>3. /\ rep \in LoopFree!Earlier(mid, j)
              /\ \A i \in LoopFree!Earlier(mid, j) : i \in LoopFree!Earlier(old, j)
          <5>1. rep # index
            BY <1>3, <1>8
          <5>2. mid[rep] = old[rep]
            BY <1>3, <1>6, <5>1
          <5>3. ASSUME NEW i \in LoopFree!Earlier(mid, j)
                PROVE  i \in LoopFree!Earlier(old, j)
            <6>1. i \in 1 .. j - 1 /\ ~mid[i].shared /\ mid[i].data = mid[j].data
              BY DEF LoopFree!Earlier
            <6>2. i # index
              BY <1>6, <6>1
            <6> QED
              BY <1>6, <1>7, <3>1, <6>1, <6>2 DEF LoopFree!Earlier
          <5> QED
            BY <3>1, <4>2, <5>2, <5>3 DEF LoopFree!Earlier
        <4> DEFINE E1 == LoopFree!Earlier(old, j)
                   E2 == LoopFree!Earlier(mid, j)
        <4>4. (CHOOSE m \in E1 : \A n \in E1 : m <= n) = rep
          <5> HIDE DEF E1
          <5>1. E1 \subseteq Nat /\ rep \in E1 /\ \A n \in E1 : rep <= n
            BY <4>2 DEF E1
          <5> QED
            BY ONLY <5>1, LeastChosen
        <4>5. (CHOOSE m \in E2 : \A n \in E2 : m <= n) = rep
          <5> HIDE DEF E2
          <5>1. E2 \subseteq Nat /\ rep \in E2 /\ \A n \in E2 : rep <= n
            BY <4>2, <4>3 DEF E2
          <5> QED
            BY ONLY <5>1, LeastChosen
        <4>6. E1 # {} /\ E2 # {}
          BY <4>2, <4>3
        <4> QED
          BY <1>6, <3>1, <4>4, <4>5, <4>6 DEF Outcome, LoopFree!Scanned, LoopFree!Duplicate
      <3> QED
        BY <3>2, <3>3
    <2> QED
      BY <2>1, <2>2
  <1>10. Outcome(mid) = Outcome(old)
    <2>1. /\ Outcome(mid) = [i \in Indices |-> Outcome(mid)[i]]
          /\ Outcome(old) = [i \in Indices |-> Outcome(old)[i]]
      BY <1>6 DEF Outcome, LoopFree!Scanned
    <2> HIDE DEF Outcome
    <2> QED
      BY <1>9, <2>1
  <1> QED
    BY <1>5, <1>10 DEF mid, old

\* At the end of the loop nothing is left to merge.
LEMMA EndIsOutcome ==
    ASSUME IInv, ScanEnds
    PROVE  Outcome(pages[scanning]) = pages[scanning]
  <1> DEFINE reg == pages[scanning]
  <1>1. /\ scanning \in Regions /\ reg \in [Indices -> Pages] /\ index = NumPages + 1
    BY DEF IInv, TypeOK, ScanEnds
  <1>2. \A i, j \in Indices : ~reg[i].shared /\ ~reg[j].shared /\ reg[i].data = reg[j].data => i = j
    BY <1>1, IndexFacts, RegionsAssumption DEF IInv, MapInv, KeptAreDistinct
  <1> HIDE DEF reg
  <1>3. \A j \in Indices : ~LoopFree!Duplicate(reg, j)
    <2> SUFFICES ASSUME NEW j \in Indices, ~reg[j].shared, NEW i \in LoopFree!Earlier(reg, j)
                 PROVE  FALSE
      BY DEF LoopFree!Duplicate
    <2>1. i \in 1 .. j - 1 /\ ~reg[i].shared /\ reg[i].data = reg[j].data
      BY DEF LoopFree!Earlier
    <2>2. i \in Indices /\ i # j
      BY <2>1, IndexFacts
    <2> QED
      BY <1>2, <2>1, <2>2
  <1>4. DOMAIN reg = Indices /\ reg = [i \in Indices |-> reg[i]]
    BY <1>1
  <1>5. Outcome(reg) = [i \in Indices |-> reg[i]]
    BY <1>3, <1>4 DEF Outcome, LoopFree!Scanned
  <1> QED
    BY <1>4, <1>5 DEF reg

-----------------------------------------------------------------------------
\* The first page of the loop on: every step of the loop leaves the abstract pages alone.
LEMMA LoopStutters ==
    ASSUME IInv, ScanSkips \/ ScanMerges \/ ScanKeeps \/ ScanEnds
    PROVE  PagesWhenDone' = PagesWhenDone /\ stats'.writesEmulated = stats.writesEmulated
  <1>0. stats \in Stats /\ pages \in [Regions -> [Indices -> Pages]]
    BY DEF IInv, TypeOK
  <1>4. stats'.writesEmulated = stats.writesEmulated
    BY <1>0 DEF ScanSkips, ScanMerges, mergePage, ScanKeeps, ScanEnds, Stats
  <1>1. CASE ScanSkips \/ ScanKeeps
    <2>1. pages' = pages /\ scanning' = scanning
      BY <1>1 DEF ScanSkips, ScanKeeps
    <2> QED
      BY <1>4, <2>1 DEF PagesWhenDone
  <1>2. CASE ScanMerges
    <2>1. scanning' = scanning
      BY <1>2 DEF ScanMerges
    <2>2. Outcome(pages'[scanning]) = Outcome(pages[scanning])
      BY <1>2, MergeKeepsOutcome
    <2>3. \A r \in Regions : r # scanning => pages'[r] = pages[r]
      BY <1>0, <1>2 DEF ScanMerges, mergePage
    <2> QED
      BY ONLY <1>4, <2>1, <2>2, <2>3 DEF PagesWhenDone, Outcome
  <1>3. CASE ScanEnds
    <2>1. scanning' = NoRegion /\ pages' = pages
      BY <1>3 DEF ScanEnds
    <2>2. Outcome(pages[scanning]) = pages[scanning]
      BY <1>3, EndIsOutcome
    <2> QED
      BY ONLY <1>4, <2>1, <2>2, RegionsAssumption DEF PagesWhenDone, Outcome
  <1> QED
    BY <1>1, <1>2, <1>3

\* The start of the loop is the abstract scan.
LEMMA BeginScans ==
    ASSUME IInv, NEW r \in Regions, ScanBegins(r)
    PROVE  Atomic!Scan(r)
  <1>1. pages \in [Regions -> [Indices -> Pages]] /\ PagesWhenDone = pages
    BY NothingPending DEF ScanBegins, IInv, TypeOK
  <1>2. scanning' = r /\ pages' = pages /\ stats' = stats /\ r \in OptedIn
    BY DEF ScanBegins
  <1>3. PagesWhenDone' = [q \in Regions |-> IF q = r THEN LoopFree!Scanned(pages[q]) ELSE pages[q]]
    BY <1>2 DEF PagesWhenDone
  <1>4. \A region : Atomic!Scanned(region) = LoopFree!Scanned(region)
    BY DEF Atomic!Scanned, LoopFree!Scanned, Atomic!Duplicate, LoopFree!Duplicate,
           Atomic!Earlier, LoopFree!Earlier
  <1> QED
    BY ONLY <1>1, <1>2, <1>3, <1>4 DEF Atomic!Scan

\* writeToPage is the abstract write.
LEMMA WriteWrites ==
    ASSUME IInv, NEW r \in Regions, NEW i \in Indices, NEW b \in Bytes, writeToPage(r, i, b)
    PROVE  Atomic!Write(r, i, b)
  <1>1. /\ PagesWhenDone = pages /\ pages[r][i] \in Pages
        /\ pages \in [Regions -> [Indices -> Pages]]
    BY NothingPending DEF writeToPage, IInv, TypeOK
  <1>2. IInv' /\ scanning' = NoRegion
    BY WriteKeeps DEF writeToPage
  <1>3. PagesWhenDone' = pages'
    BY <1>2, RegionsAssumption DEF PagesWhenDone, IInv, TypeOK
  <1>4. Written(pages[r][i], b) = Page(<<b, pages[r][i].data[2]>>)
    <2>1. ~pages[r][i].shared => pages[r][i].homeIndex = NoHome
      BY DEF IInv, HomesPointBack
    <2> QED
      BY ONLY <1>1, <2>1, PageFields
  <1>5. pages' = [pages EXCEPT ![r][i] = Page(<<b, pages[r][i].data[2]>>)]
    BY <1>4 DEF writeToPage
  <1>6. \A d : Atomic!Page(d) = Page(d)
    BY DEF Atomic!Page, Page, Atomic!NoHome, NoHome
  <1>7. stats'.writesEmulated = stats.writesEmulated + 1
    BY DEF writeToPage, IInv, TypeOK, Stats
  <1> QED
    BY ONLY <1>1, <1>3, <1>5, <1>6, <1>7 DEF Atomic!Write

\* The engine implements the abstract engine in which a scan is one step: what the loop of
\* scanRegion, its map and its collision lists compute is a function of the contents.
THEOREM EngineImplementsAtomic == Spec => ImplementsAtomic
  <1>1. Init => Atomic!Init
    <2> SUFFICES ASSUME Init PROVE Atomic!Init
      OBVIOUS
    <2>1. PagesWhenDone = pages
      BY InitIInv, NothingPending DEF Init
    <2>2. \A d : Atomic!Page(d) = Page(d)
      BY DEF Atomic!Page, Page, Atomic!NoHome, NoHome
    <2> QED
      BY <2>1, <2>2 DEF Init, Atomic!Init, Contents, Indices, Atomic!Indices
  <1>2. ASSUME IInv, [Next]_vars PROVE [Atomic!Next]_(Atomic!vars)
    <2>1. CASE \E r \in Regions : ScanBegins(r)
      BY ONLY <1>2, <2>1, BeginScans DEF Atomic!Next
    <2>2. CASE ScanSkips \/ ScanMerges \/ ScanKeeps \/ ScanEnds
      BY ONLY <1>2, <2>2, LoopStutters DEF Atomic!vars
    <2>3. CASE \E r \in Regions, i \in Indices, b \in Bytes : writeToPage(r, i, b)
      <3>1. \E r \in Regions, i \in Indices, b \in Bytes : Atomic!Write(r, i, b)
        BY ONLY <1>2, <2>3, WriteWrites
      <3> QED
        BY ONLY <3>1 DEF Atomic!Next, Atomic!Indices, Indices
    <2>4. CASE UNCHANGED vars
      <3>1. pages' = pages /\ scanning' = scanning /\ stats' = stats
        BY <2>4 DEF vars
      <3> QED
        BY ONLY <3>1 DEF PagesWhenDone, Atomic!vars
    <2> QED
      BY ONLY <1>2, <2>1, <2>2, <2>3, <2>4 DEF Next
  <1> QED
    BY <1>1, <1>2, Invariance, PTL DEF Spec, ImplementsAtomic, Atomic!Spec
=============================================================================
