------------------------- MODULE DedupeEngineProofs -------------------------
(***************************************************************************)
(* Proofs about DedupeEngine, for any regions, page contents and           *)
(* signature function.  The inductive invariant adds to the properties of  *)
(* the run what scanRegion's local map holds in the middle of a scan.      *)
(***************************************************************************)
EXTENDS DedupeEngine, FiniteSetTheorems, TLAPS

MapInv == MapHoldsKept /\ MapHoldsAllKept /\ KeptAreDistinct

IInv ==
    /\ TypeOK /\ HomesPointBack /\ SharedEqualsHomeUntilWritten /\ ScanFindsAll
    /\ StatsMatchPages /\ MapInv

-----------------------------------------------------------------------------
\* Positions of pages are numbers, and 0 is none of them.
LEMMA IndexFacts ==
    /\ NumPages \in Nat /\ Indices \subseteq Nat \ {0} /\ NoHome \notin Indices
    /\ \A i : i \in Indices <=> i \in Nat /\ 1 <= i /\ i <= NumPages
  BY RegionsAssumption DEF Indices, NoHome

\* A page's signature is one of the keys of signatureMap.
LEMMA SignatureType ==
    ASSUME NEW p \in Pages
    PROVE  makeSignature(p) \in Sigs /\ p.data \in Contents
  BY DEF makeSignature, Sigs, Pages

\* There are finitely many pages, hence finitely many shared ones.
LEMMA SharedFinite == IsFiniteSet(SharedPages) /\ Cardinality(SharedPages) \in Nat
  <1>1. IsFiniteSet(Indices)
    BY RegionsAssumption, FS_Interval DEF Indices
  <1>2. IsFiniteSet(Regions \X Indices)
    BY <1>1, RegionsAssumption, FS_Product
  <1>3. SharedPages \in SUBSET (Regions \X Indices)
    BY DEF SharedPages
  <1>4. IsFiniteSet(SharedPages)
    BY <1>2, <1>3, FS_Subset
  <1> QED
    BY <1>4, FS_CardinalityType

\* The invariant holds for unshared pages and a new engine.
LEMMA InitIInv == Init => IInv
  <1> SUFFICES ASSUME Init PROVE IInv
    OBVIOUS
  <1>1. \A r \in Regions, i \in Indices :
           /\ pages[r][i] \in Pages /\ ~pages[r][i].shared
           /\ pages[r][i].homeIndex = NoHome
    <2>1. \A d \in Contents : /\ Page(d) \in Pages /\ ~Page(d).shared
                              /\ Page(d).homeIndex = NoHome
      BY DEF Page, Pages
    <2> QED
      BY <2>1 DEF Init
  <1>2. TypeOK
    <2>1. pages \in [Regions -> [Indices -> Pages]]
      BY <1>1 DEF Init
    <2>2. signatureMap \in [Sigs -> Seq(Indices)]
      BY DEF Init, NoSignatures
    <2>3. stats \in Stats
      BY DEF Init, Stats
    <2> QED
      BY <2>1, <2>2, <2>3, RegionsAssumption DEF Init, TypeOK
  <1>3. HomesPointBack /\ SharedEqualsHomeUntilWritten
    BY <1>1 DEF HomesPointBack, SharedEqualsHomeUntilWritten
  <1>4. ScanFindsAll /\ MapInv
    BY DEF Init, ScanFindsAll, MapInv, MapHoldsKept, MapHoldsAllKept, KeptAreDistinct
  <1>5. StatsMatchPages
    <2>1. SharedPages = {}
      BY <1>1 DEF SharedPages
    <2> QED
      BY <2>1, FS_EmptySet DEF Init, StatsMatchPages
  <1> QED
    BY <1>2, <1>3, <1>4, <1>5 DEF IInv

-----------------------------------------------------------------------------
\* scanRegion starts with an empty map.
LEMMA BeginKeeps ==
    ASSUME IInv, NEW r \in Regions, ScanBegins(r)
    PROVE  IInv'
  <1> USE DEF IInv, ScanBegins
  <1>1. signatureMap' \in [Sigs -> Seq(Indices)]
    BY DEF NoSignatures
  <1>2. TypeOK'
    BY <1>1, RegionsAssumption DEF TypeOK
  <1>3. HomesPointBack' /\ SharedEqualsHomeUntilWritten' /\ ScanFindsAll' /\ StatsMatchPages'
    BY DEF HomesPointBack, SharedEqualsHomeUntilWritten, ScanFindsAll, StatsMatchPages,
           SharedPages
  <1>4. MapInv'
    <2>1. \A s \in Sigs : signatureMap'[s] = <<>>
      BY DEF NoSignatures
    <2>2. index' = 1 /\ \A i \in Indices : ~(i < 1)
      BY IndexFacts
    <2> QED
      BY <2>1, <2>2 DEF MapInv, MapHoldsKept, MapHoldsAllKept, KeptAreDistinct
  <1> QED
    BY <1>2, <1>3, <1>4

\* A page that is shared already says nothing about the map.
LEMMA SkipKeeps ==
    ASSUME IInv, ScanSkips
    PROVE  IInv'
  <1> USE DEF IInv, ScanSkips
  <1>1. TypeOK'
    BY IndexFacts DEF TypeOK
  <1>2. HomesPointBack' /\ SharedEqualsHomeUntilWritten' /\ ScanFindsAll' /\ StatsMatchPages'
    BY DEF HomesPointBack, SharedEqualsHomeUntilWritten, ScanFindsAll, StatsMatchPages,
           SharedPages
  <1>3. \A i \in Indices : i < index' /\ ~pages[scanning][i].shared => i < index
    BY IndexFacts
  <1>4. \A s \in Sigs : \A k \in DOMAIN signatureMap[s] :
           signatureMap[s][k] < index => signatureMap[s][k] < index'
    BY IndexFacts DEF TypeOK
  <1>5. MapInv'
    BY <1>3, <1>4 DEF MapInv, MapHoldsKept, MapHoldsAllKept, KeptAreDistinct
  <1> QED
    BY <1>1, <1>2, <1>5

\* At the end the pages kept are all unshared pages of the region.
LEMMA EndKeeps ==
    ASSUME IInv, ScanEnds
    PROVE  IInv'
  <1> USE DEF IInv, ScanEnds
  <1>1. signatureMap' \in [Sigs -> Seq(Indices)]
    BY DEF NoSignatures
  <1>2. TypeOK'
    BY <1>1, IndexFacts DEF TypeOK
  <1>3. HomesPointBack' /\ SharedEqualsHomeUntilWritten' /\ StatsMatchPages'
    BY DEF HomesPointBack, SharedEqualsHomeUntilWritten, StatsMatchPages, SharedPages
  <1>4. ScanFindsAll'
    <2>1. \A i \in Indices : i < index
      BY IndexFacts
    <2> QED
      BY <2>1 DEF ScanFindsAll, MapInv, KeptAreDistinct
  <1>5. MapInv'
    BY DEF MapInv, MapHoldsKept, MapHoldsAllKept, KeptAreDistinct
  <1> QED
    BY <1>2, <1>3, <1>4, <1>5

-----------------------------------------------------------------------------
\* A page is kept because no page of the collision list equals it, and the list holds
\* every page kept before that could.
LEMMA KeepKeeps ==
    ASSUME IInv, ScanKeeps
    PROVE  IInv'
  <1> USE DEF IInv
  <1> DEFINE r    == scanning
             sig  == makeSignature(pages[r][index])
             list == signatureMap[sig]
  <1>1. /\ r \in Regions /\ index \in Indices /\ pages[r][index] \in Pages
        /\ ~pages[r][index].shared
    BY DEF ScanKeeps, TypeOK
  <1>2. sig \in Sigs
    BY <1>1, SignatureType
  <1>3. list \in Seq(Indices)
    BY <1>2 DEF TypeOK
  <1>4. /\ signatureMap' = [signatureMap EXCEPT ![sig] = Append(list, index)]
        /\ EqualAt(r, index, list) = {}
        /\ stats' = [stats EXCEPT !.pagesScanned = @ + 1,
                                  !.collisionProbes = @ + Len(list),
                                  !.uniquePages = @ + 1]
        /\ index' = index + 1 /\ pages' = pages /\ scanning' = scanning
        /\ deduped' = deduped /\ stale' = stale
    BY DEF ScanKeeps
  <1>5. /\ signatureMap'[sig] = Append(list, index)
        /\ \A s \in Sigs : s # sig => signatureMap'[s] = signatureMap[s]
        /\ signatureMap' \in [Sigs -> Seq(Indices)]
    BY <1>1, <1>2, <1>3, <1>4 DEF TypeOK
  <1> HIDE DEF sig, list
  <1>6. /\ DOMAIN Append(list, index) = 1 .. Len(list) + 1
        /\ DOMAIN list = 1 .. Len(list) /\ Len(list) \in Nat
        /\ \A k \in 1 .. Len(list) : Append(list, index)[k] = list[k]
        /\ Append(list, index)[Len(list) + 1] = index
    BY <1>1, <1>3
  <1>7. TypeOK'
    <2>1. stats' \in Stats
      <3>1. /\ stats.pagesScanned + 1 \in Nat /\ stats.uniquePages + 1 \in Nat
            /\ stats.collisionProbes + Len(list) \in Nat
        BY <1>6 DEF TypeOK, Stats
      <3> QED
        BY <1>4, <3>1 DEF TypeOK, Stats
    <2> QED
      BY <1>1, <1>4, <1>5, <2>1, IndexFacts DEF TypeOK
  <1>8. HomesPointBack' /\ SharedEqualsHomeUntilWritten' /\ ScanFindsAll'
    BY <1>4 DEF HomesPointBack, SharedEqualsHomeUntilWritten, ScanFindsAll
  <1>9. StatsMatchPages'
    <2>1. SharedPages' = SharedPages
      BY <1>4 DEF SharedPages
    <2>2. /\ stats'.duplicatePages = stats.duplicatePages
          /\ stats'.writeCowEvents = stats.writeCowEvents
          /\ stats'.pagesScanned = stats.pagesScanned + 1
          /\ stats'.uniquePages = stats.uniquePages + 1
          /\ stats.uniquePages \in Nat /\ stats.duplicatePages \in Nat
      BY <1>4 DEF TypeOK, Stats
    <2> QED
      BY <2>1, <2>2 DEF StatsMatchPages
  <1>10. MapHoldsKept'
    <2> SUFFICES ASSUME NEW s \in Sigs, NEW k \in DOMAIN signatureMap'[s]
                 PROVE  /\ signatureMap'[s][k] < index + 1
                        /\ ~pages[r][signatureMap'[s][k]].shared
                        /\ SigOf[pages[r][signatureMap'[s][k]].data] = s
      BY <1>4 DEF MapHoldsKept
    <2>1. CASE s = sig /\ k = Len(list) + 1
      BY <2>1, <1>1, <1>5, <1>6, IndexFacts DEF sig, makeSignature
    <2>2. CASE ~(s = sig /\ k = Len(list) + 1)
      <3>1. k \in DOMAIN signatureMap[s] /\ signatureMap'[s][k] = signatureMap[s][k]
        BY <2>2, <1>5, <1>6 DEF list
      <3>2. signatureMap[s][k] \in Indices
        BY <3>1 DEF TypeOK
      <3>3. /\ signatureMap[s][k] < index /\ ~pages[r][signatureMap[s][k]].shared
            /\ SigOf[pages[r][signatureMap[s][k]].data] = s
        BY <3>1, <1>1, RegionsAssumption DEF MapInv, MapHoldsKept
      <3> QED
        BY <3>1, <3>2, <3>3, <1>1, IndexFacts
    <2> QED
      BY <2>1, <2>2
  <1>11. MapHoldsAllKept'
    <2> SUFFICES ASSUME NEW i \in Indices, i < index + 1, ~pages[r][i].shared
                 PROVE  \E k \in DOMAIN signatureMap'[makeSignature(pages[r][i])] :
                            signatureMap'[makeSignature(pages[r][i])][k] = i
      BY <1>4 DEF MapHoldsAllKept
    <2>1. CASE i = index
      BY <2>1, <1>5, <1>6 DEF sig
    <2>2. CASE i # index
      <3>1. i < index
        BY <2>2, <1>1, IndexFacts
      <3>2. PICK k \in DOMAIN signatureMap[makeSignature(pages[r][i])] :
               signatureMap[makeSignature(pages[r][i])][k] = i
        BY <3>1, <1>1, RegionsAssumption DEF MapInv, MapHoldsAllKept
      <3>3. makeSignature(pages[r][i]) \in Sigs
        BY <1>1, SignatureType DEF TypeOK
      <3>4. CASE makeSignature(pages[r][i]) = sig
        BY <3>2, <3>4, <1>5, <1>6 DEF list
      <3>5. CASE makeSignature(pages[r][i]) # sig
        BY <3>2, <3>3, <3>5, <1>5
      <3> QED
        BY <3>4, <3>5
    <2> QED
      BY <2>1, <2>2
  <1>12. KeptAreDistinct'
    <2>1. ASSUME NEW j \in Indices, j < index, ~pages[r][j].shared
          PROVE  pages[r][j].data # pages[r][index].data
      <3>1. PICK k \in DOMAIN signatureMap[makeSignature(pages[r][j])] :
               signatureMap[makeSignature(pages[r][j])][k] = j
        BY <2>1, <1>1, RegionsAssumption DEF MapInv, MapHoldsAllKept
      <3>2. ASSUME pages[r][j].data = pages[r][index].data PROVE FALSE
        <4>1. makeSignature(pages[r][j]) = sig
          BY <3>2 DEF sig, makeSignature
        <4>2. k \in DOMAIN list /\ list[k] = j
          BY <3>1, <4>1 DEF list
        <4> QED
          BY <4>2, <3>2, <1>4 DEF EqualAt
      <3> QED
        BY <3>2
    <2> SUFFICES ASSUME NEW i \in Indices, NEW j \in Indices,
                        i < index + 1, ~pages[r][i].shared,
                        j < index + 1, ~pages[r][j].shared,
                        pages[r][i].data = pages[r][j].data
                 PROVE  i = j
      BY <1>4 DEF KeptAreDistinct
    <2>2. CASE i = index /\ j # index
      BY <2>1, <2>2, <1>1, IndexFacts
    <2>3. CASE j = index /\ i # index
      BY <2>1, <2>3, <1>1, IndexFacts
    <2>4. CASE i # index /\ j # index
      <3>1. i < index /\ j < index
        BY <2>4, <1>1, IndexFacts
      <3> QED
        BY <3>1, <1>1, RegionsAssumption DEF MapInv, KeptAreDistinct
    <2> QED
      BY <2>2, <2>3, <2>4
  <1> QED
    BY <1>7, <1>8, <1>9, <1>10, <1>11, <1>12 DEF MapInv

\* A page is merged with an earlier page of the same bytes.
LEMMA MergeKeeps ==
    ASSUME IInv, ScanMerges
    PROVE  IInv'
  <1> USE DEF IInv
  <1> DEFINE r    == scanning
             sig  == makeSignature(pages[r][index])
             list == signatureMap[sig]
  <1>1. /\ r \in Regions /\ index \in Indices /\ pages[r][index] \in Pages
        /\ ~pages[r][index].shared
    BY DEF ScanMerges, TypeOK
  <1>2. sig \in Sigs /\ list \in Seq(Indices)
    BY <1>1, SignatureType DEF TypeOK
  <1>3. PICK k \in EqualAt(r, index, list) :
           mergePage(r, index, list[k], Len(list)) /\ stale' = stale \ {<<r, index>>}
    BY DEF ScanMerges
  <1>4. /\ index' = index + 1 /\ scanning' = scanning /\ signatureMap' = signatureMap
        /\ deduped' = deduped
    BY DEF ScanMerges
  <1> DEFINE rep == list[k]
             new == markShared(pages[r][index], rep)
  <1>5. /\ rep \in Indices /\ rep < index /\ ~pages[r][rep].shared
        /\ pages[r][rep].data = pages[r][index].data
    <2>1. k \in DOMAIN list /\ pages[r][list[k]].data = pages[r][index].data
      BY <1>3 DEF EqualAt
    <2>2. list[k] \in Indices
      BY <1>2, <2>1
    <2> QED
      BY <1>1, <1>2, <2>1, <2>2, RegionsAssumption DEF MapInv, MapHoldsKept
  <1>6. /\ new \in Pages /\ new.shared /\ new.homeIndex = rep
        /\ new.data = pages[r][index].data
    BY <1>1, <1>5 DEF markShared, Pages
  <1>7. pages[r][index].homeIndex # rep
    BY <1>1, <1>5, IndexFacts DEF HomesPointBack
  <1>8. /\ pages' = [pages EXCEPT ![r][index] = new]
        /\ stats' = [stats EXCEPT !.pagesScanned = @ + 1,
                                  !.collisionProbes = @ + Len(list),
                                  !.duplicatePages = @ + 1]
    BY <1>3, <1>7 DEF mergePage
  <1> HIDE DEF new, rep, list, sig
  <1>9. /\ pages' \in [Regions -> [Indices -> Pages]] /\ pages'[r][index] = new
        /\ \A q \in Regions, j \in Indices :
              q # r \/ j # index => pages'[q][j] = pages[q][j]
    <2>1. pages \in [Regions -> [Indices -> Pages]] /\ r \in Regions /\ index \in Indices /\ new \in Pages
      BY <1>1, <1>6 DEF TypeOK
    <2> DEFINE row == [pages[r] EXCEPT ![index] = new]
    <2>2. /\ row \in [Indices -> Pages] /\ row[index] = new
          /\ \A j \in Indices : j # index => row[j] = pages[r][j]
      BY ONLY <2>1
    <2>3. pages' = [pages EXCEPT ![r] = row]
      BY <1>8
    <2> HIDE DEF row
    <2>4. /\ pages' \in [Regions -> [Indices -> Pages]] /\ pages'[r] = row
          /\ \A q \in Regions : q # r => pages'[q] = pages[q]
      BY ONLY <2>1, <2>2, <2>3
    <2> QED
      BY ONLY <2>1, <2>2, <2>4
  <1>10. \A q \in Regions, j \in Indices : pages'[q][j].data = pages[q][j].data
    BY <1>6, <1>9
  <1>11. \A q \in Regions, j \in Indices : ~pages'[q][j].shared => ~pages[q][j].shared
    BY <1>1, <1>9
  <1>12. TypeOK'
    <2>1. Len(list) \in Nat
      BY <1>2
    <2>2. stats' \in Stats
      <3>1. /\ stats.pagesScanned + 1 \in Nat /\ stats.duplicatePages + 1 \in Nat
            /\ stats.collisionProbes + Len(list) \in Nat
        BY <2>1 DEF TypeOK, Stats
      <3> QED
        BY <1>8, <3>1 DEF TypeOK, Stats
    <2> QED
      BY <1>1, <1>3, <1>4, <1>9, <2>2, IndexFacts DEF TypeOK
  <1>13. HomesPointBack'
    <2>1. rep \in 1 .. index - 1
      BY <1>1, <1>5, IndexFacts
    <2> QED
      BY <2>1, <1>6, <1>9 DEF HomesPointBack
  <1>14. SharedEqualsHomeUntilWritten'
    <2> SUFFICES ASSUME NEW q \in Regions, NEW j \in Indices,
                        pages'[q][j].shared, <<q, j>> \notin stale'
                 PROVE  pages'[q][j].data = pages'[q][pages'[q][j].homeIndex].data
      BY DEF SharedEqualsHomeUntilWritten
    <2>1. CASE q = r /\ j = index
      BY <2>1, <1>5, <1>6, <1>9, <1>10
    <2>2. CASE q # r \/ j # index
      <3>1. pages'[q][j] = pages[q][j] /\ <<q, j>> \notin stale
        BY <2>2, <1>3, <1>9
      <3>2. pages[q][j].homeIndex \in Indices
        BY <3>1, IndexFacts DEF HomesPointBack
      <3> QED
        BY <3>1, <3>2, <1>10 DEF SharedEqualsHomeUntilWritten
    <2> QED
      BY <2>1, <2>2
  <1>15. ScanFindsAll'
    BY <1>4, <1>10, <1>11 DEF ScanFindsAll, TypeOK
  <1>16. StatsMatchPages'
    <2>1. SharedPages' = SharedPages \cup {<<r, index>>} /\ <<r, index>> \notin SharedPages
      BY <1>1, <1>6, <1>9 DEF SharedPages
    <2>2. Cardinality(SharedPages') = Cardinality(SharedPages) + 1
          /\ Cardinality(SharedPages) \in Nat
      BY <2>1, SharedFinite, FS_AddElement
    <2>3. /\ stats'.duplicatePages = stats.duplicatePages + 1
          /\ stats'.writeCowEvents = stats.writeCowEvents
          /\ stats'.pagesScanned = stats.pagesScanned + 1
          /\ stats'.uniquePages = stats.uniquePages
          /\ stats.uniquePages \in Nat /\ stats.duplicatePages \in Nat
          /\ stats.writeCowEvents \in Nat
      BY <1>8 DEF TypeOK, Stats
    <2> QED
      BY <2>2, <2>3 DEF StatsMatchPages
  <1>17. \A i \in Indices : i < index + 1 /\ ~pages'[r][i].shared
                               => i < index /\ pages'[r][i] = pages[r][i]
    BY <1>1, <1>6, <1>9, IndexFacts
  <1>18. MapHoldsKept'
    <2> SUFFICES ASSUME NEW s \in Sigs, NEW l \in DOMAIN signatureMap[s]
                 PROVE  /\ signatureMap[s][l] < index + 1
                        /\ ~pages'[r][signatureMap[s][l]].shared
                        /\ SigOf[pages'[r][signatureMap[s][l]].data] = s
      BY <1>4 DEF MapHoldsKept
    <2>1. signatureMap[s][l] \in Indices
      BY DEF TypeOK
    <2>2. /\ signatureMap[s][l] < index /\ ~pages[r][signatureMap[s][l]].shared
          /\ SigOf[pages[r][signatureMap[s][l]].data] = s
      BY <1>1, RegionsAssumption DEF MapInv, MapHoldsKept
    <2> QED
      BY <2>1, <2>2, <1>1, <1>9, IndexFacts
  <1>19. MapHoldsAllKept' /\ KeptAreDistinct'
    BY <1>1, <1>4, <1>17, RegionsAssumption
       DEF MapInv, MapHoldsAllKept, KeptAreDistinct
  <1> QED
    BY <1>12, <1>13, <1>14, <1>15, <1>16, <1>18, <1>19 DEF MapInv

-----------------------------------------------------------------------------
\* A write makes the page private, and every page merged with it stale.
LEMMA WriteKeeps ==
    ASSUME IInv, NEW r \in Regions, NEW i \in Indices, NEW b \in Bytes, writeToPage(r, i, b)
    PROVE  IInv'
  <1> USE DEF IInv
  <1> DEFINE new == Written(pages[r][i], b)
  <1>1. pages[r][i] \in Pages
    BY DEF TypeOK
  <1>2. /\ new \in Pages /\ ~new.shared /\ new.homeIndex = NoHome
    <2>1. <<b, pages[r][i].data[2]>> \in Contents
      BY <1>1 DEF Pages, Contents
    <2>2. CASE pages[r][i].shared
      BY <2>1, <2>2, <1>1 DEF Written, clonePageForWrite, Page, Pages
    <2>3. CASE ~pages[r][i].shared
      BY <2>1, <2>3, <1>1 DEF Written, clonePageForWrite, Pages, HomesPointBack
    <2> QED
      BY <2>2, <2>3
  <1>3. /\ pages' = [pages EXCEPT ![r][i] = new]
        /\ scanning = NoRegion /\ scanning' = scanning /\ index' = index
        /\ signatureMap' = signatureMap
        /\ deduped' = deduped \ {r}
        /\ stats' = [stats EXCEPT !.writesEmulated = @ + 1,
                                  !.writeCowEvents = IF pages[r][i].shared THEN @ + 1 ELSE @]
        /\ stale' = (stale \ {<<r, i>>}) \cup
                      {<<r, j>> : j \in {j \in Indices \ {i} : pages[r][j].homeIndex = i}}
    BY DEF writeToPage
  <1> HIDE DEF new
  <1>4. /\ pages' \in [Regions -> [Indices -> Pages]] /\ pages'[r][i] = new
        /\ \A q \in Regions, j \in Indices :
              q # r \/ j # i => pages'[q][j] = pages[q][j]
    <2>1. pages \in [Regions -> [Indices -> Pages]] /\ r \in Regions /\ i \in Indices /\ new \in Pages
      BY <1>2 DEF TypeOK
    <2> DEFINE row == [pages[r] EXCEPT ![i] = new]
    <2>2. /\ row \in [Indices -> Pages] /\ row[i] = new
          /\ \A j \in Indices : j # i => row[j] = pages[r][j]
      BY ONLY <2>1
    <2>3. pages' = [pages EXCEPT ![r] = row]
      BY <1>3
    <2> HIDE DEF row
    <2>4. /\ pages' \in [Regions -> [Indices -> Pages]] /\ pages'[r] = row
          /\ \A q \in Regions : q # r => pages'[q] = pages[q]
      BY ONLY <2>1, <2>2, <2>3
    <2> QED
      BY ONLY <2>1, <2>2, <2>4
  <1>5. TypeOK'
    <2>1. stats' \in Stats
      <3>1. /\ stats.writesEmulated + 1 \in Nat
            /\ (IF pages[r][i].shared THEN stats.writeCowEvents + 1
                                      ELSE stats.writeCowEvents) \in Nat
        BY DEF TypeOK, Stats
      <3> QED
        BY <1>3, <3>1 DEF TypeOK, Stats
    <2>2. stale' \subseteq Regions \X Indices
      BY <1>3 DEF TypeOK
    <2> QED
      BY <1>3, <1>4, <2>1, <2>2 DEF TypeOK
  <1>6. HomesPointBack'
    BY <1>2, <1>4 DEF HomesPointBack
  <1>7. SharedEqualsHomeUntilWritten'
    <2> SUFFICES ASSUME NEW q \in Regions, NEW j \in Indices,
                        pages'[q][j].shared, <<q, j>> \notin stale'
                 PROVE  pages'[q][j].data = pages'[q][pages'[q][j].homeIndex].data
      BY DEF SharedEqualsHomeUntilWritten
    <2>1. q # r \/ j # i
      BY <1>2, <1>4
    <2>2. pages'[q][j] = pages[q][j] /\ <<q, j>> \notin stale
      BY <2>1, <1>3, <1>4
    <2>3. pages[q][j].homeIndex \in Indices
      BY <2>2, IndexFacts DEF HomesPointBack
    <2>4. q # r \/ pages[q][j].homeIndex # i
      BY <2>1, <1>3
    <2> QED
      BY <2>2, <2>3, <2>4, <1>4 DEF SharedEqualsHomeUntilWritten
  <1>8. ScanFindsAll'
    BY <1>3, <1>4 DEF ScanFindsAll, TypeOK
  <1>9. StatsMatchPages'
    <2>1. SharedPages' = SharedPages \ {<<r, i>>}
      BY <1>2, <1>4 DEF SharedPages
    <2>2. <<r, i>> \in SharedPages <=> pages[r][i].shared
      BY DEF SharedPages
    <2>3. /\ Cardinality(SharedPages') = IF pages[r][i].shared THEN Cardinality(SharedPages) - 1
                                                              ELSE Cardinality(SharedPages)
          /\ Cardinality(SharedPages) \in Nat
      BY <2>1, <2>2, SharedFinite, FS_RemoveElement
    <2>4. /\ stats'.duplicatePages = stats.duplicatePages
          /\ stats'.writeCowEvents = IF pages[r][i].shared THEN stats.writeCowEvents + 1
                                                          ELSE stats.writeCowEvents
          /\ stats'.pagesScanned = stats.pagesScanned
          /\ stats'.uniquePages = stats.uniquePages
          /\ stats.duplicatePages \in Nat /\ stats.writeCowEvents \in Nat
      BY <1>3 DEF TypeOK, Stats
    <2> QED
      BY <2>3, <2>4 DEF StatsMatchPages
  <1>10. MapInv'
    BY <1>3 DEF MapInv, MapHoldsKept, MapHoldsAllKept, KeptAreDistinct
  <1> QED
    BY <1>5, <1>6, <1>7, <1>8, <1>9, <1>10

\* IInv holds throughout: a case per action.
THEOREM Invariance == Spec => []IInv
  <1>1. ASSUME IInv, [Next]_vars PROVE IInv'
    <2>1. CASE Next
      <3>1. CASE \E r \in Regions : ScanBegins(r)
        BY ONLY <1>1, <3>1, BeginKeeps
      <3>2. CASE \E r \in Regions, i \in Indices, b \in Bytes : writeToPage(r, i, b)
        BY ONLY <1>1, <3>2, WriteKeeps
      <3>3. CASE ScanSkips \/ ScanMerges \/ ScanKeeps \/ ScanEnds
        BY ONLY <1>1, <3>3, SkipKeeps, EndKeeps, KeepKeeps, MergeKeeps
      <3> QED
        BY ONLY <2>1, <3>1, <3>2, <3>3 DEF Next
    <2>2. CASE UNCHANGED vars
      <3>1. /\ UNCHANGED <<pages, stats, scanning, index, signatureMap, deduped, stale>>
            /\ IInv
        BY <1>1, <2>2 DEF vars
      <3>2. TypeOK' /\ HomesPointBack'
        BY ONLY <3>1 DEF IInv, TypeOK, HomesPointBack
      <3>3. SharedEqualsHomeUntilWritten' /\ ScanFindsAll'
        BY ONLY <3>1 DEF IInv, SharedEqualsHomeUntilWritten, ScanFindsAll
      <3>4. StatsMatchPages'
        BY ONLY <3>1 DEF IInv, StatsMatchPages, SharedPages
      <3>5. MapInv'
        BY ONLY <3>1 DEF IInv, MapInv, MapHoldsKept, MapHoldsAllKept, KeptAreDistinct
      <3> QED
        BY ONLY <3>2, <3>3, <3>4, <3>5 DEF IInv
    <2> QED
      BY <1>1, <2>1, <2>2
  <1> QED
    BY <1>1, InitIInv, PTL DEF Spec

-----------------------------------------------------------------------------
\* Every variable keeps its type.
THEOREM TypeCorrect == Spec => []TypeOK
  BY Invariance, PTL DEF IInv

\* The statistics of the engine agree with the pages after any scans and writes.
THEOREM StatsCorrect == Spec => []StatsMatchPages
  BY Invariance, PTL DEF IInv

\* Homes point backwards, so chains of homes end.
THEOREM HomesAcyclic == Spec => []HomesPointBack
  BY Invariance, PTL DEF IInv

\* A scan misses no duplicate, for any signature function.
THEOREM ScanComplete == Spec => []ScanFindsAll
  BY Invariance, PTL DEF IInv

\* Only equal pages are merged, for any signature function.
THEOREM MergeSound == Spec => []SharedEqualsHomeUntilWritten
  BY Invariance, PTL DEF IInv
=============================================================================
