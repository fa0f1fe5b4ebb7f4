----------------------- MODULE RamDedupeDriverProofs -----------------------
(***************************************************************************)
(* Theorems about RamDedupeDriver for any number of clients, processes,    *)
(* frames and contents and any capacities.  IInv is inductive: one lemma   *)
(* per action shows that the action preserves each of its conjuncts.       *)
(***************************************************************************)
EXTENDS RamDedupeDriver, TLAPS

\* What is stored in PageTable is well formed at any time.
TableWellFormed == \A e \in PageTable : WellFormed(e)

\* The inductive invariant.
IInv == /\ TypeOK
        /\ ArgumentsSet
        /\ TableWellFormed
        /\ KeysUnique
        /\ DrainPointsToEntry
        /\ UnmarksSharedEntry
        /\ LockOwner
        /\ GroupsBehindLeak
        /\ Lifecycle

USE ThreadsAssumption, MemoryAssumption, BoundsAssumption, FreedAssumption
USE DEF tables, scan, client, env, Threads, LockFree,
        ScannerStates, ClientStates, SystemStates, ScannerLockWaits, ClientLockWaits

-----------------------------------------------------------------------------
(***************************************************************************)
(* The operators of the model.                                             *)
(***************************************************************************)

\* Goto moves one thread and no other.
LEMMA GotoMoves ==
    ASSUME TypeOK, NEW t \in Threads, NEW l, Goto(t, l)
    PROVE  pc'[t] = l /\ \A u \in Threads : u # t => pc'[u] = pc[u]
BY DEF TypeOK, Goto

\* The key of a page entry.
LEMMA KeyType ==
    ASSUME NEW e \in PageEntries, WellFormed(e)
    PROVE  /\ Key(e) \in Keys
           /\ Key(e)[1] = e.Signature /\ Key(e)[2] = e.PageFrameNumbers[1]
BY DEF PageEntries, WellFormed, Key, Keys

\* A key is not the absent entry.
LEMMA KeyIsEntry == ASSUME NEW k \in Keys PROVE k # NoEntry
BY DEF Keys, NoEntry

\* What AddPageEntry inserts.
LEMMA NewEntryFacts ==
    ASSUME NEW k \in Keys
    PROVE  /\ NewEntry(k) \in PageEntries
           /\ WellFormed(NewEntry(k))
           /\ Key(NewEntry(k)) = k
           /\ ~NewEntry(k).Shared
<1> DEFINE s == k[1]
           f == k[2]
<1>1. s \in Sigs /\ f \in Frames /\ k = <<s, f>>
    BY DEF Keys
<1>2. NewEntry(k) = [Signature |-> s, PageFrameNumbers |-> <<f>>,
                     ReferenceCount |-> 1, Shared |-> FALSE]
    BY <1>1 DEF NewEntry
<1>3. <<f>> \in Seq(Frames) /\ Len(<<f>>) = 1 /\ <<f>>[1] = f
    BY <1>1
<1>4. NewEntry(k) \in PageEntries
    BY <1>1, <1>2, <1>3 DEF PageEntries
<1>5. WellFormed(NewEntry(k))
    BY <1>2, <1>3 DEF WellFormed
<1> QED
    BY <1>1, <1>2, <1>3, <1>4, <1>5 DEF Key

\* Adding a frame to an entry keeps it well formed, keeps its key, and never
\* takes the Shared flag away.
LEMMA EntryWithFacts ==
    ASSUME NEW e \in PageEntries, WellFormed(e), NEW f \in Frames
    PROVE  /\ EntryWith(e, f) \in PageEntries
           /\ WellFormed(EntryWith(e, f))
           /\ Key(EntryWith(e, f)) = Key(e)
           /\ e.Shared => EntryWith(e, f).Shared
<1> DEFINE s == e.PageFrameNumbers
           n == EntryWith(e, f)
<1>1. s \in Seq(Frames) /\ Len(s) >= 1 /\ e.ReferenceCount \in Nat /\ e.Shared \in BOOLEAN
    BY DEF PageEntries, WellFormed
<1>2. /\ n.Signature = e.Signature
      /\ n.PageFrameNumbers = FramesWith(e, f)
      /\ n.ReferenceCount = CountWith(e, f)
      /\ n.Shared = (e.Shared \/ CountWith(e, f) >= 2)
    BY DEF EntryWith
<1>3. FramesWith(e, f) \in Seq(Frames) /\ FramesWith(e, f)[1] = s[1]
    BY <1>1 DEF FramesWith
<1>4. CountWith(e, f) \in Nat
    BY <1>1 DEF CountWith
<1>5. n \in PageEntries
    BY <1>1, <1>3, <1>4 DEF PageEntries, EntryWith
<1>6. Key(n) = Key(e)
    BY <1>2, <1>3 DEF Key
<1>7. WellFormed(n)
  <2>1. CASE Holds(e, f)
    <3>1. n.PageFrameNumbers = s /\ n.ReferenceCount = e.ReferenceCount
        BY <2>1, <1>2 DEF FramesWith, CountWith
    <3>2. n.Shared <=> n.ReferenceCount >= 2
        BY <3>1, <1>2 DEF WellFormed
    <3> QED
        BY <3>1, <3>2 DEF WellFormed
  <2>2. CASE ~Holds(e, f) /\ Len(s) >= MaxFrames
    <3>1. n.PageFrameNumbers = s /\ n.ReferenceCount = e.ReferenceCount + 1
        BY <2>2, <1>2 DEF FramesWith, CountWith
    <3>2. n.ReferenceCount >= 2
        BY <3>1, <1>1 DEF WellFormed
    <3>3. n.Shared
        BY <3>2, <1>2
    <3> QED
        BY <3>1, <3>2, <3>3, <2>2, <1>1 DEF WellFormed
  <2>3. CASE ~Holds(e, f) /\ ~(Len(s) >= MaxFrames)
    <3>1. n.PageFrameNumbers = Append(s, f) /\ n.ReferenceCount = e.ReferenceCount + 1
        BY <2>3, <1>2 DEF FramesWith, CountWith
    <3>2. n.ReferenceCount >= 2
        BY <3>1, <1>1 DEF WellFormed
    <3>5. n.Shared
        BY <3>2, <1>2
    <3>3. /\ Len(Append(s, f)) = Len(s) + 1
          /\ DOMAIN Append(s, f) = 1 .. Len(s) + 1
          /\ \A i \in 1 .. Len(s) : Append(s, f)[i] = s[i] /\ s[i] # f
          /\ Append(s, f)[Len(s) + 1] = f
        BY <1>1, <2>3 DEF Holds
    <3>4. \A i, j \in DOMAIN Append(s, f) : Append(s, f)[i] = Append(s, f)[j] => i = j
        BY <3>3, <1>1 DEF WellFormed
    <3> QED
        BY <3>1, <3>2, <3>3, <3>4, <3>5, <2>3, <1>1 DEF WellFormed
  <2> QED
    BY <2>1, <2>2, <2>3
<1> QED
    BY <1>2, <1>5, <1>6, <1>7

\* A shared entry stores at least two frames.
LEMMA SharedHasTwo ==
    ASSUME NEW e \in PageEntries, WellFormed(e), e.Shared
    PROVE  Len(e.PageFrameNumbers) >= 2
BY DEF PageEntries, WellFormed

\* What PromoteSharedPageGroup inserts.
LEMMA NewGroupType == ASSUME NEW k \in Keys PROVE NewGroup(k) \in SharedPageGroups
<1>1. k[1] \in Sigs /\ k[2] \in Frames
    BY DEF Keys
<1>2. <<k[2]>> \in Seq(Frames)
    BY <1>1
<1> QED
    BY <1>1, <1>2 DEF NewGroup, SharedPageGroups

\* Nothing is shared while the mutex is free.
LEMMA FreeMeansNoGroup ==
    ASSUME IInv, LockFree
    PROVE  SharedGroupTable = {} /\ CowProtectedTable = {} /\ pc[Scanner] # "regcow"
BY DEF IInv, LockOwner, GroupsBehindLeak

-----------------------------------------------------------------------------
(***************************************************************************)
(* The initial state and every action.                                     *)
(***************************************************************************)

\* The driver image as loaded satisfies the invariant.
LEMMA InitIInv == Init => IInv
<1> SUFFICES ASSUME Init PROVE IInv
    OBVIOUS
<1>1. /\ pc \in [Threads -> ScannerStates \cup ClientStates \cup SystemStates]
      /\ pc[Scanner] = "none" /\ pc[System] = "entry"
      /\ \A c \in Clients : pc[c] = "ready"
    BY DEF Init
<1>2. /\ gDedupeMutex = NoThread
      /\ ProcessTable = {} /\ PageTable = {} /\ SharedGroupTable = {}
      /\ CowProtectedTable = {} /\ CowPrivateTable = {}
      /\ drain = [c \in Clients |-> NoEntry]
      /\ drainIndex = [c \in Clients |-> 1] /\ arg = [c \in Clients |-> NoPid]
      /\ gShutdownEvent = FALSE
      /\ todo = {} /\ attached = NoPid /\ pages = <<>> /\ cand = NoEntry
      /\ mem \in InitMem /\ proc \in InitProc /\ events = 0
      /\ raced = FALSE /\ bugcheck = "none"
    BY DEF Init
<1>3. TypeOK
  <2>1. /\ arg \in [Clients -> Pids \cup Frames \cup {NoPid}]
        /\ drain \in [Clients -> Keys \cup {NoEntry}]
        /\ drainIndex \in [Clients -> Nat \ {0}]
    BY <1>2
  <2>2. pages \in Seq(Frames) /\ cand \in Keys \cup {NoEntry}
    BY <1>2
  <2>3. /\ mem \in [Frames -> Contents]
        /\ proc \in [Pids -> {"none", "user", "system"}]
    BY <1>2
  <2> QED
    BY <1>1, <1>2, <2>1, <2>2, <2>3 DEF TypeOK
<1>4. ArgumentsSet /\ TableWellFormed /\ KeysUnique
    BY <1>1, <1>2 DEF ArgumentsSet, TableWellFormed, KeysUnique
<1>5. DrainPointsToEntry /\ UnmarksSharedEntry
    BY <1>1, <1>2 DEF DrainPointsToEntry, UnmarksSharedEntry
<1>6. LockOwner /\ GroupsBehindLeak /\ Lifecycle
    BY <1>1, <1>2 DEF LockOwner, GroupsBehindLeak, Lifecycle
<1> QED
    BY <1>3, <1>4, <1>5, <1>6 DEF IInv

\* A machine that stopped keeps nothing.
LEMMA BugcheckPreserves ==
    ASSUME IInv, NEW why \in {"race", "orphan"}, Bugcheck(why)
    PROVE  IInv'
<1>1. /\ pc' = [t \in Threads |-> "halted"] /\ gDedupeMutex' = NoThread
      /\ ProcessTable' = {} /\ PageTable' = {} /\ SharedGroupTable' = {}
      /\ CowProtectedTable' = {} /\ CowPrivateTable' = {}
      /\ drain' = [c \in Clients |-> NoEntry]
    BY DEF Bugcheck
<1>2. TypeOK'
    BY DEF IInv, Bugcheck, TypeOK
<1>3. (ArgumentsSet /\ TableWellFormed /\ KeysUnique)'
    BY <1>1 DEF ArgumentsSet, TableWellFormed, KeysUnique
<1>4. (DrainPointsToEntry /\ UnmarksSharedEntry)'
    BY <1>1 DEF DrainPointsToEntry, UnmarksSharedEntry
<1>5. (LockOwner /\ GroupsBehindLeak /\ Lifecycle)'
    BY <1>1 DEF LockOwner, GroupsBehindLeak, Lifecycle
<1> QED
    BY <1>2, <1>3, <1>4, <1>5 DEF IInv

\* Setting the shutdown event preserves the invariant.
LEMMA DriverUnloadPreserves ==
    ASSUME IInv, DriverUnload
    PROVE  IInv'
<1> USE DEF IInv, DriverUnload
<1>1. TypeOK'
    BY DEF TypeOK, Goto
<1>2. ArgumentsSet'
    BY DEF TypeOK, Goto, ArgumentsSet
<1>3. TableWellFormed'
    BY DEF TypeOK, Goto, TableWellFormed
<1>4. KeysUnique'
    BY DEF TypeOK, Goto, KeysUnique
<1>5. DrainPointsToEntry'
    BY DEF TypeOK, Goto, DrainPointsToEntry
<1>6. UnmarksSharedEntry'
    BY DEF TypeOK, Goto, UnmarksSharedEntry
<1>7. LockOwner'
    BY DEF TypeOK, Goto, LockOwner
<1>8. GroupsBehindLeak'
    BY DEF TypeOK, Goto, GroupsBehindLeak
<1>9. Lifecycle'
    BY DEF TypeOK, Goto, Lifecycle
<1> QED
    BY <1>1, <1>2, <1>3, <1>4, <1>5, <1>6, <1>7, <1>8, <1>9

\* Emptying the tables after the scan thread ended preserves the invariant.
LEMMA ShutdownDedupeDriverPreserves ==
    ASSUME IInv, ShutdownDedupeDriver
    PROVE  IInv'
<1> USE DEF IInv, ShutdownDedupeDriver
<1>1. TypeOK'
    BY DEF TypeOK, Goto
<1>2. ArgumentsSet'
    BY DEF TypeOK, Goto, ArgumentsSet
<1>3. TableWellFormed'
    BY DEF TypeOK, Goto, TableWellFormed
<1>4. KeysUnique'
    BY DEF TypeOK, Goto, KeysUnique
<1>5. DrainPointsToEntry'
    BY DEF TypeOK, Goto, DrainPointsToEntry, Lifecycle
<1>6. UnmarksSharedEntry'
    BY DEF TypeOK, Goto, UnmarksSharedEntry
<1>7. LockOwner'
    BY DEF TypeOK, Goto, LockOwner
<1>8. GroupsBehindLeak'
    BY DEF TypeOK, Goto, GroupsBehindLeak
<1>9. Lifecycle'
    BY DEF TypeOK, Goto, Lifecycle
<1> QED
    BY <1>1, <1>2, <1>3, <1>4, <1>5, <1>6, <1>7, <1>8, <1>9

\* The loop test of the scan thread preserves the invariant.
LEMMA PageScanThreadPreserves ==
    ASSUME IInv, PageScanThread
    PROVE  IInv'
<1> USE DEF IInv, PageScanThread
<1>1. TypeOK'
    BY DEF TypeOK, Goto
<1>2. ArgumentsSet'
    BY DEF TypeOK, Goto, ArgumentsSet
<1>3. TableWellFormed'
    BY DEF TypeOK, Goto, TableWellFormed
<1>4. KeysUnique'
    BY DEF TypeOK, Goto, KeysUnique
<1>5. DrainPointsToEntry'
    BY DEF TypeOK, Goto, DrainPointsToEntry
<1>6. UnmarksSharedEntry'
    BY DEF TypeOK, Goto, UnmarksSharedEntry
<1>7. LockOwner'
    BY DEF TypeOK, Goto, LockOwner
<1>8. GroupsBehindLeak'
    BY DEF TypeOK, Goto, GroupsBehindLeak
<1>9. Lifecycle'
    BY DEF TypeOK, Goto, Lifecycle
<1> QED
    BY <1>1, <1>2, <1>3, <1>4, <1>5, <1>6, <1>7, <1>8, <1>9

\* The snapshot of the opted-in processes preserves the invariant.
LEMMA ScanOptedInProcessesPreserves ==
    ASSUME IInv, ScanOptedInProcesses
    PROVE  IInv'
<1> USE DEF IInv, ScanOptedInProcesses
<1>1. TypeOK'
    BY DEF TypeOK, Goto
<1>2. ArgumentsSet'
    BY DEF TypeOK, Goto, ArgumentsSet
<1>3. TableWellFormed'
    BY DEF TypeOK, Goto, TableWellFormed
<1>4. KeysUnique'
    BY DEF TypeOK, Goto, KeysUnique
<1>5. DrainPointsToEntry'
    BY DEF TypeOK, Goto, DrainPointsToEntry
<1>6. UnmarksSharedEntry'
    BY DEF TypeOK, Goto, UnmarksSharedEntry
<1>7. LockOwner'
    BY DEF TypeOK, Goto, LockOwner
<1>8. GroupsBehindLeak'
    BY DEF TypeOK, Goto, GroupsBehindLeak
<1>9. Lifecycle'
    BY DEF TypeOK, Goto, Lifecycle
<1> QED
    BY <1>1, <1>2, <1>3, <1>4, <1>5, <1>6, <1>7, <1>8, <1>9

\* Attaching to a process preserves the invariant.
LEMMA ScanProcessPagesPreserves ==
    ASSUME IInv, ScanProcessPages
    PROVE  IInv'
<1> USE DEF IInv, ScanProcessPages
<1>1. TypeOK'
  <2>1. PICK p \in todo :
            /\ todo' = todo \ {p}
            /\ \/ attached' = p /\ pages' = Maps[p] /\ Goto(Scanner, "pages")
               \/ UNCHANGED <<attached, pages, pc>>
    OBVIOUS
  <2>2. p \in Pids /\ Maps[p] \in Seq(Frames)
    BY DEF TypeOK
  <2>3. todo' \subseteq Pids /\ attached' \in Pids \cup {NoPid} /\ pages' \in Seq(Frames)
    BY <2>1, <2>2 DEF TypeOK
  <2>4. pc' = [pc EXCEPT ![Scanner] = "pages"] \/ pc' = pc
    BY <2>1 DEF Goto
  <2>5. /\ pc' \in [Threads -> ScannerStates \cup ClientStates \cup SystemStates]
        /\ pc'[Scanner] \in ScannerStates /\ pc'[System] \in SystemStates
        /\ \A c \in Clients : pc'[c] \in ClientStates
    <3>1. /\ pc \in [Threads -> ScannerStates \cup ClientStates \cup SystemStates]
          /\ pc[Scanner] \in ScannerStates /\ pc[System] \in SystemStates
          /\ \A c \in Clients : pc[c] \in ClientStates /\ c \in Threads /\ c # Scanner
          /\ Scanner \in Threads /\ System # Scanner
      BY DEF TypeOK
    <3>2. "pages" \in ScannerStates
      OBVIOUS
    <3> QED
      BY ONLY <2>4, <3>1, <3>2
  <2> QED
    BY <2>3, <2>5 DEF TypeOK
<1>2. ArgumentsSet'
    BY DEF TypeOK, Goto, ArgumentsSet
<1>3. TableWellFormed'
    BY DEF TypeOK, Goto, TableWellFormed
<1>4. KeysUnique'
    BY DEF TypeOK, Goto, KeysUnique
<1>5. DrainPointsToEntry'
    BY DEF TypeOK, Goto, DrainPointsToEntry
<1>6. UnmarksSharedEntry'
    BY DEF TypeOK, Goto, UnmarksSharedEntry
<1>7. LockOwner'
    BY DEF TypeOK, Goto, LockOwner
<1>8. GroupsBehindLeak'
    BY DEF TypeOK, Goto, GroupsBehindLeak
<1>9. Lifecycle'
    BY DEF TypeOK, Goto, Lifecycle
<1> QED
    BY <1>1, <1>2, <1>3, <1>4, <1>5, <1>6, <1>7, <1>8, <1>9

\* Ending a scan round preserves the invariant.
LEMMA ScanRoundEndsPreserves ==
    ASSUME IInv, ScanRoundEnds
    PROVE  IInv'
<1> USE DEF IInv, ScanRoundEnds
<1>1. TypeOK'
    BY DEF TypeOK, Goto
<1>2. ArgumentsSet'
    BY DEF TypeOK, Goto, ArgumentsSet
<1>3. TableWellFormed'
    BY DEF TypeOK, Goto, TableWellFormed
<1>4. KeysUnique'
    BY DEF TypeOK, Goto, KeysUnique
<1>5. DrainPointsToEntry'
    BY DEF TypeOK, Goto, DrainPointsToEntry
<1>6. UnmarksSharedEntry'
    BY DEF TypeOK, Goto, UnmarksSharedEntry
<1>7. LockOwner'
    BY DEF TypeOK, Goto, LockOwner
<1>8. GroupsBehindLeak'
    BY DEF TypeOK, Goto, GroupsBehindLeak
<1>9. Lifecycle'
    BY DEF TypeOK, Goto, Lifecycle
<1> QED
    BY <1>1, <1>2, <1>3, <1>4, <1>5, <1>6, <1>7, <1>8, <1>9

\* Hashing or skipping a page preserves the invariant.
LEMMA ScanPagePreserves ==
    ASSUME IInv, ScanPage
    PROVE  IInv'
<1> USE DEF IInv, ScanPage
<1>a. Head(pages) \in Frames /\ Tail(pages) \in Seq(Frames)
    BY DEF TypeOK
<1>b. \A f \in {Head(pages), 0} : <<SigOf[mem[Head(pages)]], f>> \in Keys
    BY <1>a DEF TypeOK, Keys, Sigs
<1>1. TypeOK'
  <2>3. <<>> \in Seq(Frames)
    OBVIOUS
  <2>4. cand' = cand \/ \E f \in {Head(pages), 0} : cand' = <<SigOf[mem[Head(pages)]], f>>
    OBVIOUS
  <2>5. pages' = Tail(pages) \/ pages' = <<>>
    OBVIOUS
  <2>1. pages' \in Seq(Frames) /\ cand' \in Keys \cup {NoEntry}
    BY <1>a, <1>b, <2>3, <2>4, <2>5 DEF TypeOK
  <2>2. pc' = [pc EXCEPT ![Scanner] = "add"] \/ pc' = pc
    BY DEF Goto
  <2>p. /\ pc' \in [Threads -> ScannerStates \cup ClientStates \cup SystemStates]
        /\ pc'[Scanner] \in ScannerStates /\ pc'[System] \in SystemStates
        /\ \A c \in Clients : pc'[c] \in ClientStates
    <3>1. /\ pc \in [Threads -> ScannerStates \cup ClientStates \cup SystemStates]
          /\ pc[Scanner] \in ScannerStates /\ pc[System] \in SystemStates
          /\ \A c \in Clients : pc[c] \in ClientStates
      BY DEF TypeOK
    <3>2. CASE pc' = pc
      BY <3>1, <3>2
    <3>3. /\ Scanner \in Threads /\ System \in Threads /\ System # Scanner
          /\ \A c \in Clients : c \in Threads /\ c # Scanner
      BY ThreadsAssumption DEF Threads
    <3>4. CASE pc' = [pc EXCEPT ![Scanner] = "add"]
      <4>1. "add" \in ScannerStates
        BY DEF ScannerStates, ScannerLockWaits
      <4> QED
        BY ONLY <3>1, <3>3, <3>4, <4>1
    <3> QED
      BY <2>2, <3>2, <3>4
  <2> QED
    BY <2>1, <2>p DEF TypeOK
<1>2. ArgumentsSet'
  <2>1. /\ pc \in [Threads -> ScannerStates \cup ClientStates \cup SystemStates]
        /\ ArgumentsSet /\ arg' = arg /\ pc[Scanner] = "pages"
    BY DEF TypeOK, client
  <2>2. /\ Scanner \in Threads
        /\ \A c \in Clients : c \in Threads /\ c # Scanner
    BY ThreadsAssumption DEF Threads
  <2>3. \/ cand' \in Keys /\ pc' = [pc EXCEPT ![Scanner] = "add"]
        \/ cand' = cand /\ pc' = pc
    BY ONLY <1>b, ScanPage DEF ScanPage, Goto
  <2> QED
    BY ONLY <2>1, <2>2, <2>3 DEF ArgumentsSet
<1>3. TableWellFormed'
    BY DEF TypeOK, Goto, TableWellFormed
<1>4. KeysUnique'
    BY DEF TypeOK, Goto, KeysUnique
<1>5. DrainPointsToEntry'
    BY DEF TypeOK, Goto, DrainPointsToEntry
<1>6. UnmarksSharedEntry'
    BY DEF TypeOK, Goto, UnmarksSharedEntry
<1>7. LockOwner'
    BY DEF TypeOK, Goto, LockOwner
<1>8. GroupsBehindLeak'
    BY DEF TypeOK, Goto, GroupsBehindLeak
<1>9. Lifecycle'
    BY DEF TypeOK, Goto, Lifecycle
<1> QED
    BY <1>1, <1>2, <1>3, <1>4, <1>5, <1>6, <1>7, <1>8, <1>9

\* Detaching from a process preserves the invariant.
LEMMA ScanProcessEndsPreserves ==
    ASSUME IInv, ScanProcessEnds
    PROVE  IInv'
<1> USE DEF IInv, ScanProcessEnds
<1>1. TypeOK'
    BY DEF TypeOK, Goto
<1>2. ArgumentsSet'
    BY DEF TypeOK, Goto, ArgumentsSet
<1>3. TableWellFormed'
    BY DEF TypeOK, Goto, TableWellFormed
<1>4. KeysUnique'
    BY DEF TypeOK, Goto, KeysUnique
<1>5. DrainPointsToEntry'
    BY DEF TypeOK, Goto, DrainPointsToEntry
<1>6. UnmarksSharedEntry'
    BY DEF TypeOK, Goto, UnmarksSharedEntry
<1>7. LockOwner'
    BY DEF TypeOK, Goto, LockOwner
<1>8. GroupsBehindLeak'
    BY DEF TypeOK, Goto, GroupsBehindLeak
<1>9. Lifecycle'
    BY DEF TypeOK, Goto, Lifecycle
<1> QED
    BY <1>1, <1>2, <1>3, <1>4, <1>5, <1>6, <1>7, <1>8, <1>9

\* Taking the lock for AddPageEntry preserves the invariant.
LEMMA AddPageEntryLocksPreserves ==
    ASSUME IInv, AddPageEntryLocks
    PROVE  IInv'
<1> USE DEF IInv, AddPageEntryLocks
<1>1. TypeOK'
    BY DEF TypeOK, Goto
<1>2. ArgumentsSet'
    BY DEF TypeOK, Goto, ArgumentsSet
<1>3. TableWellFormed'
    BY DEF TypeOK, Goto, TableWellFormed
<1>4. KeysUnique'
    BY DEF TypeOK, Goto, KeysUnique
<1>5. DrainPointsToEntry'
    BY DEF TypeOK, Goto, DrainPointsToEntry
<1>6. UnmarksSharedEntry'
    BY DEF TypeOK, Goto, UnmarksSharedEntry
<1>7. LockOwner'
    BY DEF TypeOK, Goto, LockOwner
<1>8. GroupsBehindLeak'
    BY DEF TypeOK, Goto, GroupsBehindLeak
<1>9. Lifecycle'
    BY DEF TypeOK, Goto, Lifecycle
<1> QED
    BY <1>1, <1>2, <1>3, <1>4, <1>5, <1>6, <1>7, <1>8, <1>9

\* Inserting or extending a page entry preserves the invariant.
LEMMA AddPageEntryPreserves ==
    ASSUME IInv, AddPageEntry
    PROVE  IInv'
<1> USE DEF IInv
<1>a. /\ pc[Scanner] = "adding" /\ gDedupeMutex = Scanner
      /\ cand \in Keys /\ cand[2] \in Frames
    BY DEF AddPageEntry, ArgumentsSet, LockOwner, Keys
<1>b. \A e \in PageTable : e \in PageEntries /\ WellFormed(e) /\ Key(e) \in Keys
    BY KeyType DEF TypeOK, TableWellFormed
<1>c. /\ NewEntry(cand) \in PageEntries /\ WellFormed(NewEntry(cand))
      /\ Key(NewEntry(cand)) = cand
    BY <1>a, NewEntryFacts
<1>d. \A e \in PageTable : LET n == EntryWith(e, cand[2]) IN
         /\ n \in PageEntries /\ WellFormed(n) /\ Key(n) = Key(e)
         /\ e.Shared => n.Shared
    BY <1>a, <1>b, EntryWithFacts
<1>e. \/ PageTable' = PageTable
      \/ /\ raced \/ TableMayMiss(PageTable, cand)
         /\ PageTable' = PageTable \cup {NewEntry(cand)}
      \/ \E e \in PageTable : PageTable' = (PageTable \ {e}) \cup {EntryWith(e, cand[2])}
    BY DEF AddPageEntry, TableHits
<1>f. \/ pc' = [pc EXCEPT ![Scanner] = "mark"] /\ cand' \in Keys
      \/ pc' = [pc EXCEPT ![Scanner] = "pages"] /\ cand' = NoEntry
    BY <1>b DEF AddPageEntry, TableHits, Goto
<1>g. /\ gDedupeMutex' = NoThread
      /\ UNCHANGED <<ProcessTable, SharedGroupTable, CowProtectedTable, CowPrivateTable,
                     gShutdownEvent, client, todo, attached, pages, env, raced, bugcheck>>
    BY DEF AddPageEntry
<1>1. TypeOK'
  <2>1. PageTable' \subseteq PageEntries
    BY <1>b, <1>c, <1>d, <1>e
  <2>p. /\ pc' \in [Threads -> ScannerStates \cup ClientStates \cup SystemStates]
        /\ pc'[Scanner] \in ScannerStates /\ pc'[System] \in SystemStates
        /\ \A c \in Clients : pc'[c] \in ClientStates
    <3>1. /\ pc \in [Threads -> ScannerStates \cup ClientStates \cup SystemStates]
          /\ pc[Scanner] \in ScannerStates /\ pc[System] \in SystemStates
          /\ \A c \in Clients : pc[c] \in ClientStates
      BY DEF TypeOK
    <3>2. PICK l \in ScannerStates : pc' = [pc EXCEPT ![Scanner] = l]
      BY <1>f DEF ScannerStates, ScannerLockWaits
    <3>3. /\ Scanner \in Threads /\ System \in Threads /\ System # Scanner
          /\ \A c \in Clients : c \in Threads /\ c # Scanner
      BY ThreadsAssumption DEF Threads
    <3> QED
      BY ONLY <3>1, <3>2, <3>3
  <2>c. cand' \in Keys \cup {NoEntry} /\ gDedupeMutex' \in Threads \cup {NoThread}
    BY <1>f, <1>g
  <2> QED
    BY <2>1, <2>p, <2>c, <1>g DEF TypeOK, client, env
<1>2. ArgumentsSet'
    BY <1>f, <1>g DEF TypeOK, ArgumentsSet
<1>3. TableWellFormed'
    BY <1>c, <1>d, <1>e DEF TableWellFormed
<1>4. KeysUnique'
    BY <1>c, <1>d, <1>e, <1>g DEF KeysUnique, TableMayMiss
<1>5. DrainPointsToEntry'
  <2>0. \A c \in Clients : pc'[c] = pc[c]
    BY <1>f DEF TypeOK
  <2> SUFFICES ASSUME NEW c \in Clients, drain[c] # NoEntry
               PROVE  /\ pc[c] \in {"unmark", "unregcow", "delete"}
                      /\ \E e \in PageTable' : Key(e) = drain[c]
    BY <1>g, <2>0 DEF DrainPointsToEntry
  <2>1. pc[c] \in {"unmark", "unregcow", "delete"}
    BY DEF DrainPointsToEntry
  <2>2. PICK g \in PageTable : Key(g) = drain[c]
    BY DEF DrainPointsToEntry
  <2>3. \E e \in PageTable' : Key(e) = drain[c]
    BY <1>d, <1>e, <2>2
  <2> QED
    BY <2>1, <2>3
<1>6. UnmarksSharedEntry'
  <2> SUFFICES ASSUME NEW c \in Clients, pc'[c] = "unmark", ~raced
               PROVE  /\ \A e \in PageTable' : Key(e) = drain[c] => e.Shared
                      /\ gDedupeMutex' # c /\ drainIndex[c] = 1
    BY <1>g DEF UnmarksSharedEntry
  <2>1. pc[c] = "unmark" /\ gDedupeMutex # c /\ gDedupeMutex' # c
    BY <1>a, <1>f, <1>g DEF TypeOK
  <2>2. drainIndex[c] = 1 /\ \A e \in PageTable : Key(e) = drain[c] => e.Shared
    BY <2>1 DEF UnmarksSharedEntry
  <2>3. TableMayMiss(PageTable, cand) => drain[c] # cand
    BY <1>a, KeyIsEntry DEF DrainPointsToEntry, TableMayMiss
  <2>4. \A e \in PageTable' : Key(e) = drain[c] => e.Shared
    BY <2>2, <2>3, <1>c, <1>d, <1>e
  <2> QED
    BY <2>1, <2>2, <2>4
<1>7. LockOwner'
    BY <1>a, <1>f, <1>g DEF TypeOK, LockOwner
<1>8. GroupsBehindLeak'
    BY <1>a, <1>g DEF GroupsBehindLeak
<1>9. Lifecycle'
    BY <1>a, <1>f, <1>g DEF TypeOK, Lifecycle
<1> QED
    BY <1>1, <1>2, <1>3, <1>4, <1>5, <1>6, <1>7, <1>8, <1>9

\* Promoting an entry, with or without the lock leak, preserves the invariant.
LEMMA MarkPageSharedPreserves ==
    ASSUME IInv, MarkPageShared
    PROVE  IInv'
<1> USE DEF IInv
<1>a. /\ gDedupeMutex = NoThread /\ SharedGroupTable = {} /\ pc[Scanner] # "regcow"
    BY FreeMeansNoGroup DEF MarkPageShared
<1>b. /\ pc[Scanner] = "mark" /\ CowProtectedTable' = CowProtectedTable
      /\ \/ /\ pc' = [pc EXCEPT ![Scanner] = "pages"] /\ cand' = NoEntry
            /\ gDedupeMutex' = NoThread /\ SharedGroupTable' = {}
         \/ /\ pc' = [pc EXCEPT ![Scanner] = "regcow"] /\ cand' = cand
            /\ gDedupeMutex' = Scanner /\ SharedGroupTable' = {NewGroup(cand)}
    BY <1>a DEF MarkPageShared, PromoteSharedPageGroup, RegisterCowProtectedPage,
                TableHits, Goto
<1>c. UNCHANGED <<ProcessTable, PageTable, CowPrivateTable, gShutdownEvent, client,
                  todo, attached, pages, env, raced, bugcheck>>
    BY DEF MarkPageShared
<1>d. cand \in Keys /\ NewGroup(cand) \in SharedPageGroups
    BY <1>b, NewGroupType DEF ArgumentsSet
<1>1. TypeOK'
  <2>p. /\ pc' \in [Threads -> ScannerStates \cup ClientStates \cup SystemStates]
        /\ pc'[Scanner] \in ScannerStates /\ pc'[System] \in SystemStates
        /\ \A c \in Clients : pc'[c] \in ClientStates
    <3>1. /\ pc \in [Threads -> ScannerStates \cup ClientStates \cup SystemStates]
          /\ pc[Scanner] \in ScannerStates /\ pc[System] \in SystemStates
          /\ \A c \in Clients : pc[c] \in ClientStates
      BY DEF TypeOK
    <3>2. PICK l \in ScannerStates : pc' = [pc EXCEPT ![Scanner] = l]
      BY <1>b DEF ScannerStates, ScannerLockWaits
    <3>3. /\ Scanner \in Threads /\ System \in Threads /\ System # Scanner
          /\ \A c \in Clients : c \in Threads /\ c # Scanner
      BY ThreadsAssumption DEF Threads
    <3> QED
      BY ONLY <3>1, <3>2, <3>3
  <2>c. /\ cand' \in Keys \cup {NoEntry} /\ gDedupeMutex' \in Threads \cup {NoThread}
        /\ SharedGroupTable' \subseteq SharedPageGroups
        /\ CowProtectedTable' = CowProtectedTable
    BY <1>b, <1>d DEF Threads
  <2> QED
    BY <2>p, <2>c, <1>c DEF TypeOK, client, env
<1>2. ArgumentsSet'
    BY <1>b, <1>c, <1>d DEF TypeOK, ArgumentsSet
<1>3. TableWellFormed' /\ KeysUnique'
    BY <1>c DEF TableWellFormed, KeysUnique
<1>4. DrainPointsToEntry'
    BY <1>b, <1>c DEF TypeOK, DrainPointsToEntry
<1>5. UnmarksSharedEntry'
    BY <1>a, <1>b, <1>c DEF TypeOK, UnmarksSharedEntry
<1>6. LockOwner'
    BY <1>a, <1>b, <1>c DEF TypeOK, LockOwner
<1>7. GroupsBehindLeak'
    BY <1>b, <1>c DEF TypeOK, GroupsBehindLeak
<1>8. Lifecycle'
    BY <1>b, <1>c DEF TypeOK, Lifecycle
<1> QED
    BY <1>1, <1>2, <1>3, <1>4, <1>5, <1>6, <1>7, <1>8

\* Dispatching a request preserves the invariant.
LEMMA DriverDeviceControlPreserves ==
    ASSUME IInv, NEW c \in Clients, DriverDeviceControl(c)
    PROVE  IInv'
<1> USE DEF IInv, DriverDeviceControl
<1>1. TypeOK'
  <2>1. PICK l \in ClientStates, p \in Pids \cup {arg[c]} :
            Goto(c, l) /\ arg' = [arg EXCEPT ![c] = p]
    <3>1. CASE \E op \in {"list", "stats", "drain", "cow"} : Goto(c, op) /\ UNCHANGED arg
      <4>1. arg = [arg EXCEPT ![c] = arg[c]]
        BY DEF TypeOK
      <4> QED
        BY <3>1, <4>1
    <3>2. CASE \E p \in Pids : \E op \in {"register", "unregister"} :
                 arg' = [arg EXCEPT ![c] = p] /\ Goto(c, op)
        BY <3>2
    <3> QED
        BY <3>1, <3>2
  <2> QED
    BY <2>1 DEF TypeOK, Goto
<1>2. ArgumentsSet'
    BY DEF TypeOK, Goto, Return, ArgumentsSet
<1>3. TableWellFormed'
    BY DEF TypeOK, Goto, Return, TableWellFormed
<1>4. KeysUnique'
    BY DEF TypeOK, Goto, Return, KeysUnique
<1>5. DrainPointsToEntry'
    BY DEF TypeOK, Goto, Return, DrainPointsToEntry
<1>6. UnmarksSharedEntry'
    BY DEF TypeOK, Goto, Return, UnmarksSharedEntry
<1>7. LockOwner'
    BY DEF TypeOK, Goto, Return, LockOwner
<1>8. GroupsBehindLeak'
    BY DEF TypeOK, Goto, Return, GroupsBehindLeak
<1>9. Lifecycle'
    BY DEF TypeOK, Goto, Return, Lifecycle
<1> QED
    BY <1>1, <1>2, <1>3, <1>4, <1>5, <1>6, <1>7, <1>8, <1>9

\* Registering a process preserves the invariant.
LEMMA RegisterOptInProcessPreserves ==
    ASSUME IInv, NEW c \in Clients, RegisterOptInProcess(c)
    PROVE  IInv'
<1> USE DEF IInv, RegisterOptInProcess
<1>1. TypeOK'
  <2>1. arg[c] \in Pids
    BY DEF ArgumentsSet
  <2> QED
    BY <2>1 DEF TypeOK, Goto, Return
<1>2. ArgumentsSet'
    BY DEF TypeOK, Goto, Return, ArgumentsSet
<1>3. TableWellFormed'
    BY DEF TypeOK, Goto, Return, TableWellFormed
<1>4. KeysUnique'
    BY DEF TypeOK, Goto, Return, KeysUnique
<1>5. DrainPointsToEntry'
    BY DEF TypeOK, Goto, Return, DrainPointsToEntry
<1>6. UnmarksSharedEntry'
    BY DEF TypeOK, Goto, Return, UnmarksSharedEntry
<1>7. LockOwner'
    BY DEF TypeOK, Goto, Return, LockOwner
<1>8. GroupsBehindLeak'
    BY DEF TypeOK, Goto, Return, GroupsBehindLeak
<1>9. Lifecycle'
    BY DEF TypeOK, Goto, Return, Lifecycle
<1> QED
    BY <1>1, <1>2, <1>3, <1>4, <1>5, <1>6, <1>7, <1>8, <1>9

\* Unregistering a process preserves the invariant.
LEMMA UnregisterOptInProcessPreserves ==
    ASSUME IInv, NEW c \in Clients, UnregisterOptInProcess(c)
    PROVE  IInv'
<1> USE DEF IInv, UnregisterOptInProcess
<1>1. TypeOK'
    BY DEF TypeOK, Goto, Return
<1>2. ArgumentsSet'
    BY DEF TypeOK, Goto, Return, ArgumentsSet
<1>3. TableWellFormed'
    BY DEF TypeOK, Goto, Return, TableWellFormed
<1>4. KeysUnique'
    BY DEF TypeOK, Goto, Return, KeysUnique
<1>5. DrainPointsToEntry'
    BY DEF TypeOK, Goto, Return, DrainPointsToEntry
<1>6. UnmarksSharedEntry'
    BY DEF TypeOK, Goto, Return, UnmarksSharedEntry
<1>7. LockOwner'
    BY DEF TypeOK, Goto, Return, LockOwner
<1>8. GroupsBehindLeak'
    BY DEF TypeOK, Goto, Return, GroupsBehindLeak
<1>9. Lifecycle'
    BY DEF TypeOK, Goto, Return, Lifecycle
<1> QED
    BY <1>1, <1>2, <1>3, <1>4, <1>5, <1>6, <1>7, <1>8, <1>9

\* Listing processes preserves the invariant.
LEMMA ListOptedInProcessesPreserves ==
    ASSUME IInv, NEW c \in Clients, ListOptedInProcesses(c)
    PROVE  IInv'
<1> USE DEF IInv, ListOptedInProcesses
<1>1. TypeOK'
    BY DEF TypeOK, Goto, Return
<1>2. ArgumentsSet'
    BY DEF TypeOK, Goto, Return, ArgumentsSet
<1>3. TableWellFormed'
    BY DEF TypeOK, Goto, Return, TableWellFormed
<1>4. KeysUnique'
    BY DEF TypeOK, Goto, Return, KeysUnique
<1>5. DrainPointsToEntry'
    BY DEF TypeOK, Goto, Return, DrainPointsToEntry
<1>6. UnmarksSharedEntry'
    BY DEF TypeOK, Goto, Return, UnmarksSharedEntry
<1>7. LockOwner'
    BY DEF TypeOK, Goto, Return, LockOwner
<1>8. GroupsBehindLeak'
    BY DEF TypeOK, Goto, Return, GroupsBehindLeak
<1>9. Lifecycle'
    BY DEF TypeOK, Goto, Return, Lifecycle
<1> QED
    BY <1>1, <1>2, <1>3, <1>4, <1>5, <1>6, <1>7, <1>8, <1>9

\* Starting a statistics query preserves the invariant.
LEMMA QueryLocksPreserves ==
    ASSUME IInv, NEW c \in Clients, QueryLocks(c)
    PROVE  IInv'
<1> USE DEF IInv, QueryLocks
<1>1. TypeOK'
    BY DEF TypeOK, Goto, Return
<1>2. ArgumentsSet'
    BY DEF TypeOK, Goto, Return, ArgumentsSet
<1>3. TableWellFormed'
    BY DEF TypeOK, Goto, Return, TableWellFormed
<1>4. KeysUnique'
    BY DEF TypeOK, Goto, Return, KeysUnique
<1>5. DrainPointsToEntry'
    BY DEF TypeOK, Goto, Return, DrainPointsToEntry
<1>6. UnmarksSharedEntry'
    BY DEF TypeOK, Goto, Return, UnmarksSharedEntry
<1>7. LockOwner'
    BY DEF TypeOK, Goto, Return, LockOwner
<1>8. GroupsBehindLeak'
    BY DEF TypeOK, Goto, Return, GroupsBehindLeak
<1>9. Lifecycle'
    BY DEF TypeOK, Goto, Return, Lifecycle
<1> QED
    BY <1>1, <1>2, <1>3, <1>4, <1>5, <1>6, <1>7, <1>8, <1>9

\* Ending a statistics query preserves the invariant.
LEMMA QueryReturnsPreserves ==
    ASSUME IInv, NEW c \in Clients, QueryReturns(c)
    PROVE  IInv'
<1> USE DEF IInv, QueryReturns
<1>1. TypeOK'
    BY DEF TypeOK, Goto, Return
<1>2. ArgumentsSet'
    BY DEF TypeOK, Goto, Return, ArgumentsSet
<1>3. TableWellFormed'
    BY DEF TypeOK, Goto, Return, TableWellFormed
<1>4. KeysUnique'
    BY DEF TypeOK, Goto, Return, KeysUnique
<1>5. DrainPointsToEntry'
    BY DEF TypeOK, Goto, Return, DrainPointsToEntry
<1>6. UnmarksSharedEntry'
    BY DEF TypeOK, Goto, Return, UnmarksSharedEntry, LockOwner
<1>7. LockOwner'
    BY DEF TypeOK, Goto, Return, LockOwner
<1>8. GroupsBehindLeak'
    BY DEF TypeOK, Goto, Return, GroupsBehindLeak
<1>9. Lifecycle'
    BY DEF TypeOK, Goto, Return, Lifecycle
<1> QED
    BY <1>1, <1>2, <1>3, <1>4, <1>5, <1>6, <1>7, <1>8, <1>9

\* The loop head of a drain preserves the invariant.
LEMMA DrainDedupeStatePreserves ==
    ASSUME IInv, NEW c \in Clients, DrainDedupeState(c)
    PROVE  IInv'
<1> USE DEF IInv, DrainDedupeState
<1>a. \A e \in PageTable : Key(e) \in Keys /\ Key(e) # NoEntry
    BY KeyType, KeyIsEntry DEF TypeOK, TableWellFormed
<1>b. \/ Return(c) /\ UNCHANGED <<drain, drainIndex>>
      \/ \E e \in PageTable : /\ drain' = [drain EXCEPT ![c] = Key(e)]
                             /\ drainIndex' = [drainIndex EXCEPT ![c] = 1]
                             /\ arg' = arg
                             /\ \/ e.Shared /\ Goto(c, "unmark")
                                \/ Goto(c, "delete")
    OBVIOUS
<1>1. TypeOK'
  <2>1. CASE Return(c) /\ UNCHANGED <<drain, drainIndex>>
    BY <2>1 DEF TypeOK, Goto, Return
  <2>2. CASE \E e \in PageTable : /\ drain' = [drain EXCEPT ![c] = Key(e)]
                                /\ drainIndex' = [drainIndex EXCEPT ![c] = 1]
                                /\ arg' = arg
                                /\ \E l \in {"unmark", "delete"} : Goto(c, l)
    BY <2>2, <1>a DEF TypeOK, Goto
  <2> QED
    BY <1>b, <2>1, <2>2
<1>2. ArgumentsSet'
    BY DEF TypeOK, Goto, Return, ArgumentsSet
<1>3. TableWellFormed'
    BY DEF TypeOK, Goto, Return, TableWellFormed
<1>4. KeysUnique'
    BY DEF TypeOK, Goto, Return, KeysUnique
<1>5. DrainPointsToEntry'
  <2>1. CASE Return(c) /\ UNCHANGED <<drain, drainIndex>>
    BY <2>1 DEF TypeOK, Goto, Return, DrainPointsToEntry
  <2>2. CASE \E e \in PageTable : /\ drain' = [drain EXCEPT ![c] = Key(e)]
                                /\ \E l \in {"unmark", "delete"} : Goto(c, l)
    <3>1. PICK e \in PageTable, l \in {"unmark", "delete"} :
              drain' = [drain EXCEPT ![c] = Key(e)] /\ Goto(c, l)
        BY <2>2
    <3>2. /\ drain'[c] = Key(e) /\ pc'[c] = l /\ PageTable' = PageTable /\ raced' = raced
          /\ \A d \in Clients : d # c => drain'[d] = drain[d] /\ pc'[d] = pc[d]
        BY <3>1 DEF TypeOK, Goto
    <3> QED
        BY <1>a, <3>2 DEF DrainPointsToEntry
  <2> QED
    BY <1>b, <2>1, <2>2
<1>6. UnmarksSharedEntry'
    BY <1>b DEF TypeOK, Goto, Return, UnmarksSharedEntry, KeysUnique, LockOwner
<1>7. LockOwner'
    BY DEF TypeOK, Goto, Return, LockOwner
<1>8. GroupsBehindLeak'
    BY DEF TypeOK, Goto, Return, GroupsBehindLeak
<1>9. Lifecycle'
    BY DEF TypeOK, Goto, Return, Lifecycle
<1> QED
    BY <1>1, <1>2, <1>3, <1>4, <1>5, <1>6, <1>7, <1>8, <1>9

\* Unmarking a frame, which leaks the lock, preserves the invariant.
LEMMA UnmarkPageSharedPreserves ==
    ASSUME IInv, NEW c \in Clients, UnmarkPageShared(c)
    PROVE  IInv'
<1> USE DEF IInv
<1>a. gDedupeMutex = NoThread /\ SharedGroupTable = {} /\ pc[c] = "unmark"
    BY FreeMeansNoGroup DEF UnmarkPageShared, LockOwner
<1>b. /\ gDedupeMutex' = c
      /\ drainIndex' = [drainIndex EXCEPT ![c] = drainIndex[c] + 1]
      /\ UNCHANGED <<SharedGroupTable, pc, CowProtectedTable>>
    BY <1>a DEF UnmarkPageShared, DemoteSharedPageGroup, TableHits
<1>c. UNCHANGED <<ProcessTable, PageTable, CowPrivateTable, gShutdownEvent, arg, drain,
                  scan, env, raced, bugcheck>>
    BY DEF UnmarkPageShared
<1>1. TypeOK'
    BY <1>b, <1>c DEF TypeOK
<1>2. ArgumentsSet' /\ TableWellFormed' /\ KeysUnique' /\ DrainPointsToEntry'
    BY <1>b, <1>c DEF ArgumentsSet, TableWellFormed, KeysUnique, DrainPointsToEntry
<1>3. UnmarksSharedEntry'
  <2>1. ~raced => drainIndex[c] = 1 /\ drainIndex'[c] = 2
    BY <1>a, <1>b DEF TypeOK, UnmarksSharedEntry
  <2>2. \A d \in Clients : d # c => drainIndex'[d] = drainIndex[d]
    BY <1>b DEF TypeOK
  <2> QED
    BY <2>1, <2>2, <1>a, <1>b, <1>c DEF UnmarksSharedEntry
<1>4. LockOwner'
    BY <1>a, <1>b, <1>c DEF LockOwner
<1>5. GroupsBehindLeak' /\ Lifecycle'
    BY <1>b, <1>c DEF GroupsBehindLeak, Lifecycle
<1> QED
    BY <1>1, <1>2, <1>3, <1>4, <1>5

\* Unless a drain has raced, no drain gets to the end of its loop over the frames: a shared
\* entry has at least two, and the second one waits for the mutex the first one leaked.
LEMMA LoopEndsRaced ==
    ASSUME IInv, NEW c \in Clients, UnmarkLoopEnds(c)
    PROVE  raced
<1> SUFFICES ASSUME ~raced PROVE FALSE
    OBVIOUS
<1>1. pc[c] = "unmark" /\ drain[c] # NoEntry
    BY DEF IInv, UnmarkLoopEnds, DrainPointsToEntry
<1>2. PICK e \in PageTable : Key(e) = drain[c] /\ drainIndex[c] > Len(e.PageFrameNumbers)
    BY <1>1 DEF UnmarkLoopEnds, DrainedEntries
<1>3. e.Shared /\ drainIndex[c] \in {1, 2}
    BY <1>1, <1>2 DEF IInv, UnmarksSharedEntry
<1>4. e \in PageEntries /\ WellFormed(e)
    BY DEF IInv, TypeOK, TableWellFormed
<1>5. Len(e.PageFrameNumbers) >= 2 /\ Len(e.PageFrameNumbers) \in Nat
    BY <1>3, <1>4, SharedHasTwo DEF PageEntries
<1> QED
    BY <1>2, <1>3, <1>5

\* Leaving the loop over the frames, after a race, preserves the invariant.
LEMMA UnmarkLoopEndsPreserves ==
    ASSUME IInv, NEW c \in Clients, UnmarkLoopEnds(c)
    PROVE  IInv'
<1> USE DEF IInv, UnmarkLoopEnds
<1>a. raced /\ raced'
    BY LoopEndsRaced
<1>1. TypeOK'
    BY DEF TypeOK, Goto
<1>2. ArgumentsSet'
    BY DEF TypeOK, Goto, ArgumentsSet
<1>3. TableWellFormed' /\ KeysUnique' /\ UnmarksSharedEntry'
    BY <1>a DEF TableWellFormed, KeysUnique, UnmarksSharedEntry
<1>4. DrainPointsToEntry'
    BY <1>a DEF TypeOK, Goto, DrainPointsToEntry
<1>5. LockOwner'
    BY <1>a DEF TypeOK, Goto, LockOwner
<1>6. GroupsBehindLeak'
    BY DEF TypeOK, Goto, GroupsBehindLeak
<1>7. Lifecycle'
    BY DEF TypeOK, Goto, Lifecycle
<1> QED
    BY <1>1, <1>2, <1>3, <1>4, <1>5, <1>6, <1>7

\* Deleting an entry without the lock preserves the invariant.
LEMMA DrainDeletesPreserves ==
    ASSUME IInv, NEW c \in Clients, DrainDeletes(c)
    PROVE  IInv'
<1> USE DEF IInv
<1>a. \A e \in PageTable : e \in PageEntries /\ WellFormed(e) /\ Key(e) # NoEntry
    BY KeyType, KeyIsEntry DEF TypeOK, TableWellFormed
<1>b. PICK e \in PageTable :
          /\ PageTable' = PageTable \ {e}
          /\ drain' = [d \in Clients |-> IF d = c \/ drain[d] = Key(e)
                                         THEN NoEntry ELSE drain[d]]
          /\ raced' = (raced \/ \E d \in Clients \ {c} : drain[d] = Key(e))
    BY DEF DrainDeletes, TableHits
<1>c. /\ pc[c] = "delete" /\ Goto(c, "drain")
      /\ drainIndex' = [drainIndex EXCEPT ![c] = 1]
      /\ UNCHANGED <<gDedupeMutex, ProcessTable, SharedGroupTable, CowProtectedTable,
                     CowPrivateTable, gShutdownEvent, arg, scan, env, bugcheck>>
    BY DEF DrainDeletes
<1>d. pc'[c] = "drain" /\ \A u \in Threads : u # c => pc'[u] = pc[u]
    BY <1>c, GotoMoves
<1>e. \A d \in Clients : d \in Threads /\ d # Scanner /\ d # System
    OBVIOUS
<1>1. TypeOK'
    BY <1>b, <1>c DEF TypeOK, Goto
<1>2. ArgumentsSet'
    BY <1>c, <1>d, <1>e DEF ArgumentsSet
<1>3. TableWellFormed'
    BY <1>b DEF TableWellFormed
<1>4. KeysUnique'
    BY <1>b DEF KeysUnique
<1>5. DrainPointsToEntry'
  <2> SUFFICES ASSUME NEW d \in Clients
               PROVE  /\ drain'[d] # NoEntry =>
                            /\ pc'[d] \in {"unmark", "unregcow", "delete"}
                            /\ \E x \in PageTable' : Key(x) = drain'[d]
                      /\ pc'[d] \in {"unmark", "unregcow", "delete"} =>
                            drain'[d] # NoEntry \/ raced'
    BY DEF DrainPointsToEntry
  <2>1. CASE d = c
    BY <1>b, <1>d, <2>1
  <2>2. CASE d # c
    <3>1. pc'[d] = pc[d] /\ drain'[d] = IF drain[d] = Key(e) THEN NoEntry ELSE drain[d]
        BY <1>b, <1>d, <1>e, <2>2
    <3>2. drain'[d] # NoEntry => \E x \in PageTable' : Key(x) = drain'[d]
        BY <1>b, <3>1 DEF DrainPointsToEntry
    <3>3. drain[d] = Key(e) => raced'
        BY <1>b, <2>2
    <3>4. raced => raced'
        BY <1>b
    <3> QED
        BY <3>1, <3>2, <3>3, <3>4 DEF DrainPointsToEntry
  <2> QED
    BY <2>1, <2>2
<1>6. UnmarksSharedEntry'
  <2>1. \A d \in Clients : pc'[d] = "unmark" =>
            d # c /\ pc[d] = "unmark" /\ drainIndex'[d] = drainIndex[d]
    BY <1>c, <1>d, <1>e DEF TypeOK
  <2>2. \A d \in Clients : drain'[d] \in {NoEntry, drain[d]}
    BY <1>b
  <2>3. ~raced' => ~raced
    BY <1>b
  <2> QED
    BY <2>1, <2>2, <2>3, <1>a, <1>b, <1>c DEF UnmarksSharedEntry
<1>7. LockOwner'
  <2>1. raced => raced'
    BY <1>b
  <2>2. gDedupeMutex = c => raced
    BY <1>c DEF LockOwner
  <2> QED
    BY <2>1, <2>2, <1>c, <1>d, <1>e DEF LockOwner
<1>8. GroupsBehindLeak'
    BY <1>c, <1>d, <1>e DEF GroupsBehindLeak
<1>9. Lifecycle'
    BY <1>b, <1>c, <1>d, <1>e DEF Lifecycle
<1> QED
    BY <1>1, <1>2, <1>3, <1>4, <1>5, <1>6, <1>7, <1>8, <1>9

\* A walk through a tree in flux preserves the invariant.
LEMMA DrainWalksRacePreserves ==
    ASSUME IInv, NEW c \in Clients, DrainWalksRace(c)
    PROVE  IInv'
<1> USE DEF IInv
<1>a. /\ pc[c] = "drain" /\ raced'
      /\ UNCHANGED <<gDedupeMutex, tables, gShutdownEvent, drain, scan, env, bugcheck>>
    BY DEF DrainWalksRace
<1>b. PICK l \in {"ready", "unmark", "delete"} : Goto(c, l)
    BY DEF DrainWalksRace, Return
<1>c. pc'[c] = l /\ \A u \in Threads : u # c => pc'[u] = pc[u]
    BY <1>b, GotoMoves
<1>d. \A d \in Clients : d \in Threads /\ d # Scanner /\ d # System
    OBVIOUS
<1>e. /\ arg' = arg \/ arg' = [arg EXCEPT ![c] = NoPid]
      /\ drainIndex' = drainIndex \/ drainIndex' = [drainIndex EXCEPT ![c] = 1]
    BY DEF DrainWalksRace, Return
<1>1. TypeOK'
    BY <1>a, <1>b, <1>e DEF TypeOK, Goto
<1>2. ArgumentsSet'
    BY <1>a, <1>c, <1>d, <1>e DEF TypeOK, ArgumentsSet
<1>3. TableWellFormed' /\ KeysUnique' /\ UnmarksSharedEntry'
    BY <1>a DEF TableWellFormed, KeysUnique, UnmarksSharedEntry
<1>4. DrainPointsToEntry'
    BY <1>a, <1>c, <1>d DEF DrainPointsToEntry
<1>5. LockOwner' /\ GroupsBehindLeak' /\ Lifecycle'
    BY <1>a, <1>c, <1>d DEF LockOwner, GroupsBehindLeak, Lifecycle
<1> QED
    BY <1>1, <1>2, <1>3, <1>4, <1>5

\* A deletion in a tree in flux preserves the invariant.
LEMMA DrainDeletesRacePreserves ==
    ASSUME IInv, NEW c \in Clients, DrainDeletesRace(c)
    PROVE  IInv'
<1> USE DEF IInv
<1>a. /\ pc[c] = "delete" /\ raced' /\ PageTable' \subseteq PageTable
      /\ drain' = [d \in Clients |->
                     IF d = c \/ drain[d] \notin {Key(e) : e \in PageTable'}
                     THEN NoEntry ELSE drain[d]]
      /\ drainIndex' = [drainIndex EXCEPT ![c] = 1]
      /\ Goto(c, "drain")
      /\ UNCHANGED <<gDedupeMutex, ProcessTable, SharedGroupTable, CowProtectedTable,
                     CowPrivateTable, gShutdownEvent, arg, scan, env, bugcheck>>
    BY DEF DrainDeletesRace
<1>c. pc'[c] = "drain" /\ \A u \in Threads : u # c => pc'[u] = pc[u]
    BY <1>a, GotoMoves
<1>d. \A d \in Clients : d \in Threads /\ d # Scanner /\ d # System
    OBVIOUS
<1>1. TypeOK'
    BY <1>a DEF TypeOK, Goto
<1>2. ArgumentsSet'
    BY <1>a, <1>c, <1>d DEF ArgumentsSet
<1>3. TableWellFormed' /\ KeysUnique' /\ UnmarksSharedEntry'
    BY <1>a DEF TableWellFormed, KeysUnique, UnmarksSharedEntry
<1>4. DrainPointsToEntry'
  <2> SUFFICES ASSUME NEW d \in Clients, drain'[d] # NoEntry
               PROVE  /\ pc'[d] \in {"unmark", "unregcow", "delete"}
                      /\ \E x \in PageTable' : Key(x) = drain'[d]
    BY <1>a DEF DrainPointsToEntry
  <2>1. d # c /\ drain'[d] = drain[d] /\ drain[d] \in {Key(e) : e \in PageTable'}
    BY <1>a
  <2> QED
    BY <2>1, <1>c, <1>d DEF DrainPointsToEntry
<1>5. LockOwner' /\ GroupsBehindLeak'
    BY <1>a, <1>c, <1>d DEF LockOwner, GroupsBehindLeak
<1>6. Lifecycle'
    BY <1>a, <1>c, <1>d DEF Lifecycle
<1> QED
    BY <1>1, <1>2, <1>3, <1>4, <1>5, <1>6

\* A race that stops the machine preserves the invariant.
LEMMA RaceStopsPreserves ==
    ASSUME IInv, RaceStops
    PROVE  IInv'
BY BugcheckPreserves DEF RaceStops

\* Loading the driver, or failing to, preserves the invariant.
LEMMA DriverEntryPreserves ==
    ASSUME IInv, DriverEntry
    PROVE  IInv'
<1> USE DEF IInv
<1>1. CASE Bugcheck("orphan")
    BY <1>1, BugcheckPreserves
<1>2. CASE /\ pc[System] = "entry"
           /\ \/ pc' = [pc EXCEPT ![System] = "loaded", ![Scanner] = "top"]
              \/ pc' = [pc EXCEPT ![System] = "unloaded"]
           /\ UNCHANGED <<gDedupeMutex, tables, gShutdownEvent, client, scan, env, raced, bugcheck>>
  <2>1. /\ pc[Scanner] \in {"none", "exited"} /\ PageTable = {} /\ SharedGroupTable = {}
        /\ \A c \in Clients : pc[c] = "ready" /\ pc'[c] = "ready"
        /\ pc'[Scanner] \in {"top", pc[Scanner]}
        /\ pc'[System] = "unloaded" => pc'[Scanner] = pc[Scanner]
    BY <1>2 DEF TypeOK, Lifecycle
  <2>2. TypeOK'
    <3>1. /\ pc' \in [Threads -> ScannerStates \cup ClientStates \cup SystemStates]
          /\ pc'[System] \in SystemStates
        BY <1>2 DEF TypeOK
    <3> QED
        BY <1>2, <2>1, <3>1 DEF TypeOK
  <2>3. (ArgumentsSet /\ TableWellFormed /\ KeysUnique)'
    BY <1>2, <2>1 DEF ArgumentsSet, TableWellFormed, KeysUnique
  <2>4. (DrainPointsToEntry /\ UnmarksSharedEntry)'
    BY <1>2, <2>1 DEF DrainPointsToEntry, UnmarksSharedEntry
  <2>5. LockOwner' /\ GroupsBehindLeak'
    BY <1>2, <2>1 DEF LockOwner, GroupsBehindLeak
  <2>6. Lifecycle'
    BY <1>2, <2>1 DEF TypeOK, Lifecycle
  <2> QED
    BY <2>2, <2>3, <2>4, <2>5, <2>6
<1> QED
    BY <1>1, <1>2 DEF DriverEntry, Goto

\* Answering a copy-on-write fault preserves the invariant.
LEMMA CowFaultCallbackPreserves ==
    ASSUME IInv, NEW c \in Clients, CowFaultCallback(c)
    PROVE  IInv'
<1> USE DEF IInv, CowFaultCallback
<1>a. /\ Return(c)
      /\ UNCHANGED <<gDedupeMutex, tables, gShutdownEvent, drain, drainIndex, scan, env, raced, bugcheck>>
    BY FreeMeansNoGroup DEF LockOwner
<1>1. TypeOK'
    BY <1>a DEF TypeOK, Goto, Return
<1>2. ArgumentsSet'
    BY DEF TypeOK, Goto, Return, ArgumentsSet
<1>3. TableWellFormed'
    BY DEF TypeOK, Goto, Return, TableWellFormed
<1>4. KeysUnique'
    BY DEF TypeOK, Goto, Return, KeysUnique
<1>5. DrainPointsToEntry'
    BY DEF TypeOK, Goto, Return, DrainPointsToEntry
<1>6. UnmarksSharedEntry'
    BY DEF TypeOK, Goto, Return, UnmarksSharedEntry
<1>7. LockOwner'
    BY <1>a DEF TypeOK, Goto, Return, LockOwner
<1>8. GroupsBehindLeak'
    BY DEF TypeOK, Goto, Return, GroupsBehindLeak
<1>9. Lifecycle'
    BY DEF TypeOK, Goto, Return, Lifecycle
<1> QED
    BY <1>1, <1>2, <1>3, <1>4, <1>5, <1>6, <1>7, <1>8, <1>9

\* A write to a page preserves the invariant.
LEMMA WritePagePreserves ==
    ASSUME IInv, WritePage
    PROVE  IInv'
<1> USE DEF IInv, WritePage, EnvStep
<1>1. TypeOK'
    BY DEF TypeOK, Goto
<1>2. ArgumentsSet'
    BY DEF TypeOK, Goto, ArgumentsSet
<1>3. TableWellFormed'
    BY DEF TypeOK, Goto, TableWellFormed
<1>4. KeysUnique'
    BY DEF TypeOK, Goto, KeysUnique
<1>5. DrainPointsToEntry'
    BY DEF TypeOK, Goto, DrainPointsToEntry
<1>6. UnmarksSharedEntry'
    BY DEF TypeOK, Goto, UnmarksSharedEntry
<1>7. LockOwner'
    BY DEF TypeOK, Goto, LockOwner
<1>8. GroupsBehindLeak'
    BY DEF TypeOK, Goto, GroupsBehindLeak
<1>9. Lifecycle'
    BY DEF TypeOK, Goto, Lifecycle
<1> QED
    BY <1>1, <1>2, <1>3, <1>4, <1>5, <1>6, <1>7, <1>8, <1>9

\* The end of a process preserves the invariant.
LEMMA ExitProcessPreserves ==
    ASSUME IInv, ExitProcess
    PROVE  IInv'
<1> USE DEF IInv, ExitProcess, EnvStep
<1>1. TypeOK'
  <2>1. proc' \in [Pids -> {"none", "user", "system"}]
    BY DEF TypeOK
  <2>2. \/ attached' = NoPid /\ pages' = <<>>
        \/ attached' = attached /\ pages' = pages
    OBVIOUS
  <2>4. <<>> \in Seq(Frames)
    OBVIOUS
  <2>3. attached' \in Pids \cup {NoPid} /\ pages' \in Seq(Frames)
    BY <2>2, <2>4 DEF TypeOK
  <2> QED
    BY <2>1, <2>3 DEF TypeOK
<1>2. ArgumentsSet'
    BY DEF TypeOK, Goto, ArgumentsSet
<1>3. TableWellFormed'
    BY DEF TypeOK, Goto, TableWellFormed
<1>4. KeysUnique'
    BY DEF TypeOK, Goto, KeysUnique
<1>5. DrainPointsToEntry'
    BY DEF TypeOK, Goto, DrainPointsToEntry
<1>6. UnmarksSharedEntry'
    BY DEF TypeOK, Goto, UnmarksSharedEntry
<1>7. LockOwner'
    BY DEF TypeOK, Goto, LockOwner
<1>8. GroupsBehindLeak'
    BY DEF TypeOK, Goto, GroupsBehindLeak
<1>9. Lifecycle'
    BY DEF TypeOK, Goto, Lifecycle
<1> QED
    BY <1>1, <1>2, <1>3, <1>4, <1>5, <1>6, <1>7, <1>8, <1>9

\* The start of a process preserves the invariant.
LEMMA StartProcessPreserves ==
    ASSUME IInv, StartProcess
    PROVE  IInv'
<1> USE DEF IInv, StartProcess, EnvStep
<1>1. TypeOK'
    BY DEF TypeOK, Goto
<1>2. ArgumentsSet'
    BY DEF TypeOK, Goto, ArgumentsSet
<1>3. TableWellFormed'
    BY DEF TypeOK, Goto, TableWellFormed
<1>4. KeysUnique'
    BY DEF TypeOK, Goto, KeysUnique
<1>5. DrainPointsToEntry'
    BY DEF TypeOK, Goto, DrainPointsToEntry
<1>6. UnmarksSharedEntry'
    BY DEF TypeOK, Goto, UnmarksSharedEntry
<1>7. LockOwner'
    BY DEF TypeOK, Goto, LockOwner
<1>8. GroupsBehindLeak'
    BY DEF TypeOK, Goto, GroupsBehindLeak
<1>9. Lifecycle'
    BY DEF TypeOK, Goto, Lifecycle
<1> QED
    BY <1>1, <1>2, <1>3, <1>4, <1>5, <1>6, <1>7, <1>8, <1>9

-----------------------------------------------------------------------------
(***************************************************************************)
(* The theorems.                                                           *)
(***************************************************************************)

\* Every step preserves the invariant.
LEMMA NextPreserves == IInv /\ [Next]_vars => IInv'
<1> SUFFICES ASSUME IInv, [Next]_vars PROVE IInv'
    OBVIOUS
<1>1. CASE ScannerNext
    BY <1>1, PageScanThreadPreserves, ScanOptedInProcessesPreserves,
       ScanProcessPagesPreserves, ScanRoundEndsPreserves, ScanPagePreserves,
       ScanProcessEndsPreserves, AddPageEntryLocksPreserves, AddPageEntryPreserves,
       MarkPageSharedPreserves DEF ScannerNext
<1>2. CASE \E c \in Clients : DriverDeviceControl(c) \/ HandlerNext(c) \/ DrainRaces(c)
    BY <1>2, DriverDeviceControlPreserves, RegisterOptInProcessPreserves,
       UnregisterOptInProcessPreserves, ListOptedInProcessesPreserves,
       QueryLocksPreserves, QueryReturnsPreserves, DrainDedupeStatePreserves,
       UnmarkPageSharedPreserves, UnmarkLoopEndsPreserves, DrainDeletesPreserves,
       CowFaultCallbackPreserves, DrainWalksRacePreserves, DrainDeletesRacePreserves
       DEF HandlerNext, DrainRaces
<1>3. CASE DriverEntry \/ DriverUnload \/ ShutdownDedupeDriver
    BY <1>3, DriverEntryPreserves, DriverUnloadPreserves, ShutdownDedupeDriverPreserves
<1>4. CASE WritePage \/ ExitProcess \/ StartProcess
    BY <1>4, WritePagePreserves, ExitProcessPreserves, StartProcessPreserves
<1>6. CASE RaceStops
    BY <1>6, RaceStopsPreserves
<1>5. CASE UNCHANGED vars
    BY <1>5 DEF vars, IInv, TypeOK, ArgumentsSet, TableWellFormed, KeysUnique,
       DrainPointsToEntry, UnmarksSharedEntry, LockOwner, GroupsBehindLeak,
       Lifecycle
<1> QED
    BY <1>1, <1>2, <1>3, <1>4, <1>5, <1>6 DEF Next

\* The inductive invariant holds in every reachable state.
THEOREM Invariance == Spec => []IInv
BY InitIInv, NextPreserves, PTL DEF Spec

\* Every variable of the driver keeps its type.
THEOREM TypeCorrect == Spec => []TypeOK
<1>1. IInv => TypeOK
    BY DEF IInv
<1> QED
    BY <1>1, Invariance, PTL

\* AddPageEntry keeps every page entry's frames, count and Shared flag consistent,
\* whatever the scanner, the clients and the memory do, until a drain races.
THEOREM EntriesCorrect == Spec => []PageEntriesWellFormed
<1>1. IInv => PageEntriesWellFormed
    BY DEF IInv, TableWellFormed, PageEntriesWellFormed
<1> QED
    BY <1>1, Invariance, PTL

\* A step of the scanner only gains a frame that holds what the entry's first frame holds.
LEMMA AddedFrameAgrees ==
    ASSUME IInv, FramesAgree, AddPageEntry, events = 0, ~raced
    PROVE  FramesAgree'
<1>0. TypeOK /\ cand \in Keys /\ \A e \in PageTable : e \in PageEntries /\ WellFormed(e)
    BY DEF IInv, TypeOK, ArgumentsSet, TableWellFormed, AddPageEntry
<1>1. UNCHANGED mem
    BY DEF AddPageEntry, env
<1> SUFFICES ASSUME NEW e \in PageTable', NEW i \in DOMAIN e.PageFrameNumbers
             PROVE  mem[e.PageFrameNumbers[i]] = mem[e.PageFrameNumbers[1]]
    BY <1>1 DEF FramesAgree
<1>2. CASE e \in PageTable
    BY <1>2 DEF FramesAgree
<1>3. CASE e = NewEntry(cand)
    BY <1>3 DEF NewEntry
<1>4. ASSUME NEW g \in TableHits(PageTable, cand), e = EntryWith(g, cand[2])
      PROVE  mem[e.PageFrameNumbers[i]] = mem[e.PageFrameNumbers[1]]
  <2> DEFINE s == g.PageFrameNumbers
  <2>1. /\ g \in PageTable /\ s \in Seq(Frames) /\ Len(s) >= 1
        /\ mem[cand[2]] = mem[s[1]] /\ cand[2] \in Frames
    BY <1>0 DEF TableHits, ArePhysicalPagesIdentical, PageEntries, WellFormed, Keys
  <2>2. \A j \in DOMAIN s : mem[s[j]] = mem[s[1]]
    BY <2>1 DEF FramesAgree
  <2>3. e.PageFrameNumbers = s \/ e.PageFrameNumbers = Append(s, cand[2])
    BY <1>4 DEF EntryWith, FramesWith
  <2>4. CASE e.PageFrameNumbers = s
    BY <2>2, <2>4
  <2>5. CASE e.PageFrameNumbers = Append(s, cand[2])
    <3>1. /\ i \in 1 .. Len(s) + 1 /\ e.PageFrameNumbers[1] = s[1]
          /\ i \in DOMAIN s => e.PageFrameNumbers[i] = s[i]
          /\ i \notin DOMAIN s => e.PageFrameNumbers[i] = cand[2]
      BY <2>1, <2>5
    <3> QED
      BY <2>1, <2>2, <3>1
  <2> QED
    BY <2>3, <2>4, <2>5
<1> QED
    BY <1>2, <1>3, <1>4 DEF AddPageEntry

\* Every other step leaves the memory alone or counts as an event, adds no entry and does
\* not take a race back.
LEMMA OthersKeepFrames ==
    ASSUME TypeOK, [Next]_vars, ~AddPageEntry
    PROVE  /\ PageTable' \subseteq PageTable /\ (raced => raced')
           /\ UNCHANGED <<mem, events>> \/ events' = events + 1
<1>1. CASE ScannerNext
  <2>1. CASE PageScanThread \/ ScanOptedInProcesses \/ ScanProcessPages
    BY <2>1 DEF PageScanThread, ScanOptedInProcesses, ScanProcessPages, tables, env
  <2>2. CASE ScanRoundEnds \/ ScanPage \/ ScanProcessEnds
    BY <2>2 DEF ScanRoundEnds, ScanPage, ScanProcessEnds, tables, env
  <2>3. CASE AddPageEntryLocks \/ MarkPageShared
    BY <2>3 DEF AddPageEntryLocks, MarkPageShared, tables, env
  <2> QED
    BY <1>1, <2>1, <2>2, <2>3 DEF ScannerNext
<1>2. ASSUME NEW c \in Clients, DriverDeviceControl(c) \/ HandlerNext(c) \/ DrainRaces(c)
      PROVE  PageTable' \subseteq PageTable /\ (raced => raced') /\ UNCHANGED <<mem, events>>
  <2>1. CASE DriverDeviceControl(c)
    BY <2>1 DEF DriverDeviceControl, tables, env
  <2>2. CASE HandlerNext(c)
    <3>1. CASE RegisterOptInProcess(c) \/ UnregisterOptInProcess(c) \/ ListOptedInProcesses(c)
      BY <3>1 DEF RegisterOptInProcess, UnregisterOptInProcess, ListOptedInProcesses, tables, env
    <3>2. CASE QueryLocks(c) \/ QueryReturns(c) \/ CowFaultCallback(c)
      BY <3>2 DEF QueryLocks, QueryReturns, CowFaultCallback, tables, env
    <3>3. CASE DrainDedupeState(c) \/ UnmarkPageShared(c) \/ UnmarkLoopEnds(c)
      BY <3>3 DEF DrainDedupeState, UnmarkPageShared, UnmarkLoopEnds, tables, env
    <3>4. CASE DrainDeletes(c)
      <4>1. \E e \in PageTable : PageTable' = PageTable \ {e}
        BY <3>4 DEF DrainDeletes, TableHits
      <4>2. UNCHANGED <<mem, events>> /\ (raced => raced')
        BY <3>4 DEF DrainDeletes, env
      <4> QED
        BY <4>1, <4>2
    <3> QED
      BY <2>2, <3>1, <3>2, <3>3, <3>4 DEF HandlerNext
  <2>3. CASE DrainRaces(c)
    BY <2>3 DEF DrainRaces, DrainWalksRace, DrainDeletesRace, tables, env
  <2> QED
    BY <1>2, <2>1, <2>2, <2>3
<1>3. CASE DriverEntry \/ DriverUnload \/ ShutdownDedupeDriver \/ RaceStops
    BY <1>3 DEF DriverEntry, DriverUnload, ShutdownDedupeDriver, RaceStops, Bugcheck,
       tables, env
<1>4. CASE WritePage \/ ExitProcess \/ StartProcess
    BY <1>4 DEF WritePage, ExitProcess, StartProcess, EnvStep, tables
<1>5. CASE UNCHANGED vars
    BY <1>5 DEF vars, tables, env
<1> QED
    BY <1>1, <1>2, <1>3, <1>4, <1>5 DEF Next

\* AddPageEntry never lets pages with different bytes meet in an entry, whatever their
\* signatures; only later writes can make them differ.
THEOREM EntriesAgree == Spec => []FramesAgree
<1>1. Init => FramesAgree
    BY DEF Init, FramesAgree
<1>2. IInv /\ FramesAgree /\ [Next]_vars => FramesAgree'
  <2> SUFFICES ASSUME IInv, FramesAgree, [Next]_vars, events' = 0, ~raced' PROVE FramesAgree'
    BY DEF FramesAgree
  <2>0. TypeOK /\ events \in Nat
    BY DEF IInv, TypeOK
  <2>1. CASE AddPageEntry
    <3>1. events = 0 /\ ~raced
      BY <2>1 DEF AddPageEntry, env
    <3> QED
      BY <2>1, <3>1, AddedFrameAgrees
  <2>2. CASE ~AddPageEntry
    <3>1. PageTable' \subseteq PageTable /\ UNCHANGED <<mem, events>> /\ ~raced
      BY <2>0, <2>2, OthersKeepFrames
    <3> QED
      BY <3>1 DEF FramesAgree
  <2> QED
    BY <2>1, <2>2
<1> QED
    BY <1>1, <1>2, Invariance, PTL DEF Spec

\* No IOCTL returns and no thread ends with gDedupeMutex held: a thread that leaks
\* the lock stays in front of the next ExAcquireFastMutex.  Only a drain that raced can.
THEOREM LockNotCarriedOut == Spec => []NoLockCarriedOut
<1>1. IInv => NoLockCarriedOut
    BY DEF IInv, LockOwner, NoLockCarriedOut, SelfBlocked, LockWaits
<1> QED
    BY <1>1, Invariance, PTL

\* A driver that is gone left nothing behind, but the mutex where a drain raced.
THEOREM CleanUnload == Spec => []UnloadedIsClean
<1>1. IInv => UnloadedIsClean
    BY DEF IInv, TypeOK, LockOwner, GroupsBehindLeak, Lifecycle, UnloadedIsClean
<1> QED
    BY <1>1, Invariance, PTL

\* A thread that waits for its own mutex: the scanner after a promotion, a drain
\* after its first unmarking, or, after a race, a client that a drain left with it.
LEMMA WhoIsSelfBlocked ==
    ASSUME IInv, NEW t \in Threads, SelfBlocked(t)
    PROVE  /\ gDedupeMutex = t /\ gDedupeMutex # NoThread
           /\ \/ t = Scanner /\ pc[t] = "regcow"
              \/ t \in Clients /\ pc[t] \in ClientLockWaits /\ pc[Scanner] # "adding"
           /\ \A c \in Clients : pc[c] # "counting"
BY DEF IInv, TypeOK, LockOwner, SelfBlocked, LockWaits

\* A step of any thread leaves a self-blocked thread, and all who wait, where they are.
LEMMA BlockedStep ==
    ASSUME IInv, [Next]_vars, NEW t \in Threads, SelfBlocked(t)
    PROVE  pc'[t] = "halted" \/ StaysBlocked(t) \/ (raced /\ pc[t] = "unmark")
<1>1. /\ gDedupeMutex = t /\ gDedupeMutex # NoThread
      /\ \/ t = Scanner /\ pc[t] = "regcow"
         \/ t \in Clients /\ pc[t] \in ClientLockWaits /\ pc[Scanner] # "adding"
      /\ \A c \in Clients : pc[c] # "counting"
    BY WhoIsSelfBlocked
<1>2. TypeOK
    BY DEF IInv
<1>3. \A why : Bugcheck(why) => pc'[t] = "halted"
    BY DEF Bugcheck
<1>4. CASE ScannerNext
  <2>1. \/ PageScanThread \/ ScanProcessPages \/ ScanRoundEnds \/ ScanPage \/ ScanProcessEnds
    BY <1>4, <1>1 DEF ScannerNext, ScanOptedInProcesses, AddPageEntryLocks, AddPageEntry,
                      MarkPageShared
  <2>2. /\ gDedupeMutex' = gDedupeMutex /\ pc[Scanner] \in {"top", "next", "pages"}
        /\ pc' = pc \/ \E l : Goto(Scanner, l)
    BY <2>1 DEF PageScanThread, ScanProcessPages, ScanRoundEnds, ScanPage, ScanProcessEnds
  <2>3. \A u \in Threads : u # Scanner => pc'[u] = pc[u]
    BY <2>2, <1>2, GotoMoves
  <2> QED
    BY <1>1, <2>2, <2>3 DEF StaysBlocked, LockWaits
<1>5. CASE \E c \in Clients : DriverDeviceControl(c) \/ HandlerNext(c)
  <2>1. PICK c \in Clients : DriverDeviceControl(c) \/ HandlerNext(c)
    BY <1>5
  <2>2. \/ DriverDeviceControl(c) \/ DrainDedupeState(c) \/ UnmarkLoopEnds(c)
        \/ DrainDeletes(c)
    BY <2>1, <1>1 DEF HandlerNext, RegisterOptInProcess, UnregisterOptInProcess,
         ListOptedInProcesses, QueryLocks, QueryReturns, UnmarkPageShared, CowFaultCallback
  <2>3. /\ gDedupeMutex' = gDedupeMutex /\ pc[c] \in {"ready", "drain", "unmark", "delete"}
        /\ \E l : Goto(c, l)
    BY <2>2 DEF DriverDeviceControl, DrainDedupeState, UnmarkLoopEnds, DrainDeletes, Return
  <2>4. \A u \in Threads : u # c => pc'[u] = pc[u]
    BY <2>3, <1>2, GotoMoves
  <2>5. c # t \/ (raced /\ pc[t] = "unmark")
    BY <2>2, <1>1, LoopEndsRaced
       DEF DriverDeviceControl, DrainDedupeState, UnmarkLoopEnds, DrainDeletes
  <2> QED
    BY <1>1, <2>3, <2>4, <2>5 DEF StaysBlocked, LockWaits
<1>6. CASE \E c \in Clients : DrainRaces(c)
  <2>1. PICK c \in Clients : DrainRaces(c)
    BY <1>6
  <2>2. /\ gDedupeMutex' = gDedupeMutex /\ pc[c] \in {"drain", "delete"}
        /\ \E l : Goto(c, l)
    BY <2>1 DEF DrainRaces, DrainWalksRace, DrainDeletesRace, Return
  <2>3. \A u \in Threads : u # c => pc'[u] = pc[u]
    BY <2>2, <1>2, GotoMoves
  <2> QED
    BY <1>1, <2>2, <2>3 DEF StaysBlocked, LockWaits
<1>9. CASE RaceStops
    BY <1>9, <1>3 DEF RaceStops
<1>7. CASE DriverEntry \/ DriverUnload \/ ShutdownDedupeDriver
  <2>1. CASE Bugcheck("orphan")
    BY <2>1, <1>3
  <2>2. CASE pc' = [pc EXCEPT ![System] = "loaded", ![Scanner] = "top"] /\ DriverEntry
    BY <2>2, <1>1 DEF DriverEntry, IInv, Lifecycle
  <2>3. CASE /\ \E l : Goto(System, l)
             /\ pc[System] \in SystemStates /\ gDedupeMutex' = gDedupeMutex
    <3>1. \A u \in Threads : u # System => pc'[u] = pc[u]
        BY <2>3, <1>2, GotoMoves
    <3> QED
        BY <1>1, <2>3, <3>1 DEF StaysBlocked, LockWaits
  <2> QED
    BY <1>7, <1>2, <2>1, <2>2, <2>3
       DEF DriverEntry, DriverUnload, ShutdownDedupeDriver, TypeOK
<1>8. CASE WritePage \/ ExitProcess \/ StartProcess \/ UNCHANGED vars
    BY <1>8, <1>1 DEF WritePage, ExitProcess, StartProcess, EnvStep, vars, StaysBlocked
<1> QED
    BY <1>4, <1>5, <1>6, <1>7, <1>8, <1>9 DEF Next

\* The lock leaked by PromoteSharedPageGroup or DemoteSharedPageGroup is never
\* released again: whoever waits for it waits until the machine stops, or, in a drain that
\* raced, finds that it has nothing left to wait for.
THEOREM LeakNeverHeals == Spec => LeakIsPermanent
<1>1. IInv /\ [Next]_vars =>
        [\A t \in Threads : SelfBlocked(t) =>
            pc'[t] = "halted" \/ StaysBlocked(t) \/ (raced /\ pc[t] = "unmark")]_vars
    BY BlockedStep
<1> QED
    BY <1>1, Invariance, PTL DEF Spec, LeakIsPermanent

-----------------------------------------------------------------------------
(***************************************************************************)
(* When the documents are right.                                           *)
(***************************************************************************)

\* A step of the scanner leaves the clients where they are.
LEMMA ScannerMovesNoClient ==
    ASSUME TypeOK, ScannerNext
    PROVE  \A c \in Clients : pc'[c] = pc[c]
<1>1. \A c \in Clients : c # Scanner /\ c \in Threads
    OBVIOUS
<1>2. pc' = pc \/ \E l : Goto(Scanner, l)
    BY DEF ScannerNext, PageScanThread, ScanOptedInProcesses, ScanProcessPages, ScanRoundEnds,
           ScanPage, ScanProcessEnds, AddPageEntryLocks, AddPageEntry, MarkPageShared,
           PromoteSharedPageGroup, RegisterCowProtectedPage
<1> QED
    BY <1>1, <1>2, GotoMoves

\* A drain that unmarks a frame leaks the lock and stays where it is.
LEMMA UnmarkStays ==
    ASSUME IInv, NEW c \in Clients, UnmarkPageShared(c)
    PROVE  pc' = pc /\ pc[c] = "unmark"
<1>1. gDedupeMutex = NoThread /\ LockOwner
    BY DEF UnmarkPageShared, IInv
<1>2. SharedGroupTable = {} /\ pc[c] = "unmark"
    BY <1>1, FreeMeansNoGroup DEF UnmarkPageShared, LockOwner
<1>3. pc' = pc
    BY <1>2 DEF UnmarkPageShared, DemoteSharedPageGroup, TableHits
<1> QED
    BY <1>2, <1>3

\* A step that screens nobody new keeps everybody screened.
LEMMA ScreenedKept ==
    ASSUME Screened, proc' = proc, attached' \in {attached, NoPid},
           ProcessTable' \cup todo' \subseteq ProcessTable \cup todo,
           \A c \in Clients : pc'[c] = "register" => pc[c] = "register" /\ arg'[c] = arg[c]
    PROVE  Screened'
BY DEF Screened

\* The scanner attaches only to processes of its snapshot.
LEMMA ScannerScreened ==
    ASSUME TypeOK, Screened, ScannerNext
    PROVE  Screened'
<1>1. /\ \A c \in Clients : pc'[c] = pc[c]
      /\ UNCHANGED <<proc, arg, ProcessTable>>
    BY ScannerMovesNoClient
       DEF ScannerNext, PageScanThread, ScanOptedInProcesses, ScanProcessPages, ScanRoundEnds,
           ScanPage, ScanProcessEnds, AddPageEntryLocks, AddPageEntry, MarkPageShared
<1>2. CASE ScanProcessPages
  <2>1. PICK p \in todo :
            /\ todo' = todo \ {p}
            /\ (proc[p] # "none" /\ attached' = p) \/ attached' = attached
    BY <1>2 DEF ScanProcessPages
  <2>2. p \in Pids /\ proc[p] # "system"
    BY <2>1 DEF TypeOK, Screened
  <2> QED
    BY <1>1, <2>1, <2>2 DEF Screened
<1>3. CASE ~ScanProcessPages
  <2>1. attached' \in {attached, NoPid} /\ todo' \subseteq ProcessTable \cup todo
    BY <1>3 DEF ScannerNext, PageScanThread, ScanOptedInProcesses, ScanRoundEnds, ScanPage,
           ScanProcessEnds, AddPageEntryLocks, AddPageEntry, MarkPageShared
  <2> QED
    BY <1>1, <2>1, ScreenedKept
<1> QED
    BY <1>2, <1>3

\* Registration applies the policy before it asks for the mutex.
LEMMA ClientScreened ==
    ASSUME IInv, Screened, NEW c \in Clients,
           DriverDeviceControl(c) \/ HandlerNext(c) \/ DrainRaces(c)
    PROVE  Screened'
<1>0. TypeOK /\ c \in Threads /\ \A d \in Clients : d \in Threads
    BY DEF IInv
<1>1. UNCHANGED <<proc, attached, todo>>
    BY DEF DriverDeviceControl, HandlerNext, RegisterOptInProcess, UnregisterOptInProcess,
           ListOptedInProcesses, QueryLocks, QueryReturns, DrainDedupeState, UnmarkPageShared,
           UnmarkLoopEnds, DrainDeletes, CowFaultCallback, DrainRaces, DrainWalksRace,
           DrainDeletesRace
<1>2. CASE DriverDeviceControl(c)
  <2>1. PICK op : Goto(c, op) /\ (op # "register" \/ \E p \in Pids :
                                    proc[p] = "user" /\ arg' = [arg EXCEPT ![c] = p])
    BY <1>2 DEF DriverDeviceControl, IsProcessPolicyAllowed
  <2>2. \A d \in Clients \ {c} : pc'[d] = pc[d] /\ arg'[d] = arg[d]
    BY <1>0, <1>2, <2>1, GotoMoves DEF DriverDeviceControl, TypeOK
  <2>3. pc'[c] = "register" => proc[arg'[c]] = "user"
    BY <1>0, <2>1, GotoMoves DEF TypeOK
  <2>4. ProcessTable' = ProcessTable
    BY <1>2 DEF DriverDeviceControl
  <2>5. \A d \in Clients :
           pc'[d] = "register" => \/ proc[arg'[d]] = "user"
                                  \/ pc[d] = "register" /\ arg'[d] = arg[d]
    BY <2>2, <2>3
  <2>6. ASSUME NEW p \in Pids, proc'[p] = "system"
        PROVE  /\ p \notin ProcessTable' \cup todo' \cup {attached'}
               /\ \A d \in Clients : pc'[d] = "register" => arg'[d] # p
    BY <1>1, <2>4, <2>5, <2>6 DEF Screened
  <2> QED
    BY <1>1, <2>6 DEF Screened
<1>3. CASE HandlerNext(c) \/ DrainRaces(c)
  <2>1. /\ \A d \in Clients \ {c} : pc'[d] = pc[d] /\ arg'[d] = arg[d]
        /\ pc'[c] # "register"
    <3>1. (pc' = pc /\ pc[c] # "register") \/ \E l : Goto(c, l) /\ l # "register"
      <4>1. CASE UnmarkPageShared(c)
        BY <4>1, UnmarkStays
      <4>2. CASE \/ RegisterOptInProcess(c) \/ UnregisterOptInProcess(c)
                 \/ ListOptedInProcesses(c) \/ QueryReturns(c) \/ CowFaultCallback(c)
        BY <4>2 DEF RegisterOptInProcess, UnregisterOptInProcess, ListOptedInProcesses,
           QueryReturns, CowFaultCallback, Return
      <4>3. CASE QueryLocks(c) \/ UnmarkLoopEnds(c) \/ DrainDeletes(c)
        BY <4>3 DEF QueryLocks, UnmarkLoopEnds, DrainDeletes
      <4>4. CASE DrainDedupeState(c)
        BY <4>4 DEF DrainDedupeState, Return
      <4>5. CASE DrainRaces(c)
        BY <4>5 DEF DrainRaces, DrainWalksRace, DrainDeletesRace, Return
      <4> QED
        BY <1>3, <4>1, <4>2, <4>3, <4>4, <4>5 DEF HandlerNext
    <3>2. \A d \in Clients \ {c} : arg'[d] = arg[d]
      <4>1. arg' = arg \/ \E x : arg' = [arg EXCEPT ![c] = x]
        BY <1>3 DEF HandlerNext, RegisterOptInProcess, UnregisterOptInProcess,
           ListOptedInProcesses, QueryLocks, QueryReturns, DrainDedupeState, UnmarkPageShared,
           UnmarkLoopEnds, DrainDeletes, CowFaultCallback, DrainRaces, DrainWalksRace,
           DrainDeletesRace, Return
      <4> QED
        BY <1>0, <4>1 DEF TypeOK
    <3>3. CASE pc' = pc /\ pc[c] # "register"
      BY <3>2, <3>3
    <3>4. CASE \E l : Goto(c, l) /\ l # "register"
      <4>1. PICK l : Goto(c, l) /\ l # "register"
        BY <3>4
      <4>2. pc'[c] = l /\ \A d \in Threads : d # c => pc'[d] = pc[d]
        BY <1>0, <4>1, GotoMoves
      <4> QED
        BY <1>0, <3>2, <4>1, <4>2
    <3> QED
      BY <3>1, <3>3, <3>4
  <2>2. CASE pc[c] = "register"
    <3>1. ProcessTable' \subseteq ProcessTable \cup {arg[c]}
      BY <1>3, <2>2 DEF HandlerNext, RegisterOptInProcess, UnregisterOptInProcess,
           ListOptedInProcesses, QueryLocks, QueryReturns, DrainDedupeState, UnmarkPageShared,
           UnmarkLoopEnds, DrainDeletes, CowFaultCallback, DrainRaces, DrainWalksRace,
           DrainDeletesRace
    <3> QED
      BY <1>1, <2>1, <2>2, <3>1 DEF Screened
  <2>3. CASE pc[c] # "register"
    <3>1. ProcessTable' \subseteq ProcessTable
      BY <1>3, <2>3 DEF HandlerNext, RegisterOptInProcess, UnregisterOptInProcess,
           ListOptedInProcesses, QueryLocks, QueryReturns, DrainDedupeState, UnmarkPageShared,
           UnmarkLoopEnds, DrainDeletes, CowFaultCallback, DrainRaces, DrainWalksRace,
           DrainDeletesRace
    <3> QED
      BY <1>1, <2>1, <3>1, ScreenedKept
  <2> QED
    BY <2>2, <2>3
<1> QED
    BY <1>2, <1>3

\* Processes come and go; only a reuse of a watched identifier could break the screen.
LEMMA EnvScreened ==
    ASSUME TypeOK, Screened, NoReuse, WritePage \/ ExitProcess \/ StartProcess
    PROVE  Screened'
<1>1. UNCHANGED <<pc, arg, ProcessTable, todo>>
    BY DEF WritePage, ExitProcess, StartProcess, EnvStep
<1>2. CASE WritePage
    BY <1>1, <1>2, ScreenedKept DEF WritePage
<1>3. CASE ExitProcess
  <2>1. PICK p \in Pids :
            /\ proc' = [proc EXCEPT ![p] = "none"]
            /\ IF attached = p THEN attached' = NoPid ELSE attached' = attached
    BY <1>3 DEF ExitProcess
  <2>2. attached' # NoPid => attached' = attached /\ attached # p /\ attached \in Pids
    BY <2>1 DEF TypeOK
  <2>3. \A q \in Pids : proc'[q] = (IF q = p THEN "none" ELSE proc[q])
    BY <2>1 DEF TypeOK
  <2>4. attached' \in {attached, NoPid}
    BY <2>1
  <2> QED
    BY <1>1, <2>2, <2>3, <2>4 DEF Screened
<1>4. CASE StartProcess
  <2>1. PICK p \in Pids, kind \in {"user", "system"} :
            proc[p] = "none" /\ proc' = [proc EXCEPT ![p] = kind] /\ attached' = attached
    BY <1>4 DEF StartProcess
  <2>2. \A q \in Pids : proc'[q] = (IF q = p THEN kind ELSE proc[q])
    BY <2>1 DEF TypeOK
  <2>3. attached # p
    BY <2>1 DEF Screened
  <2>4. attached # NoPid => proc'[attached] # "none"
    BY <2>1, <2>2 DEF Screened, TypeOK
  <2>5. ASSUME NEW q \in Pids, proc'[q] = "system"
        PROVE  /\ q \notin ProcessTable' \cup todo' \cup {attached'}
               /\ \A c \in Clients : pc'[c] = "register" => arg'[c] # q
    <3>1. CASE q = p
      BY <1>1, <2>1, <2>3, <2>5, <3>1 DEF NoReuse
    <3>2. CASE q # p
      BY <1>1, <2>1, <2>2, <2>5, <3>2 DEF Screened
    <3> QED
      BY <3>1, <3>2
  <2> QED
    BY <2>1, <2>4, <2>5 DEF Screened
<1> QED
    BY <1>2, <1>3, <1>4

\* System and protected processes are never scanned, whatever opts in, races or fails, as
\* long as no identifier the driver watches is taken over by one: the check at registration
\* suffices, and the reuse of identifiers is the only way round it.
THEOREM PolicyUnlessReused == Spec /\ [][NoReuse]_vars => []SystemNotScanned
<1>1. Init => Screened
  <2>1. NoPid \notin Pids
    OBVIOUS
  <2> QED
    BY <2>1 DEF Init, Screened
<1>2. ASSUME IInv, Screened, [Next]_vars, [NoReuse]_vars
      PROVE  Screened'
  <2>1. TypeOK
    BY <1>2 DEF IInv
  <2>2. CASE ScannerNext
    BY <1>2, <2>1, <2>2, ScannerScreened
  <2>3. CASE \E c \in Clients : DriverDeviceControl(c) \/ HandlerNext(c) \/ DrainRaces(c)
    BY <1>2, <2>3, ClientScreened
  <2>4. CASE \E why : Bugcheck(why)
    BY <1>2, <2>4, ScreenedKept DEF Bugcheck
  <2>5. CASE UNCHANGED vars
    BY <1>2, <2>5, ScreenedKept DEF vars
  <2>6. CASE DriverEntry \/ DriverUnload \/ ShutdownDedupeDriver
    <3>1. CASE ~ \E why : Bugcheck(why)
      <4>1. /\ UNCHANGED <<proc, attached, todo, arg>> /\ ProcessTable' \subseteq ProcessTable
            /\ \/ pc' = [pc EXCEPT ![System] = "loaded", ![Scanner] = "top"]
               \/ \E l : Goto(System, l)
        BY <2>6, <3>1 DEF DriverEntry, DriverUnload, ShutdownDedupeDriver
      <4>2. \A c \in Clients : pc'[c] = pc[c]
        BY <2>1, <4>1 DEF TypeOK, Goto
      <4> QED
        BY <1>2, <4>1, <4>2, ScreenedKept
    <3> QED
      BY <2>4, <3>1
  <2>7. CASE WritePage \/ ExitProcess \/ StartProcess
    <3>1. CASE NoReuse
      BY <1>2, <2>1, <2>7, <3>1, EnvScreened
    <3> QED
      BY <1>2, <2>5, <3>1
  <2> QED
    BY <1>2, <2>2, <2>3, <2>4, <2>5, <2>6, <2>7 DEF Next, RaceStops
<1>3. IInv /\ Screened => SystemNotScanned
    BY DEF IInv, TypeOK, Screened, SystemNotScanned
<1> QED
    BY <1>1, <1>2, <1>3, Invariance, PTL DEF Spec

\* What the scanner takes, it takes from the registry.
LEMMA ScannerOptedIn ==
    ASSUME TypeOK, SnapshotOptedIn, ScannerNext
    PROVE  SnapshotOptedIn'
<1>1. ProcessTable' = ProcessTable
    BY DEF ScannerNext, PageScanThread, ScanOptedInProcesses, ScanProcessPages, ScanRoundEnds,
           ScanPage, ScanProcessEnds, AddPageEntryLocks, AddPageEntry, MarkPageShared
<1>2. CASE PageScanThread \/ ScanRoundEnds
  <2>1. /\ UNCHANGED <<todo, attached, pages>> /\ todo = {} /\ attached = NoPid
        /\ \/ Goto(Scanner, "exited") \/ Goto(Scanner, "snapshot") \/ Goto(Scanner, "top")
    BY <1>2 DEF PageScanThread, ScanRoundEnds, SnapshotOptedIn, scan
  <2> QED
    BY <1>1, <2>1, GotoMoves DEF SnapshotOptedIn
<1>2a. CASE ScanOptedInProcesses
  <2>1. /\ UNCHANGED <<attached, pages>> /\ todo' \subseteq ProcessTable /\ attached = NoPid
        /\ Goto(Scanner, "next")
    BY <1>2a DEF ScanOptedInProcesses, SnapshotOptedIn
  <2> QED
    BY <1>1, <2>1, GotoMoves DEF SnapshotOptedIn
<1>3. CASE ScanProcessPages
  <2>1. PICK p \in todo :
            /\ todo' = todo \ {p}
            /\ \/ attached' = p /\ Goto(Scanner, "pages")
               \/ UNCHANGED <<attached, pages, pc>>
    BY <1>3 DEF ScanProcessPages
  <2>2. p \in ProcessTable /\ p # NoPid
    BY <2>1 DEF SnapshotOptedIn, TypeOK
  <2>3. pc[Scanner] = "next"
    BY <1>3 DEF ScanProcessPages
  <2> QED
    BY <1>1, <2>1, <2>2, <2>3, GotoMoves DEF SnapshotOptedIn
<1>4. CASE ScanPage
  <2>1. attached # NoPid /\ UNCHANGED <<todo, attached>> /\ pc[Scanner] = "pages"
        /\ (Goto(Scanner, "add") \/ pc' = pc)
    BY <1>4 DEF ScanPage, SnapshotOptedIn
  <2> QED
    BY <1>1, <2>1, GotoMoves DEF SnapshotOptedIn
<1>5. CASE ScanProcessEnds
    BY <1>1, <1>5, GotoMoves DEF ScanProcessEnds, SnapshotOptedIn
<1>6. CASE AddPageEntryLocks \/ AddPageEntry \/ MarkPageShared
  <2>1. /\ UNCHANGED <<todo, attached, pages>>
        /\ \/ Goto(Scanner, "adding") \/ Goto(Scanner, "pages") \/ Goto(Scanner, "mark")
           \/ Goto(Scanner, "regcow")
    BY <1>6 DEF AddPageEntryLocks, AddPageEntry, MarkPageShared, PromoteSharedPageGroup,
                RegisterCowProtectedPage
  <2> QED
    BY <1>1, <2>1, GotoMoves DEF SnapshotOptedIn
<1> QED
    BY <1>2, <1>2a, <1>3, <1>4, <1>5, <1>6 DEF ScannerNext

\* A request takes nobody from the registry whom the scanner is about to read.
LEMMA ClientOptedIn ==
    ASSUME IInv, SnapshotOptedIn, OptOutsSpareScan,
           NEW c \in Clients, DriverDeviceControl(c) \/ HandlerNext(c) \/ DrainRaces(c)
    PROVE  SnapshotOptedIn'
<1>1. UNCHANGED <<todo, attached, pages>>
    BY DEF DriverDeviceControl, HandlerNext, RegisterOptInProcess, UnregisterOptInProcess,
           ListOptedInProcesses, QueryLocks, QueryReturns, DrainDedupeState, UnmarkPageShared,
           UnmarkLoopEnds, DrainDeletes, CowFaultCallback, DrainRaces, DrainWalksRace,
           DrainDeletesRace
<1>2. todo \subseteq ProcessTable' /\ (attached # NoPid => attached \in ProcessTable')
  <2>1. CASE UnregisterOptInProcess(c)
    BY <2>1 DEF UnregisterOptInProcess, OptOutsSpareScan, SnapshotOptedIn
  <2>2. CASE ~UnregisterOptInProcess(c)
    <3>1. ProcessTable \subseteq ProcessTable'
      BY <2>2 DEF DriverDeviceControl, HandlerNext, RegisterOptInProcess,
           ListOptedInProcesses, QueryLocks, QueryReturns, DrainDedupeState, UnmarkPageShared,
           UnmarkLoopEnds, DrainDeletes, CowFaultCallback, DrainRaces, DrainWalksRace,
           DrainDeletesRace
    <3> QED
      BY <3>1 DEF SnapshotOptedIn
  <2> QED
    BY <2>1, <2>2
<1>3. pc'[Scanner] = pc[Scanner]
  <2>1. pc' = pc \/ \E l : Goto(c, l)
    <3>1. CASE UnmarkPageShared(c)
      BY <3>1, UnmarkStays
    <3>2. CASE ~UnmarkPageShared(c)
      BY <3>2 DEF DriverDeviceControl, HandlerNext, RegisterOptInProcess,
           UnregisterOptInProcess, ListOptedInProcesses, QueryLocks, QueryReturns,
           DrainDedupeState, UnmarkLoopEnds, DrainDeletes, CowFaultCallback, DrainRaces,
           DrainWalksRace, DrainDeletesRace, Return
    <3> QED
      BY <3>1, <3>2
  <2>2. TypeOK /\ c # Scanner /\ c \in Threads /\ Scanner \in Threads
    BY DEF IInv
  <2> QED
    BY <2>1, <2>2, GotoMoves
<1> QED
    BY <1>1, <1>2, <1>3 DEF SnapshotOptedIn

\* A page is read only while its process is opted in, as long as nobody opts out whom the
\* scanner has in its snapshot: the snapshot is the only thing that outlives an opt-out.
THEOREM ConsentUnlessOptOut == Spec /\ [][OptOutsSpareScan]_vars => OnlyOptedInScanned
<1>1. Init => SnapshotOptedIn
    BY DEF Init, SnapshotOptedIn
<1>2. ASSUME IInv, SnapshotOptedIn, [Next]_vars, [OptOutsSpareScan]_vars
      PROVE  SnapshotOptedIn'
  <2>1. TypeOK
    BY <1>2 DEF IInv
  <2>2. CASE ScannerNext
    BY <1>2, <2>1, <2>2, ScannerOptedIn
  <2>3. CASE UNCHANGED vars
    BY <1>2, <2>3 DEF vars, SnapshotOptedIn
  <2>4. CASE \E c \in Clients : DriverDeviceControl(c) \/ HandlerNext(c) \/ DrainRaces(c)
    <3>1. CASE OptOutsSpareScan
      BY <1>2, <2>4, <3>1, ClientOptedIn
    <3> QED
      BY <1>2, <2>3, <3>1
  <2>5. CASE \E why : Bugcheck(why)
    BY <1>2, <2>5 DEF Bugcheck, SnapshotOptedIn
  <2>6. CASE DriverEntry \/ DriverUnload \/ ShutdownDedupeDriver
    <3>1. CASE ~ \E why : Bugcheck(why)
      <4>1. UNCHANGED <<attached, todo, pages>>
        BY <2>6, <3>1 DEF DriverEntry, DriverUnload, ShutdownDedupeDriver
      <4>2. CASE DriverEntry
        BY <1>2, <2>1, <3>1, <4>1, <4>2
           DEF DriverEntry, SnapshotOptedIn, TypeOK, Goto, IInv, Lifecycle
      <4>3. CASE DriverUnload
        BY <1>2, <2>1, <4>1, <4>3, GotoMoves DEF DriverUnload, SnapshotOptedIn
      <4>4. CASE ShutdownDedupeDriver
        BY <1>2, <2>1, <4>1, <4>4, GotoMoves DEF ShutdownDedupeDriver, SnapshotOptedIn
      <4> QED
        BY <2>6, <4>2, <4>3, <4>4
    <3> QED
      BY <2>5, <3>1
  <2>7. CASE WritePage \/ ExitProcess \/ StartProcess
    <3>1. /\ UNCHANGED <<pc, ProcessTable, todo>>
          /\ \/ UNCHANGED <<attached, pages>>
             \/ attached' = NoPid /\ pages' = <<>>
      BY <2>7 DEF WritePage, ExitProcess, StartProcess, EnvStep
    <3> QED
      BY <1>2, <3>1 DEF SnapshotOptedIn
  <2> QED
    BY <1>2, <2>2, <2>3, <2>4, <2>5, <2>6, <2>7 DEF Next, RaceStops
<1>3. ASSUME IInv, SnapshotOptedIn, [Next]_vars, cand # cand', pc'[Scanner] = "add"
      PROVE  attached \in ProcessTable
  <2>1. ~ \E why : Bugcheck(why)
    BY <1>3 DEF Bugcheck
  <2>2. TypeOK
    BY <1>3 DEF IInv
  <2>3. CASE ScannerNext
    <3>1. AddPageEntry \/ MarkPageShared \/ ScanPage
      BY <1>3, <2>3 DEF ScannerNext, PageScanThread, ScanOptedInProcesses, ScanProcessPages,
           ScanRoundEnds, ScanProcessEnds, AddPageEntryLocks
    <3>2. CASE ScanPage
      BY <1>3, <3>2 DEF ScanPage, SnapshotOptedIn
    <3>3. CASE AddPageEntry \/ MarkPageShared
      <4>1. Goto(Scanner, "pages") \/ Goto(Scanner, "mark") \/ Goto(Scanner, "regcow")
        BY <3>3 DEF AddPageEntry, MarkPageShared, PromoteSharedPageGroup,
                    RegisterCowProtectedPage
      <4> QED
        BY <1>3, <2>2, <4>1, GotoMoves
    <3> QED
      BY <3>1, <3>2, <3>3
  <2>4. CASE ~ScannerNext
    BY <1>3, <2>1, <2>4 DEF Next, vars, DriverEntry, DriverUnload, ShutdownDedupeDriver,
       DriverDeviceControl, HandlerNext, RegisterOptInProcess, UnregisterOptInProcess,
       ListOptedInProcesses, QueryLocks, QueryReturns, DrainDedupeState, UnmarkPageShared,
       UnmarkLoopEnds, DrainDeletes, CowFaultCallback, DrainRaces, DrainWalksRace,
       DrainDeletesRace, RaceStops, WritePage, ExitProcess, StartProcess, EnvStep
  <2> QED
    BY <2>3, <2>4
<1>4. IInv /\ SnapshotOptedIn /\ [Next]_vars
        => [cand # cand' /\ pc'[Scanner] = "add" => attached \in ProcessTable]_vars
    BY <1>3
<1> QED
    BY <1>1, <1>2, <1>4, Invariance, PTL DEF Spec, OnlyOptedInScanned
=============================================================================
