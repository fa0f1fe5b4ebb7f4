-------------------------- MODULE RamDedupeDriver --------------------------
(***************************************************************************)
(* The kernel driver of driver/deduper.cpp: five generic tables guarded by *)
(* one FAST_MUTEX (not recursive), a scan thread that enters the pages of  *)
(* the opted-in processes into PageTable and promotes duplicates, the      *)
(* IOCTL handlers that run in the callers' threads, and the loading and    *)
(* unloading of the driver.                                                *)
(*                                                                         *)
(* Grain: a critical section is one step where only other lock holders     *)
(* touch the same table.  DrainDedupeState works on PageTable without the  *)
(* lock, so it takes a step per table access, and the two sections that    *)
(* use PageTable under the lock (AddPageEntry, the statistics queries)     *)
(* keep the lock over two steps: a drain can fall between them.  What such *)
(* a race does is undefined: the machine may stop, or go on with a damaged *)
(* tree and pointers to freed entries, and then raced is TRUE.             *)
(***************************************************************************)
EXTENDS Naturals, Sequences, FiniteSets

CONSTANTS
    Clients,     \* threads that send IOCTLs
    Scanner,     \* the thread of PageScanThread
    System,      \* the thread that runs DriverEntry and DriverUnload
    NoThread,    \* owner of a free mutex
    Pids,        \* process identifiers
    NoPid,       \* "attached to no process"
    Frames,      \* page frame numbers
    Maps,        \* frames of a process's committed pages, by ascending address
    Contents,    \* contents of a page
    SigOf,       \* the 96-bit signature of a content; need not be injective
    InitMem,     \* memory contents the driver may find when it is loaded
    InitProc,    \* what may run under the process identifiers at that time
    MaxFrames,   \* capacity of PageFrameNumbers[] (64)
    MaxScan,     \* capacity of the scanner's processIds[] (256)
    FreedContents, \* what a page entry may read as after it was freed
    MaxRef,      \* bound: no new round once a ReferenceCount reaches it
    MaxEvents,   \* bound: number of environment events
    AfterRace    \* bound: may rounds, requests and events begin after a race?

ASSUME ThreadsAssumption ==
    /\ Scanner \notin Clients /\ System \notin Clients /\ Scanner # System
    /\ NoThread \notin Clients \cup {Scanner, System}

ASSUME MemoryAssumption ==
    /\ Pids \subseteq Nat /\ NoPid \notin Pids
    /\ Frames \subseteq Nat /\ 0 \in Frames
    /\ Maps \in [Pids -> Seq(Frames)]
    /\ DOMAIN SigOf = Contents
    /\ InitMem \subseteq [Frames -> Contents]
    /\ InitProc \subseteq [Pids -> {"none", "user", "system"}]

ASSUME BoundsAssumption ==
    /\ MaxFrames \in Nat /\ MaxFrames >= 2
    /\ MaxScan \in Nat /\ MaxRef \in Nat /\ MaxEvents \in Nat
    /\ AfterRace \in BOOLEAN

VARIABLES
    gDedupeMutex,       \* owner of the FAST_MUTEX
    pc,                 \* where each thread stands
    ProcessTable,       \* opted-in process identifiers
    PageTable,          \* page entries
    SharedGroupTable,   \* promoted groups
    CowProtectedTable,  \* frames registered for copy-on-write
    CowPrivateTable,    \* frames with a private copy
    gShutdownEvent,     \* the notification event the scanner polls
    arg,                \* process identifier or faulting frame of each client's request
    drain,              \* the element each drain holds a pointer to
    drainIndex,         \* the loop index of each drain
    todo,               \* rest of the scanner's snapshot processIds[]
    attached,           \* the process the scanner is attached to
    pages,              \* its committed pages still to visit
    cand,               \* signature and frame given to AddPageEntry / MarkPageShared
    mem,                \* content of every frame
    proc,               \* what runs under each process identifier
    events,             \* environment events so far (for MaxEvents)
    raced,              \* a drain raced on PageTable's tree, or holds a freed entry, unnoticed
    bugcheck            \* why the machine stopped, if it did

tables == <<ProcessTable, PageTable, SharedGroupTable,
            CowProtectedTable, CowPrivateTable>>
scan   == <<todo, attached, pages, cand>>
client == <<arg, drain, drainIndex>>
env    == <<mem, proc, events>>
vars   == <<gDedupeMutex, pc, tables, gShutdownEvent, client, scan, env, raced, bugcheck>>

Threads == Clients \cup {Scanner, System}
Sigs    == {SigOf[c] : c \in Contents}
Keys    == Sigs \X Frames
NoEntry == <<>>

PageEntries == [Signature : Sigs, PageFrameNumbers : Seq(Frames),
                ReferenceCount : Nat, Shared : BOOLEAN]
SharedPageGroups == [Signature : Sigs, PageFrameNumbers : Seq(Frames),
                     ReferenceCount : Nat]

ASSUME FreedAssumption == FreedContents \subseteq PageEntries

(***************************************************************************)
(* pc values.  A thread in LockWaits is at (or about to reach) an          *)
(* ExAcquireFastMutex.                                                     *)
(***************************************************************************)
ScannerLockWaits == {"snapshot", "add", "mark", "regcow"}
ClientLockWaits  == {"register", "unregister", "list", "stats", "unmark",
                     "unregcow", "cow", "cowdemote"}
LockWaits        == ScannerLockWaits \cup ClientLockWaits

ScannerStates == {"none", "top", "next", "pages", "adding", "exited", "halted"}
                    \cup ScannerLockWaits
ClientStates  == {"ready", "counting", "drain", "delete", "halted"}
                    \cup ClientLockWaits
SystemStates  == {"entry", "loaded", "stopping", "unloaded", "halted"}

Goto(t, l) == pc' = [pc EXCEPT ![t] = l]

\* Mutant: acquire without waiting.
LockFreeTry == TRUE
\* The code acquires a mutex nobody holds; the owner asking again waits too.
LockFree == gDedupeMutex = NoThread

(***************************************************************************)
(* The generic tables.  ComparePageEntries calls two entries equal when    *)
(* their signatures agree and their first frames are the same frame or     *)
(* hold the same bytes NOW.  Entries are placed by (signature, first       *)
(* frame), so a search for <<s, f>> always reaches the entry whose first   *)
(* frame is f unless it stops earlier at an identical one; it may miss an  *)
(* identical entry off its path, or one MmMapIoSpace cannot map.           *)
(***************************************************************************)
Key(e) == <<e.Signature, e.PageFrameNumbers[1]>>

\* Mutant: equal signatures are enough, the bytes are not compared.
SignaturesSuffice(f, g) == TRUE

ArePhysicalPagesIdentical(f, g) == f = g \/ mem[f] = mem[g]

TableHits(T, k) == {e \in T : /\ e.Signature = k[1]
                              /\ ArePhysicalPagesIdentical(k[2], e.PageFrameNumbers[1])}
TableMayMiss(T, k) == \A e \in T : Key(e) # k

Holds(e, f) == \E i \in DOMAIN e.PageFrameNumbers : e.PageFrameNumbers[i] = f

\* Mutants: the frame is only counted; a frame already stored is counted again.
FramesWithNone(e, f) == e.PageFrameNumbers
CountWithAgain(e, f) == e.ReferenceCount + 1

\* One more frame for an entry or group: stored while there is room, counted either way.
FramesWith(e, f) ==
    IF Holds(e, f) \/ Len(e.PageFrameNumbers) >= MaxFrames
    THEN e.PageFrameNumbers ELSE Append(e.PageFrameNumbers, f)
CountWith(e, f) == IF Holds(e, f) THEN e.ReferenceCount ELSE e.ReferenceCount + 1

NewEntry(k) == [Signature |-> k[1], PageFrameNumbers |-> <<k[2]>>,
                ReferenceCount |-> 1, Shared |-> FALSE]
EntryWith(e, f) == [Signature |-> e.Signature, PageFrameNumbers |-> FramesWith(e, f),
                    ReferenceCount |-> CountWith(e, f),
                    Shared |-> e.Shared \/ CountWith(e, f) >= 2]
NewGroup(k) == [Signature |-> k[1], PageFrameNumbers |-> <<k[2]>>, ReferenceCount |-> 1]
GroupWith(g, f) == [Signature |-> g.Signature, PageFrameNumbers |-> FramesWith(g, f),
                    ReferenceCount |-> CountWith(g, f)]

(***************************************************************************)
(* One end of undefined behaviour: the machine stops and with it           *)
(* everything the driver kept.                                             *)
(***************************************************************************)
Bugcheck(why) ==
    /\ bugcheck' = why
    /\ pc' = [t \in Threads |-> "halted"]
    /\ gDedupeMutex' = NoThread
    /\ ProcessTable' = {} /\ PageTable' = {} /\ SharedGroupTable' = {}
    /\ CowProtectedTable' = {} /\ CowPrivateTable' = {}
    /\ drain' = [c \in Clients |-> NoEntry]
    /\ drainIndex' = [c \in Clients |-> 1]
    /\ arg' = [c \in Clients |-> NoPid]
    /\ todo' = {} /\ attached' = NoPid /\ pages' = <<>> /\ cand' = NoEntry
    /\ UNCHANGED <<gShutdownEvent, env, raced>>

-----------------------------------------------------------------------------
\* The state of a driver image before DriverEntry has run.
Init ==
    /\ gDedupeMutex = NoThread
    /\ pc = [t \in Threads |-> CASE t = Scanner -> "none"
                                 [] t = System  -> "entry"
                                 [] OTHER       -> "ready"]
    /\ ProcessTable = {} /\ PageTable = {} /\ SharedGroupTable = {}
    /\ CowProtectedTable = {} /\ CowPrivateTable = {}
    /\ gShutdownEvent = FALSE
    /\ arg = [c \in Clients |-> NoPid]
    /\ drain = [c \in Clients |-> NoEntry]
    /\ drainIndex = [c \in Clients |-> 1]
    /\ todo = {} /\ attached = NoPid /\ pages = <<>>
    /\ cand = NoEntry
    /\ mem \in InitMem /\ proc \in InitProc
    /\ events = 0
    /\ raced = FALSE /\ bugcheck = "none"
-----------------------------------------------------------------------------
(***************************************************************************)
(* Loading and unloading.                                                  *)
(***************************************************************************)

\* DriverEntry: the control device or the thread may fail to be created, and
\* everything is undone; when only the reference to the running thread fails
\* the image is unloaded under the thread.
DriverEntry ==
    /\ pc[System] = "entry"
    /\ \/ /\ pc' = [pc EXCEPT ![System] = "loaded", ![Scanner] = "top"]
          /\ UNCHANGED <<gDedupeMutex, tables, gShutdownEvent, client, scan, env, raced, bugcheck>>
       \/ /\ Goto(System, "unloaded")
          /\ UNCHANGED <<gDedupeMutex, tables, gShutdownEvent, client, scan, env, raced, bugcheck>>
       \/ Bugcheck("orphan")

\* DriverUnload up to the wait of StopPageScanner.  The I/O manager calls it
\* when no request is outstanding.
DriverUnload ==
    /\ pc[System] = "loaded"
    /\ \A c \in Clients : pc[c] = "ready"
    /\ gShutdownEvent' = TRUE
    /\ Goto(System, "stopping")
    /\ UNCHANGED <<gDedupeMutex, tables, client, scan, env, raced, bugcheck>>

\* Mutant: the page table is not emptied.
ShutdownKeepsPages ==
    /\ pc[System] = "stopping" /\ pc[Scanner] = "exited"
    /\ ProcessTable' = {} /\ SharedGroupTable' = {}
    /\ CowProtectedTable' = {} /\ CowPrivateTable' = {}
    /\ Goto(System, "unloaded")
    /\ UNCHANGED <<gDedupeMutex, PageTable, gShutdownEvent, client, scan, env, raced, bugcheck>>

\* The wait for the scan thread is over: the device and all five tables go.
ShutdownDedupeDriver ==
    /\ pc[System] = "stopping" /\ pc[Scanner] = "exited"
    /\ ProcessTable' = {} /\ PageTable' = {} /\ SharedGroupTable' = {}
    /\ CowProtectedTable' = {} /\ CowPrivateTable' = {}
    /\ Goto(System, "unloaded")
    /\ UNCHANGED <<gDedupeMutex, gShutdownEvent, client, scan, env, raced, bugcheck>>

-----------------------------------------------------------------------------
(***************************************************************************)
(* The scan thread.                                                        *)
(***************************************************************************)

GoesOn == raced => AfterRace

\* Mutant: the loop does not look at the event.
PageScanThreadForever ==
    /\ pc[Scanner] = "top"
    /\ GoesOn /\ \A e \in PageTable : e.ReferenceCount < MaxRef
    /\ Goto(Scanner, "snapshot")
    /\ UNCHANGED <<gDedupeMutex, tables, gShutdownEvent, client, scan, env, raced, bugcheck>>

\* The loop test.  The event is read before the 100 ms delay only, so an
\* unload during the delay is followed by one more round.
PageScanThread ==
    /\ pc[Scanner] = "top"
    /\ \/ /\ gShutdownEvent
          /\ Goto(Scanner, "exited")
       \/ /\ ~gShutdownEvent
          /\ GoesOn /\ \A e \in PageTable : e.ReferenceCount < MaxRef
          /\ Goto(Scanner, "snapshot")
    /\ UNCHANGED <<gDedupeMutex, tables, gShutdownEvent, client, scan, env, raced, bugcheck>>

\* Mutant: the end of the enumeration is copied too.
ScanOptedInProcessesNull ==
    /\ pc[Scanner] = "snapshot" /\ LockFree
    /\ todo' = ProcessTable \cup {NoPid}
    /\ Goto(Scanner, "next")
    /\ UNCHANGED <<gDedupeMutex, tables, gShutdownEvent, client,
                   attached, pages, cand, env, raced, bugcheck>>

\* Mutant: the last element of processIds[] is left free.
ScanOptedInProcessesShort ==
    /\ pc[Scanner] = "snapshot" /\ LockFree
    /\ todo' = {p \in ProcessTable :
                    Cardinality({q \in ProcessTable : q < p}) + 1 < MaxScan}
    /\ Goto(Scanner, "next")
    /\ UNCHANGED <<gDedupeMutex, tables, gShutdownEvent, client,
                   attached, pages, cand, env, raced, bugcheck>>

\* The first MaxScan identifiers are copied under the lock.
ScanOptedInProcesses ==
    /\ pc[Scanner] = "snapshot" /\ LockFree
    /\ todo' = {p \in ProcessTable :
                    Cardinality({q \in ProcessTable : q < p}) < MaxScan}
    /\ Goto(Scanner, "next")
    /\ UNCHANGED <<gDedupeMutex, tables, gShutdownEvent, client,
                   attached, pages, cand, env, raced, bugcheck>>

\* ScanProcessPages up to KeStackAttachProcess, for the lowest identifier left:
\* the lookup fails when no such process runs, the open may fail.
ScanProcessPages ==
    /\ pc[Scanner] = "next"
    /\ \E p \in todo :
         /\ \A q \in todo : p <= q
         /\ todo' = todo \ {p}
         /\ \/ /\ proc[p] # "none"
               /\ attached' = p /\ pages' = Maps[p]
               /\ Goto(Scanner, "pages")
            \/ UNCHANGED <<attached, pages, pc>>
    /\ UNCHANGED <<gDedupeMutex, tables, gShutdownEvent, client, cand, env, raced, bugcheck>>

\* The end of ScanOptedInProcesses: back to the loop test.
ScanRoundEnds ==
    /\ pc[Scanner] = "next" /\ todo = {}
    /\ Goto(Scanner, "top")
    /\ UNCHANGED <<gDedupeMutex, tables, gShutdownEvent, client, scan, env, raced, bugcheck>>

\* One page: hashed, then its frame looked up (0 when the page was trimmed in
\* between); or skipped (query error, access fault); or the walk is cut short
\* (STATUS_INVALID_PARAMETER, a region of size 0).
ScanPage ==
    /\ pc[Scanner] = "pages" /\ pages # <<>>
    /\ \/ \E f \in {Head(pages), 0} :
             /\ cand' = <<SigOf[mem[Head(pages)]], f>>
             /\ pages' = Tail(pages)
             /\ Goto(Scanner, "add")
       \/ pages' = Tail(pages) /\ UNCHANGED <<cand, pc>>
       \/ pages' = <<>> /\ UNCHANGED <<cand, pc>>
    /\ UNCHANGED <<gDedupeMutex, tables, gShutdownEvent, client, todo, attached,
                   env, raced, bugcheck>>

\* The end of ScanProcessPages: detach.
ScanProcessEnds ==
    /\ pc[Scanner] = "pages" /\ pages = <<>>
    /\ attached' = NoPid
    /\ Goto(Scanner, "next")
    /\ UNCHANGED <<gDedupeMutex, tables, gShutdownEvent, client, todo, pages, cand,
                   env, raced, bugcheck>>

\* AddPageEntry takes the lock ...
AddPageEntryLocks ==
    /\ pc[Scanner] = "add" /\ LockFree
    /\ gDedupeMutex' = Scanner
    /\ Goto(Scanner, "adding")
    /\ UNCHANGED <<tables, gShutdownEvent, client, scan, env, raced, bugcheck>>

\* ... then inserts a new entry, fails to allocate one, or adds the frame to
\* the entry found, and releases the lock.  The frame handed on to
\* MarkPageShared is the first one of the entry.  In a tree damaged by a race the
\* search may miss any entry, or end at a freed one.
AddPageEntry ==
    /\ pc[Scanner] = "adding"
    /\ gDedupeMutex' = NoThread
    /\ \/ /\ raced \/ TableMayMiss(PageTable, cand)
          /\ PageTable' \in {PageTable, PageTable \cup {NewEntry(cand)}}
          /\ cand' = NoEntry
          /\ Goto(Scanner, "pages")
       \/ \E e \in TableHits(PageTable, cand) :
             LET new == EntryWith(e, cand[2]) IN
             /\ PageTable' = (PageTable \ {e}) \cup {new}
             /\ IF new.Shared /\ ~e.Shared
                THEN cand' = Key(e) /\ Goto(Scanner, "mark")
                ELSE cand' = NoEntry /\ Goto(Scanner, "pages")
       \/ /\ raced /\ cand' \in Keys
          /\ Goto(Scanner, "mark") /\ UNCHANGED PageTable
    /\ UNCHANGED <<ProcessTable, SharedGroupTable, CowProtectedTable, CowPrivateTable,
                   gShutdownEvent, client, todo, attached, pages, env, raced, bugcheck>>

\* PromoteSharedPageGroup: only the failure path releases the lock.
PromoteSharedPageGroup ==
    /\ pc[Scanner] = "mark"
    /\ \/ /\ TableMayMiss(SharedGroupTable, cand)
          /\ cand' = NoEntry
          /\ Goto(Scanner, "pages")
          /\ UNCHANGED <<gDedupeMutex, SharedGroupTable>>
       \/ /\ \/ /\ TableMayMiss(SharedGroupTable, cand)
                /\ SharedGroupTable' = SharedGroupTable \cup {NewGroup(cand)}
             \/ \E g \in TableHits(SharedGroupTable, cand) :
                   SharedGroupTable' = (SharedGroupTable \ {g}) \cup {GroupWith(g, cand[2])}
          /\ gDedupeMutex' = Scanner
          /\ Goto(Scanner, "regcow")
          /\ UNCHANGED cand
    /\ UNCHANGED CowProtectedTable

\* RegisterCowProtectedPage acquires the lock itself.
RegisterCowProtectedPage ==
    /\ pc[Scanner] = "regcow"
    /\ CowProtectedTable' \in {CowProtectedTable, CowProtectedTable \cup {cand[2]}}
    /\ cand' = NoEntry
    /\ Goto(Scanner, "pages")
    /\ UNCHANGED <<gDedupeMutex, SharedGroupTable>>

MarkPageShared ==
    /\ LockFree
    /\ PromoteSharedPageGroup \/ RegisterCowProtectedPage
    /\ UNCHANGED <<ProcessTable, PageTable, CowPrivateTable, gShutdownEvent, client,
                   todo, attached, pages, env, raced, bugcheck>>

ScannerNext ==
    \/ PageScanThread \/ ScanOptedInProcesses \/ ScanProcessPages \/ ScanRoundEnds
    \/ ScanPage \/ ScanProcessEnds \/ AddPageEntryLocks \/ AddPageEntry \/ MarkPageShared

-----------------------------------------------------------------------------
(***************************************************************************)
(* The IOCTL handlers, in the thread of client c.                          *)
(***************************************************************************)
Return(c) == Goto(c, "ready") /\ arg' = [arg EXCEPT ![c] = NoPid]

\* Neither a system process nor one with a protected image name.
IsProcessPolicyAllowed(p) == proc[p] = "user"

\* DriverDeviceControl dispatches.  RegisterOptInProcess has looked the process
\* up and applied IsProcessPolicyAllowed before it asks for the lock; requests
\* refused at once (short buffer, unknown code, protected process) change nothing.
DriverDeviceControl(c) ==
    /\ pc[System] = "loaded" /\ pc[c] = "ready" /\ GoesOn
    /\ \/ \E op \in {"list", "stats", "drain", "cow"} :
             Goto(c, op) /\ UNCHANGED arg
       \/ \E p \in Pids : \E op \in {"register", "unregister"} :
             /\ op = "register" => IsProcessPolicyAllowed(p)
             /\ arg' = [arg EXCEPT ![c] = p]
             /\ Goto(c, op)
    /\ UNCHANGED <<gDedupeMutex, tables, gShutdownEvent, drain, drainIndex, scan,
                   env, raced, bugcheck>>

\* The insertion may fail for lack of memory; an identifier is held once.
RegisterOptInProcess(c) ==
    /\ pc[c] = "register" /\ LockFree
    /\ ProcessTable' \in {ProcessTable, ProcessTable \cup {arg[c]}}
    /\ Return(c)
    /\ UNCHANGED <<gDedupeMutex, PageTable, SharedGroupTable, CowProtectedTable,
                   CowPrivateTable, gShutdownEvent, drain, drainIndex, scan, env, raced, bugcheck>>

UnregisterOptInProcess(c) ==
    /\ pc[c] = "unregister" /\ LockFree
    /\ ProcessTable' = ProcessTable \ {arg[c]}
    /\ Return(c)
    /\ UNCHANGED <<gDedupeMutex, PageTable, SharedGroupTable, CowProtectedTable,
                   CowPrivateTable, gShutdownEvent, drain, drainIndex, scan, env, raced, bugcheck>>

ListOptedInProcesses(c) ==
    /\ pc[c] = "list" /\ LockFree
    /\ Return(c)
    /\ UNCHANGED <<gDedupeMutex, tables, gShutdownEvent, drain, drainIndex, scan,
                   env, raced, bugcheck>>

\* QueryDedupeStats and QueryDedupeHealth walk PageTable under the lock.
QueryLocks(c) ==
    /\ pc[c] = "stats" /\ LockFree
    /\ gDedupeMutex' = c
    /\ Goto(c, "counting")
    /\ UNCHANGED <<tables, gShutdownEvent, client, scan, env, raced, bugcheck>>

\* Mutant: the lock is not released.
QueryKeepsLock(c) ==
    /\ pc[c] = "counting"
    /\ Return(c)
    /\ UNCHANGED <<gDedupeMutex, tables, gShutdownEvent, drain, drainIndex, scan,
                   env, raced, bugcheck>>

QueryReturns(c) ==
    /\ pc[c] = "counting"
    /\ gDedupeMutex' = NoThread
    /\ Return(c)
    /\ UNCHANGED <<tables, gShutdownEvent, drain, drainIndex, scan, env, raced, bugcheck>>

\* The loop head of DrainDedupeState, without the lock: return when PageTable is
\* empty, else take an element and read its Shared flag.
DrainDedupeState(c) ==
    /\ pc[c] = "drain"
    /\ \/ PageTable = {} /\ Return(c) /\ UNCHANGED <<drain, drainIndex>>
       \/ \E e \in PageTable :
             /\ drain' = [drain EXCEPT ![c] = Key(e)]
             /\ drainIndex' = [drainIndex EXCEPT ![c] = 1]
             /\ Goto(c, IF e.Shared THEN "unmark" ELSE "delete")
             /\ UNCHANGED arg
    /\ UNCHANGED <<gDedupeMutex, tables, gShutdownEvent, scan, env, raced, bugcheck>>

\* What client c's drain finds where its pointer leads.
DrainedEntries(c) == IF drain[c] = NoEntry THEN FreedContents
                     ELSE {e \in PageTable : Key(e) = drain[c]}

\* The group Demote looks up has no frame stored: PageFrameNumbers[0] is 0.
\* A lookup that finds nothing returns with the lock held.
DemoteSharedPageGroup(c, e) ==
    LET f == e.PageFrameNumbers[drainIndex[c]] IN
    \/ /\ TableMayMiss(SharedGroupTable, <<e.Signature, 0>>)
       /\ gDedupeMutex' = c
       /\ drainIndex' = [drainIndex EXCEPT ![c] = @ + 1]
       /\ UNCHANGED <<SharedGroupTable, pc>>
    \/ \E g \in TableHits(SharedGroupTable, <<e.Signature, 0>>) :
         LET left == SelectSeq(g.PageFrameNumbers, LAMBDA h : h # f)
         IN  IF Holds(g, f)
             THEN /\ SharedGroupTable' =
                       IF left = <<>> \/ g.ReferenceCount <= 1
                       THEN SharedGroupTable \ {g}
                       ELSE (SharedGroupTable \ {g}) \cup
                              {[g EXCEPT !.PageFrameNumbers = left,
                                         !.ReferenceCount = @ - 1]}
                  /\ Goto(c, "unregcow")
                  /\ UNCHANGED <<gDedupeMutex, drainIndex>>
             ELSE /\ drainIndex' = [drainIndex EXCEPT ![c] = @ + 1]
                  /\ UNCHANGED <<gDedupeMutex, SharedGroupTable, pc>>

\* One iteration of the loop over the frames of a shared entry:
\* UnmarkPageShared demotes, then unregisters the frame.
UnmarkPageShared(c) ==
    /\ LockFree
    /\ pc[c] \in {"unmark", "unregcow"}
    /\ \E e \in DrainedEntries(c) :
         /\ drainIndex[c] <= Len(e.PageFrameNumbers)
         /\ \/ /\ pc[c] = "unmark"
               /\ DemoteSharedPageGroup(c, e)
               /\ UNCHANGED CowProtectedTable
            \/ /\ pc[c] = "unregcow"
               /\ CowProtectedTable' = CowProtectedTable \ {e.PageFrameNumbers[drainIndex[c]]}
               /\ drainIndex' = [drainIndex EXCEPT ![c] = @ + 1]
               /\ Goto(c, "unmark")
               /\ UNCHANGED <<gDedupeMutex, SharedGroupTable>>
    /\ UNCHANGED <<ProcessTable, PageTable, CowPrivateTable, gShutdownEvent, arg, drain,
                   scan, env, raced, bugcheck>>

\* The end of that loop, reached without the lock or with it.
UnmarkLoopEnds(c) ==
    /\ pc[c] = "unmark"
    /\ \E e \in DrainedEntries(c) : drainIndex[c] > Len(e.PageFrameNumbers)
    /\ Goto(c, "delete")
    /\ UNCHANGED <<gDedupeMutex, tables, gShutdownEvent, client, scan, env, raced, bugcheck>>

\* Mutant: the deletion gets a stale key, deletes nothing and says so unheard.
DrainDeletesNothing(c) ==
    /\ pc[c] = "delete"
    /\ Goto(c, "drain")
    /\ UNCHANGED <<gDedupeMutex, tables, gShutdownEvent, client, scan, env, raced, bugcheck>>

\* The deletion, without the lock: RtlDeleteElementGenericTable searches for the
\* element again and may delete an identical one.  Whoever else points to the
\* deleted entry is left with a dangling pointer.
DrainDeletes(c) ==
    /\ pc[c] = "delete" /\ drain[c] # NoEntry
    /\ \E e \in TableHits(PageTable, drain[c]) :
         /\ PageTable' = PageTable \ {e}
         /\ drain' = [d \in Clients |-> IF d = c \/ drain[d] = Key(e)
                                        THEN NoEntry ELSE drain[d]]
         /\ raced' = (raced \/ \E d \in Clients \ {c} : drain[d] = Key(e))
    /\ drainIndex' = [drainIndex EXCEPT ![c] = 1]
    /\ Goto(c, "drain")
    /\ UNCHANGED <<gDedupeMutex, ProcessTable, SharedGroupTable, CowProtectedTable,
                   CowPrivateTable, gShutdownEvent, arg, scan, env, bugcheck>>

(***************************************************************************)
(* Races of the drain that go unnoticed.  The tree is in flux while        *)
(* another thread inserts or deletes, and unreliable ever after.           *)
(***************************************************************************)
TreeInFlux(c) == raced \/ \E t \in Threads \ {c} : pc[t] \in {"adding", "delete"}

\* The element count is wrong or the enumeration finds nothing, and the drain
\* returns; or it finds an element that is not there (any more, or yet).
DrainWalksRace(c) ==
    /\ pc[c] = "drain" /\ TreeInFlux(c)
    /\ raced' = TRUE
    /\ \/ Return(c) /\ UNCHANGED drainIndex
       \/ /\ \E l \in {"unmark", "delete"} : Goto(c, l)
          /\ drainIndex' = [drainIndex EXCEPT ![c] = 1]
          /\ UNCHANGED arg
    /\ UNCHANGED <<gDedupeMutex, tables, gShutdownEvent, drain, scan, env, bugcheck>>

\* The deletion of a freed element, or in a tree in flux: nothing is deleted (the
\* result FALSE is not looked at) or something else, and the links to other
\* entries may be lost.
DrainDeletesRace(c) ==
    /\ pc[c] = "delete" /\ (TreeInFlux(c) \/ drain[c] = NoEntry)
    /\ raced' = TRUE
    /\ PageTable' \in SUBSET PageTable
    /\ drain' = [d \in Clients |-> IF d = c \/ drain[d] \notin {Key(e) : e \in PageTable'}
                                   THEN NoEntry ELSE drain[d]]
    /\ drainIndex' = [drainIndex EXCEPT ![c] = 1]
    /\ Goto(c, "drain")
    /\ UNCHANGED <<gDedupeMutex, ProcessTable, SharedGroupTable, CowProtectedTable,
                   CowPrivateTable, gShutdownEvent, arg, scan, env, bugcheck>>

DrainRaces(c) == DrainWalksRace(c) \/ DrainDeletesRace(c)

\* The same races noticed: a thread in the tree during one, or at any time after.
RaceStops ==
    /\ \/ /\ raced
          /\ \E t \in Threads :
                pc[t] \in {"adding", "counting", "drain", "unmark", "unregcow", "delete"}
       \/ \E c \in Clients : \E t \in Threads \ {c} :
            \/ pc[c] = "delete" /\ pc[t] \in {"adding", "counting", "drain", "delete"}
            \/ pc[c] = "drain" /\ pc[t] = "adding"
    /\ Bugcheck("race")

\* CowFaultCallback: the frame is looked up in the registry; a write to a
\* registered frame gets a private copy (AllocatePrivateCopyForCowFault, not in
\* the repository, may fail) and the frame is unregistered.
CowFaultCallback(c) ==
    /\ LockFree
    /\ \/ /\ pc[c] = "cow"
          /\ \E f \in Frames :
               \/ Return(c) /\ UNCHANGED <<CowPrivateTable, CowProtectedTable>>
               \/ /\ f \in CowProtectedTable
                  /\ CowPrivateTable' = CowPrivateTable \cup {f}
                  /\ Goto(c, "cowdemote")
                  /\ arg' = [arg EXCEPT ![c] = f]
                  /\ UNCHANGED CowProtectedTable
       \/ /\ pc[c] = "cowdemote"
          /\ CowProtectedTable' = CowProtectedTable \ {arg[c]}
          /\ Return(c)
          /\ UNCHANGED CowPrivateTable
    /\ UNCHANGED <<gDedupeMutex, ProcessTable, PageTable, SharedGroupTable, gShutdownEvent,
                   drain, drainIndex, scan, env, raced, bugcheck>>

\* A request under way; a new one is up to the client.
HandlerNext(c) ==
    \/ RegisterOptInProcess(c) \/ UnregisterOptInProcess(c) \/ ListOptedInProcesses(c)
    \/ QueryLocks(c) \/ QueryReturns(c) \/ DrainDedupeState(c) \/ UnmarkPageShared(c)
    \/ UnmarkLoopEnds(c) \/ DrainDeletes(c) \/ CowFaultCallback(c)

-----------------------------------------------------------------------------
(***************************************************************************)
(* The processes the driver looks at (external).                           *)
(***************************************************************************)
EnvStep == /\ bugcheck = "none" /\ GoesOn /\ events < MaxEvents /\ events' = events + 1
           /\ UNCHANGED <<gDedupeMutex, pc, tables, gShutdownEvent, client,
                          todo, cand, raced, bugcheck>>

WritePage ==
    /\ EnvStep
    /\ \E p \in Pids : /\ proc[p] # "none"
                       /\ \E i \in DOMAIN Maps[p], c \in Contents :
                             mem' = [mem EXCEPT ![Maps[p][i]] = c]
    /\ UNCHANGED <<proc, attached, pages>>

\* A process ends, and its address space with it.
ExitProcess ==
    /\ EnvStep
    /\ \E p \in Pids :
         /\ proc[p] # "none"
         /\ proc' = [proc EXCEPT ![p] = "none"]
         /\ IF attached = p THEN attached' = NoPid /\ pages' = <<>>
                            ELSE UNCHANGED <<attached, pages>>
    /\ UNCHANGED mem

\* A new process under an unused identifier.
StartProcess ==
    /\ EnvStep
    /\ \E p \in Pids : /\ proc[p] = "none"
                       /\ \E kind \in {"user", "system"} :
                             proc' = [proc EXCEPT ![p] = kind]
    /\ UNCHANGED <<mem, attached, pages>>

-----------------------------------------------------------------------------
Next ==
    \/ DriverEntry \/ DriverUnload \/ ShutdownDedupeDriver
    \/ ScannerNext
    \/ \E c \in Clients : DriverDeviceControl(c) \/ HandlerNext(c) \/ DrainRaces(c)
    \/ RaceStops
    \/ WritePage \/ ExitProcess \/ StartProcess

Spec == Init /\ [][Next]_vars

\* Threads that can run do run.  Waiters of a FAST_MUTEX queue on its event, so a
\* waiter whose mutex becomes free again and again gets it: strong fairness.
Fairness ==
    /\ SF_vars(ScannerNext)
    /\ \A c \in Clients : SF_vars(HandlerNext(c))
    /\ WF_vars(ShutdownDedupeDriver)

LiveSpec == Spec /\ Fairness
-----------------------------------------------------------------------------
(***************************************************************************)
(* Properties.                                                             *)
(***************************************************************************)

\* The types of all variables.
TypeOK ==
    /\ gDedupeMutex \in Threads \cup {NoThread}
    /\ pc \in [Threads -> ScannerStates \cup ClientStates \cup SystemStates]
    /\ pc[Scanner] \in ScannerStates /\ pc[System] \in SystemStates
    /\ \A c \in Clients : pc[c] \in ClientStates
    /\ ProcessTable \subseteq Pids
    /\ PageTable \subseteq PageEntries
    /\ SharedGroupTable \subseteq SharedPageGroups
    /\ CowProtectedTable \subseteq Frames /\ CowPrivateTable \subseteq Frames
    /\ gShutdownEvent \in BOOLEAN
    /\ arg \in [Clients -> Pids \cup Frames \cup {NoPid}]
    /\ drain \in [Clients -> Keys \cup {NoEntry}]
    /\ drainIndex \in [Clients -> Nat \ {0}]
    /\ todo \subseteq Pids
    /\ attached \in Pids \cup {NoPid}
    /\ pages \in Seq(Frames)
    /\ cand \in Keys \cup {NoEntry}
    /\ mem \in [Frames -> Contents]
    /\ proc \in [Pids -> {"none", "user", "system"}]
    /\ events \in Nat
    /\ raced \in BOOLEAN /\ bugcheck \in {"none", "race", "orphan"}

\* Thread t waits for the mutex it owns: it will wait for ever.
SelfBlocked(t) == gDedupeMutex = t /\ pc[t] \in LockWaits

\* What the lock owner may be doing: a thread outside the two-step critical
\* sections owns the mutex only while it waits for it again - after
\* PromoteSharedPageGroup (scanner) or DemoteSharedPageGroup (a drain).  In
\* particular no IOCTL returns to user mode, and the scanner never exits, with the
\* mutex held.  The exception is a drain after a race: a freed entry may read as one
\* with a single frame, so that the drain leaves the loop over the frames with the
\* mutex that DemoteSharedPageGroup did not release, and returns.
NoLockCarriedOut ==
    \A t \in Threads :
        gDedupeMutex = t => \/ pc[t] \in {"adding", "counting"} \/ SelfBlocked(t)
                            \/ raced /\ t \in Clients

\* AddPageEntry's bookkeeping: an entry's frames are distinct, it stores as many as
\* it counts up to the capacity, it is shared exactly when it counts two or more.
WellFormed(e) ==
    /\ Len(e.PageFrameNumbers) \in 1 .. MaxFrames
    /\ \A i, j \in DOMAIN e.PageFrameNumbers :
          e.PageFrameNumbers[i] = e.PageFrameNumbers[j] => i = j
    /\ Len(e.PageFrameNumbers) <= e.ReferenceCount
    /\ Len(e.PageFrameNumbers) < MaxFrames => e.ReferenceCount = Len(e.PageFrameNumbers)
    /\ e.Shared <=> e.ReferenceCount >= 2

\* The same, for all entries of the table as long as no drain has raced.
PageEntriesWellFormed == raced \/ \A e \in PageTable : WellFormed(e)

\* The frames of an entry hold the same bytes, though they were compared in different
\* rounds, with the first frame only, and signatures may collide: until the first event
\* of the processes (one that writes breaks it), and as long as no drain has raced.
FramesAgree ==
    events = 0 /\ ~raced =>
        \A e \in PageTable : \A i \in DOMAIN e.PageFrameNumbers :
            mem[e.PageFrameNumbers[i]] = mem[e.PageFrameNumbers[1]]

\* Once a thread waits for the mutex it owns it does so until the machine stops, and
\* no other thread gets past an ExAcquireFastMutex.
StaysBlocked(t) ==
    /\ gDedupeMutex' = t /\ pc'[t] = pc[t]
    /\ \A u \in Threads : pc[u] \in LockWaits \ {"unmark"} => pc'[u] = pc[u]

\* The same, of every step; after a race a drain may also find that it had no further
\* frame to unmark.
LeakIsPermanent ==
    [][\A t \in Threads : SelfBlocked(t) =>
          pc'[t] = "halted" \/ StaysBlocked(t) \/ (raced /\ pc[t] = "unmark")]_vars

\* After an unload (or a failed load) nothing of the driver is left; only a drain that
\* raced may have taken the mutex with it.
UnloadedIsClean ==
    pc[System] = "unloaded" =>
        /\ gDedupeMutex = NoThread \/ raced
        /\ pc[Scanner] \in {"none", "exited"}
        /\ ProcessTable = {} /\ PageTable = {} /\ SharedGroupTable = {}
        /\ CowProtectedTable = {} /\ CowPrivateTable = {}

Hung == (\E t \in Threads : SelfBlocked(t)) \/ bugcheck # "none" \/ raced

\* Where a drain may stand.
Draining(c) == pc[c] \in {"drain", "unmark", "unregcow", "delete"}

\* Every request completes, unless a thread has hung on its own mutex by then, a drain has
\* raced, or the machine stopped; a drain only from when no process is opted in any more,
\* for only the scanner, which refills the table behind it, keeps it going.
RequestsComplete ==
    \A c \in Clients :
        pc[c] # "ready"
            ~> pc[c] = "ready" \/ Hung \/ (Draining(c) /\ ProcessTable # {})

\* An unload that began ends, with the same exception.
UnloadCompletes == pc[System] = "stopping" ~> pc[System] = "unloaded" \/ Hung

\* The process is due for every round while its identifier is one of the MaxScan lowest.
Due(p) == p \in ProcessTable /\ Cardinality({q \in ProcessTable : q < p}) < MaxScan

\* A process that is due comes up for scanning again and again, until it is no longer due,
\* a thread hangs or the driver is being unloaded: other clients' requests, and requests
\* for the mutex, do not keep the scan thread from its rounds.
LowestVisited ==
    \A p \in Pids : Due(p) ~> p \in todo \/ ~Due(p) \/ Hung \/ gShutdownEvent

-----------------------------------------------------------------------------
(***************************************************************************)
(* The inductive invariant behind them (proofs: RamDedupeDriverProofs).    *)
(***************************************************************************)

\* A thread on its way into a table carries the value it needs.
ArgumentsSet ==
    /\ pc[Scanner] \in {"add", "adding", "mark", "regcow"} => cand \in Keys
    /\ \A c \in Clients : pc[c] \in {"register", "unregister"} => arg[c] \in Pids

\* No two entries have the same signature and first frame, as long as no drain has raced.
KeysUnique == raced \/ \A e, g \in PageTable : Key(e) = Key(g) => e = g

\* A drain past its loop head points to an entry in the table, unless it has raced.
DrainPointsToEntry ==
    \A c \in Clients :
        /\ drain[c] # NoEntry => /\ pc[c] \in {"unmark", "unregcow", "delete"}
                                 /\ \E e \in PageTable : Key(e) = drain[c]
        /\ pc[c] \in {"unmark", "unregcow", "delete"} => drain[c] # NoEntry \/ raced

\* A drain that unmarks frames has a shared entry; if it owns the mutex it has
\* unmarked just one of the entry's two or more frames.
UnmarksSharedEntry ==
    \A c \in Clients : pc[c] = "unmark" /\ ~raced =>
        /\ \A e \in PageTable : Key(e) = drain[c] => e.Shared
        /\ gDedupeMutex = c => drainIndex[c] = 2
        /\ gDedupeMutex # c => drainIndex[c] = 1

\* Who owns the mutex, and why.
LockOwner ==
    /\ gDedupeMutex = Scanner <=> pc[Scanner] \in {"adding", "regcow"}
    /\ gDedupeMutex # System
    /\ \A c \in Clients : /\ pc[c] \notin {"unregcow", "cowdemote"}
                          /\ gDedupeMutex = c => pc[c] \in {"counting", "unmark"} \/ raced
                          /\ pc[c] = "counting" => gDedupeMutex = c

\* Groups exist only behind the mutex leaked at the end of the promotion, and there is
\* never a second one; the copy-on-write tables are never reached.
GroupsBehindLeak ==
    /\ SharedGroupTable # {} => pc[Scanner] = "regcow"
    /\ \A g, h \in SharedGroupTable : g = h
    /\ CowProtectedTable = {} /\ CowPrivateTable = {}

\* Outside "loaded" no request is under way; before and after it nothing is stored.
Lifecycle ==
    /\ pc[System] \in {"entry", "stopping", "unloaded"} => \A c \in Clients : pc[c] = "ready"
    /\ pc[System] \in {"entry", "unloaded"} =>
          /\ pc[Scanner] \in {"none", "exited"}
          /\ ProcessTable = {} /\ PageTable = {} /\ SharedGroupTable = {}

-----------------------------------------------------------------------------
(***************************************************************************)
(* What the repository's documents say and the code does not do.           *)
(***************************************************************************)

\* driver/README.md:22: the registry holds the shared page candidates; the promotion of
\* a page ends with its frame registered, or without when memory is short.
PromotedIsTracked ==
    \A f \in Frames :
        pc[Scanner] = "regcow" /\ cand[2] = f
            ~> f \in CowProtectedTable \/ pc[Scanner] # "regcow"

\* TODO.md:42: when DrainDedupeState returns, no shared state is left; at least not where
\* all drains found the tree in order.
DrainClearsSharedState ==
    [][\A c \in Clients :
          (pc[c] = "drain" /\ pc'[c] = "ready" /\ ~raced') =>
             PageTable' = {} /\ SharedGroupTable' = {} /\ CowProtectedTable' = {}]_vars

\* docs/cow_interception.md:61: system and protected processes remain excluded.
SystemNotScanned == attached # NoPid => proc[attached] # "system"

-----------------------------------------------------------------------------
(***************************************************************************)
(* When they are right (proofs: RamDedupeDriverProofs).                    *)
(***************************************************************************)

\* docs/safety_review.md:7: a page is read only while its process is opted in.  An opt-out
\* does not reach the snapshot the scanner took before, so the code does not do this either.
OnlyOptedInScanned ==
    [][cand # cand' /\ pc'[Scanner] = "add" => attached \in ProcessTable]_vars

\* No identifier is taken over by a protected process while the driver has it registered,
\* is about to register it, or holds it in the scanner's snapshot.
NoReuse ==
    \A p \in Pids : proc'[p] = "system" /\ proc[p] # "system" =>
        /\ p \notin ProcessTable \cup todo
        /\ \A c \in Clients : pc[c] = "register" => arg[c] # p

\* Then none of these identifiers is a protected process's.
Screened ==
    /\ \A p \in Pids : proc[p] = "system" =>
          /\ p \notin ProcessTable \cup todo \cup {attached}
          /\ \A c \in Clients : pc[c] = "register" => arg[c] # p
    /\ attached # NoPid => proc[attached] # "none"

\* No process opts out while the scanner has it in its snapshot or is attached to it.
OptOutsSpareScan ==
    \A c \in Clients : UnregisterOptInProcess(c) => arg[c] \notin todo \cup {attached}

\* Then the snapshot is as good as the table; between rounds there is none.
SnapshotOptedIn ==
    /\ todo \subseteq ProcessTable /\ attached \in ProcessTable \cup {NoPid}
    /\ pc[Scanner] \in {"none", "top", "snapshot", "exited", "halted"} =>
          todo = {} /\ attached = NoPid
    /\ pc[Scanner] = "next" => attached = NoPid
    /\ attached = NoPid => pages = <<>>
=============================================================================
