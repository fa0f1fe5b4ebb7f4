-------------------------- MODULE DedupeSimulator --------------------------
(***************************************************************************)
(* user/dedupe_simulator.cpp: the program that puts the scan scheduler,    *)
(* the engine and the predictor together.  Its main thread is the owner of *)
(* ScanScheduler, and calls what main calls in that order; the worker's    *)
(* steps copy, scan and store the pages of main's own workload, a scan     *)
(* being the one step of AtomicDedupe that DedupeEngine implements.        *)
(***************************************************************************)
EXTENDS MLPredictor, Sequences, FiniteSets

CONSTANT MaxScanned  \* bound: pages scanned after which the worker waits for main to stop it

VARIABLES
    \* those of ScanScheduler
    mutex, running, scanRequested, processes, scanned, target, worker, owner, relock, pending,
    line,      \* how many of main's calls have returned
    regions,   \* pages of each process's regions, in the scheduler's list
    copy,      \* targetRegion of scanNextCandidate
    stats,     \* DedupeEngine::stats
    report     \* what main prints in the end

sched == <<mutex, running, scanRequested, processes, scanned, target,
           worker, owner, relock, pending>>
vars  == <<sched, line, regions, copy, stats, report>>

-----------------------------------------------------------------------------
(***************************************************************************)
(* The workload.  A page's content is the sample or the page it is made    *)
(* from: pages with different seeds or bases have different bytes.         *)
(***************************************************************************)
Workload ==
    [browser  |-> [optIn |-> TRUE, words |-> {"browser"},
                   regions |-> << [words |-> {"browser", "tab"},   pages |-> 120],
                                  [words |-> {"browser", "cache"}, pages |-> 32] >>],
     electron |-> [optIn |-> TRUE, words |-> {"electron"},
                   regions |-> << [words |-> {"electron"},          pages |-> 60],
                                  [words |-> {"electron", "cache"}, pages |-> 24] >>],
     system   |-> [optIn |-> FALSE, words |-> {},
                   regions |-> << [words |-> {},                    pages |-> 40] >>]]

Procs  == DOMAIN Workload
OptIn  == {p \in Procs : Workload[p].optIn}
Scores ==
    [p \in Procs |-> [k \in DOMAIN Workload[p].regions |->
        LET r == Workload[p].regions[k]
        IN  predictProcess(Workload[p].words, Len(Workload[p].regions))
              + predictRegion(r.words, r.pages)]]

Sched  == INSTANCE ScanScheduler WITH MaxProcesses <- 3
Engine == INSTANCE AtomicDedupe WITH pages <- copy, writes <- 0, NumPages <- 0,
                                     Regions <- {}, OptedIn <- {}, Bytes <- {}, Rests <- {}

\* The content of page i (from 0) of a region.
makePage(optIn, i) ==
    IF ~optIn THEN <<"own", i>>
    ELSE CASE i % 5 = 0 -> <<"sample", 0>>
           [] i % 5 = 1 -> <<"sample", 1>>
           [] i % 5 = 2 -> <<"sample", (i \div 5) % 8>>
           [] i % 5 = 3 -> <<"sample", (i \div 3) % 8>>
           [] i % 5 = 4 -> <<"own", i>>

makeRegion(optIn, n) == [i \in 1 .. n |-> Engine!Page(makePage(optIn, i - 1))]

Loaded == [p \in Procs |-> [k \in DOMAIN Workload[p].regions |->
                makeRegion(Workload[p].optIn, Workload[p].regions[k].pages)]]

\* main's calls, one after the other; between them it may be delayed for any time.
Calls == << "add", "add", "add", "start", "request", "request", "stop", "snapshot", "stats" >>
Added == << "browser", "electron", "system" >>

SharedIn(region) == {i \in DOMAIN region : region[i].shared}

\* What main prints of the list: the shared pages of each region.
SharedCounts == [p \in Procs |-> [k \in DOMAIN regions[p] |->
                                    Cardinality(SharedIn(regions[p][k]))]]

NoReport == [shared |-> <<>>, stats |-> <<>>]

Init ==
    /\ Sched!Init
    /\ line = 0 /\ regions = Loaded /\ copy = <<>>
    /\ stats = [pagesScanned |-> 0, uniquePages |-> 0, duplicatePages |-> 0]
    /\ report = NoReport

-----------------------------------------------------------------------------
(***************************************************************************)
(* main.                                                                   *)
(***************************************************************************)
AtCall(c) == line < Len(Calls) /\ Calls[line + 1] = c
Returns   == line' = line + 1

Calling ==
    \/ AtCall("add") /\ Sched!callLocked /\ owner' = "add" /\ UNCHANGED line
    \/ Sched!addProcess /\ processes' = Append(processes, Added[line + 1]) /\ Returns
    \/ AtCall("start") /\ Sched!start /\ Returns
    \/ AtCall("request") /\ Sched!requestScan /\ UNCHANGED line
    \/ owner = "notifyOne" /\ Sched!notify /\ Returns
    \/ AtCall("stop") /\ Sched!stop /\ UNCHANGED line
    \/ Sched!stopFlag /\ UNCHANGED line
    \/ owner = "notifyAll" /\ Sched!notify /\ UNCHANGED line
    \/ Sched!join /\ Returns
    \/ AtCall("snapshot") /\ Sched!callLocked /\ owner' = "snapshot" /\ UNCHANGED line

\* The list is copied, and printed with the shared pages counted.
Snapshot ==
    /\ Sched!snapshotProcesses /\ Returns
    /\ report' = [report EXCEPT !.shared = SharedCounts]
    /\ UNCHANGED <<regions, copy, stats>>

\* engine.getStats, which takes no lock.
PrintStats ==
    /\ AtCall("stats") /\ owner = "idle" /\ Returns
    /\ report' = [report EXCEPT !.stats = stats]
    /\ UNCHANGED <<sched, regions, copy, stats>>

Main == \/ Calling /\ UNCHANGED <<regions, copy, stats, report>>
        \/ Snapshot \/ PrintStats

-----------------------------------------------------------------------------
(***************************************************************************)
(* The worker.                                                             *)
(***************************************************************************)
Region(t) == regions[processes[t[1]]][t[2]]

CopyRegion == Sched!CopyRegion /\ copy' = Region(target) /\ UNCHANGED <<regions, stats>>

\* engine.scanRegion; every region of an opted-in process of the workload is opted in.
ScanRegion ==
    /\ Sched!ScanRegion
    /\ copy' = Engine!Scanned(copy)
    /\ LET looked == Len(copy) - Cardinality(SharedIn(copy))
           found  == Cardinality({i \in DOMAIN copy : Engine!Duplicate(copy, i)})
       IN  stats' = [pagesScanned   |-> stats.pagesScanned + looked,
                     uniquePages    |-> stats.uniquePages + looked - found,
                     duplicatePages |-> stats.duplicatePages + found]
    /\ UNCHANGED regions

\* Mutant: the scanned copy is not moved back.
StoreNothing == Sched!StoreRegion /\ copy' = <<>> /\ UNCHANGED <<regions, stats>>

StoreRegion ==
    /\ Sched!StoreRegion
    /\ regions' = [regions EXCEPT ![processes[target[1]]][target[2]] = copy]
    /\ copy' = <<>> /\ UNCHANGED stats

\* The steps that move no pages.
Looping ==
    /\ stats.pagesScanned >= MaxScanned /\ running => worker # "test"
    /\ \/ Sched!LoopTest \/ Sched!LoopLocks \/ Sched!WaitPredicate \/ Sched!WaitBlocks
       \/ Sched!WaitTimeout \/ Sched!WaitRelocks
       \/ Sched!LoopCheck \/ Sched!LoopClears \/ Sched!Select
    /\ UNCHANGED <<regions, copy, stats>>

Worker == (Looping \/ CopyRegion \/ ScanRegion \/ StoreRegion) /\ UNCHANGED <<line, report>>

Wake == Sched!SpuriousWake /\ UNCHANGED <<line, regions, copy, stats, report>>

-----------------------------------------------------------------------------
Next == Main \/ Worker \/ Wake

Spec == Init /\ [][Next]_vars

\* ScanScheduler's fairness, and a main that goes on.
LiveSpec == Spec /\ SF_vars(Worker) /\ SF_vars(Main) /\ SF_vars(Worker /\ Sched!WaitTimeout)

-----------------------------------------------------------------------------
(***************************************************************************)
(* Properties.                                                             *)
(***************************************************************************)
\* The regions of which at least one page is shared.
SharingRegions ==
    UNION {{<<p, k>> : k \in {k \in DOMAIN regions[p] : SharedIn(regions[p][k]) # {}}} :
               p \in Procs}

\* Whenever and however often the worker scans, only the browser's tabs are ever
\* deduplicated: the predictor ranks them first each time, and the scheduler's choice
\* does not rotate.  No page of the process that did not opt in is touched.
OnlyTabsShared == SharingRegions \subseteq {<<"browser", 1>>}

\* What main prints is consistent although getStats takes no lock and the list is copied
\* before: the duplicates counted are the shared pages printed, no scan is seen half done,
\* and a second scan of the same region has counted none of its duplicates again.
ReportConsistent ==
    report.stats # <<>> =>
        /\ report.stats.duplicatePages = report.shared.browser[1]
        /\ report.stats.pagesScanned = report.stats.uniquePages + report.stats.duplicatePages

\* A scan of the tabs keeps one page of each content and merges all others, so what main
\* prints is all or nothing.
Contents(region) == {region[i].data : i \in DOMAIN region}
AllOrNothing ==
    report.shared # <<>> =>
        report.shared.browser[1] \in {0, 120 - Cardinality(Contents(Loaded.browser[1]))}

\* main ends, whatever wakeups are lost, unless the worker blocks on the mutex it holds.
MainEnds == <>(line = Len(Calls) \/ Sched!Stuck)

-----------------------------------------------------------------------------
(***************************************************************************)
(* What makes them inductive, with the invariant of ScanScheduler          *)
(* (proofs: DedupeSimulatorProofs).                                        *)
(***************************************************************************)
\* Where main can stand between two of its calls, and whether the worker may run then.
MainProgress ==
    /\ line \in 0 .. 9
    /\ Len(processes) = (IF line < 3 THEN line ELSE 3)
    /\ \A i \in DOMAIN processes : processes[i] = Added[i]
    /\ running <=> line \in {4, 5} \/ (line = 6 /\ owner = "idle")
    /\ owner \in CASE line < 3         -> {"idle", "add"}
                   [] line \in {4, 5}  -> {"idle", "notifyOne"}
                   [] line = 6         -> {"idle", "stopFlag", "notifyAll", "join"}
                   [] line = 7         -> {"idle", "snapshot"}
                   [] line \in {3, 8, 9} -> {"idle"}

\* The tabs are as loaded or scanned, and nothing else of the list ever changes; the copy
\* the worker holds is theirs.
Tabs == Loaded.browser[1]
TabsMove ==
    /\ regions = [Loaded EXCEPT !.browser[1] = regions.browser[1]]
    /\ regions.browser[1] \in {Tabs, Engine!Scanned(Tabs)}
    /\ worker = "scan" => copy = regions.browser[1]
    /\ worker = "store" => copy = Engine!Scanned(Tabs)

\* The duplicates counted are the shared pages of the list, or those of the copy that is
\* about to be stored.
StatsFollow ==
    /\ stats.pagesScanned \in Int /\ stats.uniquePages \in Int /\ stats.duplicatePages \in Int
    /\ stats.pagesScanned = stats.uniquePages + stats.duplicatePages
    /\ stats.duplicatePages =
          Cardinality(SharedIn(IF worker = "store" THEN copy ELSE regions.browser[1]))

\* What was printed is still so.
ReportCurrent ==
    report = [shared |-> IF line < 8 THEN <<>> ELSE SharedCounts,
              stats  |-> IF line < 9 THEN <<>> ELSE stats]
=============================================================================
