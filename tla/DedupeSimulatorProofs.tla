----------------------- MODULE DedupeSimulatorProofs -----------------------
(***************************************************************************)
(* Proofs about the simulator, however many scans happen.  The scheduler's *)
(* theorems (ScanSchedulerProofs) and those about a scan                   *)
(* (AtomicDedupeProofs) are used through instances of these modules.       *)
(***************************************************************************)
EXTENDS DedupeSimulator, FiniteSetTheorems, TLAPS

SchedP  == INSTANCE ScanSchedulerProofs WITH MaxProcesses <- 3
EngineP == INSTANCE AtomicDedupeProofs WITH pages <- copy, writes <- 0, NumPages <- 0,
                                            Regions <- {}, OptedIn <- {}, Bytes <- {}, Rests <- {}

-----------------------------------------------------------------------------
(***************************************************************************)
(* The workload and its scores.                                            *)
(***************************************************************************)

\* The two scoring functions return hundredths of at most one.
LEMMA ScoresBounded ==
    ASSUME NEW words, NEW n \in Nat
    PROVE  predictProcess(words, n) \in 0 .. 100 /\ predictRegion(words, n) \in 0 .. 100
  BY DEF predictProcess, predictRegion, Bonus, clampScore

\* The processes of the workload.
LEMMA WorkloadFacts ==
    /\ Procs = {"browser", "electron", "system"} /\ OptIn = {"browser", "electron"}
    /\ DOMAIN Workload["browser"].regions = 1 .. 2 /\ Len(Workload["browser"].regions) = 2
    /\ DOMAIN Workload["electron"].regions = 1 .. 2 /\ Len(Workload["electron"].regions) = 2
    /\ DOMAIN Workload["system"].regions = 1 .. 1 /\ Len(Workload["system"].regions) = 1
  BY DEF Procs, OptIn, Workload

\* The score of one region.
ScoreOf(p, k) ==
    predictProcess(Workload[p].words, Len(Workload[p].regions))
      + predictRegion(Workload[p].regions[k].words, Workload[p].regions[k].pages)

\* The scores are these.
LEMMA ScoresAre ==
    ASSUME NEW p \in Procs
    PROVE  /\ DOMAIN Scores[p] = DOMAIN Workload[p].regions
           /\ \A k \in DOMAIN Workload[p].regions : Scores[p][k] = ScoreOf(p, k)
  BY DEF Scores, ScoreOf

\* What the predictor says of the workload.
LEMMA PredictorSays ==
    /\ predictProcess({"browser"}, 2) = 40 /\ predictProcess({"electron"}, 2) = 35
    /\ predictProcess({}, 1) = 5
    /\ predictRegion({"browser", "tab"}, 120) = 55 /\ predictRegion({"browser", "cache"}, 32) = 35
    /\ predictRegion({"electron"}, 60) = 15 /\ predictRegion({"electron", "cache"}, 24) = 35
    /\ predictRegion({}, 40) = 15
  BY DEF predictProcess, predictRegion, Bonus, clampScore

\* All scores: the browser's tabs have the best.
LEMMA ScoreTable ==
    /\ DOMAIN Scores = Procs
    /\ DOMAIN Scores["browser"] = 1 .. 2 /\ Scores["browser"][1] = 95 /\ Scores["browser"][2] = 75
    /\ DOMAIN Scores["electron"] = 1 .. 2
    /\ Scores["electron"][1] = 50 /\ Scores["electron"][2] = 70
    /\ DOMAIN Scores["system"] = 1 .. 1 /\ Scores["system"][1] = 20
  <1>1. DOMAIN Scores = Procs
    BY DEF Scores
  <1>2. DOMAIN Scores["browser"] = 1 .. 2 /\ Scores["browser"][1] = 95 /\ Scores["browser"][2] = 75
    <2>1. /\ Workload["browser"].words = {"browser"}
          /\ Workload["browser"].regions[1].words = {"browser", "tab"}
          /\ Workload["browser"].regions[1].pages = 120
          /\ Workload["browser"].regions[2].words = {"browser", "cache"}
          /\ Workload["browser"].regions[2].pages = 32
      BY DEF Workload
    <2>2. ScoreOf("browser", 1) = 95
      BY <2>1, PredictorSays, WorkloadFacts DEF ScoreOf
    <2>3. ScoreOf("browser", 2) = 75
      BY <2>1, PredictorSays, WorkloadFacts DEF ScoreOf
    <2> QED
      BY <2>2, <2>3, ScoresAre, WorkloadFacts
  <1>3. /\ DOMAIN Scores["electron"] = 1 .. 2
        /\ Scores["electron"][1] = 50 /\ Scores["electron"][2] = 70
    <2>1. /\ Workload["electron"].words = {"electron"}
          /\ Workload["electron"].regions[1].words = {"electron"}
          /\ Workload["electron"].regions[1].pages = 60
          /\ Workload["electron"].regions[2].words = {"electron", "cache"}
          /\ Workload["electron"].regions[2].pages = 24
      BY DEF Workload
    <2>2. ScoreOf("electron", 1) = 50
      BY <2>1, PredictorSays, WorkloadFacts DEF ScoreOf
    <2>3. ScoreOf("electron", 2) = 70
      BY <2>1, PredictorSays, WorkloadFacts DEF ScoreOf
    <2> QED
      BY <2>2, <2>3, ScoresAre, WorkloadFacts
  <1>4. DOMAIN Scores["system"] = 1 .. 1 /\ Scores["system"][1] = 20
    <2>1. /\ Workload["system"].words = {}
          /\ Workload["system"].regions[1].words = {}
          /\ Workload["system"].regions[1].pages = 40
      BY DEF Workload
    <2>2. ScoreOf("system", 1) = 20
      BY <2>1, PredictorSays, WorkloadFacts DEF ScoreOf
    <2> QED
      BY <2>2, ScoresAre, WorkloadFacts
  <1> QED
    BY <1>1, <1>2, <1>3, <1>4

\* The scores meet the assumption that the scheduler's theorems make.
LEMMA SchedulerAssumption == SchedP!ProcsAssumption
  <1>1. ASSUME NEW p \in Procs
        PROVE  Scores[p] \in Seq(Nat)
    <2>1. Scores[p] = [k \in DOMAIN Workload[p].regions |-> Scores[p][k]]
      BY DEF Scores
    <2>2. PICK n \in Nat : DOMAIN Scores[p] = 1 .. n /\ \A k \in 1 .. n : Scores[p][k] \in Nat
      <3>1. p \in {"browser", "electron", "system"} /\ 1 \in Nat /\ 2 \in Nat
        BY WorkloadFacts
      <3>2. DOMAIN Scores["browser"] = 1 .. 2 /\ \A k \in 1 .. 2 : Scores["browser"][k] \in Nat
        BY ScoreTable
      <3>3. DOMAIN Scores["electron"] = 1 .. 2 /\ \A k \in 1 .. 2 : Scores["electron"][k] \in Nat
        BY ScoreTable
      <3>4. DOMAIN Scores["system"] = 1 .. 1 /\ \A k \in 1 .. 1 : Scores["system"][k] \in Nat
        BY ScoreTable
      <3> QED
        BY <3>1, <3>2, <3>3, <3>4
    <2>3. Scores[p] \in [1 .. n -> Nat]
      BY <2>1, <2>2
    <2> QED
      BY <2>3
  <1>2. Scores = [p \in Procs |-> Scores[p]]
    BY DEF Scores
  <1> QED
    BY <1>1, <1>2, WorkloadFacts DEF SchedP!ProcsAssumption

-----------------------------------------------------------------------------
(***************************************************************************)
(* The simulator runs the scheduler.                                       *)
(***************************************************************************)

\* Every step of the simulator is a step of the scheduler, or leaves it alone.
LEMMA SchedulerSteps == [Next]_vars => [Sched!Next]_Sched!vars
  <1> SUFFICES ASSUME [Next]_vars PROVE [Sched!Next]_Sched!vars
    OBVIOUS
  <1>1. CASE Calling
    BY <1>1 DEF Calling, Sched!Next, Sched!OwnerReturns
  <1>2. CASE Snapshot \/ PrintStats
    BY <1>2 DEF Snapshot, PrintStats, Sched!Next, Sched!OwnerReturns, sched, Sched!vars
  <1>3. CASE Looping \/ CopyRegion \/ ScanRegion \/ StoreRegion
    BY <1>3 DEF Looping, CopyRegion, ScanRegion, StoreRegion, Sched!Next, Sched!WorkerNext
  <1>4. CASE Wake
    BY <1>4 DEF Wake, Sched!Next
  <1>5. CASE UNCHANGED vars
    BY <1>5 DEF vars, sched, Sched!vars
  <1> QED
    BY <1>1, <1>2, <1>3, <1>4, <1>5 DEF Next, Main, Worker

\* The simulator implements ScanScheduler, with three processes and the predictor's scores:
\* what is proved of the scheduler holds of it.
THEOREM SimulatorRunsScheduler == Spec => Sched!Spec
  <1>1. Init => Sched!Init
    BY DEF Init
  <1> QED
    BY <1>1, SchedulerSteps, PTL DEF Spec, Sched!Spec

\* The two instances of the scheduler are the same.
LEMMA SameScheduler ==
    /\ Sched!Init => SchedP!Init
    /\ [Sched!Next]_Sched!vars => [SchedP!Next]_SchedP!vars
  <1>1. Sched!Init => SchedP!Init
    BY DEF Sched!Init, SchedP!Init, Sched!NoTarget, SchedP!NoTarget
  <1>2. UNCHANGED Sched!vars => UNCHANGED SchedP!vars
    BY DEF Sched!vars, SchedP!vars
  <1>3. /\ (Sched!start => SchedP!start) /\ (Sched!requestScan => SchedP!requestScan)
        /\ (Sched!stop => SchedP!stop) /\ (Sched!callLocked => SchedP!callLocked)
        /\ (Sched!stopFlag => SchedP!stopFlag) /\ (Sched!notify => SchedP!notify)
        /\ (Sched!join => SchedP!join) /\ (Sched!addProcess => SchedP!addProcess)
        /\ (Sched!snapshotProcesses => SchedP!snapshotProcesses)
    BY DEF Sched!start, SchedP!start, Sched!requestScan, SchedP!requestScan, Sched!stop,
       SchedP!stop, Sched!callLocked, SchedP!callLocked, Sched!stopFlag, SchedP!stopFlag,
       Sched!notify, SchedP!notify, Sched!join, SchedP!join, Sched!addProcess,
       SchedP!addProcess, Sched!snapshotProcesses, SchedP!snapshotProcesses
  <1>4. /\ (Sched!LoopTest => SchedP!LoopTest) /\ (Sched!LoopLocks => SchedP!LoopLocks)
        /\ (Sched!WaitPredicate => SchedP!WaitPredicate)
        /\ (Sched!WaitBlocks => SchedP!WaitBlocks) /\ (Sched!WaitTimeout => SchedP!WaitTimeout)
        /\ (Sched!WaitRelocks => SchedP!WaitRelocks) /\ (Sched!LoopCheck => SchedP!LoopCheck)
        /\ (Sched!LoopClears => SchedP!LoopClears) /\ (Sched!SpuriousWake => SchedP!SpuriousWake)
    BY DEF Sched!LoopTest, SchedP!LoopTest, Sched!LoopLocks, SchedP!LoopLocks,
       Sched!WaitPredicate, SchedP!WaitPredicate, Sched!WaitBlocks, SchedP!WaitBlocks,
       Sched!WaitTimeout, SchedP!WaitTimeout, Sched!WaitRelocks, SchedP!WaitRelocks,
       Sched!LoopCheck, SchedP!LoopCheck, Sched!LoopClears, SchedP!LoopClears,
       Sched!SpuriousWake, SchedP!SpuriousWake, Sched!data, SchedP!data
  <1>5. /\ (Sched!Select => SchedP!Select) /\ (Sched!CopyRegion => SchedP!CopyRegion)
        /\ (Sched!ScanRegion => SchedP!ScanRegion) /\ (Sched!StoreRegion => SchedP!StoreRegion)
    BY DEF Sched!Select, SchedP!Select, Sched!CopyRegion, SchedP!CopyRegion,
       Sched!ScanRegion, SchedP!ScanRegion, Sched!StoreRegion, SchedP!StoreRegion,
       Sched!data, SchedP!data, Sched!Relocks, SchedP!Relocks, Sched!NoTarget,
       SchedP!NoTarget, Sched!Candidates, SchedP!Candidates, Sched!Best, SchedP!Best,
       Sched!Score, SchedP!Score, Sched!Before, SchedP!Before
  <1>6. Sched!Next => SchedP!Next
    BY <1>3, <1>4, <1>5 DEF Sched!Next, SchedP!Next, Sched!OwnerReturns, SchedP!OwnerReturns,
       Sched!WorkerNext, SchedP!WorkerNext
  <1>7. [Sched!Next]_Sched!vars => [SchedP!Next]_SchedP!vars
    BY <1>2, <1>6
  <1> QED
    BY <1>1, <1>7

\* The scheduler's invariant holds of the simulator.
LEMMA SchedulerInvariant == Spec => []SchedP!IInv
  <1>1. Sched!Spec => SchedP!Spec
    BY SameScheduler, PTL DEF Sched!Spec, SchedP!Spec
  <1> QED
    BY <1>1, SimulatorRunsScheduler, SchedP!Invariance, SchedulerAssumption, PTL

-----------------------------------------------------------------------------
(***************************************************************************)
(* The pages loaded, and what a scan makes of the tabs.                    *)
(***************************************************************************)
NumTabs == 120

\* No page is shared when the workload is loaded.
LEMMA LoadedUnshared ==
    /\ DOMAIN Loaded = Procs
    /\ \A p \in Procs : /\ DOMAIN Loaded[p] = DOMAIN Workload[p].regions
                        /\ \A k \in DOMAIN Loaded[p] : SharedIn(Loaded[p][k]) = {}
  BY DEF Loaded, makeRegion, SharedIn, Engine!Page

\* The tabs are a region as the theorems about a scan assume one.
LEMMA TabsRegion ==
    /\ Loaded["browser"][1] = Tabs /\ 1 \in DOMAIN Loaded["browser"] /\ "browser" \in Procs
    /\ DOMAIN Tabs = 1 .. NumTabs /\ SharedIn(Tabs) = {}
    /\ Tabs \in EngineP!RegionsOf(NumTabs, Contents(Tabs), {0})
  <1>1. Loaded["browser"][1] = Tabs /\ 1 \in DOMAIN Loaded["browser"] /\ "browser" \in Procs
    BY WorkloadFacts, LoadedUnshared DEF Tabs
  <1>2. Workload["browser"].regions[1].pages = NumTabs
    BY DEF Workload, NumTabs
  <1>3. PICK optIn : Tabs = [i \in 1 .. NumTabs |-> Engine!Page(makePage(optIn, i - 1))]
    BY <1>1, <1>2, WorkloadFacts, LoadedUnshared DEF Loaded, makeRegion
  <1>4. DOMAIN Tabs = 1 .. NumTabs /\ SharedIn(Tabs) = {}
    BY <1>3, <1>1, LoadedUnshared
  <1>5. ASSUME NEW i \in 1 .. NumTabs
        PROVE  Tabs[i] \in [data : Contents(Tabs), homeIndex : {0}, shared : BOOLEAN]
    <2>1. PICK d \in Contents(Tabs) : Tabs[i] = [data |-> d, homeIndex |-> 0, shared |-> FALSE]
      BY <1>3, <1>4 DEF Contents, Engine!Page, Engine!NoHome
    <2> QED
      BY <2>1
  <1>6. Tabs = [i \in 1 .. NumTabs |-> Tabs[i]]
    BY <1>3
  <1> QED
    BY <1>1, <1>4, <1>5, <1>6 DEF EngineP!RegionsOf

ScannedTabs == Engine!Scanned(Tabs)

\* The two instances of AtomicDedupe agree on what a scan does.
LEMMA SameScan ==
    ASSUME NEW r
    PROVE  /\ Engine!Scanned(r) = EngineP!Scanned(r)
           /\ \A i : Engine!Duplicate(r, i) <=> EngineP!Duplicate(r, i)
  BY DEF Engine!Scanned, Engine!Duplicate, Engine!Earlier, EngineP!Scanned,
     EngineP!Duplicate, EngineP!Earlier

\* So do the two instances of FiniteSets on what cardinality is.
LEMMA SameCardinality == \A S : Cardinality(S) = EngineP!Cardinality(S)
  BY DEF Cardinality, EngineP!Cardinality

\* The first scan of the tabs shares all pages but one of each content, each counted as a
\* duplicate; a second scan changes nothing and finds nothing.
LEMMA ScanOfTabs ==
    /\ DOMAIN ScannedTabs = 1 .. NumTabs
    /\ SharedIn(ScannedTabs) = {i \in DOMAIN Tabs : Engine!Duplicate(Tabs, i)}
    /\ Cardinality(SharedIn(ScannedTabs)) = NumTabs - Cardinality(Contents(Tabs))
    /\ Engine!Scanned(ScannedTabs) = ScannedTabs
    /\ {i \in DOMAIN ScannedTabs : Engine!Duplicate(ScannedTabs, i)} = {}
    /\ IsFiniteSet(SharedIn(ScannedTabs))
  <1>0. ScannedTabs = EngineP!Scanned(Tabs) /\ NumTabs \in Nat
    BY SameScan DEF ScannedTabs, NumTabs
  <1>1. DOMAIN ScannedTabs = 1 .. NumTabs
    BY <1>0, TabsRegion, EngineP!ScannedPage
  <1>2. \A i \in 1 .. NumTabs : ~Tabs[i].shared
    BY TabsRegion DEF SharedIn
  <1>3. /\ EngineP!SharedPages(ScannedTabs) = {i \in 1 .. NumTabs : EngineP!Duplicate(Tabs, i)}
        /\ Cardinality(EngineP!SharedPages(ScannedTabs))
             = NumTabs - Cardinality(EngineP!DataOf(Tabs, DOMAIN Tabs))
    <2>1. NumTabs \in Nat /\ Tabs \in EngineP!RegionsOf(NumTabs, Contents(Tabs), {0})
      BY <1>0, TabsRegion
    <2> QED
      BY <1>0, <1>2, <2>1, EngineP!ScanSaves, SameCardinality
  <1>4. /\ EngineP!SharedPages(ScannedTabs) = SharedIn(ScannedTabs)
        /\ EngineP!DataOf(Tabs, DOMAIN Tabs) = Contents(Tabs)
    BY DEF EngineP!SharedPages, SharedIn, EngineP!DataOf, Contents
  <1>5. /\ \A i \in 1 .. NumTabs : ~EngineP!Duplicate(ScannedTabs, i)
        /\ EngineP!Scanned(ScannedTabs) = ScannedTabs
    BY <1>0, TabsRegion, EngineP!ScanIdempotent
  <1>6. /\ Engine!Scanned(ScannedTabs) = ScannedTabs
        /\ {i \in DOMAIN ScannedTabs : Engine!Duplicate(ScannedTabs, i)} = {}
    BY <1>1, <1>5, SameScan
  <1>7. SharedIn(ScannedTabs) = {i \in DOMAIN Tabs : Engine!Duplicate(Tabs, i)}
    BY <1>3, <1>4, TabsRegion, SameScan
  <1>8. IsFiniteSet(SharedIn(ScannedTabs))
    BY <1>0, <1>1, FS_Interval, FS_Subset DEF SharedIn
  <1> QED
    BY <1>1, <1>3, <1>4, <1>6, <1>7, <1>8

-----------------------------------------------------------------------------
(***************************************************************************)
(* The scheduler always works on the tabs.                                 *)
(***************************************************************************)

\* The list holds the processes in the order in which main adds them.
LEMMA ListedProcesses ==
    ASSUME MainProgress
    PROVE  /\ Len(processes) \in 0 .. 3 /\ line \in 0 .. 9
           /\ \A i \in DOMAIN processes : processes[i] = Added[i]
           /\ Added[1] = "browser" /\ Added[2] = "electron" /\ Added[3] = "system"
           /\ (line >= 3 => Len(processes) = 3)
  BY DEF MainProgress, Added

\* No other region can be a leader, whatever the list holds: the tabs come first in it and
\* their score is the best.
LEMMA TargetIsTabs ==
    ASSUME MainProgress, SchedP!IInv, worker \in {"copy", "scan", "store"}
    PROVE  target[1] = 1 /\ target[2] = 1 /\ processes[1] = "browser"
  <1>1. SchedP!TypeOK /\ target \in SchedP!Candidates /\ SchedP!Leader(target)
    BY DEF SchedP!IInv, SchedP!TargetLeads, SchedP!Scanning
  <1>2. processes \in Seq(Procs) /\ DOMAIN processes = 1 .. Len(processes)
    BY <1>1 DEF SchedP!TypeOK
  <1>3. /\ target = <<target[1], target[2]>> /\ target[1] \in 1 .. Len(processes)
        /\ processes[target[1]] \in OptIn
        /\ target[2] \in DOMAIN Scores[processes[target[1]]]
    BY <1>1, <1>2, SchedP!CandidatesDef, SchedulerAssumption
  <1>4. 1 \in DOMAIN processes /\ processes[1] = "browser"
    BY <1>2, <1>3, ListedProcesses
  <1> DEFINE tabs == <<1, 1>>
  <1>5. tabs \in SchedP!Candidates
    <2>1. /\ tabs = <<tabs[1], tabs[2]>> /\ tabs[1] \in DOMAIN processes
          /\ processes[tabs[1]] \in OptIn /\ tabs[2] \in DOMAIN Scores[processes[tabs[1]]]
      BY <1>4, WorkloadFacts, ScoreTable
    <2> HIDE DEF tabs
    <2> QED
      BY <2>1, SchedP!CandidatesDef, SchedulerAssumption
  <1>6. SchedP!Score(tabs) = 95
    BY <1>4, ScoreTable DEF SchedP!Score
  <1>7. CASE target[1] = 1 /\ target[2] # 1
    <2>1. SchedP!Score(target) = 75 /\ target[2] = 2
      BY <1>3, <1>4, <1>7, ScoreTable DEF SchedP!Score
    <2>2. SchedP!Before(tabs, target)
      BY <1>7, <2>1 DEF SchedP!Before
    <2> QED
      BY <1>1, <1>5, <1>6, <2>1, <2>2 DEF SchedP!Leader
  <1>8. CASE target[1] # 1
    <2>1. target[1] = 2 \/ target[1] = 3
      BY <1>3, <1>8, ListedProcesses
    <2>2. processes[target[1]] = "electron"
      BY <1>2, <1>3, <2>1, ListedProcesses, WorkloadFacts
    <2>3. SchedP!Score(target) \in {50, 70}
      BY <1>3, <2>2, ScoreTable DEF SchedP!Score
    <2>4. SchedP!Before(tabs, target)
      BY <2>1 DEF SchedP!Before
    <2> QED
      BY <1>1, <1>5, <1>6, <2>3, <2>4 DEF SchedP!Leader
  <1> QED
    BY <1>4, <1>7, <1>8

-----------------------------------------------------------------------------
(***************************************************************************)
(* The inductive invariant: where main stands, what the list holds, what   *)
(* the engine has counted and what was printed.                            *)
(***************************************************************************)
IInv == MainProgress /\ TabsMove /\ StatsFollow /\ ReportCurrent

\* It holds before main's first call.
LEMMA InitIInv == Init => IInv
  <1> SUFFICES ASSUME Init PROVE IInv
    OBVIOUS
  <1>1. MainProgress
    BY DEF Init, Sched!Init, MainProgress
  <1>2. regions["browser"][1] = Tabs /\ worker = "none"
    BY TabsRegion DEF Init, Sched!Init
  <1>3. TabsMove
    <2>1. /\ Loaded = [p \in Procs |-> Loaded[p]]
          /\ Loaded["browser"] = [k \in DOMAIN Loaded["browser"] |-> Loaded["browser"][k]]
      <3>1. "browser" \in Procs
        BY TabsRegion
      <3> QED
        BY <3>1 DEF Loaded
    <2>2. regions = [Loaded EXCEPT !["browser"][1] = Loaded["browser"][1]]
      BY <2>1 DEF Init
    <2> QED
      BY <1>2, <2>2, TabsRegion DEF TabsMove, Init
  <1>4. StatsFollow
    <2>1. (IF worker = "store" THEN copy ELSE regions["browser"][1]) = Tabs
      BY <1>2
    <2>2. Cardinality(SharedIn(Tabs)) = 0
      BY TabsRegion, FS_EmptySet
    <2> QED
      BY <2>1, <2>2 DEF Init, StatsFollow
  <1>5. ReportCurrent
    BY DEF Init, ReportCurrent, NoReport
  <1> QED
    BY <1>1, <1>3, <1>4, <1>5 DEF IInv

\* Where main's next call is, in numbers of lines.
LEMMA CallLines ==
    ASSUME line \in 0 .. 9
    PROVE  /\ AtCall("add") <=> line \in {0, 1, 2}
           /\ AtCall("start") <=> line = 3
           /\ AtCall("request") <=> line \in {4, 5}
           /\ AtCall("stop") <=> line = 6
           /\ AtCall("snapshot") <=> line = 7
           /\ AtCall("stats") <=> line = 8
  BY DEF AtCall, Calls

\* Where main's thread can be at which line.
LEMMA OwnerLines ==
    ASSUME MainProgress
    PROVE  /\ line \in {0, 1, 2} => owner \in {"idle", "add"}
           /\ line \in {4, 5} => owner \in {"idle", "notifyOne"}
           /\ line = 6 => owner \in {"idle", "stopFlag", "notifyAll", "join"}
           /\ line = 7 => owner \in {"idle", "snapshot"}
           /\ line \in {3, 8, 9} => owner = "idle"
           /\ line \in 0 .. 9
  BY DEF MainProgress

\* A call of main keeps its own progress, comes before the list is printed and does not
\* move the worker into or out of a scan.
LEMMA CallingKeeps ==
    ASSUME MainProgress, SchedP!IInv, Calling
    PROVE  MainProgress' /\ line < 8 /\ line' < 8 /\ line' \in 0 .. 9
           /\ (worker' \in {"scan", "store"} => worker' = worker)
           /\ (worker \in {"scan", "store"} => worker' = worker)
  <1>1. /\ SchedP!StoppedIsQuiet /\ processes \in Seq(Procs)
        /\ DOMAIN processes = 1 .. Len(processes)
    BY DEF SchedP!IInv, SchedP!TypeOK
  <1>2. CASE AtCall("add") /\ Sched!callLocked /\ owner' = "add" /\ UNCHANGED line
    BY <1>2, CallLines, OwnerLines DEF Sched!callLocked, MainProgress
  <1>3. CASE Sched!addProcess /\ processes' = Append(processes, Added[line + 1]) /\ Returns
    <2>1. line \in {0, 1, 2} /\ Len(processes) = line /\ line' = line + 1
      BY <1>3, OwnerLines DEF Sched!addProcess, MainProgress, Returns
    <2>2. Added[line + 1] \in Procs
      BY <2>1, WorkloadFacts DEF Added
    <2>3. /\ Len(processes') = line + 1 /\ DOMAIN processes' = 1 .. line + 1
          /\ \A i \in 1 .. line : processes'[i] = processes[i]
          /\ processes'[line + 1] = Added[line + 1]
      BY <1>1, <1>3, <2>1, <2>2
    <2>4. \A i \in DOMAIN processes' : processes'[i] = Added[i]
      BY <1>1, <2>1, <2>3 DEF MainProgress
    <2> QED
      BY <1>3, <2>1, <2>3, <2>4 DEF Sched!addProcess, MainProgress
  <1>4. CASE AtCall("start") /\ Sched!start /\ Returns
    <2>1. worker = "none"
      BY <1>1, <1>4 DEF Sched!start, SchedP!StoppedIsQuiet
    <2> QED
      BY <1>4, <2>1, CallLines, OwnerLines DEF Sched!start, MainProgress, Returns
  <1>5. CASE AtCall("request") /\ Sched!requestScan /\ UNCHANGED line
    BY <1>5, CallLines, OwnerLines DEF Sched!requestScan, MainProgress
  <1>6. CASE owner = "notifyOne" /\ Sched!notify /\ Returns
    BY <1>6, CallLines, OwnerLines DEF Sched!notify, MainProgress, Returns
  <1>7. CASE AtCall("stop") /\ Sched!stop /\ UNCHANGED line
    BY <1>7, CallLines, OwnerLines DEF Sched!stop, MainProgress
  <1>8. CASE Sched!stopFlag /\ UNCHANGED line
    BY <1>8, CallLines, OwnerLines DEF Sched!stopFlag, MainProgress
  <1>9. CASE owner = "notifyAll" /\ Sched!notify /\ UNCHANGED line
    BY <1>9, CallLines, OwnerLines DEF Sched!notify, MainProgress
  <1>10. CASE Sched!join /\ Returns
    BY <1>10, CallLines, OwnerLines DEF Sched!join, MainProgress, Returns
  <1>11. CASE AtCall("snapshot") /\ Sched!callLocked /\ owner' = "snapshot" /\ UNCHANGED line
    BY <1>11, CallLines, OwnerLines DEF Sched!callLocked, MainProgress
  <1> QED
    BY <1>2, <1>3, <1>4, <1>5, <1>6, <1>7, <1>8, <1>9, <1>10, <1>11 DEF Calling

\* Once stop has returned no worker is left.
LEMMA WorkerGone ==
    ASSUME MainProgress, SchedP!IInv, line \in {7, 8, 9}
    PROVE  worker = "none"
  BY OwnerLines DEF MainProgress, SchedP!IInv, SchedP!StoppedIsQuiet

\* A step that changes neither list nor statistics keeps the pages as described, unless it
\* begins or ends a scan.
LEMMA NothingMoves ==
    ASSUME TabsMove, StatsFollow, UNCHANGED <<regions, stats>>,
           worker' \in {"scan", "store"} => worker' = worker /\ copy' = copy,
           worker = "store" => worker' = "store"
    PROVE  TabsMove' /\ StatsFollow'
  <1>1. TabsMove'
    BY DEF TabsMove, SharedIn
  <1>2. (IF worker = "store" THEN copy ELSE regions["browser"][1])'
          = (IF worker = "store" THEN copy ELSE regions["browser"][1])
    OBVIOUS
  <1>3. StatsFollow'
    BY <1>2 DEF StatsFollow, SharedIn
  <1> QED
    BY <1>1, <1>3

\* main's steps.
LEMMA MainStep ==
    ASSUME IInv, SchedP!IInv, Main
    PROVE  IInv'
  <1> USE DEF IInv
  <1>1. CASE Calling /\ UNCHANGED <<regions, copy, stats, report>>
    <2>1. TabsMove' /\ StatsFollow'
      BY <1>1, CallingKeeps, NothingMoves
    <2>2. ReportCurrent'
      <3>1. line < 8 /\ line < 9 /\ line' < 8 /\ line' < 9
        BY <1>1, CallingKeeps, OwnerLines
      <3>2. report' = [shared |-> <<>>, stats |-> <<>>]
        BY <1>1, <3>1 DEF ReportCurrent
      <3> QED
        BY <3>1, <3>2 DEF ReportCurrent
    <2> QED
      BY <1>1, <2>1, <2>2, CallingKeeps
  <1>2. CASE Snapshot
    <2>1. line = 7 /\ line' = 8 /\ owner' = "idle" /\ worker' = worker
          /\ processes' = processes /\ running' = running
          /\ UNCHANGED <<regions, copy, stats>>
      BY <1>2, OwnerLines DEF Snapshot, Sched!snapshotProcesses, Returns
    <2>2. MainProgress'
      BY <2>1 DEF MainProgress
    <2>3. TabsMove' /\ StatsFollow'
      BY <2>1, NothingMoves
    <2>4. SharedCounts' = SharedCounts
      BY <2>1 DEF SharedCounts, SharedIn
    <2>5. ReportCurrent'
      BY <1>2, <2>1, <2>4 DEF ReportCurrent, Snapshot
    <2> QED
      BY <2>2, <2>3, <2>5
  <1>3. CASE PrintStats
    <2>1. line = 8 /\ line' = 9 /\ UNCHANGED <<sched, regions, copy, stats>>
      BY <1>3, OwnerLines, CallLines DEF PrintStats, Returns
    <2>2. MainProgress'
      BY <2>1 DEF MainProgress, sched
    <2>3. TabsMove' /\ StatsFollow'
      BY <2>1, NothingMoves DEF sched
    <2>4. SharedCounts' = SharedCounts
      BY <2>1 DEF SharedCounts, SharedIn
    <2>5. ReportCurrent'
      BY <1>3, <2>1, <2>4 DEF ReportCurrent, PrintStats
    <2> QED
      BY <2>2, <2>3, <2>5
  <1> QED
    BY <1>1, <1>2, <1>3 DEF Main

\* What the worker does to the region it copied.
LEMMA WorkerMoves ==
    ASSUME IInv, SchedP!IInv, CopyRegion \/ ScanRegion \/ StoreRegion
    PROVE  TabsMove' /\ StatsFollow'
  <1> USE DEF IInv
  <1> DEFINE region == regions["browser"][1]
  <1>0. /\ region \in {Tabs, ScannedTabs}
        /\ regions = [Loaded EXCEPT !["browser"][1] = region]
    BY DEF TabsMove, ScannedTabs
  <1>1. CASE CopyRegion
    <2>1. worker = "copy" /\ worker' = "scan" /\ UNCHANGED <<regions, stats>>
      BY <1>1 DEF CopyRegion, Sched!CopyRegion
    <2>2. copy' = region
      BY <1>1, <2>1, TargetIsTabs DEF CopyRegion, Region
    <2>3. TabsMove'
      BY <2>1, <2>2 DEF TabsMove
    <2>4. (IF worker = "store" THEN copy ELSE regions["browser"][1])' = region /\
          (IF worker = "store" THEN copy ELSE regions["browser"][1]) = region
      BY <2>1
    <2>5. StatsFollow'
      BY <2>1, <2>4 DEF StatsFollow, SharedIn
    <2> QED
      BY <2>3, <2>5
  <1>2. CASE ScanRegion
    <2>1. worker = "scan" /\ worker' = "store" /\ UNCHANGED regions
          /\ copy' = Engine!Scanned(copy) /\ copy = region
      BY <1>2 DEF ScanRegion, Sched!ScanRegion, TabsMove
    <2>2. copy' = ScannedTabs
      BY <1>0, <2>1, ScanOfTabs DEF ScannedTabs
    <2>3. TabsMove'
      BY <2>1, <2>2 DEF TabsMove, ScannedTabs
    <2> DEFINE looked == Len(copy) - Cardinality(SharedIn(copy))
               found  == Cardinality({i \in DOMAIN copy : Engine!Duplicate(copy, i)})
    <2>4. /\ found \in Int
          /\ Cardinality(SharedIn(copy)) + found = Cardinality(SharedIn(ScannedTabs))
      <3>1. CASE copy = Tabs
        BY <3>1, ScanOfTabs, TabsRegion, FS_EmptySet, FS_CardinalityType
      <3>2. CASE copy = ScannedTabs
        <4>1. {i \in DOMAIN copy : Engine!Duplicate(copy, i)} = {} /\ found = 0
          BY <3>2, ScanOfTabs, FS_EmptySet
        <4>2. Cardinality(SharedIn(copy)) \in Nat
          BY <3>2, ScanOfTabs, FS_CardinalityType
        <4> QED
          BY <3>2, <4>1, <4>2
      <3> QED
        BY <1>0, <2>1, <3>1, <3>2
    <2>5. looked \in Int
      <3>1. DOMAIN copy = 1 .. NumTabs /\ NumTabs \in Nat
        BY <1>0, <2>1, ScanOfTabs, TabsRegion DEF NumTabs
      <3>2. Len(copy) \in Nat
        BY <3>1
      <3>3. Cardinality(SharedIn(copy)) \in Nat
        <4>1. SharedIn(copy) \subseteq 1 .. NumTabs /\ IsFiniteSet(1 .. NumTabs)
          BY <3>1, FS_Interval DEF SharedIn
        <4> QED
          BY <4>1, FS_Subset, FS_CardinalityType
      <3> QED
        BY <3>2, <3>3
    <2>6. stats' = [pagesScanned   |-> stats.pagesScanned + looked,
                    uniquePages    |-> stats.uniquePages + looked - found,
                    duplicatePages |-> stats.duplicatePages + found]
      BY <1>2 DEF ScanRegion
    <2>7. /\ stats.pagesScanned \in Int /\ stats.uniquePages \in Int
          /\ stats.duplicatePages = Cardinality(SharedIn(copy)) /\ stats.duplicatePages \in Int
          /\ stats.pagesScanned = stats.uniquePages + stats.duplicatePages
      <3>1. (IF worker = "store" THEN copy ELSE regions["browser"][1]) = copy
        BY <2>1
      <3> QED
        BY <3>1 DEF StatsFollow
    <2>8. (IF worker = "store" THEN copy ELSE regions["browser"][1])' = ScannedTabs
      BY <2>1, <2>2
    <2> HIDE DEF looked, found
    <2>9. /\ stats'.pagesScanned \in Int /\ stats'.uniquePages \in Int
          /\ stats'.duplicatePages \in Int
          /\ stats'.pagesScanned = stats'.uniquePages + stats'.duplicatePages
          /\ stats'.duplicatePages = Cardinality(SharedIn(ScannedTabs))
      BY <2>4, <2>5, <2>6, <2>7
    <2>10. StatsFollow'
      BY <2>8, <2>9 DEF StatsFollow, SharedIn
    <2> QED
      BY <2>3, <2>10
  <1>3. CASE StoreRegion
    <2>1. /\ worker = "store" /\ worker' = "test" /\ copy = ScannedTabs /\ UNCHANGED stats
          /\ regions' = [regions EXCEPT !["browser"][1] = copy]
      BY <1>3, TargetIsTabs DEF StoreRegion, Sched!StoreRegion, TabsMove, ScannedTabs
    <2>2. /\ regions' = [Loaded EXCEPT !["browser"][1] = ScannedTabs]
          /\ regions'["browser"][1] = ScannedTabs
      BY <1>0, <2>1, TabsRegion, LoadedUnshared
    <2>3. TabsMove'
      BY <2>1, <2>2 DEF TabsMove, ScannedTabs
    <2>4. (IF worker = "store" THEN copy ELSE regions["browser"][1])' = ScannedTabs /\
          (IF worker = "store" THEN copy ELSE regions["browser"][1]) = ScannedTabs
      BY <2>1, <2>2
    <2>5. StatsFollow'
      BY <2>1, <2>4 DEF StatsFollow, SharedIn
    <2> QED
      BY <2>3, <2>5
  <1> QED
    BY <1>1, <1>2, <1>3

\* The worker's steps, and a wakeup nobody asked for.
LEMMA WorkerStep ==
    ASSUME IInv, SchedP!IInv, Worker \/ Wake
    PROVE  IInv'
  <1> USE DEF IInv
  <1>1. /\ worker # "none" /\ UNCHANGED <<line, report, processes, running, owner>>
    BY DEF Worker, Wake, Looping, CopyRegion, ScanRegion, StoreRegion, Sched!SpuriousWake,
       Sched!LoopTest, Sched!LoopLocks, Sched!WaitPredicate, Sched!WaitBlocks,
       Sched!WaitTimeout, Sched!WaitRelocks, Sched!LoopCheck, Sched!LoopClears, Sched!Select,
       Sched!CopyRegion, Sched!ScanRegion, Sched!StoreRegion, Sched!data
  <1>2. MainProgress'
    BY <1>1 DEF MainProgress
  <1>3. line < 7
    BY <1>1, WorkerGone, OwnerLines
  <1>4. ReportCurrent'
    <2>1. line \in Int /\ line < 8 /\ line < 9 /\ line' = line
      BY <1>1, <1>3, OwnerLines
    <2>2. report' = [shared |-> <<>>, stats |-> <<>>]
      BY <1>1, <2>1 DEF ReportCurrent
    <2> QED
      BY <2>1, <2>2 DEF ReportCurrent
  <1>5. CASE Looping \/ Wake
    <2>1. /\ UNCHANGED <<regions, copy, stats>>
          /\ worker \notin {"scan", "store"} /\ worker' \notin {"scan", "store"}
      BY <1>5 DEF Looping, Wake, Sched!SpuriousWake, Sched!LoopTest, Sched!LoopLocks,
         Sched!WaitPredicate, Sched!WaitBlocks, Sched!WaitTimeout, Sched!WaitRelocks,
         Sched!LoopCheck, Sched!LoopClears, Sched!Select
    <2> QED
      BY <1>2, <1>4, <2>1, NothingMoves
  <1>6. CASE CopyRegion \/ ScanRegion \/ StoreRegion
    BY <1>2, <1>4, <1>6, WorkerMoves
  <1> QED
    BY <1>5, <1>6 DEF Worker

\* IInv holds throughout, next to the scheduler's own invariant.
THEOREM Invariance == Spec => []IInv
  <1>1. ASSUME IInv, SchedP!IInv, [Next]_vars
        PROVE  IInv'
    <2>1. CASE Next
      BY <1>1, <2>1, MainStep, WorkerStep DEF Next
    <2>2. CASE UNCHANGED vars
      <3>1. SharedCounts' = SharedCounts
        BY <2>2 DEF vars, SharedCounts, SharedIn
      <3>2. MainProgress' /\ ReportCurrent'
        BY <1>1, <2>2, <3>1 DEF IInv, vars, sched, MainProgress, ReportCurrent
      <3>3. TabsMove' /\ StatsFollow'
        BY <1>1, <2>2, NothingMoves DEF IInv, vars, sched
      <3> QED
        BY <3>2, <3>3 DEF IInv
    <2> QED
      BY <1>1, <2>1, <2>2
  <1> QED
    BY <1>1, InitIInv, SchedulerInvariant, PTL DEF Spec

-----------------------------------------------------------------------------
\* Nothing but the browser's tabs is ever shared, however long the scheduler runs.
THEOREM OnlyTabsAreShared == Spec => []OnlyTabsShared
  <1>1. ASSUME IInv
        PROVE  OnlyTabsShared
    <2>1. SUFFICES ASSUME NEW x \in SharingRegions
                   PROVE  x = <<"browser", 1>>
      BY DEF OnlyTabsShared
    <2>2. PICK p \in Procs : \E k \in DOMAIN regions[p] : /\ x = <<p, k>>
                                                        /\ SharedIn(regions[p][k]) # {}
      BY DEF SharingRegions
    <2>3. PICK k \in DOMAIN regions[p] : x = <<p, k>> /\ SharedIn(regions[p][k]) # {}
      BY <2>2
    <2>4. regions = [Loaded EXCEPT !["browser"][1] = regions["browser"][1]]
      BY <1>1 DEF IInv, TabsMove
    <2>5. ASSUME p # "browser" \/ k # 1
          PROVE  k \in DOMAIN Loaded[p] /\ regions[p][k] = Loaded[p][k]
      BY <2>3, <2>4, <2>5, LoadedUnshared
    <2> QED
      BY <2>3, <2>5, LoadedUnshared
  <1> QED
    BY <1>1, Invariance, PTL

\* What was printed of the tabs, at any time after snapshotProcesses has returned.
LEMMA Printed ==
    ASSUME IInv, SchedP!IInv, line \in {8, 9}
    PROVE  /\ report.shared["browser"][1] = Cardinality(SharedIn(regions["browser"][1]))
           /\ stats.duplicatePages = Cardinality(SharedIn(regions["browser"][1]))
           /\ regions["browser"][1] \in {Tabs, ScannedTabs}
  <1>1. worker = "none"
    BY WorkerGone DEF IInv
  <1>2. report.shared = SharedCounts
    BY DEF IInv, ReportCurrent
  <1>3. 1 \in DOMAIN regions["browser"]
    BY TabsRegion, LoadedUnshared DEF IInv, TabsMove
  <1>4. SharedCounts["browser"][1] = Cardinality(SharedIn(regions["browser"][1]))
    BY <1>3, TabsRegion DEF SharedCounts
  <1>5. (IF worker = "store" THEN copy ELSE regions["browser"][1]) = regions["browser"][1]
    BY <1>1
  <1>6. stats.duplicatePages = Cardinality(SharedIn(regions["browser"][1]))
    BY <1>5 DEF IInv, StatsFollow
  <1> QED
    BY <1>2, <1>4, <1>6 DEF IInv, TabsMove, ScannedTabs

\* The two things main prints agree, although they are read one after the other and the
\* second without a lock.
THEOREM ReportsConsistent == Spec => []ReportConsistent
  <1>1. ASSUME IInv, SchedP!IInv, report.stats # <<>>
        PROVE  /\ report.stats.duplicatePages = report.shared.browser[1]
               /\ report.stats.pagesScanned = report.stats.uniquePages + report.stats.duplicatePages
    <2>1. line = 9 /\ report.stats = stats
      BY <1>1, OwnerLines DEF IInv, ReportCurrent
    <2> QED
      BY <1>1, <2>1, Printed DEF IInv, StatsFollow
  <1>2. IInv /\ SchedP!IInv => ReportConsistent
    BY <1>1 DEF ReportConsistent
  <1> QED
    BY <1>2, Invariance, SchedulerInvariant, PTL

\* What main prints of the tabs is nothing or all their duplicates.
THEOREM ReportsAllOrNothing == Spec => []AllOrNothing
  <1>1. ASSUME IInv, SchedP!IInv, report.shared # <<>>
        PROVE  report.shared.browser[1] \in {0, 120 - Cardinality(Contents(Loaded.browser[1]))}
    <2>1. line \in {8, 9}
      BY <1>1, OwnerLines DEF IInv, ReportCurrent
    <2>2. Cardinality(SharedIn(Tabs)) = 0
      BY TabsRegion, FS_EmptySet
    <2> QED
      BY <1>1, <2>1, <2>2, Printed, ScanOfTabs DEF NumTabs, Tabs
  <1>2. IInv /\ SchedP!IInv => AllOrNothing
    BY <1>1 DEF AllOrNothing
  <1> QED
    BY <1>2, Invariance, SchedulerInvariant, PTL
=============================================================================
