------------------------ MODULE ScanSchedulerProofs ------------------------
(***************************************************************************)
(* Proofs about ScanScheduler, for any processes, scores and bounds.  The  *)
(* inductive invariant adds to the safety properties of the runs what the  *)
(* worker's position says about the mutex and the region it works on.      *)
(***************************************************************************)
EXTENDS ScanScheduler, TLAPS

IInv ==
    /\ TypeOK /\ LockHeld /\ TargetLeads
    /\ RequestNotLost /\ StoppedIsQuiet /\ NoScanIfBlocking /\ OnlyLeadersScanned

USE DEF Scanning

-----------------------------------------------------------------------------
\* Candidates without the union of sets.
LEMMA CandidatesDef ==
    \A t : t \in Candidates <=> /\ t = <<t[1], t[2]>>
                                /\ t[1] \in DOMAIN processes /\ processes[t[1]] \in OptIn
                                /\ t[2] \in DOMAIN Scores[processes[t[1]]]
  BY DEF Candidates

\* The same after a step.
LEMMA CandidatesDefPrimed ==
    \A t : t \in Candidates' <=> /\ t = <<t[1], t[2]>>
                                 /\ t[1] \in DOMAIN processes' /\ processes'[t[1]] \in OptIn
                                 /\ t[2] \in DOMAIN Scores[processes'[t[1]]]
  BY DEF Candidates

\* A candidate is a pair of positions, and its score is a number.
LEMMA CandidateType ==
    ASSUME TypeOK, NEW t \in Candidates
    PROVE  /\ t \in Nat \X Nat /\ t[1] \in 1 .. Len(processes)
           /\ Score(t) \in Nat
  <1>1. /\ t = <<t[1], t[2]>> /\ t[1] \in DOMAIN processes
        /\ t[2] \in DOMAIN Scores[processes[t[1]]]
    BY CandidatesDef
  <1>2. processes[t[1]] \in Procs /\ t[1] \in 1 .. Len(processes) /\ t[1] \in Nat
    BY <1>1 DEF TypeOK
  <1>3. Scores[processes[t[1]]] \in Seq(Nat)
    BY <1>2, ProcsAssumption
  <1>4. t[2] \in Nat /\ Scores[processes[t[1]]][t[2]] \in Nat
    BY <1>1, <1>3
  <1> QED
    BY <1>1, <1>2, <1>4 DEF Score

\* addProcess keeps the candidates and their scores; a new one comes after all of them.
LEMMA AppendKeeps ==
    ASSUME TypeOK, NEW p \in Procs, processes' = Append(processes, p)
    PROVE  /\ \A t \in Candidates : t \in Candidates' /\ Score(t)' = Score(t)
           /\ \A u \in Candidates' : u \in Candidates \/ u[1] = Len(processes) + 1
  <1>1. /\ processes \in Seq(Procs) /\ Len(processes) \in Nat
        /\ DOMAIN processes = 1 .. Len(processes)
        /\ DOMAIN processes' = 1 .. Len(processes) + 1
        /\ \A i \in DOMAIN processes : processes'[i] = processes[i]
    BY DEF TypeOK
  <1>2. ASSUME NEW t \in Candidates
        PROVE  t \in Candidates' /\ Score(t)' = Score(t)
    BY <1>1, CandidatesDef, CandidatesDefPrimed DEF Score
  <1>3. ASSUME NEW u \in Candidates'
        PROVE  u \in Candidates \/ u[1] = Len(processes) + 1
    BY <1>1, CandidatesDef, CandidatesDefPrimed
  <1> QED
    BY <1>2, <1>3

\* A leader stays one when a process is added.
LEMMA AppendKeepsLeaders ==
    ASSUME TypeOK, NEW p \in Procs, processes' = Append(processes, p),
           NEW t \in Candidates, Leader(t)
    PROVE  t \in Candidates' /\ Leader(t)'
  <1>1. t \in Candidates' /\ Score(t)' = Score(t)
    BY AppendKeeps
  <1>2. ASSUME NEW u \in Candidates'
        PROVE  /\ Before(u, t) => Score(u)' < Score(t)'
               /\ Before(t, u) /\ t[1] = u[1] => Score(u)' <= Score(t)'
    <2>1. CASE u \in Candidates
      BY <2>1, <1>1, AppendKeeps DEF Leader
    <2>2. CASE u[1] = Len(processes) + 1
      <3>1. t[1] \in 1 .. Len(processes) /\ Len(processes) \in Nat
        BY CandidateType DEF TypeOK
      <3> QED
        BY <2>2, <3>1 DEF Before
    <2> QED
      BY <2>1, <2>2, AppendKeeps
  <1> QED
    BY <1>1, <1>2 DEF Leader, Before

\* What the choice of scanNextCandidate picks is a leader.
LEMMA BestLeads ==
    ASSUME TypeOK, NEW t \in Candidates, Best(t)
    PROVE  Leader(t)
  <1>1. ASSUME NEW u \in Candidates
        PROVE  /\ Before(u, t) => Score(u) < Score(t)
               /\ Before(t, u) /\ t[1] = u[1] => Score(u) <= Score(t)
    <2>1. Score(u) \in Nat /\ Score(t) \in Nat
      BY CandidateType
    <2> QED
      BY <2>1 DEF Best
  <1> QED
    BY <1>1 DEF Leader

-----------------------------------------------------------------------------
\* A step that leaves the process list alone leaves the candidates alone.
LEMMA SameProcesses ==
    ASSUME processes' = processes
    PROVE  /\ Candidates' = Candidates
           /\ \A t : Leader(t)' = Leader(t)
  BY DEF Candidates, Leader, Score, Before

\* The invariant holds before start is called.
LEMMA InitIInv == Init => IInv
  <1> SUFFICES ASSUME Init PROVE IInv
    OBVIOUS
  <1>1. TypeOK
    <2>1. processes \in Seq(Procs) /\ scanned \subseteq Nat \X Nat /\ target = NoTarget
      BY DEF Init
    <2> QED
      BY <2>1 DEF Init, TypeOK, WorkerStates, OwnerStates
  <1>2. LockHeld /\ TargetLeads /\ OnlyLeadersScanned
    BY DEF Init, LockHeld, TargetLeads, OnlyLeadersScanned
  <1>3. RequestNotLost /\ StoppedIsQuiet /\ NoScanIfBlocking
    BY DEF Init, RequestNotLost, StoppedIsQuiet, NoScanIfBlocking
  <1> QED
    BY <1>1, <1>2, <1>3 DEF IInv

\* The owner's steps.
LEMMA OwnerStep ==
    ASSUME IInv, start \/ requestScan \/ stop \/ callLocked \/ OwnerReturns
    PROVE  IInv'
  <1> USE DEF IInv
  <1>a. CASE addProcess
    <2>1. PICK p \in Procs : processes' = Append(processes, p)
      BY <1>a DEF addProcess
    <2>2. TypeOK'
      BY <1>a, <2>1 DEF addProcess, TypeOK, OwnerStates
    <2>3. TargetLeads' /\ OnlyLeadersScanned'
      <3>1. \A t \in Candidates : Leader(t) => t \in Candidates' /\ Leader(t)'
        BY <2>1, AppendKeepsLeaders
      <3>2. scanned \subseteq Candidates'
        BY <2>1, AppendKeeps DEF TargetLeads
      <3> QED
        BY <1>a, <3>1, <3>2 DEF addProcess, TargetLeads, OnlyLeadersScanned
    <2> QED
      BY <1>a, <2>2, <2>3 DEF addProcess, LockHeld, RequestNotLost, StoppedIsQuiet,
         NoScanIfBlocking
  <1>b. CASE start \/ requestScan \/ stop \/ callLocked \/ stopFlag \/ notify \/ join
             \/ snapshotProcesses
    <2> USE DEF start, requestScan, stop, callLocked, stopFlag, notify, join,
                snapshotProcesses
    <2>1. TypeOK'
      BY <1>b DEF TypeOK, OwnerStates, WorkerStates
    <2>2. processes' = processes /\ scanned' = scanned /\ target' = target
      BY <1>b
    <2>3. Scanning' = Scanning
      BY <1>b DEF StoppedIsQuiet
    <2>4. TargetLeads' /\ OnlyLeadersScanned'
      BY <2>2, <2>3, SameProcesses DEF TargetLeads, OnlyLeadersScanned
    <2>5. LockHeld'
      BY <1>b DEF LockHeld, StoppedIsQuiet
    <2>6. RequestNotLost' /\ StoppedIsQuiet' /\ NoScanIfBlocking'
      BY <1>b DEF RequestNotLost, StoppedIsQuiet, NoScanIfBlocking, TypeOK
    <2> QED
      BY <2>1, <2>4, <2>5, <2>6
  <1> QED
    BY <1>a, <1>b DEF OwnerReturns

\* The worker's steps, and a wakeup nobody asked for.
LEMMA WorkerStep ==
    ASSUME IInv, WorkerNext \/ SpuriousWake
    PROVE  IInv'
  <1> USE DEF IInv, data
  <1>1. CASE \/ LoopTest \/ LoopLocks \/ WaitPredicate \/ WaitBlocks \/ WaitTimeout
             \/ WaitRelocks \/ LoopCheck \/ LoopClears \/ SpuriousWake
    <2> USE DEF LoopTest, LoopLocks, WaitPredicate, WaitBlocks, WaitTimeout, WaitRelocks,
                LoopCheck, LoopClears, SpuriousWake
    <2>1. TypeOK'
      BY <1>1 DEF TypeOK, WorkerStates
    <2>2. processes' = processes /\ scanned' = scanned /\ ~Scanning' /\ relock' = relock
      BY <1>1
    <2>3. TargetLeads' /\ OnlyLeadersScanned'
      BY <2>2, SameProcesses DEF TargetLeads, OnlyLeadersScanned
    <2>4. LockHeld'
      BY <1>1 DEF LockHeld
    <2>5. RequestNotLost' /\ StoppedIsQuiet' /\ NoScanIfBlocking'
      BY <1>1 DEF RequestNotLost, StoppedIsQuiet, NoScanIfBlocking
    <2> QED
      BY <2>1, <2>3, <2>4, <2>5
  <1>2. CASE Select
    <2>1. mutex = "worker" /\ relock = "reenters" /\ processes' = processes
          /\ scanned' = scanned
      BY <1>2 DEF Select, Relocks, LockHeld
    <2>2. Scanning' => target' \in Candidates /\ Leader(target')
      BY <1>2, BestLeads DEF Select
    <2>3. TypeOK'
      BY <1>2, CandidateType DEF Select, TypeOK, WorkerStates
    <2>4. TargetLeads' /\ OnlyLeadersScanned'
      BY <2>1, <2>2, SameProcesses DEF TargetLeads, OnlyLeadersScanned
    <2> QED
      BY <1>2, <2>1, <2>3, <2>4 DEF Select, LockHeld, RequestNotLost, StoppedIsQuiet,
         NoScanIfBlocking
  <1>3. CASE CopyRegion \/ ScanRegion
    <2> USE DEF CopyRegion, ScanRegion
    <2>1. TypeOK'
      BY <1>3 DEF TypeOK, WorkerStates
    <2>2. TargetLeads' /\ OnlyLeadersScanned'
      BY <1>3, SameProcesses DEF TargetLeads, OnlyLeadersScanned
    <2> QED
      BY <1>3, <2>1, <2>2 DEF LockHeld, RequestNotLost, StoppedIsQuiet, NoScanIfBlocking
  <1>4. CASE StoreRegion
    <2>1. /\ relock = "reenters" /\ processes' = processes /\ ~Scanning'
          /\ target \in Candidates /\ Leader(target)
      BY <1>4 DEF StoreRegion, NoScanIfBlocking, TargetLeads, TypeOK
    <2>2. TypeOK'
      BY <1>4, <2>1, CandidateType DEF StoreRegion, TypeOK, WorkerStates
    <2>3. TargetLeads' /\ OnlyLeadersScanned'
      BY <1>4, <2>1, SameProcesses DEF StoreRegion, TargetLeads, OnlyLeadersScanned
    <2> QED
      BY <1>4, <2>1, <2>2, <2>3 DEF StoreRegion, LockHeld, RequestNotLost, StoppedIsQuiet,
         NoScanIfBlocking
  <1> QED
    BY <1>1, <1>2, <1>3, <1>4 DEF WorkerNext

\* IInv holds throughout: a case per thread.
THEOREM Invariance == Spec => []IInv
  <1>1. ASSUME IInv, [Next]_vars PROVE IInv'
    <2>1. CASE Next
      BY <1>1, <2>1, OwnerStep, WorkerStep DEF Next
    <2>2. CASE UNCHANGED vars
      <3>1. processes' = processes /\ scanned' = scanned /\ target' = target
        BY <2>2 DEF vars
      <3>2. TargetLeads' /\ OnlyLeadersScanned'
        BY <1>1, <2>2, <3>1, SameProcesses DEF IInv, vars, TargetLeads, OnlyLeadersScanned
      <3> QED
        BY <1>1, <2>2, <3>2 DEF IInv, vars, TypeOK, LockHeld, RequestNotLost,
           StoppedIsQuiet, NoScanIfBlocking
    <2> QED
      BY <1>1, <2>1, <2>2
  <1> QED
    BY <1>1, InitIInv, PTL DEF Spec

-----------------------------------------------------------------------------
\* Every variable keeps its type.
THEOREM TypeCorrect == Spec => []TypeOK
  BY Invariance, PTL DEF IInv

\* No scan request is lost between requestScan, which does not lock, and the worker,
\* which clears the flag.
THEOREM RequestsKept == Spec => []RequestNotLost
  BY Invariance, PTL DEF IInv

\* stop leaves no worker behind, and start never makes a second one.
THEOREM StopIsComplete == Spec => []StoppedIsQuiet
  BY Invariance, PTL DEF IInv

\* The indices scanNextCandidate keeps over three critical sections stay valid.
THEOREM IndicesStayValid == Spec => []TargetExists
  <1>1. IInv => TargetExists
    BY DEF IInv, TargetLeads, TargetExists
  <1> QED
    BY <1>1, Invariance, PTL

\* With a mutex that blocks its owner the scheduler never scans anything.
THEOREM BlockingNeverScans == Spec => []NoScanIfBlocking
  BY Invariance, PTL DEF IInv

\* Only leaders are scanned: the scheduler does not rotate.
THEOREM ScansDoNotRotate == Spec => []OnlyLeadersScanned
  BY Invariance, PTL DEF IInv

-----------------------------------------------------------------------------
(***************************************************************************)
(* The refinement of ScanRequests.                                         *)
(***************************************************************************)
\* There is a target only while it is copied, scanned and stored.
JobOnlyScanning == ~Scanning => target = NoTarget

LEMMA JobInvariant == Spec => []JobOnlyScanning
  <1>1. Init => JobOnlyScanning
    BY DEF Init, JobOnlyScanning
  <1>2. ASSUME IInv, JobOnlyScanning, [Next]_vars PROVE JobOnlyScanning'
    <2> USE <1>2 DEF JobOnlyScanning
    <2>1. CASE start \/ requestScan \/ stop \/ callLocked \/ OwnerReturns
      BY <2>1 DEF start, requestScan, stop, callLocked, OwnerReturns, stopFlag, notify, join,
                  addProcess, snapshotProcesses, IInv, StoppedIsQuiet
    <2>2. CASE WorkerNext \/ SpuriousWake
      BY <2>2 DEF WorkerNext, SpuriousWake, LoopTest, LoopLocks, WaitPredicate, WaitBlocks,
                  WaitTimeout, WaitRelocks, LoopCheck, LoopClears, Select, CopyRegion,
                  ScanRegion, StoreRegion
    <2>3. CASE UNCHANGED vars
      BY <2>3 DEF vars
    <2> QED
      BY <2>1, <2>2, <2>3 DEF Next
  <1> QED
    BY <1>1, <1>2, Invariance, PTL DEF Spec

\* The regions of the two specifications are the same, and so are their scores.
LEMMA SameRegions == Requests!Regions = Candidates /\ \A t : Requests!ScoreOf(t) = Score(t)
  BY DEF Requests!Regions, Candidates, Requests!ScoreOf, Score

\* A target is a region, not NoTarget.
LEMMA TargetIsJob == ASSUME IInv, Scanning PROVE target # NoTarget
  BY CandidatesDef DEF IInv, TargetLeads, NoTarget

\* The owner's steps: only the return of join is one that the worker has a part in.
LEMMA OwnerRefines ==
    ASSUME IInv, JobOnlyScanning, start \/ requestScan \/ stop \/ callLocked \/ OwnerReturns
    PROVE  Requests!Next \/ UNCHANGED Requests!vars
  <1> USE DEF Life
  <1>1. CASE start
    BY <1>1 DEF start, Requests!Start, Requests!Next
  <1>2. CASE requestScan
    BY <1>2 DEF requestScan, Requests!Request, Requests!Next
  <1>3. CASE stop
    BY <1>3 DEF stop, Requests!Stop, Requests!Next
  <1>4. CASE addProcess
    BY <1>4 DEF addProcess, Requests!Add, Requests!Next
  <1>5. CASE join
    <2>1. UNCHANGED <<pending, processes, target, scanned, running>>
      BY <1>5 DEF join
    <2>2. CASE running
      BY <2>1, <2>2 DEF Requests!vars
    <2>3. CASE ~running
      <3>1. Life = "ending" /\ Life' = "stopped" /\ target = NoTarget
        BY <1>5, <2>1, <2>3 DEF join, JobOnlyScanning
      <3> QED
        BY <2>1, <3>1 DEF Requests!StopReturns, Requests!NoJob, NoTarget, Requests!Next
    <2> QED
      BY <2>2, <2>3 DEF IInv, TypeOK
  <1>6. CASE callLocked \/ stopFlag \/ notify \/ snapshotProcesses
    BY <1>6 DEF callLocked, stopFlag, notify, snapshotProcesses, Requests!vars
  <1> QED
    BY <1>1, <1>2, <1>3, <1>4, <1>5, <1>6 DEF OwnerReturns

\* A worker there is has been started, and is waited for when running is cleared.
LEMMA WorkerAwaited ==
    ASSUME IInv, worker # "none"
    PROVE  running \/ owner \in {"stopFlag", "notifyAll", "join"}
  BY DEF IInv, TypeOK, OwnerStates, StoppedIsQuiet

\* The worker's steps: the decision is where an empty list is seen or a region is chosen.
LEMMA WorkerRefines ==
    ASSUME IInv, JobOnlyScanning, WorkerNext \/ SpuriousWake
    PROVE  Requests!Next \/ UNCHANGED Requests!vars
  <1> USE DEF Life, data
  <1>1. CASE \/ LoopTest \/ LoopLocks \/ WaitPredicate \/ WaitBlocks \/ WaitTimeout
             \/ WaitRelocks \/ LoopCheck \/ SpuriousWake \/ CopyRegion \/ ScanRegion
    <2>1. UNCHANGED <<running, owner, pending, processes, target, scanned>>
      BY <1>1 DEF LoopTest, LoopLocks, WaitPredicate, WaitBlocks, WaitTimeout, WaitRelocks,
                  LoopCheck, SpuriousWake, CopyRegion, ScanRegion
    <2>2. ~running => worker \notin {"clear", "select"} /\ worker' \notin {"clear", "select"}
      BY <1>1 DEF LoopTest, LoopLocks, WaitPredicate, WaitBlocks, WaitTimeout, WaitRelocks,
                  LoopCheck, SpuriousWake, CopyRegion, ScanRegion
    <2> QED
      BY <2>1, <2>2 DEF Requests!vars
  <1>2. CASE worker \in {"clear", "select"}
    <2>1. /\ Life \in {"running", "last"} /\ target = NoTarget
          /\ UNCHANGED <<running, owner, processes, scanned>>
      BY <1>2, WorkerAwaited DEF JobOnlyScanning, WorkerNext, SpuriousWake, LoopTest, LoopLocks,
         WaitPredicate, WaitBlocks, WaitTimeout, WaitRelocks, LoopCheck, LoopClears, Select,
         CopyRegion, ScanRegion, StoreRegion
    <2>2. CASE LoopClears /\ processes # <<>>
      BY <1>2, <2>1, <2>2 DEF LoopClears, Requests!vars
    <2>3. ASSUME pending' = FALSE, worker' \notin {"clear", "select"},
                 \/ Candidates = {} /\ UNCHANGED target
                 \/ \E t \in Candidates : Best(t) /\ target' = t
          PROVE  Requests!Next
      <3>1. \/ Requests!Regions = {} /\ UNCHANGED target
            \/ \E t \in Requests!Regions :
                   /\ target' = t
                   /\ \A u \in Requests!Regions : Requests!ScoreOf(u) <= Requests!ScoreOf(t)
        <4>1. ASSUME NEW t \in Candidates, Best(t), NEW u \in Candidates
              PROVE  Score(u) <= Score(t)
          <5>1. Score(u) \in Nat /\ Score(t) \in Nat
            BY CandidateType DEF IInv
          <5> QED
            BY <4>1, <5>1 DEF Best
        <4> QED
          BY <2>3, <4>1, SameRegions
      <3>2. Life' = IF Life = "last" THEN "ending" ELSE Life
        BY <2>1, <2>3
      <3> QED
        BY <2>1, <2>3, <3>1, <3>2 DEF Requests!Decide, Requests!NoJob, NoTarget, Requests!Next
    <2>4. CASE LoopClears /\ processes = <<>>
      <3>1. Candidates = {}
        BY <2>4, CandidatesDef
      <3> QED
        BY <2>3, <2>4, <3>1 DEF LoopClears
    <2>5. CASE Select
      BY <2>3, <2>5 DEF Select
    <2> QED
      BY <1>2, <2>2, <2>4, <2>5 DEF WorkerNext, SpuriousWake, LoopTest, LoopLocks,
         WaitPredicate, WaitBlocks, WaitTimeout, WaitRelocks, LoopCheck, CopyRegion, ScanRegion,
         StoreRegion
  <1>3. CASE StoreRegion
    <2>1. Life \in {"running", "ending"} /\ Life' = Life /\ target # NoTarget
      BY <1>3, WorkerAwaited, TargetIsJob DEF StoreRegion
    <2> QED
      BY <1>3, <2>1 DEF StoreRegion, Requests!Store, Requests!NoJob, NoTarget, Requests!Next
  <1> QED
    BY <1>1, <1>2, <1>3 DEF WorkerNext, LoopClears, Select

\* The scheduler implements what its owner relies on: requests are followed by a decision,
\* decisions take a best region, and stop lets at most one more scan happen.
THEOREM SchedulerImplementsRequests == Spec => ImplementsRequests
  <1>1. Init => Requests!Init
    BY DEF Init, Requests!Init, Life, Requests!NoJob, NoTarget
  <1>2. IInv /\ JobOnlyScanning /\ [Next]_vars => [Requests!Next]_Requests!vars
    <2>1. UNCHANGED vars => UNCHANGED Requests!vars
      BY DEF vars, Requests!vars, Life
    <2> QED
      BY <2>1, OwnerRefines, WorkerRefines DEF Next
  <1> QED
    BY <1>1, <1>2, Invariance, JobInvariant, PTL DEF Spec, ImplementsRequests, Requests!Spec
=============================================================================
