--------------------------- MODULE ScanScheduler ---------------------------
(***************************************************************************)
(* user/scan_scheduler.cpp: a worker thread that waits on a condition      *)
(* variable (at most 500 ms) and scans the best-scored region, and the     *)
(* thread that owns the scheduler and calls its public methods.            *)
(*                                                                         *)
(* workerLoop calls scanNextCandidate with the std::mutex locked, and      *)
(* scanNextCandidate locks it again.  That is undefined: the MSVC runtime  *)
(* lets the owner re-enter, a pthread mutex blocks it for ever.  The       *)
(* variable relock holds which of the two this build does.                 *)
(***************************************************************************)
EXTENDS Naturals, Sequences

CONSTANTS
    Procs,        \* processes that may be added
    OptIn,        \* those with optIn set
    Scores,       \* for each process the scores of its regions, in order
    MaxProcesses  \* bound on addProcess calls

ASSUME ProcsAssumption ==
    /\ OptIn \subseteq Procs /\ Scores \in [Procs -> Seq(Nat)] /\ MaxProcesses \in Nat

VARIABLES
    mutex,          \* "free" or "worker"; the owner's critical sections are single steps
    running,        \* atomic<bool>
    scanRequested,  \* atomic<bool>
    processes,      \* the process list
    scanned,        \* regions whose scan result was stored, as <<process, region>>
    target,         \* the region scanNextCandidate works on
    worker,         \* where the worker thread stands; "none" when there is no thread
    owner,          \* where the owner thread stands
    relock,         \* what locking a mutex one owns does: "reenters" or "blocks"
    pending         \* ghost: a request no scan has answered yet

vars == <<mutex, running, scanRequested, processes, scanned, target,
          worker, owner, relock, pending>>

NoTarget == <<>>

Init ==
    /\ mutex = "free"
    /\ running = FALSE /\ scanRequested = FALSE
    /\ processes = <<>> /\ scanned = {} /\ target = NoTarget
    /\ worker = "none" /\ owner = "idle"
    /\ relock \in {"reenters", "blocks"}
    /\ pending = FALSE

-----------------------------------------------------------------------------
(***************************************************************************)
(* The public methods, called by the owner.                                *)
(***************************************************************************)

\* start: nothing if it runs already, else a new worker thread.
start ==
    /\ owner = "idle" /\ ~running
    /\ running' = TRUE /\ worker' = "test"
    /\ UNCHANGED <<mutex, scanRequested, processes, scanned, target, owner, relock, pending>>

\* requestScan sets the flag and then notifies, both without the mutex.
requestScan ==
    /\ owner = "idle"
    /\ scanRequested' = TRUE /\ pending' = TRUE
    /\ owner' = "notifyOne"
    /\ UNCHANGED <<mutex, running, processes, scanned, target, worker, relock>>

\* stop (and the destructor): nothing if it does not run, else clear running ...
stop ==
    /\ owner = "idle" /\ running
    /\ running' = FALSE
    /\ owner' = "stopFlag"
    /\ UNCHANGED <<mutex, scanRequested, processes, scanned, target, worker, relock, pending>>

\* ... set the flag that the wait looks at ...
stopFlag ==
    /\ owner = "stopFlag"
    /\ scanRequested' = TRUE
    /\ owner' = "notifyAll"
    /\ UNCHANGED <<mutex, running, processes, scanned, target, worker, relock, pending>>

\* ... notify (the worker is woken only if it waits already) ...
notify ==
    /\ owner \in {"notifyOne", "notifyAll"}
    /\ worker' = IF worker = "waiting" THEN "notified" ELSE worker
    /\ owner' = IF owner = "notifyOne" THEN "idle" ELSE "join"
    /\ UNCHANGED <<mutex, running, scanRequested, processes, scanned, target, relock, pending>>

\* ... and join.
join ==
    /\ owner = "join" /\ worker = "done"
    /\ worker' = "none" /\ owner' = "idle"
    /\ UNCHANGED <<mutex, running, scanRequested, processes, scanned, target, relock, pending>>

\* addProcess and snapshotProcesses wait for the mutex first.
callLocked ==
    /\ owner = "idle"
    /\ \/ owner' = "snapshot"
       \/ owner' = "add" /\ Len(processes) < MaxProcesses
    /\ UNCHANGED <<mutex, running, scanRequested, processes, scanned, target, worker, relock, pending>>

addProcess ==
    /\ owner = "add" /\ mutex = "free"
    /\ \E p \in Procs : processes' = Append(processes, p)
    /\ owner' = "idle"
    /\ UNCHANGED <<mutex, running, scanRequested, scanned, target, worker, relock, pending>>

snapshotProcesses ==
    /\ owner = "snapshot" /\ mutex = "free"
    /\ owner' = "idle"
    /\ UNCHANGED <<mutex, running, scanRequested, processes, scanned, target, worker, relock, pending>>

OwnerReturns == stopFlag \/ notify \/ join \/ addProcess \/ snapshotProcesses

-----------------------------------------------------------------------------
(***************************************************************************)
(* workerLoop.                                                             *)
(***************************************************************************)
data == <<running, processes, scanned, owner, relock>>

LoopTest ==
    /\ worker = "test"
    /\ worker' = IF running THEN "lock" ELSE "done"
    /\ UNCHANGED <<mutex, scanRequested, target, pending, data>>

LoopLocks ==
    /\ worker = "lock" /\ mutex = "free"
    /\ mutex' = "worker" /\ worker' = "predicate"
    /\ UNCHANGED <<scanRequested, target, pending, data>>

\* The predicate of wait_for, evaluated with the mutex held; a notification that comes
\* after it and before the thread waits wakes nobody.
WaitPredicate ==
    /\ worker = "predicate"
    /\ worker' = IF scanRequested \/ ~running THEN "check" ELSE "wait"
    /\ UNCHANGED <<mutex, scanRequested, target, pending, data>>

WaitBlocks ==
    /\ worker = "wait"
    /\ mutex' = "free" /\ worker' = "waiting"
    /\ UNCHANGED <<scanRequested, target, pending, data>>

\* Mutant: wait_for without a time limit.
WaitNoTimeout == FALSE /\ UNCHANGED vars

\* The 500 ms are over.
WaitTimeout ==
    /\ worker = "waiting"
    /\ worker' = "timedOut"
    /\ UNCHANGED <<mutex, scanRequested, target, pending, data>>

\* A condition variable may wake without a notification.
SpuriousWake ==
    /\ worker = "waiting"
    /\ worker' = "notified"
    /\ UNCHANGED <<mutex, scanRequested, target, pending, data>>

\* The wait takes the mutex again: a woken thread looks at the predicate, one whose time
\* is up goes on whatever it says.
WaitRelocks ==
    /\ worker \in {"notified", "timedOut"} /\ mutex = "free"
    /\ mutex' = "worker"
    /\ worker' = IF worker = "notified" THEN "predicate" ELSE "check"
    /\ UNCHANGED <<scanRequested, target, pending, data>>

\* Mutant: no test of running after the wait.
LoopCheckSkips ==
    /\ worker = "check" /\ worker' = "clear"
    /\ UNCHANGED <<mutex, scanRequested, target, pending, data>>

LoopCheck ==
    /\ worker = "check"
    /\ IF running THEN worker' = "clear" /\ UNCHANGED mutex
                  ELSE worker' = "done" /\ mutex' = "free"
    /\ UNCHANGED <<scanRequested, target, pending, data>>

\* With an empty list there is nothing to scan and the request is done with.
LoopClears ==
    /\ worker = "clear"
    /\ scanRequested' = FALSE
    /\ IF processes = <<>>
       THEN worker' = "test" /\ mutex' = "free" /\ pending' = FALSE
       ELSE worker' = "select" /\ UNCHANGED <<mutex, pending>>
    /\ UNCHANGED <<target, data>>

-----------------------------------------------------------------------------
(***************************************************************************)
(* scanNextCandidate, with the mutex held by the caller.                   *)
(***************************************************************************)
Relocks == mutex = "free" \/ (mutex = "worker" /\ relock = "reenters")

\* Positions of the regions of opted-in processes.
Candidates == UNION {{<<i, k>> : k \in DOMAIN Scores[processes[i]]} :
                        i \in {j \in DOMAIN processes : processes[j] \in OptIn}}

Score(t) == Scores[processes[t[1]]][t[2]]

\* t comes before u in the order in which the two loops visit the regions.
Before(t, u) == t[1] < u[1] \/ (t[1] = u[1] /\ t[2] < u[2])

\* Mutant: >= in place of >, so the last of the best is kept.
BestIsLast(t) == \A u \in Candidates :
                    Score(u) < Score(t) \/ (Score(u) = Score(t) /\ ~Before(t, u))

\* A strictly greater score wins, so the first of the best is kept.
Best(t) == \A u \in Candidates :
              Score(u) < Score(t) \/ (Score(u) = Score(t) /\ ~Before(u, t))

\* Mutant: the optIn flag is not looked at.
SelectIgnoresOptIn ==
    /\ worker = "select" /\ Relocks
    /\ pending' = FALSE
    /\ \E i \in DOMAIN processes : target' = <<i, 1>>
    /\ worker' = "copy"
    /\ UNCHANGED <<mutex, scanRequested, data>>

\* The choice; workerLoop unlocks when there is no candidate.
Select ==
    /\ worker = "select" /\ Relocks
    /\ pending' = FALSE
    /\ \/ /\ Candidates = {}
          /\ worker' = "test" /\ mutex' = "free" /\ UNCHANGED target
       \/ /\ \E t \in Candidates : Best(t) /\ target' = t
          /\ worker' = "copy" /\ UNCHANGED mutex
    /\ UNCHANGED <<scanRequested, data>>

CopyRegion ==
    /\ worker = "copy" /\ Relocks
    /\ worker' = "scan"
    /\ UNCHANGED <<mutex, scanRequested, target, pending, data>>

\* engine.scanRegion on the copy.
ScanRegion ==
    /\ worker = "scan"
    /\ worker' = "store"
    /\ UNCHANGED <<mutex, scanRequested, target, pending, data>>

\* Mutant: the flag is cleared after the scan as well.
StoreClearsFlag ==
    /\ worker = "store" /\ Relocks
    /\ scanned' = scanned \cup {target}
    /\ target' = NoTarget /\ scanRequested' = FALSE
    /\ worker' = "test" /\ mutex' = "free"
    /\ UNCHANGED <<running, processes, owner, relock, pending>>

\* Mutant: the mutex stays locked after the iteration.
StoreKeepsLock ==
    /\ worker = "store" /\ Relocks
    /\ scanned' = scanned \cup {target}
    /\ target' = NoTarget /\ worker' = "test"
    /\ UNCHANGED <<mutex, running, scanRequested, processes, owner, relock, pending>>

\* The result goes back into the list, and the loop's lock ends with the iteration.
StoreRegion ==
    /\ worker = "store" /\ Relocks
    /\ scanned' = scanned \cup {target}
    /\ target' = NoTarget
    /\ worker' = "test" /\ mutex' = "free"
    /\ UNCHANGED <<running, scanRequested, processes, owner, relock, pending>>

WorkerNext ==
    \/ LoopTest \/ LoopLocks \/ WaitPredicate \/ WaitBlocks \/ WaitTimeout \/ WaitRelocks
    \/ LoopCheck \/ LoopClears \/ Select \/ CopyRegion \/ ScanRegion \/ StoreRegion

Next ==
    \/ start \/ requestScan \/ stop \/ callLocked
    \/ OwnerReturns
    \/ WorkerNext \/ SpuriousWake

Spec == Init /\ [][Next]_vars

\* Both threads run; a mutex that is free again and again is obtained; the deadline of
\* the wait is absolute, so spurious wakeups do not put it off for ever.
Fairness == SF_vars(WorkerNext) /\ SF_vars(OwnerReturns) /\ SF_vars(WaitTimeout)

LiveSpec == Spec /\ Fairness

-----------------------------------------------------------------------------
WorkerStates == {"none", "test", "lock", "predicate", "wait", "waiting", "notified",
                 "timedOut", "check", "clear", "select", "copy", "scan", "store", "done"}
OwnerStates  == {"idle", "notifyOne", "stopFlag", "notifyAll", "join", "add", "snapshot"}

\* The types of all variables.
TypeOK ==
    /\ mutex \in {"free", "worker"}
    /\ running \in BOOLEAN /\ scanRequested \in BOOLEAN /\ pending \in BOOLEAN
    /\ processes \in Seq(Procs)
    /\ scanned \subseteq Nat \X Nat
    /\ target \in (Nat \X Nat) \cup {NoTarget}
    /\ worker \in WorkerStates /\ owner \in OwnerStates
    /\ relock \in {"reenters", "blocks"}

\* A request is remembered until a selection made after it, although flag and
\* notification are not under the mutex and the worker clears the flag unasked.
RequestNotLost == pending => scanRequested \/ worker = "select"

\* When stop has returned (or start was never called) no worker is left, and no scan
\* result is stored after that.
StoppedIsQuiet == ~running /\ owner \in {"idle", "notifyOne", "add", "snapshot"}
                     => worker = "none"

\* The target of a running scan exists, though its index was taken three locks earlier.
TargetExists == worker \in {"copy", "scan", "store"} => target \in Candidates

\* No earlier region equals or beats t and no later one of the same process beats it.
Leader(t) == \A u \in Candidates : /\ Before(u, t) => Score(u) < Score(t)
                                   /\ Before(t, u) /\ t[1] = u[1] => Score(u) <= Score(t)

\* Scans do not rotate: a region that is not a leader is never scanned, however long
\* the scheduler runs and whatever processes are added.
OnlyLeadersScanned == \A t \in scanned : Leader(t)

\* The worker waits for the mutex it holds.
Stuck == mutex = "worker" /\ relock = "blocks" /\ worker \in {"select", "copy", "store"}

\* stop returns unless the worker is stuck, also when its notification wakes nobody.
StopReturns == owner \in {"stopFlag", "notifyAll", "join"} ~> owner = "idle" \/ Stuck

\* addProcess and snapshotProcesses get the mutex.
CallsReturn == owner \in {"add", "snapshot"} ~> owner = "idle" \/ Stuck

\* A request to a running scheduler leads to a scan decision, also when its wakeup is lost.
RequestAnswered == pending /\ running ~> ~pending \/ ~running \/ Stuck

-----------------------------------------------------------------------------
(***************************************************************************)
(* What TODO.md:56 says of the scheduler and the code does not do.         *)
(***************************************************************************)
\* "[x] Avoid holding the scan scheduler mutex while calling `engine.scanRegion()` to keep
\* scheduling responsive": addProcess and snapshotProcesses return, in every build.  The
\* worker has the mutex when it enters scanNextCandidate, so that its unlocked scan is
\* never reached: where a mutex blocks its owner the worker waits for itself.
SchedulingResponsive == owner \in {"add", "snapshot"} ~> owner = "idle"

-----------------------------------------------------------------------------
(***************************************************************************)
(* What makes them inductive (proofs: ScanSchedulerProofs).                *)
(***************************************************************************)
Scanning == worker \in {"copy", "scan", "store"}

\* In a build whose mutex blocks its owner no region is ever scanned.
NoScanIfBlocking == relock = "blocks" => scanned = {} /\ worker \notin {"copy", "scan", "store"}

\* The worker holds the mutex from the lock of its loop to the end of the iteration,
\* except while it waits.
LockHeld == mutex = "worker" <=> \/ worker \in {"predicate", "wait", "check", "clear", "select"}
                                 \/ Scanning

\* The region under work is a leader, and what was scanned is still in the list.
TargetLeads == /\ Scanning => target \in Candidates /\ Leader(target)
               /\ scanned \subseteq Candidates

-----------------------------------------------------------------------------
(***************************************************************************)
(* Refinement of ScanRequests.                                             *)
(***************************************************************************)
\* Once running is cleared, only a worker that has passed its test of it decides again.
Life == IF running THEN "running"
        ELSE IF owner \notin {"stopFlag", "notifyAll", "join"} THEN "stopped"
        ELSE IF worker \in {"clear", "select"} THEN "last" ELSE "ending"

Requests == INSTANCE ScanRequests
                WITH life <- Life, list <- processes, job <- target

\* The scheduler does what its owner may rely on: no request is dropped without a decision,
\* the best region is scanned, and stop ends after at most one more scan, whatever the
\* flags' and the notifications' timing.
ImplementsRequests == Requests!Spec
=============================================================================
