---------------------------- MODULE ScanRequests ----------------------------
(***************************************************************************)
(* What the owner of a ScanScheduler may rely on (user/scan_scheduler.h):  *)
(* a request is kept until a decision follows it, a decision takes a       *)
(* region of the best score, and a call of stop lets at most one more      *)
(* decision and one more result happen before it returns, and none after.  *)
(* There is no mutex, flag, notification or thread in it.                  *)
(***************************************************************************)
EXTENDS Naturals, Sequences

CONSTANTS
    Procs,   \* processes that may be added
    OptIn,   \* those with optIn set
    Scores   \* for each process the scores of its regions, in order

VARIABLES
    life,      \* "stopped", "running", or while stop is called "last" (a decision may
               \* still come) or "ending"
    pending,   \* a request no decision has followed yet
    list,      \* the processes added
    job,       \* the region being scanned
    scanned    \* the regions whose result was stored

vars == <<life, pending, list, job, scanned>>

NoJob == <<>>

Init == /\ life = "stopped" /\ pending = FALSE
        /\ list = <<>> /\ job = NoJob /\ scanned = {}

-----------------------------------------------------------------------------
(***************************************************************************)
(* The public methods.                                                     *)
(***************************************************************************)
Start == life = "stopped" /\ life' = "running" /\ UNCHANGED <<pending, list, job, scanned>>

Request == pending' = TRUE /\ UNCHANGED <<life, list, job, scanned>>

Add == /\ \E p \in Procs : list' = Append(list, p)
       /\ UNCHANGED <<life, pending, job, scanned>>

\* stop begins; whether the worker is past its last look at the flag is not for the owner
\* to say.
Stop == /\ life = "running" /\ life' \in {"last", "ending"}
        /\ UNCHANGED <<pending, list, job, scanned>>

StopReturns == /\ life = "ending" /\ job = NoJob
               /\ life' = "stopped"
               /\ UNCHANGED <<pending, list, job, scanned>>

-----------------------------------------------------------------------------
(***************************************************************************)
(* The scans.                                                              *)
(***************************************************************************)
Regions == UNION {{<<i, k>> : k \in DOMAIN Scores[list[i]]} :
                     i \in {j \in DOMAIN list : list[j] \in OptIn}}

ScoreOf(t) == Scores[list[t[1]]][t[2]]

\* A decision: a region with no better one, or none if there are none.
Decide ==
    /\ life \in {"running", "last"} /\ job = NoJob
    /\ \/ Regions = {} /\ UNCHANGED job
       \/ \E t \in Regions : job' = t /\ \A u \in Regions : ScoreOf(u) <= ScoreOf(t)
    /\ pending' = FALSE
    /\ life' = IF life = "last" THEN "ending" ELSE life
    /\ UNCHANGED <<list, scanned>>

Store ==
    /\ life \in {"running", "ending"} /\ job # NoJob
    /\ scanned' = scanned \cup {job} /\ job' = NoJob
    /\ UNCHANGED <<life, pending, list>>

Next == Start \/ Request \/ Add \/ Stop \/ StopReturns \/ Decide \/ Store

Spec == Init /\ [][Next]_vars
=============================================================================
