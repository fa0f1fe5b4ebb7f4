----------------------------- MODULE Controller -----------------------------
(***************************************************************************)
(* Runs of user/controller.cpp against the request handlers of             *)
(* driver/deduper.cpp.  Every client is one console in which the program   *)
(* is started again and again; the clients share the driver's ProcessTable.*)
(* The list request reads the number of processes without the mutex and    *)
(* copies their identifiers with it, so other clients come in between.     *)
(* Buffer lengths are counted in words of sizeof(ULONG_PTR).               *)
(***************************************************************************)
EXTENDS Naturals, FiniteSets

CONSTANTS
    Clients,
    Watching,      \* clients whose requests the ghost follows
    Pids,          \* process identifiers a user may name, the unparsable 0 excluded
    InitialSize,   \* words of the first list buffer: 8 in controller.cpp
    Requests       \* what each user may ask for, of which program: see AllRequests

Commands == {"optin", "optout", "stats", "list", "health", "drain"}
NoCommand == "usage"     \* no command or one the program does not know
NoPid == 0               \* the pid is missing, does not parse, or is 0

NeedsPid(r) == r.command \in {"optin", "optout"}

\* A command a user can type, and how the program that gets it was compiled: the access bits
\* in its control code for the command, and the fields of its DedupeDriverHealth (7 in
\* controller.cpp, 6 in driver_test.cpp).  Further arguments are ignored.
AllRequests == {r \in [command : Commands \cup {NoCommand}, pid : Pids \cup {NoPid},
                       access : 0 .. 2, healthSize : Nat] :
                   NeedsPid(r) \/ r.pid = NoPid}

-----------------------------------------------------------------------------
CTL_CODE(function, access) == 34 * 65536 + access * 16384 + function * 4

Function == [optin |-> 2048, optout |-> 2049, stats |-> 2050, list |-> 2051,
             health |-> 2052, drain |-> 2053]

\* FILE_READ_ACCESS is 1, FILE_WRITE_ACCESS is 2.
DriverAccess == [optin |-> 2, optout |-> 2, stats |-> 1, list |-> 1, health |-> 1, drain |-> 2]

DriverCode(command) == CTL_CODE(Function[command], DriverAccess[command])

ClientCode(r) == CTL_CODE(Function[r.command], r.access)

\* The program was not compiled with the driver's access bits for the command.
Foreign(r) == r.command \in Commands /\ r.access # DriverAccess[r.command]

ASSUME ClientsAssumption ==
    /\ Watching \subseteq Clients /\ Pids \subseteq Nat \ {NoPid} /\ IsFiniteSet(Pids)
    /\ InitialSize \in Nat \ {0} /\ Requests \in [Clients -> SUBSET AllRequests]

Statuses == {"SUCCESS", "BUFFER_OVERFLOW", "BUFFER_TOO_SMALL", "INVALID_DEVICE_REQUEST", "FAILED"}

VARIABLES
    processTable,  \* gDedupeContext.ProcessTable
    leaked,        \* gDedupeMutex was left owned by a drain
    pc, request,   \* where each client is, and what it was asked to do
    size,          \* words of the client's list buffer
    total,         \* totalProcesses of the list handler
    reply,         \* IoStatus of the last request, and the words a list reply holds
    exit,          \* exit code of the last run
    overrun,       \* running programs that got a reply longer than their buffer
    watch          \* ghost: the table when the request was sent, and what came and went since

client == <<pc, request, size, exit, overrun>>
vars == <<processTable, leaked, client, total, reply, watch>>

NoReply == [status |-> "FAILED", information |-> 0, ids |-> {}, garbage |-> 0]
Unseen  == [start |-> {}, joined |-> {}, left |-> {}]

Init ==
    /\ processTable = {} /\ leaked = FALSE
    /\ pc = [c \in Clients |-> "idle"]
    /\ request = [c \in Clients |-> [command |-> NoCommand, pid |-> NoPid,
                                     access |-> 0, healthSize |-> 0]]
    /\ size = [c \in Clients |-> InitialSize] /\ overrun = {}
    /\ total = [c \in Clients |-> 0] /\ reply = [c \in Clients |-> NoReply]
    /\ exit = [c \in Clients |-> 1]
    /\ watch = [c \in Clients |-> Unseen]

-----------------------------------------------------------------------------
\* Return from wmain.  The device is closed here at the latest, by CloseHandle on each way
\* out or else by the end of the process, so which of them did it is not modelled.
Exit(c, code) ==
    /\ pc' = [pc EXCEPT ![c] = "idle"] /\ exit' = [exit EXCEPT ![c] = code]
    /\ overrun' = overrun \ {c}

\* wmain is entered: usage errors end it.
Start(c, r) ==
    /\ pc[c] = "idle"
    /\ request' = [request EXCEPT ![c] = r]
    /\ size' = [size EXCEPT ![c] = InitialSize]
    /\ reply' = [reply EXCEPT ![c] = NoReply] /\ watch' = [watch EXCEPT ![c] = Unseen]
    /\ IF r.command = NoCommand
       THEN Exit(c, 1)
       ELSE pc' = [pc EXCEPT ![c] = "open"] /\ UNCHANGED <<exit, overrun>>
    /\ UNCHANGED <<processTable, leaked, total>>

\* CreateFileW, which may fail, and the check of the identifier.
OpenDevice(c) ==
    /\ pc[c] = "open"
    /\ \/ Exit(c, 1)
       \/ /\ ~(NeedsPid(request[c]) /\ request[c].pid = NoPid)
          /\ pc' = [pc EXCEPT ![c] = "send"] /\ UNCHANGED <<exit, overrun>>
    /\ UNCHANGED <<processTable, leaked, request, size, total, reply, watch>>

-----------------------------------------------------------------------------
\* The request completes.
Complete(c, status, information) ==
    /\ reply' = [reply EXCEPT ![c] = [NoReply EXCEPT !.status = status,
                                                     !.information = information]]
    /\ pc' = [pc EXCEPT ![c] = "reply"]
    /\ UNCHANGED <<request, size, exit, overrun>>

\* The ghosts of the clients whose request is being served or was served see what the step
\* did to the table; c's own starts with this step.
Watched(c) ==
    [d \in Clients |->
        LET seen == IF d = c THEN [Unseen EXCEPT !.start = processTable] ELSE watch[d]
        IN  IF \/ d \notin Watching
               \/ d # c /\ (pc[d] \in {"open", "send", "hung"} \/ (pc[d] = "idle" /\ exit[d] = 1))
            THEN Unseen
            ELSE [seen EXCEPT !.joined = @ \cup (processTable' \ processTable),
                              !.left   = @ \cup (processTable \ processTable')]]

\* DriverDeviceControl with a code it has a case for.
Dispatched(c, command) ==
    /\ pc[c] = "send" /\ request[c].command = command
    /\ ClientCode(request[c]) = DriverCode(command)

\* The default case.
UnknownCode(c) ==
    /\ pc[c] = "send"
    /\ ClientCode(request[c]) \notin {DriverCode(k) : k \in Commands}
    /\ Complete(c, "INVALID_DEVICE_REQUEST", 0)
    /\ UNCHANGED processTable
    /\ watch' = Watched(c)
    /\ UNCHANGED <<leaked, total>>

\* RegisterOptInProcess: enters the identifier, or refuses it (no such process, policy,
\* no memory).
Register(c) ==
    /\ Dispatched(c, "optin")
    /\ \/ /\ ~leaked
          /\ processTable' = processTable \cup {request[c].pid}
          /\ Complete(c, "SUCCESS", 0)
       \/ /\ processTable' = processTable
          /\ Complete(c, "FAILED", 0)
    /\ watch' = Watched(c)
    /\ UNCHANGED <<leaked, total>>

\* UnregisterOptInProcess.
Unregister(c) ==
    /\ Dispatched(c, "optout") /\ ~leaked
    /\ processTable' = processTable \ {request[c].pid}
    /\ Complete(c, IF request[c].pid \in processTable THEN "SUCCESS" ELSE "FAILED", 0)
    /\ watch' = Watched(c)
    /\ UNCHANGED <<leaked, total>>

\* QueryDedupeStats and QueryDedupeHealth; the client's structure must be large enough.
Query(c) ==
    /\ \/ Dispatched(c, "stats") /\ ~leaked /\ Complete(c, "SUCCESS", 3)
       \/ Dispatched(c, "health") /\ ~leaked /\ request[c].healthSize >= 7 /\ Complete(c, "SUCCESS", 7)
       \/ Dispatched(c, "health") /\ request[c].healthSize < 7 /\ Complete(c, "BUFFER_TOO_SMALL", 0)
    /\ UNCHANGED processTable
    /\ watch' = Watched(c)
    /\ UNCHANGED <<leaked, total>>

\* DrainDedupeState as seen from outside (RamDedupeDriver has the inside): it completes, and
\* may leave the mutex owned, or it waits for the mutex it left owned itself.
Drain(c) ==
    /\ Dispatched(c, "drain")
    /\ \/ leaked' \in {leaked, TRUE} /\ Complete(c, "SUCCESS", 0)
       \/ /\ leaked' = TRUE /\ pc' = [pc EXCEPT ![c] = "hung"]
          /\ UNCHANGED <<request, size, exit, overrun, reply>>
    /\ UNCHANGED <<processTable, total>>
    /\ watch' = Watched(c)

\* ListOptedInProcesses reads the number of processes, without the mutex.  The early return
\* for a buffer of less than a word is not reachable: the client's buffer has InitialSize
\* words and only grows.
ListCounts(c) ==
    /\ Dispatched(c, "list")
    /\ total' = [total EXCEPT ![c] = Cardinality(processTable)]
    /\ pc' = [pc EXCEPT ![c] = "fill"]
    /\ UNCHANGED processTable
    /\ watch' = Watched(c)
    /\ UNCHANGED <<leaked, request, size, exit, overrun, reply>>

\* The n lowest identifiers: the table is enumerated in ascending order.
Lowest(S, n) == {p \in S : Cardinality({q \in S : q < p}) < n}

\* Mutant: the count is not accounted for.
RequiredEntries(n) == n

\* requiredBytes, in words: the count and the identifiers.
Required(n) == n + 1

\* Mutant: the buffer is reported to be full.
ListFillsAll(c) ==
    LET words == size[c] - 1 IN
    /\ pc[c] = "fill" /\ ~leaked
    /\ reply' = [reply EXCEPT ![c] =
          [status      |-> IF size[c] < Required(total[c]) THEN "BUFFER_OVERFLOW" ELSE "SUCCESS",
           information |-> Required(total[c]),
           ids         |-> Lowest(processTable, words),
           garbage     |-> IF Cardinality(processTable) < words
                           THEN words - Cardinality(processTable) ELSE 0]]
    /\ pc' = [pc EXCEPT ![c] = "reply"]
    /\ total' = [total EXCEPT ![c] = 0]
    /\ overrun' = overrun \cup {d \in {c} : size[d] < Required(total[d])}
    /\ UNCHANGED <<processTable, leaked, request, size, exit, watch>>

\* ... and then copies the identifiers that fit, with it.  The client prints as many words as
\* the count says; words the handler did not fill are what the system buffer held before.
\* BUFFER_OVERFLOW is a warning, so the I/O manager copies the information bytes the handler
\* names, past the end of the system buffer and into the heap behind the client's buffer.
\* (Or the copy stops the machine; a behaviour of the model ends there.)
ListFills(c) ==
    LET words == IF total[c] <= size[c] - 1 THEN total[c] ELSE size[c] - 1 IN
    /\ pc[c] = "fill" /\ ~leaked
    /\ reply' = [reply EXCEPT ![c] =
          [status      |-> IF size[c] < Required(total[c]) THEN "BUFFER_OVERFLOW" ELSE "SUCCESS",
           information |-> Required(total[c]),
           ids         |-> Lowest(processTable, words),
           garbage     |-> IF Cardinality(processTable) < words
                           THEN words - Cardinality(processTable) ELSE 0]]
    /\ pc' = [pc EXCEPT ![c] = "reply"]
    /\ total' = [total EXCEPT ![c] = 0]
    /\ overrun' = overrun \cup {d \in {c} : size[d] < Required(total[d])}
    /\ UNCHANGED <<processTable, leaked, request, size, exit, watch>>

-----------------------------------------------------------------------------
Retries(c) == /\ request[c].command = "list"
              /\ reply[c].status \in {"BUFFER_OVERFLOW", "BUFFER_TOO_SMALL"}
              /\ reply[c].information > 0

\* Mutants: room for the identifiers only; more room than was asked for.
nextSizeEntries(c) == reply[c].information - 1
nextSizeDoubled(c) == 2 * reply[c].information

\* The size of the next buffer: what the driver asked for, or twice as much as before.
nextSize(c) == IF reply[c].information <= size[c] THEN 2 * size[c] ELSE reply[c].information

\* The list command retries with a larger buffer.
Retry(c) ==
    /\ pc[c] = "reply" /\ Retries(c)
    /\ size' = [size EXCEPT ![c] = nextSize(c)]
    /\ pc' = [pc EXCEPT ![c] = "send"]
    /\ UNCHANGED <<processTable, leaked, request, total, reply, exit, overrun, watch>>

\* Mutant: success is not looked at.
ReportsSuccess(c) ==
    /\ pc[c] = "reply" /\ ~Retries(c)
    /\ Exit(c, 0)
    /\ UNCHANGED <<processTable, leaked, request, size, total, reply, watch>>

\* Any other answer is printed and ends the program.
Report(c) ==
    /\ pc[c] = "reply" /\ ~Retries(c)
    /\ Exit(c, IF /\ reply[c].status = "SUCCESS"
                  /\ request[c].command = "list" => reply[c].information >= 1
               THEN 0 ELSE 1)
    /\ UNCHANGED <<processTable, leaked, request, size, total, reply, watch>>

\* A program whose heap was overwritten may end when it next runs, which is not with exit
\* code 0, or go on: wmain keeps nothing but the buffer there.
Crash(c) ==
    /\ pc[c] = "reply" /\ c \in overrun
    /\ Exit(c, 1)
    /\ UNCHANGED <<processTable, leaked, request, size, total, reply, watch>>

Handler(c) == \/ UnknownCode(c) \/ Register(c) \/ Unregister(c) \/ Query(c) \/ Drain(c)
              \/ ListCounts(c) \/ ListFills(c)

Step(c) == OpenDevice(c) \/ Handler(c) \/ Retry(c) \/ Report(c) \/ Crash(c)

Next == \E c \in Clients : Step(c) \/ \E r \in Requests[c] : Start(c, r)

Spec == Init /\ [][Next]_vars

\* A started program runs on whenever it can; nobody has to start one.
LiveSpec == Spec /\ \A c \in Clients : WF_vars(Step(c))

-----------------------------------------------------------------------------
\* The types of all variables.
TypeOK ==
    /\ processTable \subseteq Pids /\ leaked \in BOOLEAN
    /\ pc \in [Clients -> {"idle", "open", "send", "fill", "reply", "hung"}]
    /\ request \in [Clients -> AllRequests]
    /\ overrun \subseteq Clients /\ size \in [Clients -> Nat \ {0}]
    /\ total \in [Clients -> Nat]
    /\ reply \in [Clients -> [status : Statuses, information : Nat, ids : SUBSET Pids, garbage : Nat]]
    /\ exit \in [Clients -> {0, 1}]
    /\ watch \in [Clients -> [start : SUBSET Pids, joined : SUBSET Pids, left : SUBSET Pids]]

\* The list command will print the reply.
Listed(c) == /\ pc[c] = "reply" /\ request[c].command = "list"
             /\ reply[c].status = "SUCCESS"

\* Whoever opts in or out while the request is served: an identifier that is printed was
\* opted in at some time since, and no more words of garbage are printed than processes left.
ListSound ==
    \A c \in Watching : Listed(c) =>
        /\ reply[c].ids \subseteq watch[c].start \cup watch[c].joined
        /\ reply[c].garbage <= Cardinality(watch[c].left)

\* The buffer the command ends up with is large enough: a process that was opted in
\* throughout is missed only if one with a lower identifier joined while the request was
\* served, and took its place.
ListComplete ==
    \A c \in Watching : Listed(c) =>
        \A p \in watch[c].start \ (watch[c].left \cup reply[c].ids) :
            \E q \in watch[c].joined : q < p

\* However the table changes between the attempts, the buffer never gets larger than the
\* list of all processes needs; in particular it is never doubled.
BufferBounded ==
    \A c \in Clients : size[c] <= InitialSize \/ size[c] <= Cardinality(Pids) + 1

\* Exit code 0 of optin and optout is true until another client changes it: the process is
\* in the table, or not, unless it came or went since the request was sent.
ExitTruthful ==
    \A c \in Watching : pc[c] = "idle" /\ exit[c] = 0 =>
        /\ request[c].command = "optin" =>
              request[c].pid \in processTable \/ request[c].pid \in watch[c].left
        /\ request[c].command = "optout" =>
              request[c].pid \notin processTable \/ request[c].pid \in watch[c].joined

\* Every started command ends, the list command too however often the others change the
\* table under it, unless a drain left the mutex owned.
CommandsEnd == \A c \in Clients : pc[c] # "idle" ~> pc[c] = "idle" \/ leaked

-----------------------------------------------------------------------------
(***************************************************************************)
(* What the repository's documents say and the code does not do.           *)
(***************************************************************************)

\* README.md:42-51 and TODO.md:62 have the commands served.  With the control codes of
\* controller.cpp:6-11, FILE_ANY_ACCESS for every command, none of them is: no list is begun,
\* no drain is executed, and the program ends with exit code 1.
NothingServed ==
    \A c \in Clients : Foreign(request[c]) =>
        pc[c] \notin {"fill", "hung"} /\ (pc[c] = "idle" => exit[c] = 1)
=============================================================================
