-------------------------- MODULE ControllerProofs --------------------------
(***************************************************************************)
(* Proofs about Controller for any number of clients and processes and any *)
(* control codes.  The inductive invariant is a predicate of one client:   *)
(* its own steps establish it, and the steps of the others, seen by its    *)
(* ghost, keep it.                                                         *)
(***************************************************************************)
EXTENDS Controller, FiniteSetTheorems, TLAPS

\* A request being served began when the table was start, and what came and went since is
\* known.
Followed(d) == /\ watch[d].start \ watch[d].left \subseteq processTable
               /\ processTable \subseteq watch[d].start \cup watch[d].joined

\* A list request between its two parts, and one that was answered.
Filling(d) == pc[d] = "fill" =>
    /\ request[d].command = "list" /\ total[d] <= Cardinality(Pids)
    /\ d \in Watching => total[d] = Cardinality(watch[d].start) /\ Followed(d)

Answered(d) == pc[d] = "reply" /\ request[d].command = "list" =>
    /\ reply[d].status # "BUFFER_TOO_SMALL"
    /\ reply[d].status = "BUFFER_OVERFLOW" =>
          size[d] < reply[d].information /\ reply[d].information <= Cardinality(Pids) + 1

Sound(d) == d \in Watching /\ Listed(d) =>
    /\ reply[d].ids \subseteq watch[d].start \cup watch[d].joined
    /\ reply[d].garbage <= Cardinality(watch[d].left)

CompleteList(d) == d \in Watching /\ Listed(d) =>
    \A p \in watch[d].start \ (watch[d].left \cup reply[d].ids) :
        \E q \in watch[d].joined : q < p

\* The request succeeded, or the run that sent it did.
Succeeded(d) == \/ pc[d] = "reply" /\ reply[d].status = "SUCCESS"
                \/ pc[d] = "idle" /\ exit[d] = 0

Truthful(d) == d \in Watching /\ Succeeded(d) =>
    /\ request[d].command = "optin" => request[d].pid \in processTable \cup watch[d].left
    /\ request[d].command = "optout" => request[d].pid \notin processTable \ watch[d].joined

\* A request the driver does not know succeeds nowhere.
Refused(d) == Foreign(request[d]) => pc[d] \notin {"fill", "hung"} /\ ~Succeeded(d)

Bounded(d) == size[d] <= InitialSize \/ size[d] <= Cardinality(Pids) + 1

\* Only a request with an identifier is sent.
Sent(d) == /\ pc[d] \in {"open", "send"} => request[d].command \in Commands
           /\ pc[d] = "send" /\ NeedsPid(request[d]) => request[d].pid \in Pids

ClientInv(d) == /\ Bounded(d) /\ Sent(d) /\ Filling(d) /\ Answered(d)
                /\ Sound(d) /\ CompleteList(d) /\ Truthful(d) /\ Refused(d)

IInv == TypeOK /\ \A d \in Clients : ClientInv(d)

-----------------------------------------------------------------------------
\* A step of another client leaves d's own state alone ...
SameLocal(d) == /\ pc'[d] = pc[d] /\ request'[d] = request[d] /\ size'[d] = size[d]
                /\ exit'[d] = exit[d] /\ total'[d] = total[d] /\ reply'[d] = reply[d]

\* ... and d's ghost sees what it did to the table.
Seen(d) == d \in Watching /\ (pc[d] \in {"fill", "reply"} \/ (pc[d] = "idle" /\ exit[d] = 0)) =>
    /\ watch'[d].start = watch[d].start
    /\ watch'[d].joined = watch[d].joined \cup (processTable' \ processTable)
    /\ watch'[d].left = watch[d].left \cup (processTable \ processTable')

\* Sets of identifiers are finite and no larger than the set of all of them.
LEMMA PidSets ==
    /\ Cardinality(Pids) \in Nat
    /\ \A S \in SUBSET Pids : /\ IsFiniteSet(S) /\ Cardinality(S) \in Nat
                              /\ Cardinality(S) <= Cardinality(Pids)
    /\ \A S \in SUBSET Pids : \A T \in SUBSET S : Cardinality(T) <= Cardinality(S)
    /\ \A S \in SUBSET Pids : \A T \in SUBSET S : T # S => Cardinality(T) < Cardinality(S)
  <1>1. \A S \in SUBSET Pids : IsFiniteSet(S)
    BY ClientsAssumption, FS_Subset
  <1>2. \A S \in SUBSET Pids : \A T \in SUBSET S :
           Cardinality(T) <= Cardinality(S) /\ (Cardinality(S) = Cardinality(T) => S = T)
    BY <1>1, FS_Subset
  <1>3. \A S \in SUBSET Pids : Cardinality(S) \in Nat
    BY <1>1, FS_CardinalityType
  <1> QED
    BY <1>1, <1>2, <1>3

\* A control code tells the access bits: the driver knows none that it was not built with.
LEMMA KnownCode ==
    ASSUME NEW r \in AllRequests, r.command \in Commands, ClientCode(r) = DriverCode(r.command)
    PROVE  ~Foreign(r)
  <1>1. r.access \in Nat /\ DriverAccess[r.command] \in Nat /\ Function[r.command] \in Nat
    BY DEF AllRequests, DriverAccess, Function, Commands
  <1>2. ASSUME NEW f \in Nat, NEW a \in Nat, NEW b \in Nat, CTL_CODE(f, a) = CTL_CODE(f, b)
        PROVE  a = b
    BY <1>2 DEF CTL_CODE
  <1> QED
    BY <1>1, <1>2 DEF ClientCode, DriverCode, Foreign

\* With room for all, the lowest identifiers are all identifiers.
LEMMA LowestAll ==
    ASSUME NEW S \in SUBSET Pids, NEW n \in Nat
    PROVE  /\ Lowest(S, n) \subseteq S
           /\ Cardinality(S) <= n => Lowest(S, n) = S
  <1>1. ASSUME NEW p \in S, Cardinality(S) <= n
        PROVE  Cardinality({q \in S : q < p}) < n
    <2> DEFINE T == {q \in S : q < p}
    <2>1. T \in SUBSET S /\ T # S
      BY ClientsAssumption
    <2>2. Cardinality(T) < Cardinality(S) /\ Cardinality(S) \in Nat /\ Cardinality(T) \in Nat
      BY <2>1, PidSets
    <2> QED
      BY <1>1, <2>2
  <1> QED
    BY <1>1 DEF Lowest

\* A union has no more elements than its parts together.
LEMMA UnionSize ==
    ASSUME NEW S \in SUBSET Pids, NEW T \in SUBSET Pids
    PROVE  Cardinality(S \cup T) <= Cardinality(S) + Cardinality(T)
  <1>1. IsFiniteSet(S) /\ IsFiniteSet(T) /\ Cardinality(S) \in Nat /\ Cardinality(T) \in Nat
    BY PidSets
  <1>2. Cardinality(S \cup T) = Cardinality(S) + Cardinality(T) - Cardinality(S \cap T)
    BY <1>1, FS_Union
  <1>3. S \cap T \in SUBSET Pids
    OBVIOUS
  <1>4. Cardinality(S \cap T) \in Nat
    BY ONLY <1>3, PidSets
  <1> QED
    BY ONLY <1>1, <1>2, <1>4

\* What another client's step keeps.
LEMMA OthersKeep ==
    ASSUME TypeOK, TypeOK', NEW d \in Clients, ClientInv(d), SameLocal(d), Seen(d)
    PROVE  ClientInv(d)'
  <1>1. Bounded(d)' /\ Sent(d)' /\ Answered(d)'
    BY DEF ClientInv, SameLocal, Bounded, Sent, Answered, NeedsPid
  <1>2. Filling(d)'
    BY DEF ClientInv, SameLocal, Seen, Filling, Followed
  <1>3. Sound(d)'
    <2>1. ASSUME d \in Watching, Listed(d)'
          PROVE  Listed(d) /\ Cardinality(watch[d].left) <= Cardinality(watch'[d].left)
      <3>1. Listed(d) /\ watch[d].left \in SUBSET watch'[d].left
        BY <2>1 DEF SameLocal, Seen, Listed
      <3>2. watch'[d].left \in SUBSET Pids
        BY DEF TypeOK
      <3> QED
        BY ONLY <3>1, <3>2, PidSets
    <2>2. ASSUME d \in Watching
          PROVE  /\ Cardinality(watch[d].left) \in Nat /\ Cardinality(watch'[d].left) \in Nat
                 /\ reply[d].garbage \in Nat
      BY <2>2, PidSets DEF TypeOK
    <2> QED
      BY <2>1, <2>2 DEF ClientInv, SameLocal, Seen, Sound, Listed
  <1>6. CompleteList(d)'
    BY DEF ClientInv, SameLocal, Seen, CompleteList, Listed
  <1>4. Truthful(d)'
    BY DEF ClientInv, SameLocal, Seen, Truthful, Succeeded
  <1>5. Refused(d)'
    BY DEF ClientInv, SameLocal, Refused, Succeeded
  <1> QED
    BY ONLY <1>1, <1>2, <1>3, <1>4, <1>5, <1>6 DEF ClientInv

\* Updating the ghosts.
LEMMA WatchedSees ==
    ASSUME TypeOK, NEW c \in Clients, watch' = Watched(c), processTable' \subseteq Pids
    PROVE  /\ watch' \in [Clients -> [start : SUBSET Pids, joined : SUBSET Pids, left : SUBSET Pids]]
           /\ \A d \in Clients : d # c => Seen(d)
           /\ c \in Watching => /\ watch'[c].start = processTable
                                /\ watch'[c].joined = processTable' \ processTable
                                /\ watch'[c].left = processTable \ processTable'
  <1>1. /\ processTable \subseteq Pids
        /\ watch \in [Clients -> [start : SUBSET Pids, joined : SUBSET Pids, left : SUBSET Pids]]
    BY DEF TypeOK
  <1>2. \A d \in Clients : watch'[d] \in [start : SUBSET Pids, joined : SUBSET Pids, left : SUBSET Pids]
    BY <1>1 DEF Watched, Unseen
  <1>3. watch' = [d \in Clients |-> watch'[d]]
    BY DEF Watched
  <1>4. ASSUME NEW d \in Clients, d # c PROVE Seen(d)
    <2> SUFFICES ASSUME d \in Watching, pc[d] \in {"fill", "reply"} \/ (pc[d] = "idle" /\ exit[d] = 0)
                 PROVE  /\ watch'[d].start = watch[d].start
                        /\ watch'[d].joined = watch[d].joined \cup (processTable' \ processTable)
                        /\ watch'[d].left = watch[d].left \cup (processTable \ processTable')
      BY DEF Seen
    <2>1. ~(pc[d] \in {"open", "send", "hung"} \/ (pc[d] = "idle" /\ exit[d] = 1))
      OBVIOUS
    <2>2. watch'[d] = [watch[d] EXCEPT !.joined = @ \cup (processTable' \ processTable),
                                       !.left   = @ \cup (processTable \ processTable')]
      BY <1>4, <2>1 DEF Watched
    <2>3. watch[d] \in [start : SUBSET Pids, joined : SUBSET Pids, left : SUBSET Pids]
      BY <1>1
    <2> QED
      BY ONLY <2>2, <2>3
  <1>5. c \in Watching => /\ watch'[c].start = processTable
                          /\ watch'[c].joined = processTable' \ processTable
                          /\ watch'[c].left = processTable \ processTable'
    BY <1>1 DEF Watched, Unseen
  <1> QED
    BY ONLY <1>2, <1>3, <1>4, <1>5

\* If the ghosts of the others are not touched, the table is not either.
LEMMA UntouchedSees ==
    ASSUME TypeOK, NEW c \in Clients, processTable' = processTable,
           \A d \in Clients : d # c => watch'[d] = watch[d]
    PROVE  \A d \in Clients : d # c => Seen(d)
  BY DEF Seen, TypeOK

\* A request that is dispatched is not foreign.
LEMMA DispatchedKnown ==
    ASSUME TypeOK, NEW c \in Clients, NEW k \in Commands, Dispatched(c, k)
    PROVE  ~Foreign(request[c])
  <1>1. request[c] \in AllRequests
    BY DEF TypeOK
  <1> QED
    BY <1>1, KnownCode DEF Dispatched

\* A reply without identifiers.
LEMMA CompleteFacts ==
    ASSUME TypeOK, NEW c \in Clients, NEW status \in Statuses, NEW n \in Nat, Complete(c, status, n)
    PROVE  /\ pc' = [pc EXCEPT ![c] = "reply"] /\ UNCHANGED <<request, size, exit, overrun>>
           /\ reply' \in [Clients -> [status : Statuses, information : Nat, ids : SUBSET Pids, garbage : Nat]]
           /\ reply'[c].status = status
           /\ \A d \in Clients : d # c => reply'[d] = reply[d]
  <1>1. [NoReply EXCEPT !.status = status, !.information = n]
           \in [status : Statuses, information : Nat, ids : SUBSET Pids, garbage : Nat]
    BY DEF NoReply, Statuses
  <1>2. [NoReply EXCEPT !.status = status, !.information = n].status = status
    BY DEF NoReply
  <1> QED
    BY <1>1, <1>2 DEF TypeOK, Complete

\* The step of c keeps the invariant if it keeps the types, leaves the others alone and
\* establishes c's own part.
LEMMA OwnStep ==
    ASSUME IInv, TypeOK', NEW c \in Clients, ClientInv(c)',
           \A d \in Clients : d # c => SameLocal(d) /\ Seen(d)
    PROVE  IInv'
  BY OthersKeep DEF IInv
-----------------------------------------------------------------------------
\* Nothing is running at first.
LEMMA InitIInv == Init => IInv
  <1> SUFFICES ASSUME Init PROVE IInv
    OBVIOUS
  <1>1. TypeOK
    <2>1. /\ [command |-> NoCommand, pid |-> NoPid, access |-> 0, healthSize |-> 0] \in AllRequests
          /\ NoReply \in [status : Statuses, information : Nat, ids : SUBSET Pids, garbage : Nat]
          /\ Unseen \in [start : SUBSET Pids, joined : SUBSET Pids, left : SUBSET Pids]
      BY DEF AllRequests, NeedsPid, NoCommand, NoReply, Unseen, Statuses
    <2> QED
      BY <2>1, ClientsAssumption DEF Init, TypeOK
  <1>2. \A d \in Clients : ClientInv(d)
    BY ClientsAssumption DEF Init, ClientInv, Bounded, Sent, Filling, Answered, Sound, CompleteList, Listed,
           Truthful, Refused, Succeeded
  <1> QED
    BY <1>1, <1>2 DEF IInv

\* wmain begins.
LEMMA StartKeeps ==
    ASSUME IInv, NEW c \in Clients, NEW r \in Requests[c], Start(c, r)
    PROVE  IInv'
  <1>1. /\ TypeOK /\ ClientInv(c) /\ pc[c] = "idle"
    BY DEF IInv, ClientInv, Start
  <1>r. r \in AllRequests
    BY ClientsAssumption
  <1>2. TypeOK'
    <2>1. /\ NoReply \in [status : Statuses, information : Nat, ids : SUBSET Pids, garbage : Nat]
          /\ Unseen \in [start : SUBSET Pids, joined : SUBSET Pids, left : SUBSET Pids]
      BY DEF NoReply, Unseen, Statuses
    <2> QED
      BY <1>1, <1>r, <2>1, ClientsAssumption DEF TypeOK, Start, Exit
  <1>3. \A d \in Clients : d # c => SameLocal(d) /\ Seen(d)
    BY <1>1 DEF TypeOK, Start, Exit, SameLocal, Seen
  <1>4. /\ size'[c] = InitialSize
        /\ \/ pc'[c] = "open" /\ r.command # NoCommand
           \/ pc'[c] = "idle" /\ exit'[c] = 1
        /\ request'[c] = r
    BY <1>1 DEF TypeOK, Start, Exit
  <1>5. ClientInv(c)'
    <2>1. r.command # NoCommand => r.command \in Commands
      BY <1>r DEF AllRequests
    <2>2. Bounded(c)' /\ Sent(c)'
      BY ONLY <1>4, <2>1, ClientsAssumption DEF Bounded, Sent
    <2>3. /\ Filling(c)' /\ Answered(c)' /\ Sound(c)' /\ CompleteList(c)' /\ Truthful(c)'
          /\ Refused(c)'
      BY ONLY <1>4 DEF Filling, Answered, Sound, CompleteList, Listed, Truthful, Succeeded, Refused
    <2> QED
      BY ONLY <2>2, <2>3 DEF ClientInv
  <1> QED
    BY ONLY <1>2, <1>3, <1>5, OwnStep, IInv

\* The device is opened, or not.
LEMMA OpenKeeps ==
    ASSUME IInv, NEW c \in Clients, OpenDevice(c)
    PROVE  IInv'
  <1>1. /\ TypeOK /\ ClientInv(c) /\ pc[c] = "open"
    BY DEF IInv, ClientInv, OpenDevice
  <1>2. TypeOK'
    BY <1>1 DEF TypeOK, OpenDevice, Exit
  <1>3. \A d \in Clients : d # c => SameLocal(d) /\ Seen(d)
    BY <1>1 DEF TypeOK, OpenDevice, Exit, SameLocal, Seen
  <1>4. /\ request'[c] = request[c] /\ size'[c] = size[c]
        /\ \/ pc'[c] = "idle" /\ exit'[c] = 1
           \/ pc'[c] = "send" /\ ~(NeedsPid(request[c]) /\ request[c].pid = NoPid)
    BY <1>1 DEF TypeOK, OpenDevice, Exit
  <1> QED
    <2>1. Bounded(c)'
      BY <1>1, <1>4 DEF ClientInv, Bounded
    <2>2. Sent(c)'
      <3>1. request[c] \in AllRequests /\ request[c].command \in Commands
        BY <1>1 DEF ClientInv, Sent, TypeOK
      <3> QED
        BY <1>4, <3>1 DEF Sent, AllRequests, NeedsPid
    <2>3. /\ Filling(c)' /\ Answered(c)' /\ Sound(c)' /\ CompleteList(c)' /\ Truthful(c)'
          /\ Refused(c)'
      BY ONLY <1>4 DEF Filling, Answered, Sound, CompleteList, Listed, Truthful, Succeeded, Refused
    <2>4. ClientInv(c)'
      BY ONLY <2>1, <2>2, <2>3 DEF ClientInv
    <2> QED
      BY ONLY <1>2, <1>3, <2>4, OwnStep, IInv, ClientsAssumption
\* A request that is not a list is answered in the step that serves it.
LEMMA ServedKeeps ==
    ASSUME IInv, NEW c \in Clients, pc[c] = "send", NEW status \in Statuses, NEW n \in Nat,
           Complete(c, status, n), watch' = Watched(c), processTable' \subseteq Pids,
           leaked' \in BOOLEAN, total' = total,
           request[c].command = "list" => status \notin {"SUCCESS", "BUFFER_OVERFLOW", "BUFFER_TOO_SMALL"},
           status = "SUCCESS" =>
              /\ ~Foreign(request[c])
              /\ request[c].command = "optin" => request[c].pid \in processTable'
              /\ request[c].command = "optout" => request[c].pid \notin processTable'
    PROVE  IInv'
  <1>1. TypeOK /\ ClientInv(c)
    BY DEF IInv
  <1>2. /\ pc' = [pc EXCEPT ![c] = "reply"] /\ UNCHANGED <<request, size, exit, overrun>>
        /\ reply' \in [Clients -> [status : Statuses, information : Nat, ids : SUBSET Pids, garbage : Nat]]
        /\ reply'[c].status = status /\ \A d \in Clients : d # c => reply'[d] = reply[d]
    BY <1>1, CompleteFacts
  <1>3. /\ watch' \in [Clients -> [start : SUBSET Pids, joined : SUBSET Pids, left : SUBSET Pids]]
        /\ \A d \in Clients : d # c => Seen(d)
    BY <1>1, WatchedSees
  <1>4. TypeOK'
    BY ONLY <1>1, <1>2, <1>3, processTable' \subseteq Pids, leaked' \in BOOLEAN, total' = total
       DEF TypeOK
  <1>5. \A d \in Clients : d # c => SameLocal(d)
    BY <1>1, <1>2 DEF TypeOK, SameLocal
  <1>6. pc'[c] = "reply" /\ size'[c] = size[c] /\ request'[c] = request[c]
    BY <1>1, <1>2 DEF TypeOK
  <1>7. Bounded(c)' /\ Sent(c)' /\ Filling(c)'
    BY <1>1, <1>6 DEF ClientInv, Bounded, Sent, Filling
  <1>8. Answered(c)' /\ Sound(c)' /\ CompleteList(c)'
    BY <1>2, <1>6 DEF Answered, Sound, CompleteList, Listed
  <1>9. Truthful(c)' /\ Refused(c)'
    BY <1>2, <1>6 DEF Truthful, Refused, Succeeded
  <1> QED
    <2>1. ClientInv(c)'
      BY ONLY <1>7, <1>8, <1>9 DEF ClientInv
    <2> QED
      BY ONLY <1>3, <1>4, <1>5, <2>1, OwnStep, IInv

\* Every handler but the list's, and the default case.
LEMMA HandlersKeep ==
    ASSUME IInv, NEW c \in Clients,
           UnknownCode(c) \/ Register(c) \/ Unregister(c) \/ Query(c)
    PROVE  IInv'
  <1>1. TypeOK /\ ClientInv(c) /\ leaked \in BOOLEAN /\ processTable \subseteq Pids
    BY DEF IInv, TypeOK
  <1>2. /\ {"SUCCESS", "FAILED", "INVALID_DEVICE_REQUEST", "BUFFER_TOO_SMALL"} \subseteq Statuses
        /\ 0 \in Nat /\ 3 \in Nat /\ 7 \in Nat
    BY DEF Statuses
  <1>3. CASE UnknownCode(c)
    BY <1>1, <1>2, <1>3, ServedKeeps DEF UnknownCode
  <1>4. CASE Register(c)
    <2>1. /\ request[c].pid \in Pids /\ request[c].command = "optin" /\ pc[c] = "send"
          /\ ~Foreign(request[c])
      BY <1>1, <1>4, DispatchedKnown DEF Commands, Register, Dispatched, ClientInv, Sent, NeedsPid
    <2>2. /\ watch' = Watched(c) /\ leaked' = leaked /\ total' = total
      BY <1>4 DEF Register
    <2>3. CASE processTable' = processTable \cup {request[c].pid} /\ Complete(c, "SUCCESS", 0)
      BY <1>1, <1>2, <2>1, <2>2, <2>3, ServedKeeps
    <2>4. CASE processTable' = processTable /\ Complete(c, "FAILED", 0)
      BY <1>1, <1>2, <2>1, <2>2, <2>4, ServedKeeps
    <2> QED
      BY <1>4, <2>3, <2>4 DEF Register
  <1>5. CASE Unregister(c)
    <2>1. /\ request[c].command = "optout" /\ pc[c] = "send" /\ leaked' = leaked /\ total' = total
          /\ ~Foreign(request[c])
      BY <1>1, <1>5, DispatchedKnown DEF Unregister, Dispatched, Commands
    <2>2. /\ processTable' = processTable \ {request[c].pid} /\ watch' = Watched(c)
          /\ \E status \in {"SUCCESS", "FAILED"} : Complete(c, status, 0)
      BY <1>5 DEF Unregister
    <2>3. PICK status \in {"SUCCESS", "FAILED"} : Complete(c, status, 0)
      BY <2>2
    <2>4. request[c].pid \notin processTable' /\ processTable' \subseteq Pids /\ status \in Statuses
      BY <1>1, <1>2, <2>2
    <2> QED
      BY <1>1, <1>2, <2>1, <2>2, <2>3, <2>4, ServedKeeps
  <1>6. CASE Query(c)
    <2>1. /\ request[c].command \in {"stats", "health"} /\ pc[c] = "send"
          /\ processTable' = processTable /\ watch' = Watched(c)
          /\ leaked' = leaked /\ total' = total /\ ~Foreign(request[c])
      BY <1>1, <1>6, DispatchedKnown DEF Query, Dispatched, Commands
    <2>2. PICK status \in {"SUCCESS", "BUFFER_TOO_SMALL"}, n \in {0, 3, 7} : Complete(c, status, n)
      BY <1>6 DEF Query
    <2>3. status \in Statuses /\ n \in Nat
      BY <1>2
    <2> QED
      BY <1>1, <2>1, <2>2, <2>3, ServedKeeps
  <1> QED
    BY <1>3, <1>4, <1>5, <1>6

\* A drain completes or hangs.
LEMMA DrainKeeps ==
    ASSUME IInv, NEW c \in Clients, Drain(c)
    PROVE  IInv'
  <1>1. /\ TypeOK /\ ClientInv(c) /\ pc[c] = "send" /\ request[c].command = "drain"
        /\ processTable' = processTable /\ total' = total /\ watch' = Watched(c)
        /\ processTable \subseteq Pids /\ leaked' \in BOOLEAN /\ ~Foreign(request[c])
    BY DispatchedKnown DEF IInv, TypeOK, Drain, Dispatched, Commands
  <1>2. CASE Complete(c, "SUCCESS", 0)
    BY <1>1, <1>2, ServedKeeps DEF Statuses
  <1>3. CASE pc' = [pc EXCEPT ![c] = "hung"] /\ UNCHANGED <<request, size, exit, overrun, reply>>
    <2>1. /\ watch' \in [Clients -> [start : SUBSET Pids, joined : SUBSET Pids, left : SUBSET Pids]]
          /\ \A d \in Clients : d # c => Seen(d)
      BY <1>1, WatchedSees
    <2>2. TypeOK'
      BY <1>1, <1>3, <2>1 DEF TypeOK
    <2>3. \A d \in Clients : d # c => SameLocal(d)
      BY <1>1, <1>3 DEF TypeOK, SameLocal
    <2>4. pc'[c] = "hung" /\ size'[c] = size[c] /\ request'[c] = request[c]
      BY <1>1, <1>3 DEF TypeOK
    <2>5. ClientInv(c)'
      BY <1>1, <2>4 DEF ClientInv, Bounded, Sent, Filling, Answered, Sound, CompleteList,
         Listed, Truthful, Refused, Succeeded
    <2> QED
      BY ONLY <2>1, <2>2, <2>3, <2>5, OwnStep, IInv
  <1> QED
    BY <1>2, <1>3 DEF Drain

\* The list request reads the number of processes.
LEMMA CountsKeep ==
    ASSUME IInv, NEW c \in Clients, ListCounts(c)
    PROVE  IInv'
  <1>1. /\ TypeOK /\ ClientInv(c) /\ request[c].command = "list"
        /\ processTable' = processTable /\ watch' = Watched(c) /\ processTable \in SUBSET Pids
        /\ Cardinality(processTable) \in Nat /\ Cardinality(processTable) <= Cardinality(Pids)
        /\ UNCHANGED <<leaked, request, size, exit, overrun, reply>> /\ ~Foreign(request[c])
    BY PidSets, DispatchedKnown DEF IInv, TypeOK, ListCounts, Dispatched, Commands
  <1>2. /\ watch' \in [Clients -> [start : SUBSET Pids, joined : SUBSET Pids, left : SUBSET Pids]]
        /\ \A d \in Clients : d # c => Seen(d)
        /\ c \in Watching => watch'[c].start = processTable
    BY <1>1, WatchedSees
  <1>3. TypeOK'
    BY <1>1, <1>2 DEF TypeOK, ListCounts
  <1>4. \A d \in Clients : d # c => SameLocal(d)
    BY <1>1 DEF TypeOK, ListCounts, SameLocal
  <1>5. /\ pc'[c] = "fill" /\ total'[c] = Cardinality(processTable)
        /\ request'[c] = request[c] /\ size'[c] = size[c]
    BY <1>1 DEF TypeOK, ListCounts
  <1>6. c \in Watching => Followed(c)'
    BY <1>1, WatchedSees DEF Followed
  <1>7. Filling(c)'
    BY <1>1, <1>2, <1>5, <1>6 DEF Filling
  <1>8. Bounded(c)' /\ Sent(c)'
    BY <1>1, <1>5 DEF ClientInv, Bounded, Sent
  <1>9. Answered(c)' /\ Sound(c)' /\ CompleteList(c)' /\ Truthful(c)' /\ Refused(c)'
    BY <1>1, <1>5 DEF Answered, Sound, CompleteList, Listed, Truthful, Refused, Succeeded
  <1> QED
    <2>1. ClientInv(c)'
      BY ONLY <1>7, <1>8, <1>9 DEF ClientInv
    <2> QED
      BY ONLY <1>2, <1>3, <1>4, <2>1, OwnStep, IInv

\* The list request copies the identifiers: if the table did not shrink since they were
\* counted every word is filled, if it did not grow every identifier has a word.
LEMMA FillsKeep ==
    ASSUME IInv, NEW c \in Clients, ListFills(c)
    PROVE  IInv'
  <1> DEFINE w == IF total[c] <= size[c] - 1 THEN total[c] ELSE size[c] - 1
             g == IF Cardinality(processTable) < w THEN w - Cardinality(processTable) ELSE 0
             a == [status      |-> IF size[c] < Required(total[c]) THEN "BUFFER_OVERFLOW" ELSE "SUCCESS",
                   information |-> Required(total[c]),
                   ids         |-> Lowest(processTable, w),
                   garbage     |-> g]
  <1>1. /\ TypeOK /\ ClientInv(c) /\ pc[c] = "fill" /\ request[c].command = "list"
        /\ total[c] \in Nat /\ total[c] <= Cardinality(Pids) /\ size[c] \in Nat \ {0}
        /\ processTable \in SUBSET Pids /\ Cardinality(processTable) \in Nat
    BY PidSets DEF IInv, TypeOK, ListFills, ClientInv, Filling
  <1>2. w \in Nat /\ g \in Nat
    BY <1>1
  <1>3. /\ reply' = [reply EXCEPT ![c] = a] /\ pc' = [pc EXCEPT ![c] = "reply"]
        /\ total' = [total EXCEPT ![c] = 0]
        /\ overrun' \in {overrun, overrun \cup {c}}
        /\ UNCHANGED <<processTable, leaked, request, size, exit, watch>>
    BY DEF ListFills
  <1>4. a \in [status : Statuses, information : Nat, ids : SUBSET Pids, garbage : Nat]
    <2>1. Lowest(processTable, w) \in SUBSET Pids
      BY <1>1, <1>2, LowestAll
    <2>2. Required(total[c]) \in Nat
      BY <1>1 DEF Required
    <2> HIDE DEF w, g
    <2> QED
      BY <1>2, <2>1, <2>2 DEF Statuses
  <1>5. TypeOK'
    <2> HIDE DEF a
    <2> QED
      BY ONLY <1>1, <1>3, <1>4 DEF TypeOK
  <1>6. \A d \in Clients : d # c => SameLocal(d) /\ Seen(d)
    <2> HIDE DEF a
    <2>1. \A d \in Clients : d # c => SameLocal(d)
      BY ONLY <1>1, <1>3 DEF TypeOK, SameLocal
    <2>2. \A d \in Clients : d # c => Seen(d)
      BY ONLY <1>1, <1>3 DEF TypeOK, Seen
    <2> QED
      BY <2>1, <2>2
  <1>7. /\ reply'[c] = a /\ pc'[c] = "reply" /\ request'[c] = request[c] /\ size'[c] = size[c]
        /\ watch' = watch /\ processTable' = processTable
    <2> HIDE DEF a
    <2> QED
      BY ONLY <1>1, <1>3 DEF TypeOK
  <1>8. Bounded(c)' /\ Sent(c)' /\ Filling(c)' /\ Truthful(c)' /\ Refused(c)'
    <2> HIDE DEF a
    <2> QED
      BY <1>1, <1>7 DEF ClientInv, Bounded, Sent, Filling, Truthful, Refused, Succeeded
  <1>9. Answered(c)'
    <2>1. a.status \in {"BUFFER_OVERFLOW", "SUCCESS"} /\ a.information = total[c] + 1
          /\ (a.status = "BUFFER_OVERFLOW" => size[c] < total[c] + 1)
      BY DEF Required
    <2> HIDE DEF a
    <2> QED
      BY <1>1, <1>7, <2>1, PidSets DEF Answered
  <1>10. ASSUME c \in Watching, a.status = "SUCCESS"
         PROVE  /\ a.ids \subseteq watch[c].start \cup watch[c].joined
                /\ a.garbage <= Cardinality(watch[c].left)
                /\ \A p \in watch[c].start \ (watch[c].left \cup a.ids) :
                      \E q \in watch[c].joined : q < p
    <2>1. /\ Followed(c) /\ total[c] = Cardinality(watch[c].start)
          /\ watch[c].start \in SUBSET Pids /\ watch[c].left \in SUBSET Pids
          /\ Cardinality(watch[c].start) \in Nat /\ Cardinality(watch[c].left) \in Nat
      BY <1>1, <1>10, PidSets DEF ClientInv, Filling, TypeOK
    <2>2. w = total[c]
      <3>1. ~(size[c] < total[c] + 1)
        BY <1>10 DEF Required
      <3> QED
        BY <1>1, <3>1
    <2>3. a.ids \subseteq watch[c].start \cup watch[c].joined
      <3>1. Lowest(processTable, w) \subseteq processTable
        BY <1>1, <1>2, LowestAll
      <3> HIDE DEF w
      <3> QED
        BY <2>1, <3>1 DEF Followed
    <2>4. a.garbage <= Cardinality(watch[c].left)
      <3>1. /\ watch[c].start \in SUBSET (processTable \cup watch[c].left)
            /\ processTable \cup watch[c].left \in SUBSET Pids
        BY <1>1, <2>1 DEF Followed
      <3>2. Cardinality(watch[c].start) <= Cardinality(processTable \cup watch[c].left)
        BY ONLY <3>1, PidSets
      <3>3. Cardinality(processTable \cup watch[c].left)
               <= Cardinality(processTable) + Cardinality(watch[c].left)
        BY ONLY <1>1, <2>1, PidSets, UnionSize
      <3>4. Cardinality(processTable \cup watch[c].left) \in Nat
        BY ONLY <3>1, PidSets
      <3> HIDE DEF w
      <3>5. g <= Cardinality(watch[c].left)
        BY ONLY <1>1, <2>1, <2>2, <3>2, <3>3, <3>4
      <3> QED
        BY <3>5
    <2>5. ASSUME NEW p \in watch[c].start \ (watch[c].left \cup a.ids)
          PROVE  \E q \in watch[c].joined : q < p
      <3> DEFINE T == {q \in processTable : q < p}
      <3>1. p \in processTable /\ p \notin Lowest(processTable, w)
        BY <2>1, <2>5 DEF Followed
      <3>2. ~(Cardinality(T) < w)
        <4> HIDE DEF w
        <4> QED
          BY <1>1, <1>2, <3>1 DEF Lowest
      <3>3. SUFFICES ASSUME \A q \in watch[c].joined : ~(q < p) PROVE FALSE
        OBVIOUS
      <3>4. T \in SUBSET watch[c].start /\ p \notin T
        BY <2>1, <2>5, <3>1, <3>3, ClientsAssumption, <1>1 DEF Followed
      <3>5. T # watch[c].start
        BY <2>5, <3>4
      <3> HIDE DEF T, w
      <3>6. Cardinality(T) < Cardinality(watch[c].start)
        BY ONLY <2>1, <3>4, <3>5, PidSets
      <3> QED
        BY ONLY <2>1, <2>2, <3>2, <3>6
    <2> QED
      BY ONLY <2>3, <2>4, <2>5
  <1>11. Sound(c)' /\ CompleteList(c)'
    <2> HIDE DEF a
    <2> QED
      BY ONLY <1>7, <1>10 DEF Sound, CompleteList, Listed
  <1> QED
    <2>1. ClientInv(c)'
      BY ONLY <1>8, <1>9, <1>11 DEF ClientInv
    <2> QED
      BY ONLY <1>5, <1>6, <2>1, OwnStep, IInv

-----------------------------------------------------------------------------
\* The next buffer is what the driver asked for: larger than the last, never doubled.
LEMMA RetrySize ==
    ASSUME IInv, NEW c \in Clients, Retry(c)
    PROVE  /\ size' = [size EXCEPT ![c] = reply[c].information]
           /\ size[c] < reply[c].information /\ reply[c].information <= Cardinality(Pids) + 1
  <1>1. /\ reply[c].status = "BUFFER_OVERFLOW" /\ size[c] \in Nat /\ reply[c].information \in Nat
        /\ size[c] < reply[c].information /\ reply[c].information <= Cardinality(Pids) + 1
    BY DEF IInv, TypeOK, ClientInv, Answered, Retry, Retries
  <1>2. nextSize(c) = reply[c].information
    BY <1>1 DEF nextSize
  <1> QED
    BY <1>1, <1>2 DEF Retry

\* The list command tries again.
LEMMA RetryKeeps ==
    ASSUME IInv, NEW c \in Clients, Retry(c)
    PROVE  IInv'
  <1>1. /\ TypeOK /\ ClientInv(c) /\ pc[c] = "reply" /\ request[c].command = "list"
        /\ size' = [size EXCEPT ![c] = reply[c].information]
        /\ size[c] < reply[c].information /\ reply[c].information <= Cardinality(Pids) + 1
        /\ size[c] \in Nat /\ reply[c].information \in Nat
        /\ pc' = [pc EXCEPT ![c] = "send"]
        /\ UNCHANGED <<processTable, leaked, request, total, reply, exit, overrun, watch>>
    BY RetrySize DEF IInv, TypeOK, Retry, Retries
  <1>2. TypeOK'
    BY <1>1 DEF TypeOK
  <1>3. \A d \in Clients : d # c => SameLocal(d) /\ Seen(d)
    BY <1>1 DEF TypeOK, SameLocal, Seen
  <1>4. pc'[c] = "send" /\ size'[c] = reply[c].information /\ request'[c] = request[c]
    BY <1>1 DEF TypeOK
  <1>5. Bounded(c)' /\ Sent(c)'
    BY <1>1, <1>4 DEF Bounded, Sent, NeedsPid, Commands
  <1>6. /\ Filling(c)' /\ Answered(c)' /\ Sound(c)' /\ CompleteList(c)' /\ Truthful(c)'
        /\ Refused(c)'
    BY ONLY <1>4 DEF Filling, Answered, Sound, CompleteList, Listed, Truthful, Succeeded, Refused
  <1> QED
    <2>1. ClientInv(c)'
      BY ONLY <1>5, <1>6 DEF ClientInv
    <2> QED
      BY ONLY <1>2, <1>3, <2>1, OwnStep, IInv

\* The program ends, having printed the reply or not.
LEMMA ReportKeeps ==
    ASSUME IInv, NEW c \in Clients, Report(c) \/ Crash(c)
    PROVE  IInv'
  <1>1. /\ TypeOK /\ ClientInv(c) /\ pc[c] = "reply"
        /\ UNCHANGED <<processTable, leaked, request, size, total, reply, watch>>
    BY DEF IInv, Report, Crash
  <1>2. PICK code \in {0, 1} :
            /\ pc' = [pc EXCEPT ![c] = "idle"] /\ overrun' = overrun \ {c}
            /\ exit' = [exit EXCEPT ![c] = code]
            /\ code = 0 => reply[c].status = "SUCCESS"
    <2>1. CASE Report(c)
      <3> DEFINE code == IF /\ reply[c].status = "SUCCESS"
                            /\ request[c].command = "list" => reply[c].information >= 1
                         THEN 0 ELSE 1
      <3>1. Exit(c, code) /\ code \in {0, 1} /\ (code = 0 => reply[c].status = "SUCCESS")
        BY <2>1 DEF Report
      <3> HIDE DEF code
      <3> QED
        BY <3>1 DEF Exit
    <2>2. CASE Crash(c)
      BY <2>2 DEF Crash, Exit
    <2> QED
      BY <2>1, <2>2
  <1>3. /\ exit' \in [Clients -> {0, 1}] /\ exit'[c] = code
        /\ \A d \in Clients : d # c => exit'[d] = exit[d]
    <2>1. exit \in [Clients -> {0, 1}]
      BY <1>1 DEF TypeOK
    <2> QED
      BY ONLY <1>2, <2>1
  <1>4. /\ pc' \in [Clients -> {"idle", "open", "send", "fill", "reply", "hung"}] /\ pc'[c] = "idle"
        /\ \A d \in Clients : d # c => pc'[d] = pc[d]
        /\ overrun' \subseteq Clients
    <2>1. /\ pc \in [Clients -> {"idle", "open", "send", "fill", "reply", "hung"}]
          /\ overrun \subseteq Clients
      BY <1>1 DEF TypeOK
    <2> QED
      BY ONLY <1>2, <2>1
  <1>5. /\ TypeOK' /\ \A d \in Clients : d # c => SameLocal(d) /\ Seen(d)
        /\ size'[c] = size[c] /\ request'[c] = request[c]
        /\ exit'[c] = 0 => reply[c].status = "SUCCESS"
    BY ONLY <1>1, <1>2, <1>3, <1>4 DEF TypeOK, SameLocal, Seen
  <1>6. Bounded(c)' /\ Sent(c)' /\ Truthful(c)' /\ Refused(c)'
    BY <1>1, <1>4, <1>5 DEF ClientInv, Bounded, Sent, Truthful, Refused, Succeeded
  <1>7. Filling(c)' /\ Answered(c)' /\ Sound(c)' /\ CompleteList(c)'
    BY ONLY <1>4 DEF Filling, Answered, Sound, CompleteList, Listed
  <1> QED
    <2>1. ClientInv(c)'
      BY ONLY <1>6, <1>7 DEF ClientInv
    <2> QED
      BY ONLY <1>5, <2>1, OwnStep, IInv

\* IInv holds throughout: a case per action.
THEOREM Invariance == Spec => []IInv
  <1>1. ASSUME IInv, Next PROVE IInv'
    <2>1. ASSUME NEW c \in Clients, Step(c) PROVE IInv'
      <3>1. \/ OpenDevice(c) \/ UnknownCode(c) \/ Register(c) \/ Unregister(c) \/ Query(c)
            \/ Drain(c) \/ ListCounts(c) \/ ListFills(c) \/ Retry(c)
            \/ Report(c) \/ Crash(c)
        BY <2>1 DEF Step, Handler
      <3> QED
        BY ONLY <1>1, <3>1, OpenKeeps, HandlersKeep, DrainKeeps, CountsKeep, FillsKeep, RetryKeeps,
           ReportKeeps, c \in Clients
    <2>2. ASSUME NEW c \in Clients, NEW r \in Requests[c], Start(c, r) PROVE IInv'
      BY <1>1, <2>2, StartKeeps
    <2> QED
      BY <1>1, <2>1, <2>2 DEF Next
  <1>2. ASSUME IInv, UNCHANGED vars PROVE IInv'
    <2>1. /\ UNCHANGED <<processTable, leaked, pc, request, size, exit, overrun, total, reply, watch>>
          /\ IInv
      BY <1>2 DEF vars, client
    <2>2. TypeOK'
      BY ONLY <2>1 DEF IInv, TypeOK
    <2>3. \A d \in Clients : SameLocal(d) /\ Seen(d)
      BY ONLY <2>1 DEF IInv, TypeOK, SameLocal, Seen
    <2> QED
      BY ONLY <2>1, <2>2, <2>3, OthersKeep DEF IInv
  <1> QED
    BY <1>1, <1>2, InitIInv, PTL DEF Spec

-----------------------------------------------------------------------------
\* Every variable keeps its type.
THEOREM TypeCorrect == Spec => []TypeOK
  BY Invariance, PTL DEF IInv

\* What is printed was opted in, but for as many words as processes left under the request.
THEOREM ListsAreSound == Spec => []ListSound
  <1>1. IInv => ListSound
    BY ClientsAssumption DEF IInv, ClientInv, Sound, ListSound
  <1> QED
    BY <1>1, Invariance, PTL

\* What is missed has given way to a process that joined under the request.
THEOREM ListsAreComplete == Spec => []ListComplete
  <1>1. IInv => ListComplete
    BY ClientsAssumption DEF IInv, ClientInv, CompleteList, ListComplete
  <1> QED
    BY <1>1, Invariance, PTL

\* The list buffer is bounded by what a list of all processes needs.
THEOREM BuffersBounded == Spec => []BufferBounded
  <1>1. IInv => BufferBounded
    BY DEF IInv, ClientInv, Bounded, BufferBounded
  <1> QED
    BY <1>1, Invariance, PTL

\* Exit code 0 is true.
THEOREM ExitsTruthful == Spec => []ExitTruthful
  <1>1. IInv => ExitTruthful
    BY ClientsAssumption DEF IInv, ClientInv, Truthful, Succeeded, ExitTruthful
  <1> QED
    BY <1>1, Invariance, PTL

\* A program whose control codes have other access bits than the driver's gets nothing done,
\* whatever it asks for and whoever else asks: the committed controller and driver_test are
\* such programs, although README.md:42-51 and TODO.md:62 have their commands served.
THEOREM ForeignIsRefused == Spec => []NothingServed
  <1>1. IInv => NothingServed
    BY DEF IInv, ClientInv, Refused, Succeeded, NothingServed, TypeOK
  <1> QED
    BY <1>1, Invariance, PTL
=============================================================================
