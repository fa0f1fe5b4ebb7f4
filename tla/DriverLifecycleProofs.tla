----------------------- MODULE DriverLifecycleProofs -----------------------
(***************************************************************************)
(* Proofs about DriverLifecycle, for any number of images.  The inductive  *)
(* invariant says who holds the two names, and what the place an image has *)
(* reached says of its thread, its event and its callback.                 *)
(***************************************************************************)
EXTENDS DriverLifecycle, TLAPS

IInv == TypeOK /\ NamesHeld /\ Started

-----------------------------------------------------------------------------
\* A step of an image keeps the types, and leaves what belongs to the others alone.
LEMMA StepTypes ==
    ASSUME TypeOK, NEW i \in Images, Step(i)
    PROVE  /\ TypeOK'
           /\ \A j \in Images \ {i} : /\ at'[j] = at[j] /\ callback'[j] = callback[j]
                                      /\ thread'[j] = thread[j] /\ gScanThread'[j] = gScanThread[j]
                                      /\ gShutdownEvent'[j] = gShutdownEvent[j]
  <1>1. CASE InitializeDedupeDriver(i)
    BY <1>1 DEF TypeOK, InitializeDedupeDriver, Goto, Places
  <1>2. CASE CreateDevice(i)
    BY <1>2 DEF TypeOK, CreateDevice, Goto, Places
  <1>3. CASE CreateControlDevice(i)
    BY <1>3 DEF TypeOK, CreateControlDevice, Links, GivesUp, Goto, Places
  <1>4. CASE StartPageScanner(i)
    BY <1>4 DEF TypeOK, StartPageScanner, Goto, Places
  <1>5. CASE StopPageScanner(i)
    BY <1>5 DEF TypeOK, StopPageScanner, Goto, Places
  <1>6. CASE ThreadExits(i)
    BY <1>6 DEF TypeOK, ThreadExits
  <1>7. CASE DestroyControlDevice(i)
    BY <1>7 DEF TypeOK, DestroyControlDevice, Goto, Places
  <1>8. CASE ShutdownDedupeDriver(i)
    BY <1>8 DEF TypeOK, ShutdownDedupeDriver, Goto, Places
  <1> QED
    BY ONLY <1>1, <1>2, <1>3, <1>4, <1>5, <1>6, <1>7, <1>8, Step(i) DEF Step

\* Only the holder of the device has got as far as the link.
LEMMA LinkNeedsDevice ==
    ASSUME NamesHeld, NEW j \in Images, at[j] \in WithLink
    PROVE  device = j
  BY DEF NamesHeld, WithDevice

\* The names stay with their holders if a step moves only image i, and only i's own.
LEMMA NamesFollow ==
    ASSUME NamesHeld, NEW i \in Images, \A j \in Images \ {i} : at'[j] = at[j],
           at'[i] \in WithDevice <=> device' = i,
           at'[i] \in WithLink <=> link' = i,
           \A j \in Images \ {i} : (device' = j <=> device = j) /\ (link' = j <=> link = j),
           at'[i] \in WithLink => buffered',
           device # i => buffered' = buffered \/ device = Nobody
    PROVE  NamesHeld'
  <1>1. \A j \in Images : at'[j] \in WithDevice <=> device' = j
    BY DEF NamesHeld
  <1>2. \A j \in Images : at'[j] \in WithLink <=> link' = j
    BY DEF NamesHeld
  <1>3. ASSUME NEW j \in Images, at'[j] \in WithLink
        PROVE  buffered'
    <2>1. CASE j = i
      BY <1>3, <2>1
    <2>2. CASE j # i
      <3>1. at[j] \in WithLink
        BY <1>3, <2>2
      <3>2. device = j /\ buffered
        BY <3>1, LinkNeedsDevice DEF NamesHeld
      <3> QED
        BY <2>2, <3>2, NamesAssumption
    <2> QED
      BY <2>1, <2>2
  <1> QED
    BY ONLY <1>1, <1>2, <1>3 DEF NamesHeld, WithDevice, WithLink

\* What each kind of step does to the names.
LEMMA StepNames ==
    ASSUME IInv, NEW i \in Images, Step(i)
    PROVE  NamesHeld'
  <1> USE DEF WithDevice, WithLink
  <1>0. /\ at \in [Images -> Places] /\ i # Nobody /\ i # Other /\ NamesHeld
        /\ \A j \in Images \ {i} : at'[j] = at[j] /\ j # Nobody /\ j # Other
        /\ at[i] \in WithDevice <=> device = i
        /\ at[i] \in WithLink <=> link = i
    BY StepTypes, NamesAssumption DEF IInv, TypeOK, NamesHeld
  <1> DEFINE Moves ==
               /\ at'[i] \in WithDevice <=> device' = i
               /\ at'[i] \in WithLink <=> link' = i
               /\ \A j \in Images \ {i} : (device' = j <=> device = j) /\ (link' = j <=> link = j)
               /\ at'[i] \in WithLink => buffered'
               /\ device # i => buffered' = buffered \/ device = Nobody
  <1>1. at[i] \in WithLink => buffered
    BY <1>0 DEF NamesHeld
  <1>2. CASE InitializeDedupeDriver(i)
    <2>1. Moves
      BY <1>0, <1>1, <1>2 DEF InitializeDedupeDriver, Goto
    <2> QED
      BY <1>0, <2>1, NamesFollow
  <1>3. CASE CreateDevice(i)
    <2>1. Moves
      BY <1>0, <1>1, <1>3 DEF CreateDevice, Goto
    <2> QED
      BY <1>0, <2>1, NamesFollow
  <1>4. CASE CreateControlDevice(i)
    <2>0. \A j \in Images \ {i} : link # j
      <3>1. device = i
        BY <1>0, <1>4 DEF CreateControlDevice
      <3> QED
        BY ONLY <1>0, <3>1, LinkNeedsDevice DEF NamesHeld
    <2>1. Moves
      <3>1. CASE Links(i)
        BY <1>0, <1>1, <1>4, <2>0, <3>1 DEF CreateControlDevice, Links, Goto
      <3>2. CASE GivesUp(i)
        BY <1>0, <1>1, <1>4, <2>0, <3>2 DEF CreateControlDevice, GivesUp, Goto
      <3>3. CASE at[i] = "device" /\ Goto(i, "collision") /\ UNCHANGED <<device, link, buffered>>
        BY <1>0, <1>1, <2>0, <3>3 DEF Goto
      <3>4. CASE /\ at[i] = "collision" /\ link' = Nobody /\ Goto(i, "retry")
                 /\ UNCHANGED <<device, buffered>>
        BY <1>0, <1>1, <2>0, <3>4 DEF Goto
      <3> QED
        BY ONLY <1>4, <3>1, <3>2, <3>3, <3>4 DEF CreateControlDevice
    <2> QED
      BY <1>0, <2>1, NamesFollow
  <1>5. CASE StartPageScanner(i)
    <2>1. Moves
      BY <1>0, <1>1, <1>5 DEF StartPageScanner, Goto
    <2> QED
      BY <1>0, <2>1, NamesFollow
  <1>6. CASE StopPageScanner(i)
    <2>1. Moves
      BY <1>0, <1>1, <1>6 DEF StopPageScanner, Goto
    <2> QED
      BY <1>0, <2>1, NamesFollow
  <1>7. CASE ThreadExits(i)
    <2>1. Moves
      BY <1>0, <1>1, <1>7 DEF ThreadExits
    <2> QED
      BY <1>0, <2>1, NamesFollow
  <1>8. CASE DestroyControlDevice(i)
    <2>1. Moves
      BY <1>0, <1>1, <1>8 DEF DestroyControlDevice, Goto
    <2> QED
      BY <1>0, <2>1, NamesFollow
  <1>9. CASE ShutdownDedupeDriver(i)
    <2>1. Moves
      BY <1>0, <1>1, <1>9 DEF ShutdownDedupeDriver, Goto
    <2> QED
      BY <1>0, <2>1, NamesFollow
  <1> QED
    BY ONLY <1>2, <1>3, <1>4, <1>5, <1>6, <1>7, <1>8, <1>9, Step(i) DEF Step

-----------------------------------------------------------------------------
\* The thread and the callback of the image that moves.
LEMMA StepStarted ==
    ASSUME IInv, NEW i \in Images, Step(i)
    PROVE  Started'
  <1> DEFINE Own == ThreadState(i) /\ callback[i] = (at[i] \notin {"entry", "gone"})
  <1>0. /\ at \in [Images -> Places] /\ callback \in [Images -> BOOLEAN]
        /\ thread \in [Images -> {"none", "running", "exited"}]
        /\ gScanThread \in [Images -> BOOLEAN] /\ gShutdownEvent \in [Images -> BOOLEAN]
        /\ Own
    BY DEF IInv, TypeOK, Started
  <1>1. Own'
    <2> USE DEF ThreadState, Undoing
    <2>1. CASE InitializeDedupeDriver(i)
      BY <1>0, <2>1 DEF InitializeDedupeDriver, Goto
    <2>2. CASE CreateDevice(i)
      BY <1>0, <2>2 DEF CreateDevice, Goto
    <2>3. CASE CreateControlDevice(i)
      BY <1>0, <2>3 DEF CreateControlDevice, Links, GivesUp, Goto
    <2>4. CASE StartPageScanner(i)
      BY <1>0, <2>4 DEF StartPageScanner, Goto
    <2>5. CASE StopPageScanner(i)
      BY <1>0, <2>5 DEF StopPageScanner, Goto
    <2>6. CASE ThreadExits(i)
      BY <1>0, <2>6 DEF ThreadExits
    <2>7. CASE DestroyControlDevice(i)
      BY <1>0, <2>7 DEF DestroyControlDevice, Goto
    <2>8. CASE ShutdownDedupeDriver(i)
      BY <1>0, <2>8 DEF ShutdownDedupeDriver, Goto
    <2> QED
      BY ONLY <2>1, <2>2, <2>3, <2>4, <2>5, <2>6, <2>7, <2>8, Step(i) DEF Step
  <1>2. ASSUME NEW j \in Images \ {i}
        PROVE  (ThreadState(j) /\ callback[j] = (at[j] \notin {"entry", "gone"}))'
    <2>1. /\ at'[j] = at[j] /\ callback'[j] = callback[j]
          /\ thread'[j] = thread[j] /\ gScanThread'[j] = gScanThread[j]
          /\ gShutdownEvent'[j] = gShutdownEvent[j]
      BY StepTypes DEF IInv
    <2>2. ThreadState(j) /\ callback[j] = (at[j] \notin {"entry", "gone"})
      BY DEF IInv, Started
    <2> QED
      BY ONLY <2>1, <2>2 DEF ThreadState
  <1> QED
    BY ONLY <1>1, <1>2 DEF Started

-----------------------------------------------------------------------------
\* It holds before anything is loaded ...
LEMMA InitIInv ==
    Init => IInv
  BY NamesAssumption DEF Init, IInv, TypeOK, NamesHeld, Started, ThreadState, Places, WithDevice,
                         WithLink, Undoing

\* The link of somebody else comes and goes; no image has it then.
LEMMA OthersKeep ==
    ASSUME IInv, OthersLink
    PROVE  IInv'
  <1>1. /\ UNCHANGED <<at, device, buffered, callback, thread, gScanThread, gShutdownEvent>>
        /\ link \notin Images /\ link' \notin Images /\ link' \in {Other, Nobody}
    BY NamesAssumption DEF OthersLink
  <1>2. TypeOK' /\ Started'
    BY <1>1 DEF IInv, TypeOK, Started, ThreadState
  <1>3. NamesHeld'
    BY <1>1 DEF IInv, NamesHeld
  <1> QED
    BY ONLY <1>2, <1>3 DEF IInv

\* ... and after every step, ...
LEMMA NextIInv ==
    ASSUME IInv, [Next]_vars
    PROVE  IInv'
  <1>1. CASE OthersLink
    BY ONLY IInv, <1>1, OthersKeep
  <1>2. ASSUME NEW i \in Images, Step(i)
        PROVE  IInv'
    BY <1>2, StepTypes, StepNames, StepStarted DEF IInv
  <1>3. CASE UNCHANGED vars
    BY <1>3 DEF vars, IInv, TypeOK, NamesHeld, Started, ThreadState
  <1> QED
    BY ONLY <1>1, <1>2, <1>3, [Next]_vars DEF Next

\* ... so always.
LEMMA Invariance == Spec => []IInv
  BY InitIInv, NextIInv, PTL DEF Spec

\* The types, for any number of images.
THEOREM TypeCorrect == Spec => []TypeOK
  <1>1. IInv => TypeOK
    BY DEF IInv
  <1> QED
    BY <1>1, Invariance, PTL

\* A driver that DriverEntry reports as loaded can be reached by its link, whatever other
\* images load, fail to load or unload at the same time.
THEOREM LoadedReachable == Spec => []LoadedIsReachable
  <1>1. IInv => LoadedIsReachable
    BY DEF IInv, NamesHeld, Started, ThreadState, Undoing, WithDevice, WithLink, LoadedIsReachable
  <1> QED
    BY <1>1, Invariance, PTL

\* Whichever call of DriverEntry fails, everything before it is undone, with the one
\* exception of a thread that could not be referenced.
THEOREM GoneClean == Spec => []GoneIsClean
  <1>1. IInv => GoneIsClean
    BY DEF IInv, NamesHeld, Started, ThreadState, Undoing, WithDevice, WithLink, GoneIsClean,
           Orphaned
  <1> QED
    BY <1>1, Invariance, PTL

\* No image deletes the link of another.
THEOREM LinksNotStolen == Spec => LinkNotStolen
  <1>1. ASSUME IInv, [Next]_vars, NEW i \in Images, link = i, link' # i
        PROVE  at[i] = "destroy"
    <2>0. NamesHeld' /\ at \in [Images -> Places] /\ at[i] \in WithLink /\ at'[i] \notin WithLink
      BY <1>1, NextIInv DEF IInv, NamesHeld, TypeOK
    <2>1. PICK j \in Images : Step(j)
      BY <1>1, <2>0, NamesAssumption DEF Next, OthersLink, vars
    <2>2. j = i
      BY <1>1, <2>0, <2>1, StepTypes DEF IInv
    <2> QED
      BY <2>0, <2>1, <2>2 DEF Step, InitializeDedupeDriver, CreateDevice, CreateControlDevice,
           Links, GivesUp, StartPageScanner, StopPageScanner, ThreadExits, DestroyControlDevice,
           ShutdownDedupeDriver, Goto, WithLink
  <1>2. IInv /\ [Next]_vars => [\A i \in Images : link = i /\ link' # i => at[i] = "destroy"]_vars
    BY ONLY <1>1
  <1> QED
    BY <1>2, Invariance, PTL DEF Spec, LinkNotStolen

-----------------------------------------------------------------------------
(***************************************************************************)
(* The refinement.  DriverPc takes few values; each step of an image does  *)
(* one of the driver's steps, or none.                                     *)
(***************************************************************************)
Pcs(scannerPc, systemPc) ==
    [t \in {"scanner", "system"} |-> IF t = "system" THEN systemPc ELSE scannerPc]

\* Nothing is loaded: the driver's initial state.
LEMMA DriverInit ==
    ASSUME Init, NEW i \in Images
    PROVE  Driver(i)!Init
  <1>1. DriverPc(i) = Pcs("none", "entry")
    BY DEF Init, DriverPc, Crashed, Orphaned, Pcs
  <1>2. ~Crashed(i) /\ gShutdownEvent[i] = FALSE
    BY DEF Init, Crashed, Orphaned
  <1> QED
    BY <1>1, <1>2 DEF Driver!Init, Driver!Threads, Driver!NoEntry, Pcs

\* DriverPc by the place of the image.
PcByPlace(i) ==
    /\ at[i] \in Places
    /\ Crashed(i) => DriverPc(i) = Pcs("halted", "halted")
    /\ ~Crashed(i) =>
         /\ at[i] \notin {"loaded", "gone"} /\ ~gShutdownEvent[i]
              => DriverPc(i) = Pcs("none", "entry")
         /\ at[i] = "loaded" => DriverPc(i) = Pcs("top", "loaded") /\ ~gShutdownEvent[i]
         /\ at[i] = "gone" /\ ~gShutdownEvent[i] => DriverPc(i) = Pcs("none", "unloaded")
         /\ at[i] = "gone" /\ gShutdownEvent[i] => DriverPc(i) = Pcs("exited", "unloaded")
         /\ at[i] # "gone" /\ gShutdownEvent[i] =>
               DriverPc(i) = Pcs(IF thread[i] = "running" THEN "top" ELSE "exited", "stopping")

LEMMA PcAt ==
    ASSUME IInv, NEW i \in Images
    PROVE  PcByPlace(i)
  <1>1. at[i] \in Places
    BY DEF IInv, TypeOK
  <1>2. CASE Crashed(i)
    BY <1>1, <1>2 DEF PcByPlace, DriverPc, Pcs
  <1>3. CASE ~Crashed(i)
    BY <1>1, <1>3 DEF PcByPlace, DriverPc, Pcs, IInv, Started, ThreadState, Undoing, Crashed,
                      Orphaned
  <1> QED
    BY ONLY <1>2, <1>3

\* The same after a step.
LEMMA PcAtPrimed ==
    ASSUME IInv', NEW i \in Images
    PROVE  PcByPlace(i)'
  <1>1. at'[i] \in Places
    BY DEF IInv, TypeOK
  <1>2. CASE Crashed(i)'
    BY <1>1, <1>2 DEF PcByPlace, DriverPc, Pcs
  <1>3. CASE ~Crashed(i)'
    BY <1>1, <1>3 DEF PcByPlace, DriverPc, Pcs, IInv, Started, ThreadState, Undoing, Crashed,
                      Orphaned
  <1> QED
    BY ONLY <1>2, <1>3

\* What of the driver can change here; the rest is empty.
LEMMA DriverUnchanged ==
    ASSUME NEW i \in Images, DriverPc(i)' = DriverPc(i), Crashed(i)' = Crashed(i),
           gShutdownEvent'[i] = gShutdownEvent[i]
    PROVE  UNCHANGED Driver(i)!vars
  BY DEF Driver!vars, Driver!tables, Driver!scan, Driver!client, Driver!env

\* DriverEntry: loaded, or failed, or failed with the thread left behind.
LEMMA DriverEntrySteps ==
    ASSUME NEW i \in Images, ~Crashed(i), DriverPc(i) = Pcs("none", "entry"),
           gShutdownEvent'[i] = gShutdownEvent[i],
           \/ ~Crashed(i)' /\ DriverPc(i)' = Pcs("top", "loaded")
           \/ ~Crashed(i)' /\ DriverPc(i)' = Pcs("none", "unloaded")
           \/ Crashed(i)' /\ DriverPc(i)' = Pcs("halted", "halted")
    PROVE  Driver(i)!DriverEntry
  <1> USE DEF Driver!tables, Driver!scan, Driver!client, Driver!env, Pcs
  <1>1. CASE ~Crashed(i)' /\ DriverPc(i)' = Pcs("top", "loaded")
    BY <1>1 DEF Driver!DriverEntry
  <1>2. CASE ~Crashed(i)' /\ DriverPc(i)' = Pcs("none", "unloaded")
    BY <1>2 DEF Driver!DriverEntry, Driver!Goto
  <1>3. CASE Crashed(i)' /\ DriverPc(i)' = Pcs("halted", "halted")
    <2>1. Driver(i)!Bugcheck("orphan")
      BY <1>3 DEF Driver!Bugcheck, Driver!Threads, Driver!NoEntry
    <2> QED
      BY <2>1 DEF Driver!DriverEntry
  <1> QED
    BY ONLY <1>1, <1>2, <1>3,
            \/ ~Crashed(i)' /\ DriverPc(i)' = Pcs("top", "loaded")
            \/ ~Crashed(i)' /\ DriverPc(i)' = Pcs("none", "unloaded")
            \/ Crashed(i)' /\ DriverPc(i)' = Pcs("halted", "halted")

\* DriverUnload sets the event; the thread exits; the last of it is gone.
LEMMA DriverUnloadSteps ==
    ASSUME NEW i \in Images, ~Crashed(i), ~Crashed(i)',
           \/ /\ DriverPc(i) = Pcs("top", "loaded") /\ DriverPc(i)' = Pcs("top", "stopping")
              /\ gShutdownEvent'[i] = TRUE
           \/ /\ DriverPc(i) = Pcs("top", "stopping") /\ DriverPc(i)' = Pcs("exited", "stopping")
              /\ gShutdownEvent[i] = TRUE /\ gShutdownEvent'[i] = gShutdownEvent[i]
           \/ /\ DriverPc(i) = Pcs("exited", "stopping")
              /\ DriverPc(i)' = Pcs("exited", "unloaded")
              /\ gShutdownEvent'[i] = gShutdownEvent[i]
    PROVE  Driver(i)!Next
  <1> USE DEF Driver!tables, Driver!scan, Driver!client, Driver!env, Driver!Goto, Pcs
  <1>1. CASE /\ DriverPc(i) = Pcs("top", "loaded") /\ DriverPc(i)' = Pcs("top", "stopping")
             /\ gShutdownEvent'[i] = TRUE
    <2>1. Driver(i)!DriverUnload
      BY <1>1 DEF Driver!DriverUnload
    <2> QED
      BY ONLY <2>1 DEF Driver!Next
  <1>2. CASE /\ DriverPc(i) = Pcs("top", "stopping") /\ DriverPc(i)' = Pcs("exited", "stopping")
             /\ gShutdownEvent[i] = TRUE /\ gShutdownEvent'[i] = gShutdownEvent[i]
    <2>1. Driver(i)!PageScanThread
      BY <1>2 DEF Driver!PageScanThread
    <2> QED
      BY ONLY <2>1 DEF Driver!Next, Driver!ScannerNext
  <1>3. CASE /\ DriverPc(i) = Pcs("exited", "stopping")
             /\ DriverPc(i)' = Pcs("exited", "unloaded")
             /\ gShutdownEvent'[i] = gShutdownEvent[i]
    <2>1. Driver(i)!ShutdownDedupeDriver
      BY <1>3 DEF Driver!ShutdownDedupeDriver
    <2> QED
      BY ONLY <2>1 DEF Driver!Next
  <1> QED
    BY <1>1, <1>2, <1>3

\* A step of the image is one of the driver's, or none.
LEMMA StepImplements ==
    ASSUME IInv, IInv', NEW i \in Images, Step(i)
    PROVE  [Driver(i)!Next]_(Driver(i)!vars)
  <1> DEFINE Same == /\ DriverPc(i)' = DriverPc(i) /\ Crashed(i)' = Crashed(i)
                     /\ gShutdownEvent'[i] = gShutdownEvent[i]
  <1>0. /\ PcByPlace(i) /\ PcByPlace(i)' /\ ThreadState(i)
        /\ at \in [Images -> Places] /\ thread \in [Images -> {"none", "running", "exited"}]
        /\ gScanThread \in [Images -> BOOLEAN] /\ gShutdownEvent \in [Images -> BOOLEAN]
    BY PcAt, PcAtPrimed DEF IInv, TypeOK, Started
  <1> USE DEF Crashed, Orphaned, ThreadState, Undoing
  <1>1. CASE InitializeDedupeDriver(i) \/ CreateDevice(i)
    <2>1. Same
      BY <1>0, <1>1 DEF InitializeDedupeDriver, CreateDevice, Goto, PcByPlace
    <2> QED
      BY ONLY <2>1, DriverUnchanged, i \in Images
  <1>2. CASE CreateControlDevice(i)
    <2>1. Same
      BY <1>0, <1>2 DEF CreateControlDevice, Links, GivesUp, Goto, PcByPlace
    <2> QED
      BY ONLY <2>1, DriverUnchanged, i \in Images
  <1>3. CASE StartPageScanner(i)
    <2>1. Same \/ Driver(i)!DriverEntry
      <3>1. CASE at[i] = "linked"
        BY <1>0, <1>3, <3>1 DEF StartPageScanner, Goto, PcByPlace
      <3>2. CASE at[i] = "thread"
        <4>1. /\ ~Crashed(i) /\ DriverPc(i) = Pcs("none", "entry")
              /\ gShutdownEvent'[i] = gShutdownEvent[i]
          BY <1>0, <1>3, <3>2 DEF StartPageScanner, PcByPlace
        <4>2. \/ ~Crashed(i)' /\ DriverPc(i)' = Pcs("top", "loaded")
              \/ Crashed(i)' /\ DriverPc(i)' = Pcs("halted", "halted")
          BY <1>0, <1>3, <3>2 DEF StartPageScanner, Goto, PcByPlace
        <4> QED
          BY ONLY <4>1, <4>2, DriverEntrySteps, i \in Images
      <3> QED
        BY ONLY <1>3, <3>1, <3>2 DEF StartPageScanner
    <2> QED
      BY ONLY <2>1, DriverUnchanged, i \in Images DEF Driver!Next
  <1>4. CASE StopPageScanner(i)
    <2>1. CASE at[i] = "loaded"
      <3>1. /\ ~Crashed(i) /\ ~Crashed(i)' /\ gShutdownEvent'[i] = TRUE
            /\ DriverPc(i) = Pcs("top", "loaded") /\ DriverPc(i)' = Pcs("top", "stopping")
        BY <1>0, <1>4, <2>1 DEF StopPageScanner, Goto, PcByPlace
      <3> QED
        BY ONLY <3>1, DriverUnloadSteps, i \in Images
    <2>2. CASE at[i] = "wait"
      <3>1. Same
        BY <1>0, <1>4, <2>2 DEF StopPageScanner, Goto, PcByPlace
      <3> QED
        BY ONLY <3>1, DriverUnchanged, i \in Images
    <2> QED
      BY ONLY <1>4, <2>1, <2>2 DEF StopPageScanner
  <1>5. CASE ThreadExits(i)
    <2>1. /\ ~Crashed(i) /\ ~Crashed(i)'
          /\ DriverPc(i) = Pcs("top", "stopping") /\ DriverPc(i)' = Pcs("exited", "stopping")
          /\ gShutdownEvent[i] = TRUE /\ gShutdownEvent'[i] = gShutdownEvent[i]
      BY <1>0, <1>5 DEF ThreadExits, PcByPlace
    <2> QED
      BY ONLY <2>1, DriverUnloadSteps, i \in Images
  <1>6. CASE DestroyControlDevice(i)
    <2>1. Same
      BY <1>0, <1>6 DEF DestroyControlDevice, Goto, PcByPlace
    <2> QED
      BY ONLY <2>1, DriverUnchanged, i \in Images
  <1>7. CASE ShutdownDedupeDriver(i)
    <2>1. CASE Crashed(i)
      <3>1. Same
        BY <1>0, <1>7, <2>1 DEF ShutdownDedupeDriver, Goto, PcByPlace
      <3> QED
        BY ONLY <3>1, DriverUnchanged, i \in Images
    <2>2. CASE ~Crashed(i) /\ gShutdownEvent[i]
      <3>1. /\ ~Crashed(i)' /\ gShutdownEvent'[i] = gShutdownEvent[i]
            /\ DriverPc(i) = Pcs("exited", "stopping")
            /\ DriverPc(i)' = Pcs("exited", "unloaded")
        BY <1>0, <1>7, <2>2 DEF ShutdownDedupeDriver, Goto, PcByPlace
      <3> QED
        BY ONLY <2>2, <3>1, DriverUnloadSteps, i \in Images
    <2>3. CASE ~Crashed(i) /\ ~gShutdownEvent[i]
      <3>1. /\ ~Crashed(i)' /\ gShutdownEvent'[i] = gShutdownEvent[i]
            /\ DriverPc(i) = Pcs("none", "entry") /\ DriverPc(i)' = Pcs("none", "unloaded")
        BY <1>0, <1>7, <2>3 DEF ShutdownDedupeDriver, Goto, PcByPlace
      <3>2. Driver(i)!DriverEntry
        BY ONLY <2>3, <3>1, DriverEntrySteps, i \in Images
      <3> QED
        BY ONLY <3>2 DEF Driver!Next
    <2> QED
      BY ONLY <2>1, <2>2, <2>3
  <1> QED
    BY ONLY <1>1, <1>2, <1>3, <1>4, <1>5, <1>6, <1>7, Step(i) DEF Step

\* Steps that leave alone what belongs to the image change nothing of its driver.
LEMMA OthersUnseen ==
    ASSUME NEW i \in Images, at'[i] = at[i], thread'[i] = thread[i],
           gScanThread'[i] = gScanThread[i], gShutdownEvent'[i] = gShutdownEvent[i]
    PROVE  UNCHANGED Driver(i)!vars
  <1>1. Crashed(i)' = Crashed(i)
    BY DEF Crashed, Orphaned
  <1>2. DriverPc(i)' = DriverPc(i)
    BY <1>1 DEF DriverPc
  <1> QED
    BY <1>1, <1>2, DriverUnchanged

\* For each image, DriverEntry and DriverUnload call by call, with all their failures and
\* in the presence of other images, do what RamDedupeDriver has them do in one step.
THEOREM LifecycleImplementsDriver == Spec => ImplementsDriver
  <1>1. Init => \A i \in Images : Driver(i)!Init
    BY ONLY DriverInit
  <1>2. ASSUME IInv, [Next]_vars, NEW i \in Images
        PROVE  [Driver(i)!Next]_(Driver(i)!vars)
    <2>0. IInv' /\ TypeOK
      BY <1>2, NextIInv DEF IInv
    <2>1. CASE OthersLink \/ UNCHANGED vars
      BY <2>1, OthersUnseen DEF OthersLink, vars
    <2>2. ASSUME NEW j \in Images, Step(j)
          PROVE  [Driver(i)!Next]_(Driver(i)!vars)
      <3>1. CASE j = i
        BY ONLY <1>2, <2>0, <2>2, <3>1, StepImplements
      <3>2. CASE j # i
        <4>1. /\ at'[i] = at[i] /\ thread'[i] = thread[i]
              /\ gScanThread'[i] = gScanThread[i] /\ gShutdownEvent'[i] = gShutdownEvent[i]
          BY <2>0, <2>2, <3>2, StepTypes
        <4> QED
          BY ONLY <4>1, OthersUnseen, i \in Images
      <3> QED
        BY ONLY <3>1, <3>2
    <2> QED
      BY ONLY <1>2, <2>1, <2>2 DEF Next
  <1>3. IInv /\ [Next]_vars => [\A i \in Images : [Driver(i)!Next]_(Driver(i)!vars)]_vars
    BY ONLY <1>2
  <1> QED
    BY <1>1, <1>3, Invariance, PTL DEF Spec, ImplementsDriver
=============================================================================
