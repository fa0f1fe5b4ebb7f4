-------------------------- MODULE DriverLifecycle --------------------------
(***************************************************************************)
(* Loading and unloading of driver/deduper.cpp, call by call, when several *)
(* copies of the image (an update's old and new file, say) are loaded at   *)
(* once.  Each image has its own globals; the device name and the symbolic *)
(* link are names of the machine.  Every call to the kernel may fail.      *)
(* RamDedupeDriver has all of DriverEntry in one step, for one image.      *)
(***************************************************************************)
EXTENDS Naturals

CONSTANTS
    Images,   \* loaded copies of the driver
    Other,    \* somebody else's use of the link's name
    Nobody    \* a name that is free

ASSUME NamesAssumption == Other \notin Images /\ Nobody \notin Images /\ Other # Nobody

VARIABLES
    at,              \* where each image's DriverEntry or DriverUnload stands
    device, link,    \* who holds the device name and the name of the symbolic link
    buffered,        \* DO_BUFFERED_IO of the device object
    callback,        \* gCowFaultCallbackRegistered (and gCowInterceptionActive)
    thread,          \* the scan thread
    gScanThread,     \* the pointer to it is set
    gShutdownEvent

vars == <<at, device, link, buffered, callback, thread, gScanThread, gShutdownEvent>>

Places == {"entry", "initialized", "device", "collision", "retry", "linked", "thread",
           "loaded", "wait", "destroy", "delete", "shutdown", "gone"}

Init ==
    /\ at = [i \in Images |-> "entry"]
    /\ device = Nobody /\ link \in {Nobody, Other} /\ buffered = FALSE
    /\ callback = [i \in Images |-> FALSE]
    /\ thread = [i \in Images |-> "none"]
    /\ gScanThread = [i \in Images |-> FALSE]
    /\ gShutdownEvent = [i \in Images |-> FALSE]

Goto(i, place) == at' = [at EXCEPT ![i] = place]

-----------------------------------------------------------------------------
(***************************************************************************)
(* DriverEntry.                                                            *)
(***************************************************************************)

\* The callback registration is a stub that cannot fail.
InitializeDedupeDriver(i) ==
    /\ at[i] = "entry"
    /\ callback' = [callback EXCEPT ![i] = TRUE]
    /\ Goto(i, "initialized")
    /\ UNCHANGED <<device, link, buffered, thread, gScanThread, gShutdownEvent>>

\* IoCreateDevice: refused while another device has the name.
CreateDevice(i) ==
    /\ at[i] = "initialized"
    /\ \/ device = Nobody /\ device' = i /\ buffered' = FALSE /\ Goto(i, "device")
       \/ Goto(i, "shutdown") /\ UNCHANGED <<device, buffered>>
    /\ UNCHANGED <<link, callback, thread, gScanThread, gShutdownEvent>>

\* The error exit of CreateControlDevice.
GivesUp(i) == device' = Nobody /\ buffered' = FALSE /\ Goto(i, "shutdown") /\ UNCHANGED link

\* Mutant: the second way to success leaves the I/O method as it is.
LinksUnbuffered(i) ==
    /\ link = Nobody /\ link' = i
    /\ buffered' = (buffered \/ at[i] = "device") /\ Goto(i, "linked") /\ UNCHANGED device

\* IoCreateSymbolicLink succeeds.
Links(i) ==
    /\ link = Nobody /\ link' = i
    /\ buffered' = TRUE /\ Goto(i, "linked") /\ UNCHANGED device

\* The link: when its name is taken, whoever's it is, it is deleted and tried once more.
CreateControlDevice(i) ==
    /\ \/ /\ at[i] = "device"
          /\ \/ Links(i) \/ GivesUp(i)
             \/ link # Nobody /\ Goto(i, "collision") /\ UNCHANGED <<device, link, buffered>>
       \/ /\ at[i] = "collision"
          /\ link' = Nobody /\ Goto(i, "retry") /\ UNCHANGED <<device, buffered>>
       \/ /\ at[i] = "retry"
          /\ Links(i) \/ GivesUp(i)
    /\ UNCHANGED <<callback, thread, gScanThread, gShutdownEvent>>

\* The thread is created, then referenced; when the reference fails the thread runs on.
StartPageScanner(i) ==
    /\ \/ /\ at[i] = "linked"
          /\ \/ thread' = [thread EXCEPT ![i] = "running"] /\ Goto(i, "thread")
             \/ Goto(i, "destroy") /\ UNCHANGED thread
          /\ UNCHANGED gScanThread
       \/ /\ at[i] = "thread"
          /\ \/ gScanThread' = [gScanThread EXCEPT ![i] = TRUE] /\ Goto(i, "loaded")
             \/ Goto(i, "destroy") /\ UNCHANGED gScanThread
          /\ UNCHANGED thread
    /\ UNCHANGED <<device, link, buffered, callback, gShutdownEvent>>

-----------------------------------------------------------------------------
(***************************************************************************)
(* DriverUnload, and what a failed DriverEntry undoes.                     *)
(***************************************************************************)

\* Mutant: the thread is not waited for.
StopPageScannerNoWait(i) ==
    /\ at[i] = "loaded"
    /\ gShutdownEvent' = [gShutdownEvent EXCEPT ![i] = TRUE]
    /\ Goto(i, "destroy")
    /\ UNCHANGED <<device, link, buffered, callback, thread, gScanThread>>

\* The event is set; the thread is waited for.
StopPageScanner(i) ==
    /\ \/ /\ at[i] = "loaded"
          /\ gShutdownEvent' = [gShutdownEvent EXCEPT ![i] = TRUE]
          /\ Goto(i, "wait") /\ UNCHANGED gScanThread
       \/ /\ at[i] = "wait" /\ thread[i] = "exited"
          /\ gScanThread' = [gScanThread EXCEPT ![i] = FALSE]
          /\ Goto(i, "destroy") /\ UNCHANGED gShutdownEvent
    /\ UNCHANGED <<device, link, buffered, callback, thread>>

\* PageScanThread leaves its loop when it sees the event.
ThreadExits(i) ==
    /\ thread[i] = "running" /\ gShutdownEvent[i]
    /\ thread' = [thread EXCEPT ![i] = "exited"]
    /\ UNCHANGED <<at, device, link, buffered, callback, gScanThread, gShutdownEvent>>

\* Mutant: the device is deleted before the link.
DestroyDeviceFirst(i) ==
    /\ \/ /\ at[i] = "destroy" /\ device' = Nobody /\ buffered' = FALSE
          /\ Goto(i, "delete") /\ UNCHANGED link
       \/ /\ at[i] = "delete" /\ link' = Nobody
          /\ Goto(i, "shutdown") /\ UNCHANGED <<device, buffered>>
    /\ UNCHANGED <<callback, thread, gScanThread, gShutdownEvent>>

\* First whatever link has the name, then the device.
DestroyControlDevice(i) ==
    /\ \/ /\ at[i] = "destroy" /\ link' = Nobody
          /\ Goto(i, "delete") /\ UNCHANGED <<device, buffered>>
       \/ /\ at[i] = "delete" /\ device' = Nobody /\ buffered' = FALSE
          /\ Goto(i, "shutdown") /\ UNCHANGED link
    /\ UNCHANGED <<callback, thread, gScanThread, gShutdownEvent>>

\* Mutant: the callback stays registered.
ShutdownKeepsCallback(i) ==
    /\ at[i] = "shutdown" /\ Goto(i, "gone")
    /\ UNCHANGED <<device, link, buffered, callback, thread, gScanThread, gShutdownEvent>>

\* ShutdownCowInterception unregisters the callback; then the tables, which are not
\* state of this module, are emptied (RamDedupeDriver has that half).
ShutdownDedupeDriver(i) ==
    /\ at[i] = "shutdown"
    /\ callback' = [callback EXCEPT ![i] = FALSE]
    /\ Goto(i, "gone")
    /\ UNCHANGED <<device, link, buffered, thread, gScanThread, gShutdownEvent>>

-----------------------------------------------------------------------------
\* The name of the link is taken, or given back, by somebody else (external).
OthersLink ==
    /\ \/ link = Nobody /\ link' = Other
       \/ link = Other /\ link' = Nobody
    /\ UNCHANGED <<at, device, buffered, callback, thread, gScanThread, gShutdownEvent>>

Step(i) ==
    \/ InitializeDedupeDriver(i) \/ CreateDevice(i) \/ CreateControlDevice(i)
    \/ StartPageScanner(i) \/ StopPageScanner(i) \/ ThreadExits(i)
    \/ DestroyControlDevice(i) \/ ShutdownDedupeDriver(i)

Next == OthersLink \/ \E i \in Images : Step(i)

Spec == Init /\ [][Next]_vars

-----------------------------------------------------------------------------
(***************************************************************************)
(* Properties.                                                             *)
(***************************************************************************)

\* The types of all variables.
TypeOK ==
    /\ at \in [Images -> Places]
    /\ device \in Images \cup {Nobody} /\ link \in Images \cup {Other, Nobody}
    /\ buffered \in BOOLEAN
    /\ callback \in [Images -> BOOLEAN] /\ gScanThread \in [Images -> BOOLEAN]
    /\ thread \in [Images -> {"none", "running", "exited"}]
    /\ gShutdownEvent \in [Images -> BOOLEAN]

\* A loaded driver works: its device exists and does buffered I/O, the link still leads to
\* it whatever the other images did since, its thread runs and can be waited for.
LoadedIsReachable ==
    \A i \in Images : at[i] = "loaded" =>
        /\ device = i /\ link = i /\ buffered
        /\ thread[i] = "running" /\ gScanThread[i] /\ callback[i]

\* The image is left with its thread running in it.
Orphaned(i) == thread[i] = "running" /\ ~gScanThread[i]

\* Whichever call failed, a driver that did not load, or was unloaded, leaves nothing: no
\* name, no callback, and no thread unless the thread could not be referenced.
GoneIsClean ==
    \A i \in Images : at[i] = "gone" =>
        /\ device # i /\ link # i /\ ~callback[i] /\ ~gScanThread[i]
        /\ thread[i] = "running" => Orphaned(i) /\ ~gShutdownEvent[i]

\* No image takes away the link of another, though each deletes it by name: an image gets
\* as far as the link only with the device, and the device's holder is the last to go.
LinkNotStolen == [][\A i \in Images : link = i /\ link' # i => at[i] = "destroy"]_vars

(***************************************************************************)
(* What RamDedupeDriver has of it: without clients and processes, the      *)
(* steps up to the last of DriverEntry are one, and so are the last ones   *)
(* of DriverUnload; an orphaned thread stops the machine.                  *)
(***************************************************************************)
Crashed(i) == Orphaned(i) /\ at[i] \in {"destroy", "delete", "shutdown", "gone"}

DriverPc(i) ==
    [t \in {"scanner", "system"} |->
        IF Crashed(i) THEN "halted"
        ELSE IF t = "system"
             THEN IF at[i] = "loaded" THEN "loaded"
                  ELSE IF at[i] = "gone" THEN "unloaded"
                  ELSE IF gShutdownEvent[i] THEN "stopping" ELSE "entry"
             ELSE IF at[i] = "loaded" \/ (gShutdownEvent[i] /\ thread[i] = "running")
                  THEN "top" ELSE IF gShutdownEvent[i] THEN "exited" ELSE "none"]

Driver(i) == INSTANCE RamDedupeDriver WITH
    Clients <- {}, Scanner <- "scanner", System <- "system", NoThread <- "nobody",
    Pids <- {}, NoPid <- 0, Frames <- {0}, Maps <- <<>>, Contents <- {1}, SigOf <- <<1>>,
    InitMem <- {[f \in {0} |-> 1]}, InitProc <- {<<>>},
    MaxFrames <- 2, MaxScan <- 1, FreedContents <- {},
    MaxRef <- 1, MaxEvents <- 0, AfterRace <- FALSE,
    gDedupeMutex <- "nobody", pc <- DriverPc(i), ProcessTable <- {}, PageTable <- {},
    SharedGroupTable <- {}, CowProtectedTable <- {}, CowPrivateTable <- {},
    gShutdownEvent <- gShutdownEvent[i], arg <- [c \in {} |-> 0],
    drain <- [c \in {} |-> <<>>], drainIndex <- [c \in {} |-> 1],
    todo <- {}, attached <- 0, pages <- <<>>, cand <- <<>>,
    mem <- [f \in {0} |-> 1], proc <- <<>>, events <- 0,
    raced <- FALSE, bugcheck <- IF Crashed(i) THEN "orphan" ELSE "none"

\* For each image the calls together do what RamDedupeDriver says in one step each.
\* (That is \A i \in Images : Driver(i)!Spec, with the quantifier inside the formula.)
ImplementsDriver ==
    /\ \A i \in Images : Driver(i)!Init
    /\ [][\A i \in Images : [Driver(i)!Next]_(Driver(i)!vars)]_vars

-----------------------------------------------------------------------------
(***************************************************************************)
(* What makes them inductive (proofs: DriverLifecycleProofs).              *)
(***************************************************************************)
WithLink   == {"linked", "thread", "loaded", "wait", "destroy"}
WithDevice == WithLink \cup {"device", "collision", "retry", "delete"}
Undoing    == {"destroy", "delete", "shutdown", "gone"}

\* Who has the names: an image between creating and deleting them, and nobody else has
\* the device's.
NamesHeld ==
    /\ \A i \in Images : at[i] \in WithDevice <=> device = i
    /\ \A i \in Images : at[i] \in WithLink <=> link = i
    /\ (\E i \in Images : at[i] \in WithLink) => buffered

\* The thread, its reference and the event at each place.
ThreadState(i) ==
    \/ /\ at[i] \in Undoing \/ at[i] = "wait"
       /\ gShutdownEvent[i] /\ thread[i] = "exited" /\ gScanThread[i] = (at[i] = "wait")
    \/ at[i] = "wait" /\ gShutdownEvent[i] /\ thread[i] = "running" /\ gScanThread[i]
    \/ at[i] = "loaded" /\ ~gShutdownEvent[i] /\ thread[i] = "running" /\ gScanThread[i]
    \/ /\ at[i] \in Undoing \cup {"thread"}
       /\ ~gShutdownEvent[i] /\ thread[i] = "running" /\ ~gScanThread[i]
    \/ /\ at[i] \notin {"thread", "loaded", "wait"}
       /\ ~gShutdownEvent[i] /\ thread[i] = "none" /\ ~gScanThread[i]

Started == \A i \in Images : ThreadState(i) /\ callback[i] = (at[i] \notin {"entry", "gone"})
=============================================================================
