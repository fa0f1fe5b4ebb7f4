---------------------------- MODULE MCController ----------------------------
(* Small instance of Controller for TLC.                                   *)
EXTENDS Controller

\* What a user can type into programs with these access bits and this structure.
Typed(access, healthSize) ==
    {r \in [command : Commands \cup {NoCommand}, pid : Pids \cup {NoPid},
            access : 0 .. 2, healthSize : {healthSize}] :
        /\ NeedsPid(r) \/ r.pid = NoPid
        /\ r.access = IF r.command = NoCommand THEN 0 ELSE access[r.command]}

\* As committed: controller.cpp:6-11 says FILE_ANY_ACCESS for every code.
Committed == [command \in Commands |-> 0]

\* The user who is watched types anything into a controller that matches the driver, a health
\* query with the structure of driver_test.cpp, and an opt-in and a list with the codes as
\* committed; the others only what can disturb that.
MCRequests ==
    [c \in Clients |->
        IF c \in Watching
        THEN Typed(DriverAccess, 7)
             \cup {r \in Typed(DriverAccess, 6) : r.command = "health"}
             \cup {r \in Typed(Committed, 7) : r.command = "list"
                                               \/ (r.command = "optin" /\ r.pid = 8)}
        ELSE {r \in Typed(DriverAccess, 7) : r.command \in {"list", "drain"}
                                              \/ (NeedsPid(r) /\ r.pid # NoPid)}]
=============================================================================
