------------------------------ MODULE Session ------------------------------
(***************************************************************************)
(* The life of a ProDjLink session: the tasks that build starts, that      *)
(* set_sending_status starts and aborts, and what shutdown does to them    *)
(* (lib.rs, network/virtual_cdj.rs, the stop methods of network/).         *)
(*                                                                         *)
(* A task ends some time after its abort is requested, and in no other way *)
(* when its JoinHandle is dropped.  The three tasks that build spawns      *)
(* share the VirtualCdj with the session, so shutdown stops it only if     *)
(* they have all ended between their abort and the next statement, as they *)
(* can on a multi-threaded runtime.                                        *)
(*                                                                         *)
(* set_sending_status swaps a flag and then locks the slot of the loop's   *)
(* handle; calls of it may overlap.                                        *)
(***************************************************************************)
EXTENDS Naturals, FiniteSets

CONSTANTS
    Caller,    \* tasks of the application that call set_sending_status
    Loop,      \* bound: identities of broadcast loops, reused once forgotten
    NoLoop

Finder   == {"finder_recv", "finder_aging"}
Listener == Finder \union {"beats", "statuses"}
Wire     == {"status", "beat", "handoff"}
CdjTask  == {"keepalive", "defense", "command"}
Task     == Listener \union Wire \union CdjTask \union Loop

ASSUME SessionAssumption ==
    /\ NoLoop \notin Loop
    /\ Loop \intersect (Listener \union Wire \union CdjTask) = {}

VARIABLES
    pc,         \* where the session is
    running,    \* the tasks that have not ended
    aborted,    \* those of them whose abort is requested
    flag,       \* sending_status
    handle,     \* status_task: the loop whose handle is stored
    caller,     \* per caller: where its call is, with which loop
    stopped,    \* whether shutdown has stopped the VirtualCdj
    overlapped  \* whether two calls of set_sending_status have ever overlapped

vars == <<pc, running, aborted, flag, handle, caller, stopped, overlapped>>

CallState == [pc : {"idle", "taking"}, loop : {NoLoop}]
               \union [pc : {"storing"}, loop : Loop]

TypeOK ==
    /\ pc \in {"building", "failed", "up", "unwrapping", "stopping", "down"}
    /\ running \in SUBSET Task
    /\ aborted \in SUBSET running
    /\ flag \in BOOLEAN
    /\ handle \in Loop \union {NoLoop}
    /\ caller \in [Caller -> CallState]
    /\ stopped \in BOOLEAN
    /\ overlapped \in BOOLEAN

Idle == [pc |-> "idle", loop |-> NoLoop]

Init ==
    /\ pc = "building"
    /\ running = {}
    /\ aborted = {}
    /\ flag = FALSE
    /\ handle = NoLoop
    /\ caller = [c \in Caller |-> Idle]
    /\ stopped = FALSE
    /\ overlapped = FALSE

-----------------------------------------------------------------------------
\* build

\* DeviceFinder::start, BeatFinder::start, StatusListener::start, in this order.
StartListener(tasks) ==
    /\ pc = "building"
    /\ \/ tasks = Finder /\ running = {}
       \/ tasks = {"beats"} /\ running = Finder
       \/ tasks = {"statuses"} /\ running = Finder \union {"beats"}
    /\ running' = running \union tasks
    /\ UNCHANGED <<pc, aborted, flag, handle, caller, stopped, overlapped>>

\* The claim has succeeded: the VirtualCdj's tasks and the three that share it.  The
\* command listener is missing if its port cannot be bound.
BecomeUp ==
    /\ pc = "building"
    /\ running = Listener
    /\ pc' = "up"
    /\ \E missing \in SUBSET {"command"} :
           running' = running \union Wire \union (CdjTask \ missing)
    /\ UNCHANGED <<aborted, flag, handle, caller, stopped, overlapped>>

\* A socket cannot be bound, or the device number is in use: the services that are
\* already started are dropped, not stopped.
BuildFails ==
    /\ pc = "building"
    /\ pc' = "failed"
    /\ UNCHANGED <<running, aborted, flag, handle, caller, stopped, overlapped>>

-----------------------------------------------------------------------------
\* set_sending_status

Loops == running \intersect Loop

\* A loop that ended and whose handle is gone; the bound on Loop ends here.
NewLoop == Loop \ (running \union {handle} \union {caller[c].loop : c \in Caller})

\* Fault: the flag's old value is ignored.
SwapIgnoresOld(c, sending) ==
    /\ pc = "up"
    /\ caller[c] = Idle
    /\ flag' = sending
    /\ overlapped' = (overlapped \/ \E d \in Caller : caller[d] # Idle)
    /\ IF sending
       THEN \E l \in NewLoop :
              /\ running' = running \union {l}
              /\ caller' = [caller EXCEPT ![c] = [pc |-> "storing", loop |-> l]]
       ELSE /\ caller' = [caller EXCEPT ![c].pc = "taking"]
            /\ UNCHANGED running
    /\ UNCHANGED <<pc, aborted, handle, stopped>>

\* swap, and the spawn when it turns the flag on.
Swap(c, sending) ==
    /\ pc = "up"
    /\ caller[c] = Idle
    /\ flag' = sending
    /\ overlapped' = (overlapped \/ \E d \in Caller : caller[d] # Idle)
    /\ \/ /\ sending /\ ~flag
          /\ \E l \in NewLoop :
                /\ running' = running \union {l}
                /\ caller' = [caller EXCEPT ![c] = [pc |-> "storing", loop |-> l]]
       \/ /\ ~sending /\ flag
          /\ caller' = [caller EXCEPT ![c].pc = "taking"]
          /\ UNCHANGED running
       \/ /\ sending = flag
          /\ UNCHANGED <<running, caller>>
    /\ UNCHANGED <<pc, aborted, handle, stopped>>

\* The slot gets the new loop's handle; one that is in it is dropped.
Store(c) ==
    /\ caller[c].pc = "storing"
    /\ handle' = caller[c].loop
    /\ caller' = [caller EXCEPT ![c] = Idle]
    /\ UNCHANGED <<pc, running, aborted, flag, stopped, overlapped>>

\* The handle in the slot, if any, is taken out and its loop aborted.
Take(c) ==
    /\ caller[c].pc = "taking"
    /\ aborted' = aborted \union ({handle} \intersect running)
    /\ handle' = NoLoop
    /\ caller' = [caller EXCEPT ![c] = Idle]
    /\ UNCHANGED <<pc, running, flag, stopped, overlapped>>

\* Fault: the loop does not look at the flag.
LoopIgnoresFlag(l) == FALSE

\* A loop ends at the first tick at which the flag is off.
LoopEnds(l) ==
    /\ l \in Loops
    /\ ~flag
    /\ running' = running \ {l}
    /\ aborted' = aborted \ {l}
    /\ UNCHANGED <<pc, flag, handle, caller, stopped, overlapped>>

-----------------------------------------------------------------------------
\* shutdown.  It consumes the session, so no call is in progress.

AbortWires ==
    /\ pc = "up"
    /\ \A c \in Caller : caller[c] = Idle
    /\ pc' = "unwrapping"
    /\ aborted' = aborted \union (Wire \intersect running)
    /\ UNCHANGED <<running, flag, handle, caller, stopped, overlapped>>

\* Fault: the flag is left on, and so is a loop whose handle was lost.
StopLeavesFlag ==
    /\ aborted' = aborted \union (CdjTask \intersect running)
    /\ UNCHANGED flag

\* VirtualCdj::stop.
Stop ==
    /\ flag' = FALSE
    /\ aborted' = aborted \union ((CdjTask \union {handle}) \intersect running)

\* Arc::try_unwrap succeeds only if the session's reference is the last one.
Unwrap ==
    /\ pc = "unwrapping"
    /\ pc' = "stopping"
    /\ \/ /\ Wire \intersect running = {}
          /\ Stop
          /\ stopped' = TRUE
       \/ /\ Wire \intersect running # {}
          /\ UNCHANGED <<aborted, flag, stopped>>
    /\ UNCHANGED <<running, handle, caller, overlapped>>

\* Fault: the finder's receive task is forgotten.
StopListenersButFinder ==
    /\ pc = "stopping"
    /\ pc' = "down"
    /\ aborted' = aborted \union ((Listener \ {"finder_recv"}) \intersect running)
    /\ UNCHANGED <<running, flag, handle, caller, stopped, overlapped>>

\* The stop methods of the finders and the listener.
StopListeners ==
    /\ pc = "stopping"
    /\ pc' = "down"
    /\ aborted' = aborted \union (Listener \intersect running)
    /\ UNCHANGED <<running, flag, handle, caller, stopped, overlapped>>

-----------------------------------------------------------------------------
\* The runtime drops an aborted task.
Dies(t) ==
    /\ t \in aborted
    /\ running' = running \ {t}
    /\ aborted' = aborted \ {t}
    /\ UNCHANGED <<pc, flag, handle, caller, stopped, overlapped>>

\* The defense loop sees its channel closed: the finder and its tasks are gone.
DefenseCloses ==
    /\ "defense" \in running
    /\ pc = "down"
    /\ Finder \intersect running = {}
    /\ running' = running \ {"defense"}
    /\ aborted' = aborted \ {"defense"}
    /\ UNCHANGED <<pc, flag, handle, caller, stopped, overlapped>>

Builds == StartListener(Finder) \/ StartListener({"beats"}) \/ StartListener({"statuses"})
              \/ BecomeUp \/ BuildFails

Shutdown == AbortWires \/ Unwrap \/ StopListeners

Next ==
    \/ Builds
    \/ \E c \in Caller : Store(c) \/ Take(c) \/ \E sending \in BOOLEAN : Swap(c, sending)
    \/ \E l \in Loop : LoopEnds(l)
    \/ Shutdown
    \/ \E t \in Task : Dies(t)
    \/ DefenseCloses

Spec == Init /\ [][Next]_vars

\* Calls go on, loops tick, aborted tasks are dropped and shutdown runs to its end.
FairSpec ==
    /\ Spec
    /\ \A c \in Caller : WF_vars(Store(c)) /\ WF_vars(Take(c))
    /\ \A l \in Loop : WF_vars(LoopEnds(l))
    /\ \A t \in Task : WF_vars(Dies(t))
    /\ WF_vars(DefenseCloses)
    /\ WF_vars(Unwrap) /\ WF_vars(StopListeners)

-----------------------------------------------------------------------------
Quiescent == \A c \in Caller : caller[c] = Idle

LoopMatchesFlag == Cardinality(Loops \ aborted) = IF flag THEN 1 ELSE 0

\* As long as no two calls of set_sending_status have overlapped, there is one
\* broadcast loop while is_sending_status says so, and none otherwise but loops
\* whose abort is under way.
LoopMatchesFlagInTurn == Quiescent /\ ~overlapped => LoopMatchesFlag

\* Broadcasting that is turned off and stays off ends, also that of loops whose
\* handle was lost to an overlapping call: the flag is what stops them.
QuietWhenOff == ~flag ~> flag \/ Loops = {}

\* After shutdown no task of the session listens or follows the network any more,
\* and nothing defends the device number.
ListenersEnd == pc = "down" ~> running \intersect (Listener \union Wire \union {"defense"}) = {}

\* If shutdown stops the VirtualCdj, nothing of the session is left.
StopEndsAll == pc = "down" /\ stopped ~> running = {}
=============================================================================
