--------------------------- MODULE Session_proofs ---------------------------
(***************************************************************************)
(* Proofs about Session, for any number of tasks that switch broadcasting  *)
(* and any identities of loops: its type invariant, and that the flag and  *)
(* the broadcast loop agree as long as calls do not overlap.               *)
(***************************************************************************)
EXTENDS Session, FiniteSetTheorems, TLAPS

\* The loops that will go on.
Live == Loops \ aborted

\* One call at a time, and only while the session is up.
OneAtATime ==
    /\ \A c, d \in Caller : caller[c] # Idle /\ caller[d] # Idle => c = d
    /\ \A c \in Caller : caller[c] # Idle => pc = "up"

\* A call between its swap and its lock: the new loop runs already, the old one still.
HalfWay ==
    \A c \in Caller :
        /\ caller[c].pc = "storing" => flag /\ Live = {caller[c].loop}
        /\ caller[c].pc = "taking"  => ~flag /\ Live \subseteq {handle}

AtRest ==
    Quiescent => IF flag THEN handle \in Loop /\ Live = {handle} ELSE Live = {}

InTurn == OneAtATime /\ HalfWay /\ AtRest

IInv == TypeOK /\ (~overlapped => InTurn)

-----------------------------------------------------------------------------
LEMMA InitIInv == Init => IInv
<1> SUFFICES ASSUME Init PROVE IInv
  OBVIOUS
<1>1. TypeOK
  BY DEF Init, TypeOK, CallState, Idle
<1>2. \A c \in Caller : caller[c] = Idle
  BY DEF Init
<1>3. Live = {} /\ ~flag
  BY DEF Init, Live, Loops
<1> QED
  BY <1>1, <1>2, <1>3 DEF IInv, InTurn, OneAtATime, HalfWay, AtRest, Idle

\* Steps that leave the calls and the loops that go on alone.
LEMMA Undisturbed ==
    ASSUME InTurn, UNCHANGED <<flag, handle, caller>>, Live' = Live,
           pc' = pc \/ Quiescent
    PROVE  InTurn'
BY DEF InTurn, OneAtATime, HalfWay, AtRest, Quiescent, Idle

\* Each step keeps the types.
LEMMA NextTypeOK ==
    ASSUME TypeOK, [Next]_vars
    PROVE  TypeOK'
<1> USE DEF TypeOK
<1>1. CASE UNCHANGED vars
  BY <1>1 DEF vars
<1>2. CASE Builds
  BY <1>2 DEF Builds, StartListener, BecomeUp, BuildFails, Task, Listener, Finder
<1>3. ASSUME NEW c \in Caller, Store(c)
      PROVE  TypeOK'
  BY <1>3 DEF Store, CallState, Idle
<1>4. ASSUME NEW c \in Caller, Take(c)
      PROVE  TypeOK'
  BY <1>4 DEF Take, CallState, Idle
<1>5. ASSUME NEW c \in Caller, NEW sending \in BOOLEAN, Swap(c, sending)
      PROVE  TypeOK'
  <2>1. CASE sending /\ ~flag
    <3>1. PICK l \in Loop : /\ running' = running \union {l}
                            /\ caller' = [caller EXCEPT ![c] = [pc |-> "storing", loop |-> l]]
      BY <1>5, <2>1 DEF Swap, NewLoop
    <3> QED
      BY <1>5, <3>1 DEF Swap, CallState, Task
  <2>2. CASE ~sending /\ flag
    <3>1. [Idle EXCEPT !.pc = "taking"] \in CallState
      BY DEF Idle, CallState
    <3>2. caller' = [caller EXCEPT ![c] = [Idle EXCEPT !.pc = "taking"]]
      BY <1>5, <2>2 DEF Swap
    <3> QED
      BY <1>5, <2>2, <3>1, <3>2 DEF Swap
  <2>3. CASE sending = flag
    BY <1>5, <2>3 DEF Swap
  <2> QED
    BY <2>1, <2>2, <2>3
<1>6. ASSUME NEW l \in Loop, LoopEnds(l)
      PROVE  TypeOK'
  BY <1>6 DEF LoopEnds
<1>7. CASE Shutdown
  BY <1>7 DEF Shutdown, AbortWires, Unwrap, Stop, StopListeners
<1>8. ASSUME NEW t \in Task, Dies(t)
      PROVE  TypeOK'
  BY <1>8 DEF Dies
<1>9. CASE DefenseCloses
  BY <1>9 DEF DefenseCloses
<1> QED
  BY <1>1, <1>2, <1>3, <1>4, <1>5, <1>6, <1>7, <1>8, <1>9 DEF Next

\* Unless a call begins during another one, each step keeps calls and loops in turn.
LEMMA NextInTurn ==
    ASSUME TypeOK, InTurn, ~overlapped, [Next]_vars, ~overlapped'
    PROVE  InTurn'
<1> USE DEF TypeOK
<1> USE SessionAssumption
<1>1. CASE UNCHANGED vars
  BY <1>1, Undisturbed DEF vars, Live, Loops
<1>2. CASE Builds
  <2>1. pc' = pc \/ Quiescent
    BY <1>2 DEF Builds, StartListener, BecomeUp, BuildFails, InTurn, OneAtATime, Quiescent
  <2>2. Live' = Live /\ UNCHANGED <<flag, handle, caller>>
    BY <1>2 DEF Builds, StartListener, BecomeUp, BuildFails, Live, Loops, Listener, Finder, Wire, CdjTask
  <2> QED
    BY <2>1, <2>2, Undisturbed
<1>3. ASSUME NEW c \in Caller, Store(c)
      PROVE  InTurn'
  <2>1. \A d \in Caller : d # c => caller[d] = Idle
    BY <1>3 DEF Store, InTurn, OneAtATime, Idle
  <2>2. \A d \in Caller : caller'[d] = Idle
    BY <1>3, <2>1 DEF Store
  <2>3. flag' /\ Live' = {handle'} /\ handle' \in Loop
    BY <1>3 DEF Store, InTurn, HalfWay, Live, Loops, CallState
  <2> QED
    BY <2>2, <2>3 DEF InTurn, OneAtATime, HalfWay, AtRest, Idle
<1>4. ASSUME NEW c \in Caller, Take(c)
      PROVE  InTurn'
  <2>1. \A d \in Caller : d # c => caller[d] = Idle
    BY <1>4 DEF Take, InTurn, OneAtATime, Idle
  <2>2. \A d \in Caller : caller'[d] = Idle
    BY <1>4, <2>1 DEF Take
  <2>3. ~flag' /\ Live' = {}
    BY <1>4 DEF Take, InTurn, HalfWay, Live, Loops
  <2> QED
    BY <2>2, <2>3 DEF InTurn, OneAtATime, HalfWay, AtRest, Idle
<1>5. ASSUME NEW c \in Caller, NEW sending \in BOOLEAN, Swap(c, sending)
      PROVE  InTurn'
  <2>1. Quiescent
    BY <1>5 DEF Swap, Quiescent
  <2>2. CASE sending /\ ~flag
    <3>1. PICK l \in Loop \ running :
                 /\ running' = running \union {l}
                 /\ caller' = [caller EXCEPT ![c] = [pc |-> "storing", loop |-> l]]
      BY <1>5, <2>2 DEF Swap, NewLoop
    <3>2. Live' = {l} /\ flag'
      BY <1>5, <2>1, <2>2, <3>1 DEF Swap, InTurn, AtRest, Live, Loops
    <3>3. /\ caller'[c] = [pc |-> "storing", loop |-> l]
          /\ \A d \in Caller : d # c => caller'[d] = Idle
      BY <2>1, <3>1 DEF Quiescent
    <3> QED
      BY <1>5, <3>2, <3>3 DEF Swap, InTurn, OneAtATime, HalfWay, AtRest, Quiescent, Idle
  <2>3. CASE ~sending /\ flag
    <3>1. /\ caller'[c].pc = "taking"
          /\ \A d \in Caller : d # c => caller'[d] = Idle
      BY <1>5, <2>1, <2>3 DEF Swap, Quiescent, Idle
    <3>2. ~flag' /\ Live' \subseteq {handle'}
      BY <1>5, <2>1, <2>3 DEF Swap, InTurn, AtRest, Live, Loops
    <3> QED
      BY <1>5, <3>1, <3>2 DEF Swap, InTurn, OneAtATime, HalfWay, AtRest, Quiescent, Idle
  <2>4. CASE sending = flag
    BY <1>5, <2>4, Undisturbed DEF Swap, Live, Loops
  <2> QED
    BY <2>2, <2>3, <2>4
<1>6. ASSUME NEW l \in Loop, LoopEnds(l)
      PROVE  InTurn'
  <2>1. ~flag /\ Live' \subseteq Live /\ UNCHANGED <<pc, flag, handle, caller>>
    BY <1>6 DEF LoopEnds, Live, Loops
  <2> QED
    BY <2>1 DEF InTurn, OneAtATime, HalfWay, AtRest, Quiescent, Idle
<1>7. CASE AbortWires
  <2>1. Quiescent /\ Live' = Live /\ UNCHANGED <<flag, handle, caller>>
    BY <1>7 DEF AbortWires, Quiescent, Live, Loops
  <2> QED
    BY <2>1, Undisturbed
<1>8. CASE Unwrap
  <2>1. Quiescent /\ Quiescent'
    BY <1>8 DEF Unwrap, InTurn, OneAtATime, Quiescent
  <2>2. CASE UNCHANGED <<aborted, flag, stopped>>
    BY <1>8, <2>1, <2>2, Undisturbed DEF Unwrap, Live, Loops
  <2>3. CASE Stop
    <3>1. ~flag' /\ Live' = {}
      BY <1>8, <2>1, <2>3 DEF Unwrap, Stop, InTurn, AtRest, Live, Loops
    <3> QED
      BY <2>1, <3>1 DEF InTurn, OneAtATime, HalfWay, AtRest, Quiescent, Idle
  <2> QED
    BY <1>8, <2>2, <2>3 DEF Unwrap
<1>9. CASE StopListeners
  <2>1. Quiescent
    BY <1>9 DEF StopListeners, InTurn, OneAtATime, Quiescent
  <2>2. Live' = Live /\ UNCHANGED <<flag, handle, caller>>
    BY <1>9 DEF StopListeners, Live, Loops
  <2> QED
    BY <2>1, <2>2, Undisturbed
<1>10. ASSUME NEW t \in Task, Dies(t)
       PROVE  InTurn'
  BY <1>10, Undisturbed DEF Dies, Live, Loops
<1>11. CASE DefenseCloses
  BY <1>11, Undisturbed DEF DefenseCloses, Live, Loops, CdjTask
<1> QED
  BY <1>1, <1>2, <1>3, <1>4, <1>5, <1>6, <1>7, <1>8, <1>9, <1>10, <1>11 DEF Next, Shutdown

\* An overlap is remembered.
LEMMA OverlapStays ==
    ASSUME TypeOK, [Next]_vars, overlapped
    PROVE  overlapped'
BY DEF TypeOK, Next, vars, Builds, StartListener, BecomeUp, BuildFails, Store, Take, Swap, LoopEnds,
       Shutdown, AbortWires, Unwrap, StopListeners, Dies, DefenseCloses

LEMMA SpecIInv == Spec => []IInv
<1>1. Init => IInv
  BY InitIInv
<1>2. IInv /\ [Next]_vars => IInv'
  BY NextTypeOK, NextInTurn, OverlapStays DEF IInv
<1> QED
  BY <1>1, <1>2, PTL DEF Spec

-----------------------------------------------------------------------------
\* The variables of a session keep their types: only tasks that run are aborted.
THEOREM SessionTypeOK == Spec => []TypeOK
<1>1. IInv => TypeOK
  BY DEF IInv
<1> QED
  BY <1>1, SpecIInv, PTL

\* As long as no two calls of set_sending_status have overlapped, there is one broadcast
\* loop while the flag is on and none that goes on while it is off.
THEOREM SessionLoopMatchesFlagInTurn == Spec => []LoopMatchesFlagInTurn
<1>1. ASSUME IInv, Quiescent, ~overlapped
      PROVE  Cardinality(Live) = IF flag THEN 1 ELSE 0
  <2>1. CASE flag
    <3>1. Live = {handle}
      BY <1>1, <2>1 DEF IInv, InTurn, AtRest
    <3> QED
      BY <2>1, <3>1, FS_Singleton
  <2>2. CASE ~flag
    <3>1. Live = {}
      BY <1>1, <2>2 DEF IInv, InTurn, AtRest
    <3> QED
      BY <2>2, <3>1, FS_EmptySet
  <2> QED
    BY <2>1, <2>2
<1>2. IInv => LoopMatchesFlagInTurn
  BY <1>1 DEF LoopMatchesFlagInTurn, LoopMatchesFlag, Live
<1> QED
  BY <1>2, SpecIInv, PTL
=============================================================================
