---------------------------- MODULE TempoTracker ----------------------------
(***************************************************************************)
(* One TempoMaster (network/tempo.rs) and the tasks that call it: the      *)
(* status task and the beat task that ProDjLink::build spawns, and the     *)
(* application (with the handoff task, which calls resign_master only).    *)
(* No lock protects a method of TempoMaster from the next one: a method    *)
(* reads the watched state and sends its events in one step, and writes in *)
(* a later one (module TempoMaster).  Other tasks may run in between, as   *)
(* they do on a multi-threaded runtime, and our own status packets and     *)
(* beats come back to us like those of any device: nothing in the crate    *)
(* filters them out.                                                       *)
(*                                                                         *)
(* A subscriber who follows the events may then believe what is not so.    *)
(* The bookkeeping variables `overtaken` and `unsure`, which no method     *)
(* reads, say exactly when: only after a write that another task has       *)
(* overtaken, or after our own flagged packet came back to us when we had  *)
(* resigned, and only until the next write that moves what it is about.    *)
(***************************************************************************)
EXTENDS TempoMaster

CONSTANTS
    Us,           \* our own device number
    Tempo,        \* the tempos packets and callers mention
    Task          \* {"status", "beat", "app"}

ASSUME TrackerAssumption ==
    /\ Us \in Device
    /\ Tempo # {} /\ Tempo \subseteq Nat
    /\ Task = {"status", "beat", "app"}

VARIABLES
    state,      \* the watched MasterState
    pending,    \* per task: the write its method has still to make
    seen,       \* what a subscriber of every event believes
    wasMaster,  \* whether we were ever master: did our status carry the flag
    overtaken,  \* the tasks whose `current` another task has outdated since
    unsure      \* the fields whose last change no event may have told

vars == <<state, pending, seen, wasMaster, overtaken, unsure>>

\* The fields that events tell a subscriber about.
Told == {"master_device", "we_are_master"}

-----------------------------------------------------------------------------
\* Pending writes, named for the method that will make them.

Nothing          == [op |-> "nothing"]
IsMaster(d, b)   == [op |-> "is_master", device |-> d, bpm |-> b]
Infer(d, b)      == [op |-> "infer", device |-> d, bpm |-> b]
BeatTempo(d, b)  == [op |-> "beat_tempo", device |-> d, bpm |-> b]
SetTempo(b)      == [op |-> "set_tempo", bpm |-> b]
SetWe(b)         == [op |-> "set_we", bpm |-> b]
Resign           == [op |-> "resign"]
NoMaster         == [op |-> "no_master"]

Write == [op : {"nothing", "resign", "no_master"}]
           \union [op : {"set_tempo", "set_we"}, bpm : Tempo]
           \union [op : {"is_master", "infer", "beat_tempo"}, device : Device, bpm : Tempo]

TypeOK ==
    /\ state \in MasterState
    /\ pending \in [Task -> Write]
    /\ seen \in [master_device : Device \union {NoDevice}, we_are_master : BOOLEAN]
    /\ wasMaster \in BOOLEAN
    /\ overtaken \subseteq Task
    /\ unsure \subseteq Told

Init ==
    /\ state = DefaultState
    /\ pending = [t \in Task |-> Nothing]
    /\ seen = [master_device |-> NoDevice, we_are_master |-> FALSE]
    /\ wasMaster = FALSE
    /\ overtaken = {}
    /\ unsure = {}

-----------------------------------------------------------------------------
\* First half of a method: read `current`, send the events.

Quiescent == \A t \in Task : pending[t] = Nothing

NewMasters(events) == {e.new : e \in {x \in events : x.type = "MasterChanged"}}

\* The subscriber's view after the events of one method.
Hears(events) ==
    seen' = [master_device |-> IF NewMasters(events) = {} THEN seen.master_device
                               ELSE CHOOSE d \in NewMasters(events) : TRUE,
             we_are_master |-> /\ WeResignedMaster \notin events
                               /\ seen.we_are_master \/ WeBecameMaster \in events]

Send(t, events, write) ==
    /\ Hears(events)
    /\ pending' = [pending EXCEPT ![t] = write]
    /\ overtaken' = overtaken \ {t}
    /\ UNCHANGED <<state, wasMaster, unsure>>

\* process_cdj_status, process_mixer_status: a packet with the MASTER flag.
\* Our own carries it only if we were master when it was built.
StatusIsMaster(dev, bpm) ==
    /\ pending["status"] = Nothing
    /\ dev = Us => wasMaster
    /\ Send("status", OnDeviceIsMasterEvents(Us, state, dev, bpm), IsMaster(dev, bpm))

\* process_cdj_status: the automatic accept.
StatusAccepts(bpm) ==
    /\ pending["status"] = Nothing
    /\ Send("status", SetWeAreMasterEvents(Us, state), SetWe(bpm))

\* process_beat: on_beat reads `current` and may hand the beat, which may be our
\* own, to on_device_is_master ...
Beat(dev, bpm) ==
    /\ pending["beat"] = Nothing
    /\ Send("beat", OnBeatEvents(state, dev, bpm),
            IF BeatPromotes(state, bpm) THEN Infer(dev, bpm)
            ELSE IF BeatApplies(state, dev, bpm) THEN BeatTempo(dev, bpm)
            ELSE Nothing)

\* ... which reads `current` again.
BeatInfers ==
    /\ pending["beat"].op = "infer"
    /\ LET dev == pending["beat"].device
           bpm == pending["beat"].bpm
       IN  Send("beat", OnDeviceIsMasterEvents(Us, state, dev, bpm), IsMaster(dev, bpm))

\* request_master_role, after its packet is sent.
AppClaims(bpm) ==
    /\ pending["app"] = Nothing
    /\ Send("app", SetWeAreMasterEvents(Us, state), SetWe(bpm))

\* set_tempo.
AppSetsTempo(bpm) ==
    /\ pending["app"] = Nothing
    /\ Send("app", SetTempoEvents(state, bpm),
            IF SetTempoApplies(state, bpm) THEN SetTempo(bpm) ELSE Nothing)

\* yield_master_role, and process_master_handoff in the handoff task.
AppResigns ==
    /\ pending["app"] = Nothing
    /\ Send("app", ResignEvents(state),
            IF ResignApplies(state) THEN Resign ELSE Nothing)

\* TempoMaster::on_no_master, which only an application calls.
AppNoMaster ==
    /\ pending["app"] = Nothing
    /\ Send("app", OnNoMasterEvents(state),
            IF NoMasterApplies(state) THEN NoMaster ELSE Nothing)

-----------------------------------------------------------------------------
\* Second half: send_modify.

Written(s, w) ==
    IF w.op = "is_master" THEN OnDeviceIsMasterState(Us, w.device, w.bpm)
    ELSE IF w.op = "set_we" THEN SetWeAreMasterState(Us, w.bpm)
    ELSE IF w.op = "resign" THEN ResignState(s)
    ELSE IF w.op = "no_master" THEN DefaultState
    ELSE SetTempoState(s, w.bpm)   \* set_tempo, beat_tempo

Changed(s, r) == {f \in Told : s[f] # r[f]}

\* Our own flagged packet makes us the master again after we have resigned: the
\* master device is still us, and then on_device_is_master tells nothing.
Untold(s, w) ==
    /\ w.op = "is_master" /\ w.device = Us
    /\ s.master_device = Us /\ ~s.we_are_master

SendModify(t) ==
    /\ pending[t].op \notin {"nothing", "infer"}
    /\ state' = Written(state, pending[t])
    /\ pending' = [pending EXCEPT ![t] = Nothing]
    /\ wasMaster' = (wasMaster \/ state'.we_are_master)
    /\ overtaken' = (overtaken \union {u \in Task : /\ pending[u] # Nothing
                                                    /\ Changed(state, state') # {}}) \ {t}
    /\ unsure' = IF t \in overtaken \/ Untold(state, pending[t])
                 THEN unsure \union Changed(state, state')
                 ELSE unsure \ Changed(state, state')
    /\ UNCHANGED seen

Next ==
    \/ \E dev \in Device, bpm \in Tempo : StatusIsMaster(dev, bpm) \/ Beat(dev, bpm)
    \/ \E bpm \in Tempo : StatusAccepts(bpm) \/ AppClaims(bpm) \/ AppSetsTempo(bpm)
    \/ BeatInfers
    \/ AppResigns
    \/ AppNoMaster
    \/ \E t \in Task : SendModify(t)

Spec == Init /\ [][Next]_vars

-----------------------------------------------------------------------------
\* A tracker that says we are the master names us as the master device, also
\* when methods of several tasks interleave: no method sets one field of the
\* role without the other, and none that leaves the role alone moves the device.
WeMeansUs == state.we_are_master => state.master_device = Us

\* A subscriber who follows MasterChanged events knows the master device whenever
\* no method is half done, through claims, resignations, inferred and lost masters,
\* unless the last change of the device was written by a method that another task
\* had overtaken since it read `current`.
MasterEventsMirror ==
    Quiescent /\ "master_device" \notin unsure => seen.master_device = state.master_device

\* A subscriber who follows WeBecameMaster and WeResignedMaster knows whether we are
\* the master whenever no method is half done, unless the last change of our role
\* was overtaken in the same way or came with our own packet after we had resigned.
RoleEventsMirror ==
    Quiescent /\ "we_are_master" \notin unsure => seen.we_are_master = state.we_are_master
=============================================================================
