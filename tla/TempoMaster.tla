----------------------------- MODULE TempoMaster -----------------------------
(***************************************************************************)
(* The tempo-master tracker of one virtual CDJ (network/tempo.rs), as      *)
(* operators on its watched MasterState and on the events it broadcasts.   *)
(*                                                                         *)
(* Every method of the Rust type has the same shape: it clones the watched *)
(* state into a local `current`, sends the events that `current` calls     *)
(* for, and then writes the state with send_modify.  A method is therefore *)
(* a pair of operators here: XEvents(cur, ...) is the set of events sent   *)
(* after reading cur (no method sends two of one type), and XState(s, ...) *)
(* the value that send_modify leaves.  A caller that runs the method       *)
(* without interruption uses both on one state (module Handoff); module    *)
(* TempoTracker lets other tasks run in between.                           *)
(*                                                                         *)
(* A tempo is a natural number, 0 standing for Bpm(0.0); two tempos differ *)
(* here when they differ by more than the 0.001 BPM of the source.         *)
(* `updated_at` is never read by the crate and is left out.                *)
(***************************************************************************)
EXTENDS Naturals

CONSTANTS
    Device,      \* the device numbers of the network
    NoDevice     \* None, for an Option<DeviceNumber>

ASSUME NoDeviceAssumption == NoDevice \notin Device

NoTempo == 0

MasterState == [master_device : Device \union {NoDevice},
                master_tempo  : Nat,
                we_are_master : BOOLEAN]

\* Fault: no master is device 0.
DefaultStateZero == [master_device |-> 0,
                     master_tempo  |-> NoTempo,
                     we_are_master |-> FALSE]

DefaultState == [master_device |-> NoDevice,
                 master_tempo  |-> NoTempo,
                 we_are_master |-> FALSE]

-----------------------------------------------------------------------------
\* TempoMasterEvent

MasterChanged(old, new)     == [type |-> "MasterChanged", old |-> old, new |-> new]
TempoChanged(dev, old, new) == [type |-> "TempoChanged", device |-> dev,
                                old |-> old, new |-> new]
WeBecameMaster              == [type |-> "WeBecameMaster"]
WeResignedMaster            == [type |-> "WeResignedMaster"]

Only(cond, event) == IF cond THEN {event} ELSE {}

-----------------------------------------------------------------------------
\* on_device_is_master: a status packet carries the MASTER flag, or a beat
\* makes its sender the inferred master.

OnDeviceIsMasterEvents(us, cur, dev, bpm) ==
    IF cur.master_device # dev
    THEN {MasterChanged(cur.master_device, dev)}
           \union Only(dev = us /\ ~cur.we_are_master, WeBecameMaster)
           \union Only(dev # us /\ cur.we_are_master, WeResignedMaster)
    ELSE Only(cur.master_tempo # bpm, TempoChanged(dev, cur.master_tempo, bpm))

\* Fault: the role is compared the wrong way round.
IsMasterInverted(us, dev, bpm) ==
    [master_device |-> dev, master_tempo |-> bpm, we_are_master |-> (dev # us)]

OnDeviceIsMasterState(us, dev, bpm) ==
    [master_device |-> dev, master_tempo |-> bpm, we_are_master |-> (dev = us)]

\* on_beat: while no master is known the sender of a beat with a tempo is
\* handed to on_device_is_master; otherwise only the master's beats count.

BeatPromotes(cur, bpm) == cur.master_device = NoDevice /\ bpm > NoTempo

BeatApplies(cur, dev, bpm) ==
    /\ ~BeatPromotes(cur, bpm)
    /\ cur.master_device = dev
    /\ cur.master_tempo # bpm

OnBeatEvents(cur, dev, bpm) ==
    Only(BeatApplies(cur, dev, bpm), TempoChanged(dev, cur.master_tempo, bpm))

\* set_master_tempo, which does not ask whether we are the master.

SetTempoApplies(cur, bpm) == cur.master_tempo # bpm

SetTempoEvents(cur, bpm) ==
    Only(SetTempoApplies(cur, bpm) /\ cur.master_device # NoDevice,
         TempoChanged(cur.master_device, cur.master_tempo, bpm))

\* The write of set_master_tempo and of on_beat.
SetTempoState(s, bpm) == [s EXCEPT !.master_tempo = bpm]

\* on_no_master, whose write is the default state again.

NoMasterApplies(cur) == cur.master_device # NoDevice

\* Fault: one of the two events is not sent.
OnNoMasterNotChanged(cur) == Only(NoMasterApplies(cur) /\ cur.we_are_master, WeResignedMaster)

OnNoMasterNotResigned(cur) == Only(NoMasterApplies(cur), MasterChanged(cur.master_device, NoDevice))

OnNoMasterEvents(cur) ==
    Only(NoMasterApplies(cur), MasterChanged(cur.master_device, NoDevice))
      \union Only(NoMasterApplies(cur) /\ cur.we_are_master, WeResignedMaster)

\* set_we_are_master, which writes whether or not we already are.

SetWeAreMasterEvents(us, cur) ==
    IF cur.we_are_master
    THEN {}
    ELSE {MasterChanged(cur.master_device, us), WeBecameMaster}

SetWeAreMasterState(us, bpm) ==
    [master_device |-> us, master_tempo |-> bpm, we_are_master |-> TRUE]

\* resign_master: master_device still names us afterwards.

ResignApplies(cur) == cur.we_are_master

ResignEvents(cur) == Only(ResignApplies(cur), WeResignedMaster)

ResignState(s) == [s EXCEPT !.we_are_master = FALSE]
=============================================================================
