------------------------ MODULE TempoTracker_proofs ------------------------
(***************************************************************************)
(* Proofs about TempoTracker, for every interleaving of the tasks and with *)
(* our own packets heard: its type invariant, WeMeansUs, and what a        *)
(* subscriber of the events knows (MasterEventsMirror, RoleEventsMirror).  *)
(***************************************************************************)
EXTENDS TempoTracker, TLAPS

-----------------------------------------------------------------------------
(* Types *)

\* What send_modify writes is a MasterState, whichever method writes it.
LEMMA WrittenType ==
    ASSUME NEW s \in MasterState, NEW w \in Write, w.op \notin {"nothing", "infer"}
    PROVE  Written(s, w) \in MasterState
<1>1. CASE w.op = "is_master"
  BY <1>1, TrackerAssumption
     DEF Written, Write, MasterState, OnDeviceIsMasterState
<1>2. CASE w.op = "set_we"
  BY <1>2, TrackerAssumption
     DEF Written, Write, MasterState, SetWeAreMasterState
<1>3. CASE w.op = "resign"
  BY <1>3 DEF Written, MasterState, ResignState
<1>4. CASE w.op = "no_master"
  BY <1>4 DEF Written, MasterState, DefaultState, NoTempo
<1>5. CASE w.op \in {"set_tempo", "beat_tempo"}
  <2>1. w.bpm \in Nat
    BY <1>5, TrackerAssumption DEF Write
  <2>2. Written(s, w) = SetTempoState(s, w.bpm)
    BY <1>5 DEF Written
  <2> QED
    BY <2>1, <2>2 DEF MasterState, SetTempoState
<1> QED
  BY <1>1, <1>2, <1>3, <1>4, <1>5 DEF Write

\* A MasterChanged event names a device or none, so a subscriber's view keeps
\* its type.
LEMMA SendType ==
    ASSUME TypeOK, NEW t \in Task, NEW events, NEW write \in Write,
           Send(t, events, write),
           NewMasters(events) \subseteq Device \union {NoDevice}
    PROVE  TypeOK'
<1>1. seen' \in [master_device : Device \union {NoDevice}, we_are_master : BOOLEAN]
  BY DEF Send, Hears, TypeOK
<1>2. pending' \in [Task -> Write]
  BY DEF Send, TypeOK
<1>3. overtaken' \subseteq Task
  BY DEF Send, TypeOK
<1> QED
  BY <1>1, <1>2, <1>3 DEF Send, TypeOK

\* How NewMasters reads the events of a method, one event at a time.
LEMMA NewMastersUnion ==
    ASSUME NEW A, NEW B
    PROVE  NewMasters(A \union B) = NewMasters(A) \union NewMasters(B)
BY DEF NewMasters

\* ... and which single events name a new master.
LEMMA NewMastersOne ==
    ASSUME NEW old, NEW new, NEW dev
    PROVE  /\ NewMasters({}) = {}
           /\ NewMasters({MasterChanged(old, new)}) = {new}
           /\ NewMasters({TempoChanged(dev, old, new)}) = {}
           /\ NewMasters({WeBecameMaster}) = {}
           /\ NewMasters({WeResignedMaster}) = {}
<1> USE DEF NewMasters
<1>1. NewMasters({MasterChanged(old, new)}) = {new}
  <2> DEFINE event == MasterChanged(old, new)
  <2>1. event.type = "MasterChanged" /\ event.new = new
    BY DEF MasterChanged
  <2> HIDE DEF event
  <2>2. {x \in {event} : x.type = "MasterChanged"} = {event}
    BY <2>1
  <2>3. {e.new : e \in {event}} = {new}
    BY <2>1
  <2> QED
    BY <2>2, <2>3 DEF event
<1>2. NewMasters({TempoChanged(dev, old, new)}) = {}
  BY DEF TempoChanged
<1>3. NewMasters({WeBecameMaster}) = {}
  BY DEF WeBecameMaster
<1>4. NewMasters({WeResignedMaster}) = {}
  BY DEF WeResignedMaster
<1> QED
  BY <1>1, <1>2, <1>3, <1>4

\* The master that the events of each method announce, if any.
LEMMA Announced ==
    ASSUME NEW us, NEW cur, NEW dev, NEW bpm
    PROVE  /\ NewMasters(OnDeviceIsMasterEvents(us, cur, dev, bpm))
                = IF cur.master_device # dev THEN {dev} ELSE {}
           /\ NewMasters(OnBeatEvents(cur, dev, bpm)) = {}
           /\ NewMasters(SetTempoEvents(cur, bpm)) = {}
           /\ NewMasters(OnNoMasterEvents(cur))
                = IF cur.master_device # NoDevice THEN {NoDevice} ELSE {}
           /\ NewMasters(SetWeAreMasterEvents(us, cur))
                = IF cur.we_are_master THEN {} ELSE {us}
           /\ NewMasters(ResignEvents(cur)) = {}
<1>0. ASSUME NEW cond
      PROVE  /\ NewMasters(Only(cond, TempoChanged(dev, cur.master_tempo, bpm))) = {}
             /\ NewMasters(Only(cond, TempoChanged(cur.master_device, cur.master_tempo, bpm))) = {}
             /\ NewMasters(Only(cond, WeBecameMaster)) = {}
             /\ NewMasters(Only(cond, WeResignedMaster)) = {}
  BY NewMastersOne DEF Only
<1>1. NewMasters(OnDeviceIsMasterEvents(us, cur, dev, bpm))
        = IF cur.master_device # dev THEN {dev} ELSE {}
  <2>1. CASE cur.master_device # dev
    <3> DEFINE A == {MasterChanged(cur.master_device, dev)}
               B == Only(dev = us /\ ~cur.we_are_master, WeBecameMaster)
               C == Only(dev # us /\ cur.we_are_master, WeResignedMaster)
    <3>1. OnDeviceIsMasterEvents(us, cur, dev, bpm) = A \union B \union C
      BY <2>1 DEF OnDeviceIsMasterEvents
    <3>2. NewMasters(A) = {dev} /\ NewMasters(B) = {} /\ NewMasters(C) = {}
      BY <1>0, NewMastersOne
    <3> HIDE DEF A, B, C
    <3>3. NewMasters(A \union B) = {dev}
      BY <3>2, NewMastersUnion
    <3>4. NewMasters((A \union B) \union C) = {dev}
      BY <3>2, <3>3, NewMastersUnion
    <3> QED
      BY <2>1, <3>1, <3>4
  <2>2. CASE cur.master_device = dev
    BY <1>0, <2>2 DEF OnDeviceIsMasterEvents
  <2> QED
    BY <2>1, <2>2
<1>2. NewMasters(OnBeatEvents(cur, dev, bpm)) = {}
  BY <1>0 DEF OnBeatEvents
<1>3. NewMasters(SetTempoEvents(cur, bpm)) = {}
  BY <1>0 DEF SetTempoEvents
<1>4. NewMasters(OnNoMasterEvents(cur))
        = IF cur.master_device # NoDevice THEN {NoDevice} ELSE {}
  <2> DEFINE A == Only(NoMasterApplies(cur), MasterChanged(cur.master_device, NoDevice))
             B == Only(NoMasterApplies(cur) /\ cur.we_are_master, WeResignedMaster)
  <2>1. NewMasters(B) = {}
    BY <1>0
  <2>2. NewMasters(A) = IF cur.master_device # NoDevice THEN {NoDevice} ELSE {}
    BY NewMastersOne DEF Only, NoMasterApplies
  <2>3. OnNoMasterEvents(cur) = A \union B
    BY DEF OnNoMasterEvents
  <2> HIDE DEF A, B
  <2>4. NewMasters(A \union B) = NewMasters(A)
    BY <2>1, NewMastersUnion
  <2> QED
    BY <2>2, <2>3, <2>4
<1>5. NewMasters(SetWeAreMasterEvents(us, cur)) = IF cur.we_are_master THEN {} ELSE {us}
  <2> DEFINE A == {MasterChanged(cur.master_device, us)}
             B == {WeBecameMaster}
  <2>1. NewMasters(A) = {us} /\ NewMasters(B) = {} /\ NewMasters({}) = {}
    BY NewMastersOne
  <2>2. SetWeAreMasterEvents(us, cur) = IF cur.we_are_master THEN {} ELSE A \union B
    BY DEF SetWeAreMasterEvents
  <2> HIDE DEF A, B
  <2> QED
    BY <2>1, <2>2, NewMastersUnion
<1>6. NewMasters(ResignEvents(cur)) = {}
  BY <1>0 DEF ResignEvents
<1> QED
  BY <1>1, <1>2, <1>3, <1>4, <1>5, <1>6

\* When the events of each method announce a change of our own role.
LEMMA RoleAnnounced ==
    ASSUME NEW us, NEW cur, NEW dev, NEW bpm
    PROVE  /\ WeBecameMaster \in OnDeviceIsMasterEvents(us, cur, dev, bpm)
                <=> cur.master_device # dev /\ dev = us /\ ~cur.we_are_master
           /\ WeResignedMaster \in OnDeviceIsMasterEvents(us, cur, dev, bpm)
                <=> cur.master_device # dev /\ dev # us /\ cur.we_are_master
           /\ WeBecameMaster \notin OnBeatEvents(cur, dev, bpm)
           /\ WeResignedMaster \notin OnBeatEvents(cur, dev, bpm)
           /\ WeBecameMaster \notin SetTempoEvents(cur, bpm)
           /\ WeResignedMaster \notin SetTempoEvents(cur, bpm)
           /\ WeBecameMaster \notin OnNoMasterEvents(cur)
           /\ WeResignedMaster \in OnNoMasterEvents(cur)
                <=> cur.master_device # NoDevice /\ cur.we_are_master
           /\ WeBecameMaster \in SetWeAreMasterEvents(us, cur) <=> ~cur.we_are_master
           /\ WeResignedMaster \notin SetWeAreMasterEvents(us, cur)
           /\ WeBecameMaster \notin ResignEvents(cur)
           /\ WeResignedMaster \in ResignEvents(cur) <=> cur.we_are_master
<1>0. ASSUME NEW old, NEW new, NEW d
      PROVE  /\ WeBecameMaster # MasterChanged(old, new)
             /\ WeBecameMaster # TempoChanged(d, old, new)
             /\ WeResignedMaster # MasterChanged(old, new)
             /\ WeResignedMaster # TempoChanged(d, old, new)
             /\ WeBecameMaster # WeResignedMaster
  <2>1. /\ WeBecameMaster.type = "WeBecameMaster"
        /\ WeResignedMaster.type = "WeResignedMaster"
        /\ MasterChanged(old, new).type = "MasterChanged"
        /\ TempoChanged(d, old, new).type = "TempoChanged"
    BY DEF WeBecameMaster, WeResignedMaster, MasterChanged, TempoChanged
  <2> QED
    BY <2>1
<1> USE <1>0 DEF Only
<1>1. /\ WeBecameMaster \in OnDeviceIsMasterEvents(us, cur, dev, bpm)
           <=> cur.master_device # dev /\ dev = us /\ ~cur.we_are_master
      /\ WeResignedMaster \in OnDeviceIsMasterEvents(us, cur, dev, bpm)
           <=> cur.master_device # dev /\ dev # us /\ cur.we_are_master
  BY DEF OnDeviceIsMasterEvents
<1>2. /\ WeBecameMaster \notin OnBeatEvents(cur, dev, bpm)
      /\ WeResignedMaster \notin OnBeatEvents(cur, dev, bpm)
  BY DEF OnBeatEvents
<1>3. /\ WeBecameMaster \notin SetTempoEvents(cur, bpm)
      /\ WeResignedMaster \notin SetTempoEvents(cur, bpm)
  BY DEF SetTempoEvents
<1>4. /\ WeBecameMaster \notin OnNoMasterEvents(cur)
      /\ WeResignedMaster \in OnNoMasterEvents(cur)
           <=> cur.master_device # NoDevice /\ cur.we_are_master
  BY DEF OnNoMasterEvents, NoMasterApplies
<1>5. /\ WeBecameMaster \in SetWeAreMasterEvents(us, cur) <=> ~cur.we_are_master
      /\ WeResignedMaster \notin SetWeAreMasterEvents(us, cur)
  BY DEF SetWeAreMasterEvents
<1>6. /\ WeBecameMaster \notin ResignEvents(cur)
      /\ WeResignedMaster \in ResignEvents(cur) <=> cur.we_are_master
  BY DEF ResignEvents, ResignApplies
<1> QED
  BY <1>1, <1>2, <1>3, <1>4, <1>5, <1>6

-----------------------------------------------------------------------------
(* The type invariant *)

\* Every step that is not a SendModify is the first half of some method.
LEMMA FirstHalfType ==
    ASSUME TypeOK, NEW dev \in Device, NEW bpm \in Tempo,
           \/ StatusIsMaster(dev, bpm)
           \/ Beat(dev, bpm)
           \/ BeatInfers
           \/ StatusAccepts(bpm)
           \/ AppClaims(bpm)
           \/ AppSetsTempo(bpm)
           \/ AppResigns
           \/ AppNoMaster
    PROVE  TypeOK'
<1> USE DEF TypeOK
<1>1. /\ "status" \in Task /\ "beat" \in Task /\ "app" \in Task
      /\ Us \in Device
  BY TrackerAssumption
<1>2. /\ Nothing \in Write /\ Resign \in Write /\ NoMaster \in Write
      /\ IsMaster(dev, bpm) \in Write /\ Infer(dev, bpm) \in Write
      /\ BeatTempo(dev, bpm) \in Write
      /\ SetTempo(bpm) \in Write /\ SetWe(bpm) \in Write
  BY DEF Write, Nothing, Resign, NoMaster, IsMaster, Infer, BeatTempo, SetTempo, SetWe
<1>3. CASE StatusIsMaster(dev, bpm)
  BY <1>1, <1>2, <1>3, SendType, Announced DEF StatusIsMaster
<1>4. CASE Beat(dev, bpm)
  BY <1>1, <1>2, <1>4, SendType, Announced DEF Beat
<1>5. CASE BeatInfers
  <2> DEFINE d == pending["beat"].device
             b == pending["beat"].bpm
  <2>1. d \in Device /\ b \in Tempo
    BY <1>1, <1>5 DEF BeatInfers, Write
  <2>2. IsMaster(d, b) \in Write
    BY <2>1 DEF IsMaster, Write
  <2>3. Send("beat", OnDeviceIsMasterEvents(Us, state, d, b), IsMaster(d, b))
    BY <1>5 DEF BeatInfers
  <2> HIDE DEF d, b
  <2> QED
    BY <1>1, <2>1, <2>2, <2>3, SendType, Announced
<1>6. CASE StatusAccepts(bpm)
  <2>1. NewMasters(SetWeAreMasterEvents(Us, state)) \subseteq Device \union {NoDevice}
    <3>1. NewMasters(SetWeAreMasterEvents(Us, state)) \in {{}, {Us}}
      BY Announced
    <3> QED
      BY <1>1, <3>1
  <2> QED
    BY <1>1, <1>2, <1>6, <2>1, SendType DEF StatusAccepts
<1>7. CASE AppClaims(bpm)
  <2>1. NewMasters(SetWeAreMasterEvents(Us, state)) \subseteq Device \union {NoDevice}
    <3>1. NewMasters(SetWeAreMasterEvents(Us, state)) \in {{}, {Us}}
      BY Announced
    <3> QED
      BY <1>1, <3>1
  <2> QED
    BY <1>1, <1>2, <1>7, <2>1, SendType DEF AppClaims
<1>8. CASE AppSetsTempo(bpm)
  <2>1. (IF SetTempoApplies(state, bpm) THEN SetTempo(bpm) ELSE Nothing) \in Write
    BY <1>2
  <2>2. NewMasters(SetTempoEvents(state, bpm)) \subseteq Device \union {NoDevice}
    BY Announced
  <2> QED
    BY <1>1, <1>8, <2>1, <2>2, SendType DEF AppSetsTempo
<1>9. CASE AppResigns
  <2>1. (IF ResignApplies(state) THEN Resign ELSE Nothing) \in Write
    BY <1>2
  <2>2. NewMasters(ResignEvents(state)) \subseteq Device \union {NoDevice}
    BY Announced
  <2> QED
    BY <1>1, <1>9, <2>1, <2>2, SendType DEF AppResigns
<1>10. CASE AppNoMaster
  <2>1. (IF NoMasterApplies(state) THEN NoMaster ELSE Nothing) \in Write
    BY <1>2
  <2>2. NewMasters(OnNoMasterEvents(state)) \subseteq Device \union {NoDevice}
    BY Announced
  <2> QED
    BY <1>1, <1>10, <2>1, <2>2, SendType DEF AppNoMaster
<1> QED
  BY <1>3, <1>4, <1>5, <1>6, <1>7, <1>8, <1>9, <1>10

\* The tracker, the pending writes and the subscriber's view keep their types
\* through every interleaving of the methods of TempoMaster.
THEOREM TrackerTypeOK == Spec => []TypeOK
<1>1. Init => TypeOK
  <2> SUFFICES ASSUME Init PROVE TypeOK
    OBVIOUS
  <2>1. state \in MasterState
    BY DEF Init, DefaultState, MasterState, NoTempo
  <2>2. pending \in [Task -> Write]
    BY DEF Init, Nothing, Write
  <2>3. seen \in [master_device : Device \union {NoDevice}, we_are_master : BOOLEAN]
    BY DEF Init
  <2> QED
    BY <2>1, <2>2, <2>3 DEF Init, TypeOK
<1>2. TypeOK /\ [Next]_vars => TypeOK'
  <2> SUFFICES ASSUME TypeOK, [Next]_vars PROVE TypeOK'
    OBVIOUS
  <2>1. CASE \E t \in Task : SendModify(t)
    <3>1. PICK t \in Task : SendModify(t)
      BY <2>1
    <3>2. pending[t] \in Write
      BY DEF TypeOK
    <3>3. state' \in MasterState
      BY <3>1, <3>2, WrittenType DEF SendModify, TypeOK
    <3>4. pending' \in [Task -> Write]
      BY <3>1 DEF SendModify, TypeOK, Write, Nothing
    <3>5. wasMaster' \in BOOLEAN
      BY <3>1 DEF SendModify
    <3>6. seen' = seen /\ overtaken' \subseteq Task
      BY <3>1 DEF SendModify, TypeOK
    <3>7. unsure' \subseteq Told
      BY <3>1 DEF SendModify, TypeOK, Changed
    <3> QED
      BY <3>3, <3>4, <3>5, <3>6, <3>7 DEF TypeOK
  <2>2. CASE UNCHANGED vars
    BY <2>2 DEF vars, TypeOK
  <2>3. CASE \E dev \in Device, bpm \in Tempo : StatusIsMaster(dev, bpm) \/ Beat(dev, bpm)
    BY <2>3, FirstHalfType
  <2>4. CASE \E bpm \in Tempo : StatusAccepts(bpm) \/ AppClaims(bpm) \/ AppSetsTempo(bpm)
    BY <2>4, FirstHalfType, TrackerAssumption
  <2>5. CASE BeatInfers \/ AppResigns \/ AppNoMaster
    <3>1. PICK bpm \in Tempo : TRUE
      BY TrackerAssumption
    <3> QED
      BY <2>5, <3>1, FirstHalfType, TrackerAssumption
  <2> QED
    BY <2>1, <2>2, <2>3, <2>4, <2>5 DEF Next
<1> QED
  BY <1>1, <1>2, PTL DEF Spec

\* Whatever the interleaving, a tracker that says we are the master names us
\* (WeMeansUs): a write sets both fields or leaves the device alone.
THEOREM TrackerWeMeansUs == Spec => []WeMeansUs
<1>1. Init => WeMeansUs
  BY DEF Init, DefaultState, WeMeansUs
<1>2. TypeOK /\ WeMeansUs /\ [Next]_vars => WeMeansUs'
  <2> SUFFICES ASSUME TypeOK, WeMeansUs, [Next]_vars PROVE WeMeansUs'
    OBVIOUS
  <2>1. CASE \E t \in Task : SendModify(t)
    <3>1. PICK t \in Task : SendModify(t)
      BY <2>1
    <3>2. state' = Written(state, pending[t]) /\ state \in MasterState
      BY <3>1 DEF SendModify, TypeOK
    <3>3. Written(state, pending[t]).we_are_master
            => Written(state, pending[t]).master_device = Us
      BY <3>2 DEF Written, MasterState, WeMeansUs, OnDeviceIsMasterState, SetTempoState,
                  SetWeAreMasterState, ResignState, DefaultState
    <3> QED
      BY <3>2, <3>3 DEF WeMeansUs
  <2>2. CASE UNCHANGED state
    BY <2>2 DEF WeMeansUs
  <2> QED
    BY <2>1, <2>2
       DEF Next, vars, Send, StatusIsMaster, Beat, BeatInfers, StatusAccepts,
           AppClaims, AppSetsTempo, AppResigns, AppNoMaster
<1> QED
  BY <1>1, <1>2, TrackerTypeOK, PTL DEF Spec

-----------------------------------------------------------------------------
(* The event mirrors.                                                      *)
(*                                                                         *)
(* The events of a method are out before it writes.  So a subscriber who   *)
(* is not excused either agrees with the state or with what some method    *)
(* that is half done will leave; and as long as a method whose `current`   *)
(* still holds is about to move a field, the subscriber believes the value *)
(* that one such method is about to set.                                   *)

Half(w) == w.op \notin {"nothing", "infer"}

\* The write w sets field f, to a value that depends on no state.
Sets(w, f) == \/ w.op \in {"is_master", "set_we", "no_master"}
              \/ f = "we_are_master" /\ w.op = "resign"

After(t) == Written(state, pending[t])

\* Task t is about to move field f, and its events have told so.
Moves(t, f) == /\ Half(pending[t]) /\ t \notin overtaken
               /\ ~Untold(state, pending[t])
               /\ After(t)[f] # state[f]

\* Task t is about to move something, and the subscriber believes it of field f.
Leads(t, f) == /\ Half(pending[t]) /\ t \notin overtaken
               /\ Changed(state, After(t)) # {}
               /\ Sets(pending[t], f)
               /\ After(t)[f] = seen[f]

Expected(f) == \/ seen[f] = state[f]
               \/ \E t \in Task : Half(pending[t]) /\ After(t)[f] = seen[f]

MirrorInv ==
    \A f \in Told :
        /\ f \notin unsure => Expected(f)
        /\ (\E t \in Task : Moves(t, f)) => (\E t \in Task : Leads(t, f))

\* What a subscriber believes after the events of one method.
LEMMA Heard ==
    ASSUME NEW events, Hears(events), seen.we_are_master \in BOOLEAN
    PROVE  /\ NewMasters(events) = {} => seen'.master_device = seen.master_device
           /\ \A d : NewMasters(events) = {d} => seen'.master_device = d
           /\ seen'.we_are_master = (/\ WeResignedMaster \notin events
                                     /\ seen.we_are_master \/ WeBecameMaster \in events)
           /\ WeResignedMaster \notin events /\ WeBecameMaster \notin events =>
                  seen'.we_are_master = seen.we_are_master
<1>1. seen'.master_device = IF NewMasters(events) = {} THEN seen.master_device
                            ELSE CHOOSE d \in NewMasters(events) : TRUE
  BY DEF Hears
<1>2. \A d : NewMasters(events) = {d} => seen'.master_device = d
  <2> SUFFICES ASSUME NEW d, NewMasters(events) = {d} PROVE seen'.master_device = d
    OBVIOUS
  <2>1. (CHOOSE x \in {d} : TRUE) \in {d}
    OBVIOUS
  <2> QED
    BY <1>1, <2>1
<1>3. seen'.we_are_master = (/\ WeResignedMaster \notin events
                             /\ seen.we_are_master \/ WeBecameMaster \in events)
  BY DEF Hears
<1>4. ASSUME WeResignedMaster \notin events, WeBecameMaster \notin events
      PROVE  seen'.we_are_master = seen.we_are_master
  <2>1. CASE seen.we_are_master = TRUE
    BY <1>3, <1>4, <2>1
  <2>2. CASE seen.we_are_master = FALSE
    BY <1>3, <1>4, <2>2
  <2> QED
    BY <2>1, <2>2
<1> QED
  BY <1>1, <1>2, <1>3, <1>4

\* What a write leaves in a field depends on that field of the state alone, and on
\* nothing if the write sets it.
LEMMA WrittenField ==
    ASSUME NEW r \in MasterState, NEW s \in MasterState, NEW w \in Write, Half(w),
           NEW f \in Told, r[f] = s[f] \/ Sets(w, f)
    PROVE  Written(r, w)[f] = Written(s, w)[f]
<1>1. CASE w.op \in {"is_master", "set_we", "no_master"}
  BY <1>1 DEF Written, OnDeviceIsMasterState, SetWeAreMasterState
<1>2. CASE w.op \in {"resign"}
  BY <1>2 DEF Written, ResignState, MasterState, Told, Sets
<1>3. CASE w.op \in {"set_tempo", "beat_tempo"}
  BY <1>3 DEF Written, SetTempoState, MasterState, Told, Sets
<1> QED
  BY <1>1, <1>2, <1>3 DEF Half, Write

-----------------------------------------------------------------------------
(* The first half of a method *)

\* The events of a method whose write will be w leave a subscriber with s, who
\* believed r, nothing new about field f; then w does not move f, unless it is our
\* own packet after we resigned.
Quiet(r, s, w, f) ==
    /\ s[f] = r[f]
    /\ Half(w) /\ Written(state, w)[f] # state[f] => Untold(state, w)

\* ... or they tell the subscriber the value that w will set, and w moves something.
Tells(s, w, f) ==
    /\ Half(w) /\ Sets(w, f)
    /\ s[f] = Written(state, w)[f]
    /\ Changed(state, Written(state, w)) # {}

LEMMA SendMirror ==
    ASSUME TypeOK, MirrorInv, NEW t \in Task, ~Half(pending[t]),
           NEW events, NEW write \in Write, Send(t, events, write),
           \A f \in Told : Quiet(seen, seen', write, f) \/ Tells(seen', write, f)
    PROVE  MirrorInv'
<1>1. /\ state' = state /\ unsure' = unsure
      /\ overtaken' = overtaken \ {t}
      /\ pending'[t] = write
      /\ \A u \in Task \ {t} : pending'[u] = pending[u]
  BY DEF Send, TypeOK
<1>2. \A u \in Task \ {t} : After(u)' = After(u)
  BY <1>1 DEF After, Written
<1>3. After(t)' = Written(state, write)
  BY <1>1 DEF After, Written
<1>4. ASSUME NEW f \in Told, Tells(seen', write, f)
      PROVE  Expected(f)' /\ Leads(t, f)'
  BY <1>1, <1>3, <1>4 DEF Tells, Expected, Leads, Changed
<1>5. ASSUME NEW f \in Told, Quiet(seen, seen', write, f), Expected(f)
      PROVE  Expected(f)'
  BY <1>1, <1>2, <1>5 DEF Quiet, Expected
<1>6. ASSUME NEW f \in Told, Quiet(seen, seen', write, f), NEW u \in Task, Moves(u, f)'
      PROVE  \E v \in Task : Leads(v, f)'
  <2>1. u # t
    BY <1>1, <1>3, <1>6 DEF Moves, Quiet, Untold
  <2>2. Moves(u, f)
    BY <1>1, <1>2, <1>6, <2>1 DEF Moves, Untold
  <2>3. PICK v \in Task : Leads(v, f)
    BY <2>2 DEF MirrorInv
  <2>4. v # t
    BY <2>3 DEF Leads
  <2>5. Leads(v, f)'
    BY <1>1, <1>2, <1>6, <2>3, <2>4 DEF Leads, Quiet, Changed
  <2> QED
    BY <2>5
<1> QED
  BY <1>1, <1>4, <1>5, <1>6 DEF MirrorInv

\* A method that sends no event about the master or our role, and moves neither.
LEMMA SilentMethod ==
    ASSUME TypeOK, NEW events, NEW write \in Write, Hears(events),
           NewMasters(events) = {}, WeBecameMaster \notin events,
           WeResignedMaster \notin events,
           write.op \in {"nothing", "infer", "beat_tempo", "set_tempo"}
    PROVE  \A f \in Told : Quiet(seen, seen', write, f) \/ Tells(seen', write, f)
<1>1. /\ seen'.master_device = seen.master_device
      /\ seen'.we_are_master = seen.we_are_master
  BY Heard DEF TypeOK
<1>2. Half(write) => /\ Written(state, write).master_device = state.master_device
                     /\ Written(state, write).we_are_master = state.we_are_master
  BY DEF Half, Written, SetTempoState, MasterState, TypeOK
<1> QED
  BY <1>1, <1>2 DEF Quiet, Told

\* on_device_is_master, for any device: us too.
LEMMA IsMasterTells ==
    ASSUME TypeOK, WeMeansUs, NEW dev \in Device, NEW bpm \in Tempo,
           Hears(OnDeviceIsMasterEvents(Us, state, dev, bpm)),
           NEW write \in Write, write = IsMaster(dev, bpm)
    PROVE  \A f \in Told : Quiet(seen, seen', write, f) \/ Tells(seen', write, f)
<1> DEFINE events == OnDeviceIsMasterEvents(Us, state, dev, bpm)
           new == Written(state, write)
<1>1. /\ write.op = "is_master" /\ write.device = dev /\ Half(write)
      /\ Sets(write, "master_device") /\ Sets(write, "we_are_master")
  BY DEF IsMaster, Half, Sets
<1>2. new.master_device = dev /\ new.we_are_master = (dev = Us)
  BY <1>1 DEF Written, OnDeviceIsMasterState
<1>3. /\ NewMasters(events) = IF state.master_device # dev THEN {dev} ELSE {}
      /\ WeBecameMaster \in events
            <=> state.master_device # dev /\ dev = Us /\ ~state.we_are_master
      /\ WeResignedMaster \in events
            <=> state.master_device # dev /\ dev # Us /\ state.we_are_master
  BY Announced, RoleAnnounced
<1>4. Hears(events) /\ seen.we_are_master \in BOOLEAN /\ state.we_are_master \in BOOLEAN
  BY DEF TypeOK, MasterState
<1>5. state.master_device # new.master_device => Changed(state, new) # {}
  BY DEF Changed, Told
<1> HIDE DEF events, new
<1>6. Quiet(seen, seen', write, "master_device") \/ Tells(seen', write, "master_device")
  <2>1. CASE state.master_device # dev
    BY <1>1, <1>2, <1>3, <1>4, <1>5, <2>1, Heard DEF Tells, new
  <2>2. CASE state.master_device = dev
    BY <1>2, <1>3, <1>4, <2>2, Heard DEF Quiet, new
  <2> QED
    BY <2>1, <2>2
<1>7. Quiet(seen, seen', write, "we_are_master") \/ Tells(seen', write, "we_are_master")
  <2>0. seen'.we_are_master = (/\ WeResignedMaster \notin events
                               /\ seen.we_are_master \/ WeBecameMaster \in events)
    BY <1>4, Heard
  <2>1. CASE WeBecameMaster \in events \/ WeResignedMaster \in events
    <3>1. seen'.we_are_master = new.we_are_master /\ Changed(state, new) # {}
      BY <1>2, <1>3, <1>4, <1>5, <2>0, <2>1
    <3> QED
      BY <1>1, <3>1 DEF Tells, new
  <2>2. CASE WeBecameMaster \notin events /\ WeResignedMaster \notin events
    <3>1. seen'.we_are_master = seen.we_are_master
      BY <1>4, <2>2, Heard
    <3>2. new.we_are_master # state.we_are_master => Untold(state, write)
      BY <1>1, <1>2, <1>3, <1>4, <2>2 DEF Untold, WeMeansUs
    <3> QED
      BY <3>1, <3>2 DEF Quiet, new
  <2> QED
    BY <2>1, <2>2
<1> QED
  BY <1>6, <1>7 DEF Told

\* set_we_are_master, called by the automatic accept and by a claim.
LEMMA SetWeTells ==
    ASSUME TypeOK, WeMeansUs, NEW bpm \in Tempo, Hears(SetWeAreMasterEvents(Us, state)),
           NEW write \in Write, write = SetWe(bpm)
    PROVE  \A f \in Told : Quiet(seen, seen', write, f) \/ Tells(seen', write, f)
<1> DEFINE events == SetWeAreMasterEvents(Us, state)
           new == Written(state, write)
<1>1. /\ write.op = "set_we" /\ Half(write)
      /\ Sets(write, "master_device") /\ Sets(write, "we_are_master")
  BY DEF SetWe, Half, Sets
<1>2. new.master_device = Us /\ new.we_are_master = TRUE
  BY <1>1 DEF Written, SetWeAreMasterState
<1>3. /\ NewMasters(events) = IF state.we_are_master THEN {} ELSE {Us}
      /\ WeBecameMaster \in events <=> ~state.we_are_master
      /\ WeResignedMaster \notin events
  BY Announced, RoleAnnounced
<1>4. Hears(events) /\ seen.we_are_master \in BOOLEAN /\ state.we_are_master \in BOOLEAN
  BY DEF TypeOK, MasterState
<1>5. state.we_are_master # new.we_are_master => Changed(state, new) # {}
  BY DEF Changed, Told
<1> HIDE DEF events
<1>6. CASE state.we_are_master
  <2>1. /\ seen'.master_device = seen.master_device
        /\ seen'.we_are_master = seen.we_are_master
    BY <1>3, <1>4, <1>6, Heard
  <2>2. new.master_device = state.master_device /\ new.we_are_master = state.we_are_master
    BY <1>2, <1>4, <1>6 DEF WeMeansUs
  <2> QED
    BY <2>1, <2>2 DEF Quiet, Told
<1>7. CASE ~state.we_are_master
  <2>1. seen'.master_device = new.master_device /\ seen'.we_are_master = new.we_are_master
    BY <1>2, <1>3, <1>4, <1>7, Heard
  <2> QED
    BY <1>1, <1>2, <1>5, <1>7, <2>1 DEF Tells, Told
<1> QED
  BY <1>6, <1>7

\* resign_master, which leaves the device alone.
LEMMA ResignTells ==
    ASSUME TypeOK, Hears(ResignEvents(state)), NEW write \in Write,
           write = IF ResignApplies(state) THEN Resign ELSE Nothing
    PROVE  \A f \in Told : Quiet(seen, seen', write, f) \/ Tells(seen', write, f)
<1> DEFINE events == ResignEvents(state)
           new == Written(state, write)
<1>1. IF state.we_are_master
      THEN write.op = "resign" /\ Half(write) /\ Sets(write, "we_are_master")
      ELSE write.op = "nothing" /\ ~Half(write)
  BY DEF Resign, Nothing, Half, Sets, ResignApplies
<1>2. write.op = "resign" =>
        new.master_device = state.master_device /\ new.we_are_master = FALSE
  BY DEF Written, ResignState, MasterState, TypeOK
<1>3. /\ NewMasters(events) = {}
      /\ WeBecameMaster \notin events
      /\ WeResignedMaster \in events <=> state.we_are_master
  BY Announced, RoleAnnounced
<1>4. Hears(events) /\ seen.we_are_master \in BOOLEAN /\ state.we_are_master \in BOOLEAN
  BY DEF TypeOK, MasterState
<1>5. state.we_are_master # new.we_are_master => Changed(state, new) # {}
  BY DEF Changed, Told
<1> HIDE DEF events
<1>6. seen'.master_device = seen.master_device
  BY <1>3, <1>4, Heard
<1>7. CASE state.we_are_master
  <2>1. seen'.we_are_master = FALSE
    BY <1>3, <1>4, <1>7, Heard
  <2>2. Tells(seen', write, "we_are_master")
    BY <1>1, <1>2, <1>5, <1>7, <2>1 DEF Tells
  <2>3. Quiet(seen, seen', write, "master_device")
    BY <1>1, <1>2, <1>6, <1>7 DEF Quiet
  <2> QED
    BY <2>2, <2>3 DEF Told
<1>8. CASE ~state.we_are_master
  <2>1. seen'.we_are_master = seen.we_are_master
    BY <1>3, <1>4, <1>8, Heard
  <2> QED
    BY <1>1, <1>6, <1>8, <2>1 DEF Quiet, Told
<1> QED
  BY <1>7, <1>8

\* on_no_master.
LEMMA NoMasterTells ==
    ASSUME TypeOK, WeMeansUs, Hears(OnNoMasterEvents(state)), NEW write \in Write,
           write = IF NoMasterApplies(state) THEN NoMaster ELSE Nothing
    PROVE  \A f \in Told : Quiet(seen, seen', write, f) \/ Tells(seen', write, f)
<1> DEFINE events == OnNoMasterEvents(state)
           new == Written(state, write)
<1>1. IF state.master_device # NoDevice
      THEN /\ write.op = "no_master" /\ Half(write)
           /\ Sets(write, "master_device") /\ Sets(write, "we_are_master")
      ELSE write.op = "nothing" /\ ~Half(write)
  BY DEF NoMaster, Nothing, Half, Sets, NoMasterApplies
<1>2. write.op = "no_master" => new.master_device = NoDevice /\ new.we_are_master = FALSE
  BY DEF Written, DefaultState
<1>3. /\ NewMasters(events) = IF state.master_device # NoDevice THEN {NoDevice} ELSE {}
      /\ WeBecameMaster \notin events
      /\ WeResignedMaster \in events <=> state.master_device # NoDevice /\ state.we_are_master
  BY Announced, RoleAnnounced
<1>4. Hears(events) /\ seen.we_are_master \in BOOLEAN /\ state.we_are_master \in BOOLEAN
  BY DEF TypeOK, MasterState
<1>5. state.master_device # new.master_device => Changed(state, new) # {}
  BY DEF Changed, Told
<1>6. state.we_are_master => state.master_device # NoDevice
  BY NoDeviceAssumption, TrackerAssumption DEF WeMeansUs
<1> HIDE DEF events
<1>7. CASE state.master_device # NoDevice
  <2>1. Tells(seen', write, "master_device")
    BY <1>1, <1>2, <1>3, <1>4, <1>5, <1>7, Heard DEF Tells
  <2>2. CASE state.we_are_master
    <3>1. seen'.we_are_master = FALSE
      BY <1>3, <1>4, <1>7, <2>2, Heard
    <3> QED
      BY <1>1, <1>2, <1>5, <1>7, <2>1, <3>1 DEF Tells, Told
  <2>3. CASE ~state.we_are_master
    <3>1. seen'.we_are_master = seen.we_are_master
      BY <1>3, <1>4, <2>3, Heard
    <3> QED
      BY <1>1, <1>2, <1>4, <1>7, <2>1, <2>3, <3>1 DEF Quiet, Told
  <2> QED
    BY <2>2, <2>3
<1>8. CASE state.master_device = NoDevice
  <2>1. /\ seen'.master_device = seen.master_device
        /\ seen'.we_are_master = seen.we_are_master
    BY <1>3, <1>4, <1>6, <1>8, Heard
  <2> QED
    BY <1>1, <1>8, <2>1 DEF Quiet, Told
<1> QED
  BY <1>7, <1>8

-----------------------------------------------------------------------------
(* The second half *)

\* What a field of a half-done method will be, after another task has written.
LEMMA StillAfter ==
    ASSUME TypeOK, NEW t \in Task, SendModify(t), NEW u \in Task \ {t},
           Half(pending[u]), NEW f \in Told,
           state'[f] = state[f] \/ Sets(pending[u], f)
    PROVE  pending'[u] = pending[u] /\ After(u)'[f] = After(u)[f]
<1>1. state \in MasterState /\ pending[t] \in Write /\ pending[u] \in Write
  BY DEF TypeOK
<1>2. state' \in MasterState
  BY <1>1, WrittenType DEF SendModify
<1>3. pending'[u] = pending[u]
  BY DEF SendModify, TypeOK
<1>4. Written(state', pending[u])[f] = Written(state, pending[u])[f]
  BY <1>1, <1>2, WrittenField
<1>5. After(u)' = Written(state', pending[u])
  BY <1>3 DEF After, Written
<1> QED
  BY <1>3, <1>4, <1>5 DEF After

LEMMA SendModifyMirror ==
    ASSUME TypeOK, MirrorInv, NEW t \in Task, SendModify(t)
    PROVE  MirrorInv'
<1>0. /\ Half(pending[t]) /\ ~Half(pending'[t])
      /\ state' = After(t) /\ seen' = seen
      /\ pending' = [pending EXCEPT ![t] = Nothing]
  BY DEF SendModify, Half, After, Nothing, TypeOK
<1>1. CASE Changed(state, state') = {}
  <2>1. \A f \in Told : state'[f] = state[f]
    BY <1>1 DEF Changed
  <2>2. unsure' = unsure /\ overtaken' = overtaken \ {t}
    BY <1>1 DEF SendModify, TypeOK
  <2>3. \A u \in Task \ {t} : Half(pending[u]) =>
          pending'[u] = pending[u] /\ \A f \in Told : After(u)'[f] = After(u)[f]
    <3> SUFFICES ASSUME NEW u \in Task \ {t}, Half(pending[u])
                 PROVE  pending'[u] = pending[u] /\ \A f \in Told : After(u)'[f] = After(u)[f]
      OBVIOUS
    <3>1. pending'[u] = pending[u]
      BY <1>0 DEF TypeOK
    <3>2. ASSUME NEW f \in Told PROVE After(u)'[f] = After(u)[f]
      BY <2>1, StillAfter
    <3> QED
      BY <3>1, <3>2
  <2>4. \A u \in Task \ {t} : pending'[u] = pending[u]
    BY <1>0 DEF TypeOK
  <2>5. ASSUME NEW f \in Told, Expected(f) PROVE Expected(f)'
    BY <1>0, <2>1, <2>3, <2>4, <2>5 DEF Expected
  <2>6. ASSUME NEW f \in Told, NEW u \in Task, Moves(u, f)'
        PROVE  \E v \in Task : Leads(v, f)'
    <3>1. u # t /\ Half(pending[u]) /\ u \notin overtaken
      BY <1>0, <2>2, <2>4, <2>6 DEF Moves
    <3>2. state'.master_device = state.master_device /\ state'.we_are_master = state.we_are_master
      BY <2>1 DEF Told
    <3>3. ~Untold(state, pending[u])
      BY <2>4, <2>6, <3>1, <3>2 DEF Moves, Untold
    <3>4. Moves(u, f)
      BY <2>1, <2>3, <2>6, <3>1, <3>3 DEF Moves
    <3>5. PICK v \in Task : Leads(v, f)
      BY <3>4 DEF MirrorInv
    <3>6. v # t
      BY <1>0, <1>1, <3>5 DEF Leads
    <3>7. Changed(state, After(v))' = Changed(state, After(v))
      BY <2>1, <2>3, <3>5, <3>6 DEF Changed, Leads
    <3>8. Leads(v, f)'
      BY <1>0, <2>2, <2>3, <3>5, <3>6, <3>7 DEF Leads
    <3> QED
      BY <3>8
  <2> QED
    BY <2>2, <2>5, <2>6 DEF MirrorInv
<1>2. CASE Changed(state, state') # {}
  <2>1. \A u \in Task : ~Moves(u, "master_device")' /\ ~Moves(u, "we_are_master")'
    <3>1. \A u \in Task \ {t} : Half(pending'[u]) => u \in overtaken'
      BY <1>0, <1>2 DEF SendModify, Half, Nothing, TypeOK
    <3> QED
      BY <1>0, <3>1 DEF Moves
  <2>2. ASSUME NEW f \in Told, f \notin Changed(state, state'), Expected(f)
        PROVE  Expected(f)'
    <3>1. state'[f] = state[f]
      BY <2>2 DEF Changed
    <3>2. CASE seen[f] = state[f]
      BY <1>0, <3>1, <3>2 DEF Expected
    <3>3. CASE \E u \in Task : Half(pending[u]) /\ After(u)[f] = seen[f]
      <4>1. PICK u \in Task : Half(pending[u]) /\ After(u)[f] = seen[f]
        BY <3>3
      <4>2. CASE u = t
        BY <1>0, <4>1, <4>2 DEF Expected
      <4>3. CASE u # t
        BY <1>0, <3>1, <4>1, <4>3, StillAfter DEF Expected
      <4> QED
        BY <4>2, <4>3
    <3> QED
      BY <2>2, <3>2, <3>3 DEF Expected
  <2>3. ASSUME NEW f \in Changed(state, state'), f \notin unsure'
        PROVE  Expected(f)'
    <3>1. t \notin overtaken /\ ~Untold(state, pending[t])
      BY <2>3 DEF SendModify
    <3>2. f \in Told /\ state'[f] # state[f]
      BY <2>3 DEF Changed
    <3>3. Moves(t, f)
      BY <1>0, <3>1, <3>2 DEF Moves
    <3>4. PICK u \in Task : Leads(u, f)
      BY <3>2, <3>3 DEF MirrorInv
    <3>5. CASE u = t
      BY <1>0, <3>4, <3>5 DEF Expected, Leads
    <3>6. CASE u # t
      <4>1. After(u)'[f] = seen'[f] /\ Half(pending'[u])
        BY <1>0, <3>2, <3>4, <3>6, StillAfter DEF Leads
      <4> QED
        BY <4>1 DEF Expected
    <3> QED
      BY <3>5, <3>6
  <2>4. \A f \in Told \ Changed(state, state') : f \notin unsure' => f \notin unsure
    BY DEF SendModify
  <2> QED
    BY <2>1, <2>2, <2>3, <2>4 DEF MirrorInv, Told
<1> QED
  BY <1>1, <1>2

-----------------------------------------------------------------------------
\* The invariant, step by step.
LEMMA MirrorNext ==
    ASSUME TypeOK, WeMeansUs, MirrorInv, [Next]_vars
    PROVE  MirrorInv'
<1>0. /\ "status" \in Task /\ "beat" \in Task /\ "app" \in Task
      /\ ~Half(Nothing)
  BY TrackerAssumption DEF Half, Nothing
<1>1. ASSUME NEW dev \in Device, NEW bpm \in Tempo, StatusIsMaster(dev, bpm)
      PROVE  MirrorInv'
  <2> DEFINE write == IsMaster(dev, bpm)
  <2>1. write \in Write
    BY DEF IsMaster, Write
  <2>2. /\ Send("status", OnDeviceIsMasterEvents(Us, state, dev, bpm), write)
        /\ Hears(OnDeviceIsMasterEvents(Us, state, dev, bpm))
        /\ pending["status"] = Nothing
    BY <1>1 DEF StatusIsMaster, Send
  <2> HIDE DEF write
  <2>3. \A f \in Told : Quiet(seen, seen', write, f) \/ Tells(seen', write, f)
    BY <2>1, <2>2, IsMasterTells DEF write
  <2> QED
    BY <1>0, <2>1, <2>2, <2>3, SendMirror
<1>2. ASSUME NEW dev \in Device, NEW bpm \in Tempo, Beat(dev, bpm)
      PROVE  MirrorInv'
  <2> DEFINE events == OnBeatEvents(state, dev, bpm)
             write == IF BeatPromotes(state, bpm) THEN Infer(dev, bpm)
                      ELSE IF BeatApplies(state, dev, bpm) THEN BeatTempo(dev, bpm)
                      ELSE Nothing
  <2>1. write \in Write /\ write.op \in {"nothing", "infer", "beat_tempo"}
    BY DEF Infer, BeatTempo, Nothing, Write
  <2>2. Send("beat", events, write) /\ Hears(events) /\ pending["beat"] = Nothing
    BY <1>2 DEF Beat, Send
  <2>3. /\ NewMasters(events) = {} /\ WeBecameMaster \notin events
        /\ WeResignedMaster \notin events
    BY Announced, RoleAnnounced
  <2> HIDE DEF events, write
  <2>4. \A f \in Told : Quiet(seen, seen', write, f) \/ Tells(seen', write, f)
    BY <2>1, <2>2, <2>3, SilentMethod
  <2> QED
    BY <1>0, <2>1, <2>2, <2>4, SendMirror
<1>3. CASE BeatInfers
  <2> DEFINE dev == pending["beat"].device
             bpm == pending["beat"].bpm
             write == IsMaster(dev, bpm)
  <2>1. /\ pending["beat"] \in Write /\ pending["beat"].op = "infer"
        /\ Send("beat", OnDeviceIsMasterEvents(Us, state, dev, bpm), write)
        /\ Hears(OnDeviceIsMasterEvents(Us, state, dev, bpm))
    BY <1>0, <1>3 DEF BeatInfers, Send, TypeOK
  <2>2. dev \in Device /\ bpm \in Tempo /\ ~Half(pending["beat"])
    BY <2>1 DEF Write, Half
  <2>3. write \in Write
    BY <2>2 DEF IsMaster, Write
  <2> HIDE DEF dev, bpm, write
  <2>4. \A f \in Told : Quiet(seen, seen', write, f) \/ Tells(seen', write, f)
    BY <2>1, <2>2, <2>3, IsMasterTells DEF write
  <2> QED
    BY <1>0, <2>1, <2>2, <2>3, <2>4, SendMirror
<1>4. ASSUME NEW bpm \in Tempo, StatusAccepts(bpm) \/ AppClaims(bpm)
      PROVE  MirrorInv'
  <2> DEFINE write == SetWe(bpm)
  <2>1. write \in Write
    BY DEF SetWe, Write
  <2>2. PICK t \in Task : /\ Send(t, SetWeAreMasterEvents(Us, state), write)
                          /\ Hears(SetWeAreMasterEvents(Us, state))
                          /\ pending[t] = Nothing
    BY <1>0, <1>4 DEF StatusAccepts, AppClaims, Send
  <2> HIDE DEF write
  <2>3. \A f \in Told : Quiet(seen, seen', write, f) \/ Tells(seen', write, f)
    BY <2>1, <2>2, SetWeTells DEF write
  <2> QED
    BY <1>0, <2>1, <2>2, <2>3, SendMirror
<1>5. ASSUME NEW bpm \in Tempo, AppSetsTempo(bpm)
      PROVE  MirrorInv'
  <2> DEFINE events == SetTempoEvents(state, bpm)
             write == IF SetTempoApplies(state, bpm) THEN SetTempo(bpm) ELSE Nothing
  <2>1. write \in Write /\ write.op \in {"nothing", "set_tempo"}
    BY DEF SetTempo, Nothing, Write
  <2>2. Send("app", events, write) /\ Hears(events) /\ pending["app"] = Nothing
    BY <1>5 DEF AppSetsTempo, Send
  <2>3. /\ NewMasters(events) = {} /\ WeBecameMaster \notin events
        /\ WeResignedMaster \notin events
    BY Announced, RoleAnnounced
  <2> HIDE DEF events, write
  <2>4. \A f \in Told : Quiet(seen, seen', write, f) \/ Tells(seen', write, f)
    BY <2>1, <2>2, <2>3, SilentMethod
  <2> QED
    BY <1>0, <2>1, <2>2, <2>4, SendMirror
<1>6. CASE AppResigns
  <2> DEFINE write == IF ResignApplies(state) THEN Resign ELSE Nothing
  <2>1. write \in Write
    BY DEF Resign, Nothing, Write
  <2>2. /\ Send("app", ResignEvents(state), write) /\ Hears(ResignEvents(state))
        /\ pending["app"] = Nothing
    BY <1>6 DEF AppResigns, Send
  <2> HIDE DEF write
  <2>3. \A f \in Told : Quiet(seen, seen', write, f) \/ Tells(seen', write, f)
    BY <2>1, <2>2, ResignTells DEF write
  <2> QED
    BY <1>0, <2>1, <2>2, <2>3, SendMirror
<1>7. CASE AppNoMaster
  <2> DEFINE write == IF NoMasterApplies(state) THEN NoMaster ELSE Nothing
  <2>1. write \in Write
    BY DEF NoMaster, Nothing, Write
  <2>2. /\ Send("app", OnNoMasterEvents(state), write) /\ Hears(OnNoMasterEvents(state))
        /\ pending["app"] = Nothing
    BY <1>7 DEF AppNoMaster, Send
  <2> HIDE DEF write
  <2>3. \A f \in Told : Quiet(seen, seen', write, f) \/ Tells(seen', write, f)
    BY <2>1, <2>2, NoMasterTells DEF write
  <2> QED
    BY <1>0, <2>1, <2>2, <2>3, SendMirror
<1>8. ASSUME NEW t \in Task, SendModify(t) PROVE MirrorInv'
  BY <1>8, SendModifyMirror
<1>9. CASE UNCHANGED vars
  BY <1>9 DEF vars, MirrorInv, Expected, Moves, Leads, After, Written, Untold, Changed
<1> QED
  BY <1>1, <1>2, <1>3, <1>4, <1>5, <1>6, <1>7, <1>8, <1>9 DEF Next

LEMMA MirrorsAgree == Spec => []MirrorInv
<1>1. Init => MirrorInv
  <2> SUFFICES ASSUME Init PROVE MirrorInv
    OBVIOUS
  <2>1. \A t \in Task : ~Half(pending[t])
    BY DEF Init, Nothing, Half
  <2>2. \A f \in Told : Expected(f)
    <3>1. /\ seen.master_device = state.master_device
          /\ seen.we_are_master = state.we_are_master
      BY DEF Init, DefaultState
    <3> QED
      BY <3>1 DEF Expected, Told
  <2> QED
    BY <2>1, <2>2 DEF MirrorInv, Moves
<1> QED
  BY <1>1, MirrorNext, TrackerTypeOK, TrackerWeMeansUs, PTL DEF Spec

\* On any runtime and with our own packets heard, a subscriber who follows MasterChanged
\* events knows the master device whenever no method is half done, unless the last change
\* of it was overtaken (the methods of TempoMaster).
THEOREM TrackerMasterEventsMirror == Spec => []MasterEventsMirror
<1>1. MirrorInv => MasterEventsMirror
  BY DEF MirrorInv, Expected, Half, Nothing, Quiescent, MasterEventsMirror, Told
<1> QED
  BY <1>1, MirrorsAgree, PTL

\* In the same way, one who follows WeBecameMaster and WeResignedMaster knows our role,
\* unless its last change was overtaken or came with our own packet after we resigned.
THEOREM TrackerRoleEventsMirror == Spec => []RoleEventsMirror
<1>1. MirrorInv => RoleEventsMirror
  BY DEF MirrorInv, Expected, Half, Nothing, Quiescent, RoleEventsMirror, Told
<1> QED
  BY <1>1, MirrorsAgree, PTL
=============================================================================
