--------------------------- MODULE Inventory_proofs ---------------------------
(***************************************************************************)
(* The inventory and its views are sound for any number of devices,        *)
(* assets, profiles and writers.  First the references: a device row names *)
(* a registered asset and a profile row a registered device, unless a      *)
(* reset overtook the writer between its check and its write.  Then the    *)
(* views: what a reader of the CMDB has read of a table still holds of     *)
(* every device and asset that no write has changed since it began.        *)
(***************************************************************************)
EXTENDS Inventory, SequenceTheorems, WellFoundedInduction, TLAPS

DeviceRow == [asset : Optional(Asset), firmware : Optional(Firmware),
              status : {"registered", "maintenance"}]
ProfileRow == [id : Profile, device : Optional(Device), firmware : Optional(Firmware),
               enabled : BOOLEAN]
DeviceWork == [at : {"device", "update"}, of : {"request"}, device : Device, row : DeviceRow]
ProfileWork == [at : {"profile"}, of : {"request"}, profile : ProfileRow]
Step == {"check device", "device", "check profile", "profile", "evidence", "sample"}
RunRecord == [at : Step, of : {"run"}, device : Device, row : DeviceRow, profile : ProfileRow,
              evidence : {"none", "recorded", "validated"}]
RunWork == {r \in RunRecord : r.profile.device = r.device}
Work == {Idle} \cup DeviceWork \cup ProfileWork \cup RunWork

WorkTyped ==
  /\ devices \in [Device -> Optional(DeviceRow)]
  /\ profiles \in Seq(ProfileRow)
  /\ work \in [Worker -> Work]

(* A writer no reset has overtaken writes what still holds of the tables. *)
Owned(d) == d # None => Registered(d)
Sure(w) ==
  /\ work[w].at \in {"device", "update"} => Refers(work[w].row.asset)
  /\ work[w].at = "profile" => Owned(work[w].profile.device)
WritesAreSure == \A w \in Worker \ overtaken : Sure(w)

LinksInv == WorkTyped /\ WritesAreSure /\ LinksHold

(* What a step that only adds registrations leaves standing. *)
LEMMA Kept ==
  ASSUME WritesAreSure, assets \subseteq assets',
         \A d \in Device : Registered(d) => Registered(d)',
         devices \in [Device -> Optional(DeviceRow)], NEW w \in Worker, w \notin overtaken,
         work[w] \in Work, work'[w] = work[w]
  PROVE  Sure(w)'
<1>1. Sure(w)
  BY DEF WritesAreSure
<1>2. CASE work[w].at \in {"device", "update"}
  BY <1>1, <1>2 DEF Sure, Refers, Optional
<1>3. CASE work[w].at = "profile"
  <2>1. work[w].profile.device \in Optional(Device)
    BY <1>3 DEF Work, ProfileWork, RunWork, RunRecord, DeviceWork, ProfileRow, Idle
  <2>2. QED BY <1>1, <1>3, <2>1 DEF Sure, Owned, Optional
<1>4. QED BY <1>2, <1>3 DEF Sure

(* An offer and the parts of a run have the types of the rows they become. *)
LEMMA InputsTyped ==
  ASSUME InventoryAssumption
  PROVE  /\ \A row \in Rows : New(row) \in DeviceRow
         /\ Offers \subseteq ProfileRow
         /\ \A run \in Runs : New(run) \in DeviceRow
         /\ None \notin DeviceRow
BY DEF InventoryAssumption, New, DeviceRow, ProfileRow, Optional

(* Writing the same key again marks it by the last writer; others stay.    *)
LEMMA OthersMarked ==
  ASSUME NEW w, NEW key, NEW dangling, Marked(w, key, dangling)
  PROVE  /\ \A k : k # key => (k \in crossed' <=> k \in crossed)
         /\ dangling /\ w \in overtaken => key \in crossed'
BY DEF Marked

(* A request that only begins, ends or moves on without a write.           *)
LEMMA MoveKeeps ==
  ASSUME LinksInv, NEW w \in Worker, NEW state \in Work, Goto(w, state),
         assets \subseteq assets', UNCHANGED <<devices, profiles, crossed>>,
         \A v \in overtaken : v = w \/ v \in overtaken',
         w \notin overtaken' => Sure(w)'
  PROVE  LinksInv'
<1> USE DEF LinksInv
<1>1. WorkTyped'
  BY DEF WorkTyped, Goto
<1>2. LinksHold'
  BY DEF LinksHold, Registered, Refers, Optional
<1>3. ASSUME NEW v \in Worker \ overtaken' PROVE Sure(v)'
  <2>1. CASE v = w
    BY <1>3, <2>1
  <2>2. CASE v # w
    <3>1. /\ v \notin overtaken
          /\ work'[v] = work[v] /\ work[v] \in Work
          /\ \A d \in Device : Registered(d) => Registered(d)'
          /\ devices \in [Device -> Optional(DeviceRow)]
      BY <1>3, <2>2 DEF WorkTyped, Goto, Registered
    <3>2. QED BY <3>1, <1>3, Kept
  <2>3. QED BY <2>1, <2>2
<1>4. QED BY <1>1, <1>2, <1>3 DEF WritesAreSure

LEMMA InitLinks == Init => LinksInv
<1> SUFFICES ASSUME Init PROVE LinksInv
  OBVIOUS
<1>1. WorkTyped
  BY DEF Init, WorkTyped, Work, Optional
<1>2. WritesAreSure
  BY DEF Init, WritesAreSure, Sure, Idle
<1>3. LinksHold
  BY DEF Init, LinksHold, Registered
<1>4. QED BY <1>1, <1>2, <1>3 DEF LinksInv

(* Moves without a write of a device or a profile.                         *)
LEMMA MovesKeepLinks ==
  ASSUME InventoryAssumption, LinksInv, NEW w \in Worker,
         \/ \E d \in Device, row \in Rows : BeginDevice(w, d, row)
         \/ \E d \in Device, patch \in Patches : BeginUpdate(w, d, patch)
         \/ \E offer \in Offers : BeginProfile(w, offer)
         \/ \E run \in Runs : BeginRun(w, run)
         \/ CheckRun(w) \/ AddEvidence(w) \/ AddSample(w) \/ Abort(w)
  PROVE  LinksInv'
<1>t. /\ work \in [Worker -> Work] /\ work[w] \in Work
      /\ devices \in [Device -> Optional(DeviceRow)]
  BY DEF LinksInv, WorkTyped
<1>1. ASSUME NEW d \in Device, NEW row \in Rows, BeginDevice(w, d, row) PROVE LinksInv'
  <2> DEFINE state == [at |-> "device", of |-> "request", device |-> d, row |-> New(row)]
  <2>1. state \in Work
    BY InputsTyped DEF Work, DeviceWork
  <2>2. Sure(w)'
    BY <1>1, <1>t DEF BeginDevice, Goto, Sure, Refers, New, tables
  <2>3. QED BY <1>1, <2>1, <2>2, MoveKeeps DEF BeginDevice, tables
<1>2. ASSUME NEW d \in Device, NEW patch \in Patches, BeginUpdate(w, d, patch)
      PROVE  LinksInv'
  <2> DEFINE row == [n \in DOMAIN devices[d] |->
                       IF n \in DOMAIN patch THEN patch[n] ELSE devices[d][n]]
             state == [at |-> "update", of |-> "request", device |-> d, row |-> row]
  <2>1. devices[d] \in DeviceRow
    BY <1>2, <1>t DEF BeginUpdate, Registered, Optional
  <2>2. patch \in [{"firmware"} -> Optional(Firmware)] \cup [{"asset"} -> Optional(Asset)]
                  \cup [{"status"} -> {"maintenance"}]
    BY DEF InventoryAssumption
  <2>3. row \in DeviceRow
    BY <2>1, <2>2 DEF DeviceRow
  <2>4. state \in Work
    BY <2>3 DEF Work, DeviceWork
  <2>5. w \notin overtaken' => Sure(w)'
    BY <1>2, <1>t DEF BeginUpdate, Goto, Sure, Refers, tables
  <2>6. QED BY <1>2, <2>4, <2>5, MoveKeeps DEF BeginUpdate, tables
<1>3. ASSUME NEW offer \in Offers, BeginProfile(w, offer) PROVE LinksInv'
  <2> DEFINE state == [at |-> "profile", of |-> "request", profile |-> offer]
  <2>1. state \in Work
    BY InputsTyped DEF Work, ProfileWork
  <2>2. Sure(w)'
    BY <1>3, <1>t DEF BeginProfile, Goto, Sure, Owned, Optional, Registered, tables
  <2>3. QED BY <1>3, <2>1, <2>2, MoveKeeps DEF BeginProfile, tables
<1>4. ASSUME NEW run \in Runs, BeginRun(w, run) PROVE LinksInv'
  <2> DEFINE profile == [id |-> run.profile, device |-> run.device, firmware |-> run.firmware,
                         enabled |-> TRUE]
             state == [at |-> "check device", of |-> "run", device |-> run.device,
                       row |-> New(run), evidence |-> run.evidence, profile |-> profile]
  <2>1. state \in RunWork
    BY InputsTyped DEF RunWork, RunRecord, Step, ProfileRow, InventoryAssumption, Optional
  <2>2. state \in Work /\ assets \subseteq assets'
    BY <1>4, <2>1 DEF Work, BeginRun
  <2>3. Sure(w)'
    BY <1>4, <1>t DEF BeginRun, Goto, Sure
  <2>4. QED BY <1>4, <2>2, <2>3, MoveKeeps DEF BeginRun
<1>5. CASE CheckRun(w)
  <2>0. work[w].at = "check device" \/ work[w].at = "check profile"
    BY <1>5 DEF CheckRun
  <2>1. work[w] \in RunWork
    <3>1. work[w] # Idle
      <4>1. Idle.at = "idle"
        BY DEF Idle
      <4>2. QED BY <2>0, <4>1
    <3>2. work[w] \notin DeviceWork
      BY <2>0 DEF DeviceWork
    <3>3. work[w] \notin ProfileWork
      BY <2>0 DEF ProfileWork
    <3>4. QED BY <1>t, <3>1, <3>2, <3>3 DEF Work
  <2> DEFINE next == IF work[w].at = "check device" THEN "device" ELSE "profile"
             state == IF Known(work[w]) THEN [work[w] EXCEPT !.at = next] ELSE Idle
  <2>2. state \in Work
    BY <2>1 DEF Work, RunWork, RunRecord, Step
  <2>3. Goto(w, state)
    BY <1>5 DEF CheckRun
  <2>4. Sure(w)'
    <3>1. CASE Known(work[w]) /\ work[w].at = "check device"
      <4>1. work'[w] = [work[w] EXCEPT !.at = "device"]
        BY <3>1, <1>t, <2>3 DEF Goto
      <4>2. work'[w].at = "device" /\ work'[w].row = work[w].row
        BY <4>1, <2>1 DEF RunWork, RunRecord
      <4>3. QED BY <1>5, <3>1, <4>2 DEF CheckRun, Sure, Known, Refers, tables
    <3>2. CASE Known(work[w]) /\ work[w].at # "check device"
      BY <1>5, <3>2, <1>t, <2>1, <2>3
      DEF CheckRun, Goto, Sure, Owned, Known, Registered, tables, RunWork, RunRecord, Step
    <3>3. CASE ~Known(work[w])
      BY <3>3, <1>t, <2>3 DEF Goto, Sure, Idle
    <3>4. QED BY <3>1, <3>2, <3>3
  <2>5. QED BY <1>5, <2>2, <2>3, <2>4, MoveKeeps DEF CheckRun, tables
<1>6. CASE AddEvidence(w)
  <2>1. work[w] \in RunWork
    BY <1>6, <1>t DEF AddEvidence, Work, DeviceWork, ProfileWork, Idle
  <2>2. [work[w] EXCEPT !.at = "sample"] \in Work
    BY <2>1 DEF Work, RunWork, RunRecord, Step
  <2>3. Sure(w)'
    BY <1>6, <1>t, <2>1 DEF AddEvidence, Goto, Sure, RunWork, RunRecord
  <2>4. QED BY <1>6, <2>2, <2>3, MoveKeeps DEF AddEvidence
<1>7. CASE AddSample(w) \/ Abort(w)
  <2>1. Idle \in Work /\ Goto(w, Idle)
    BY <1>7 DEF Work, AddSample, Abort
  <2>2. Sure(w)'
    BY <1>t, <2>1 DEF Goto, Sure, Idle
  <2>3. QED BY <1>7, <2>1, <2>2, MoveKeeps DEF AddSample, Abort, tables
<1>8. QED BY <1>1, <1>2, <1>3, <1>4, <1>5, <1>6, <1>7

LEMMA WriteDeviceKeepsLinks ==
  ASSUME InventoryAssumption, LinksInv, NEW w \in Worker, WriteDevice(w)
  PROVE  LinksInv'
<1> DEFINE d == work[w].device
           row == work[w].row
           blank == work[w].at = "update" /\ ~Registered(d)
           next == IF work[w].of = "request" THEN Idle ELSE [work[w] EXCEPT !.at = "check profile"]
<1> USE DEF LinksInv
<1>t. /\ work \in [Worker -> Work] /\ work[w] \in Work
      /\ devices \in [Device -> Optional(DeviceRow)] /\ profiles \in Seq(ProfileRow)
  BY DEF WorkTyped
<1>1. work[w] \in DeviceWork \cup RunWork
  <2>1. work[w].at \in {"device", "update"}
    BY DEF WriteDevice
  <2>2. work[w] # Idle
    <3>1. Idle.at = "idle"
      BY DEF Idle
    <3>2. QED BY <2>1, <3>1
  <2>3. work[w] \notin ProfileWork
    BY <2>1 DEF ProfileWork
  <2>4. QED BY <1>t, <2>2, <2>3 DEF Work
<1>2. d \in Device /\ row \in DeviceRow /\ row # None
  BY <1>1, InputsTyped DEF DeviceWork, RunWork, RunRecord
<1>3. next \in Work
  <2>1. CASE work[w] \in DeviceWork
    BY <2>1 DEF DeviceWork, Work
  <2>2. CASE work[w] \in RunWork
    BY <2>2 DEF RunWork, RunRecord, Step, Work
  <2>3. QED BY <1>1, <2>1, <2>2
<1>4. devices' \in [Device -> Optional(DeviceRow)] /\ \A e \in Device : Registered(e) => Registered(e)'
  <2>1. CASE blank
    BY <2>1, <1>t DEF WriteDevice, Registered
  <2>2. CASE ~blank
    BY <2>2, <1>t, <1>2 DEF WriteDevice, Registered, Optional
  <2>3. QED BY <2>1, <2>2
<1>5. WorkTyped'
  BY <1>t, <1>3, <1>4 DEF WorkTyped, WriteDevice, Goto
<1>6. WritesAreSure'
  <2> SUFFICES ASSUME NEW v \in Worker, v \notin overtaken' PROVE Sure(v)'
    BY DEF WritesAreSure
  <2>1. CASE v = w
    <3>1. work'[w] = next
      BY <1>t DEF WriteDevice, Goto
    <3>2. next.at = "idle" \/ next.at = "check profile"
      BY <1>1 DEF Idle, DeviceWork, RunWork, RunRecord
    <3>3. QED BY <2>1, <3>1, <3>2 DEF Sure
  <2>2. CASE v # w
    BY <2>2, <1>t, <1>4, Kept DEF WriteDevice, Goto
  <2>3. QED BY <2>1, <2>2
<1>7. LinksHold'
  <2>1. CASE blank
    BY <2>1 DEF LinksHold, WriteDevice, Registered, Refers, Optional
  <2>2. CASE ~blank
    <3> DEFINE key == <<"device", d>>
               dangling == ~Refers(row.asset)
    <3>1. devices' = [devices EXCEPT ![d] = row] /\ Marked(w, key, dangling)
      BY <2>2 DEF WriteDevice
    <3>2. dangling => w \in overtaken
      BY DEF WriteDevice, WritesAreSure, Sure
    <3>3. /\ \A k : k # key => (k \in crossed' <=> k \in crossed)
          /\ dangling => key \in crossed'
      <4> HIDE DEF key, dangling
      <4>1. QED BY <3>1, <3>2, OthersMarked
    <3>4. \A e \in Device : Registered(e)' /\ <<"device", e>> \notin crossed' =>
            Refers(devices[e].asset)'
      <4> TAKE e \in Device
      <4>1. CASE e = d
        BY <4>1, <1>t, <1>2, <3>1, <3>3 DEF WriteDevice, Refers
      <4>2. CASE e # d
        BY <4>2, <1>t, <1>2, <3>1, <3>3 DEF WriteDevice, Refers, Registered, LinksHold
      <4>3. QED BY <4>1, <4>2
    <3>5. \A i \in DOMAIN profiles :
            profiles[i].device # None /\ <<"profile", profiles[i].id>> \notin crossed' =>
              devices'[profiles[i].device] # None
      <4> TAKE i \in DOMAIN profiles
      <4>1. <<"profile", profiles[i].id>> # key
        <5>1. key[1] = "device" /\ <<"profile", profiles[i].id>>[1] = "profile"
          OBVIOUS
        <5>2. QED BY <5>1
      <4>2. profiles[i].device \in Optional(Device)
        <5>1. profiles[i] \in ProfileRow
          BY <1>t
        <5>2. QED BY <5>1 DEF ProfileRow
      <4>3. QED BY <1>4, <3>3, <4>1, <4>2 DEF LinksHold, Optional, Registered
    <3>6. QED BY <3>4, <3>5 DEF LinksHold, WriteDevice, Registered
  <2>3. QED BY <2>1, <2>2
<1>8. QED BY <1>5, <1>6, <1>7

(* An upsert changes the row of its key, and no other.                     *)
LEMMA UpsertShape ==
  ASSUME NEW rows \in Seq(ProfileRow), NEW row \in ProfileRow
  PROVE  /\ Upsert(rows, row) \in Seq(ProfileRow)
         /\ \A i \in DOMAIN Upsert(rows, row) :
              \/ Upsert(rows, row)[i] = row
              \/ /\ i \in DOMAIN rows /\ Upsert(rows, row)[i] = rows[i]
                 /\ rows[i].id # row.id
<1> DEFINE I == {i \in DOMAIN rows : rows[i].id = row.id}
<1>1. CASE I = {}
  BY <1>1 DEF Upsert
<1>2. CASE I # {}
  <2> DEFINE new == [i \in DOMAIN rows |-> IF i \in I THEN row ELSE rows[i]]
  <2>1. Upsert(rows, row) = new
    BY <1>2 DEF Upsert
  <2>2. new \in Seq(ProfileRow)
    OBVIOUS
  <2>3. QED BY <2>1, <2>2
<1>3. QED BY <1>1, <1>2

LEMMA WriteProfileKeepsLinks ==
  ASSUME InventoryAssumption, LinksInv, NEW w \in Worker, WriteProfile(w)
  PROVE  LinksInv'
<1> DEFINE row == work[w].profile
           key == <<"profile", row.id>>
           dangling == row.device # None /\ ~Registered(row.device)
           next == IF work[w].of = "request" THEN Idle ELSE [work[w] EXCEPT !.at = "evidence"]
<1> USE DEF LinksInv
<1>t. /\ work \in [Worker -> Work] /\ work[w] \in Work
      /\ devices \in [Device -> Optional(DeviceRow)] /\ profiles \in Seq(ProfileRow)
  BY DEF WorkTyped
<1>1. work[w] \in ProfileWork \cup RunWork
  <2>1. work[w].at = "profile"
    BY DEF WriteProfile
  <2>2. work[w] # Idle
    <3>1. Idle.at = "idle"
      BY DEF Idle
    <3>2. QED BY <2>1, <3>1
  <2>3. work[w] \notin DeviceWork
    BY <2>1 DEF DeviceWork
  <2>4. QED BY <1>t, <2>2, <2>3 DEF Work
<1>2. row \in ProfileRow
  BY <1>1 DEF ProfileWork, RunWork, RunRecord
<1>3. next \in Work
  <2>1. CASE work[w] \in ProfileWork
    BY <2>1 DEF ProfileWork, Work
  <2>2. CASE work[w] \in RunWork
    BY <2>2 DEF RunWork, RunRecord, Step, Work
  <2>3. QED BY <1>1, <2>1, <2>2
<1>4. profiles' = Upsert(profiles, row) /\ Marked(w, key, dangling)
  BY DEF WriteProfile
<1>5. WorkTyped'
  BY <1>t, <1>2, <1>3, <1>4, UpsertShape DEF WorkTyped, WriteProfile, Goto
<1>6. WritesAreSure'
  <2> SUFFICES ASSUME NEW v \in Worker, v \notin overtaken' PROVE Sure(v)'
    BY DEF WritesAreSure
  <2>1. CASE v = w
    <3>1. work'[w] = next
      BY <1>t DEF WriteProfile, Goto
    <3>2. next.at = "idle" \/ next.at = "evidence"
      BY <1>1 DEF Idle, ProfileWork, RunWork, RunRecord
    <3>3. QED BY <2>1, <3>1, <3>2 DEF Sure
  <2>2. CASE v # w
    <3>1. \A e \in Device : Registered(e) => Registered(e)'
      BY DEF WriteProfile, Registered
    <3>2. QED BY <2>2, <3>1, <1>t, Kept DEF WriteProfile, Goto
  <2>3. QED BY <2>1, <2>2
<1>7. LinksHold'
  <2>1. dangling => w \in overtaken
    BY DEF WriteProfile, WritesAreSure, Sure, Owned
  <2>2. /\ \A k : k # key => (k \in crossed' <=> k \in crossed)
        /\ dangling => key \in crossed'
    <3> HIDE DEF key, dangling
    <3>1. QED BY <1>4, <2>1, OthersMarked
  <2>3. \A e \in Device : Registered(e)' /\ <<"device", e>> \notin crossed' =>
          Refers(devices[e].asset)'
    <3> TAKE e \in Device
    <3>1. <<"device", e>> # key
      <4>1. key[1] = "profile" /\ <<"device", e>>[1] = "device"
        OBVIOUS
      <4>2. QED BY <4>1
    <3>2. QED BY <2>2, <3>1 DEF LinksHold, WriteProfile, Registered, Refers
  <2>4. ASSUME NEW i \in DOMAIN profiles', profiles'[i].device # None,
               <<"profile", profiles'[i].id>> \notin crossed'
        PROVE  devices'[profiles'[i].device] # None
    <3>0. UNCHANGED devices
      BY DEF WriteProfile
    <3>1. CASE profiles'[i] = row
      BY <2>2, <2>4, <3>0, <3>1 DEF Registered
    <3>2. CASE profiles'[i] # row
      <4>1. i \in DOMAIN profiles /\ profiles'[i] = profiles[i] /\ profiles[i].id # row.id
        <5> HIDE DEF row
        <5>1. \A j \in DOMAIN Upsert(profiles, row) :
                \/ Upsert(profiles, row)[j] = row
                \/ /\ j \in DOMAIN profiles /\ Upsert(profiles, row)[j] = profiles[j]
                   /\ profiles[j].id # row.id
          BY <1>t, <1>2, UpsertShape
        <5>2. QED BY <1>4, <2>4, <3>2, <5>1
      <4>2. <<"profile", profiles[i].id>> # key
        BY <4>1
      <4>3. QED BY <2>2, <2>4, <3>0, <4>1, <4>2 DEF LinksHold, Registered
    <3>3. QED BY <3>1, <3>2
  <2>5. QED BY <2>3, <2>4 DEF LinksHold, Registered
<1>8. QED BY <1>5, <1>6, <1>7

LEMMA ResetKeepsLinks == ASSUME LinksInv, ResetDemo PROVE LinksInv'
<1>1. WorkTyped'
  BY DEF LinksInv, WorkTyped, ResetDemo, Optional
<1>2. WritesAreSure'
  BY DEF WritesAreSure, Sure, ResetDemo
<1>3. LinksHold'
  BY DEF LinksHold, ResetDemo, Registered, LinksInv, WorkTyped
<1>4. QED BY <1>1, <1>2, <1>3 DEF LinksInv

LEMMA StutterKeepsLinks ==
  ASSUME LinksInv, UNCHANGED <<devices, profiles, work, overtaken, crossed>>, assets \subseteq assets'
  PROVE  LinksInv'
BY DEF LinksInv, WorkTyped, WritesAreSure, Sure, Owned, LinksHold, Registered, Refers, Optional

-----------------------------------------------------------------------------
(* The views.  What a reader has read of a table still holds of every      *)
(* device and asset whose rows no write has changed since it began.        *)
RowsOf(rows, d) == [i \in ProfilesOf(rows, d) |-> rows[i]]
Proofs == {"none", "recorded", "validated"}

TablesTyped ==
  /\ assets \in SUBSET Asset /\ measured \in SUBSET Device
  /\ evidence \in [Device -> Proofs]

Table == (SUBSET Asset) \cup (SUBSET Device) \cup [Device -> Optional(DeviceRow)]
         \cup [Device -> Proofs] \cup Seq(ProfileRow)
Reading == [at : {"reading"}, done : 0..5, read : Seq(Table), writes : Nat,
            devices : SUBSET Device, assets : SUBSET Asset]
ReadIsTrue ==
  /\ view.done >= 1 => \A a \in view.assets : a \in view.read[1] <=> a \in assets
  /\ view.done >= 2 => \A d \in view.devices : view.read[2][d] = devices[d]
  /\ view.done >= 3 => \A d \in view.devices : d \in view.read[3] <=> d \in measured
  /\ view.done >= 4 => /\ view.read[4] \in Seq(ProfileRow)
                       /\ \A d \in view.devices : RowsOf(view.read[4], d) = RowsOf(profiles, d)
  /\ view.done >= 5 => \A d \in view.devices : view.read[5][d] = evidence[d]
ReadingInv == view \in Reading /\ Len(view.read) = view.done /\ ReadIsTrue

ViewInv == view = Idle \/ ReadingInv \/ (view.at = "done" /\ ViewIsTrue)
InventoryInv == LinksInv /\ TablesTyped /\ ViewInv

(* Among the rows of one device there is a last one.                       *)
LEMMA LastExists ==
  ASSUME NEW rows \in Seq(ProfileRow), NEW S \in SUBSET DOMAIN rows, S # {}
  PROVE  Newest(S) \in S /\ \A j \in S : j <= Newest(S)
<1> DEFINE T == {k \in Nat : \E i \in S : Len(rows) - i = k}
<1>1. \A i \in S : i \in Nat /\ Len(rows) - i \in Nat /\ Len(rows) - i \in T
  OBVIOUS
<1>2. T \in SUBSET Nat /\ T # {}
  BY <1>1
<1>3. IsWellFoundedOn(OpToRel(<, Nat), Nat)
  BY NatLessThanWellFounded
<1>4. PICK k \in T : \A x \in T : <<x, k>> \notin OpToRel(<, Nat)
  <2> HIDE DEF T
  <2> QED BY <1>2, <1>3, WFMin
<1>5. PICK i \in S : Len(rows) - i = k
  BY <1>4
<1>6. ASSUME NEW j \in S PROVE j <= i
  <2>1. ~(Len(rows) - j < k)
    BY <1>1, <1>4 DEF OpToRel
  <2> QED BY <1>1, <1>5, <2>1
<1> QED BY <1>6 DEF Newest

(* An item is built from the rows of its device.                           *)
LEMMA ItemIsOfRows ==
  ASSUME NEW t, NEW s, NEW d \in Device, t.profiles \in Seq(ProfileRow), s.profiles \in Seq(ProfileRow),
         t.devices[d] = s.devices[d], d \in t.measured <=> d \in s.measured,
         RowsOf(t.profiles, d) = RowsOf(s.profiles, d), t.evidence[d] = s.evidence[d]
  PROVE  Item(d, t) = Item(d, s) /\ (Sensor(d, t) <=> Sensor(d, s))
<1> DEFINE S == ProfilesOf(t.profiles, d)
           last == Newest(S)
<1>1. S = ProfilesOf(s.profiles, d)
  <2>1. DOMAIN RowsOf(t.profiles, d) = ProfilesOf(t.profiles, d)
        /\ DOMAIN RowsOf(s.profiles, d) = ProfilesOf(s.profiles, d)
    BY DEF RowsOf
  <2> QED BY <2>1
<1>2. ASSUME S # {} PROVE last \in S /\ t.profiles[last] = s.profiles[last]
  <2>1. S \in SUBSET DOMAIN t.profiles
    BY DEF ProfilesOf
  <2>2. last \in S
    BY <1>2, <2>1, LastExists
  <2>3. RowsOf(t.profiles, d)[last] = t.profiles[last] /\ RowsOf(s.profiles, d)[last] = s.profiles[last]
    BY <1>1, <2>2 DEF RowsOf
  <2> QED BY <2>2, <2>3
<1> HIDE DEF last
<1>3. Sensor(d, t) <=> Sensor(d, s)
  BY <1>1, <1>2 DEF Sensor, Config, last
<1>4. Sensor(d, t) = Sensor(d, s)
  BY <1>3 DEF Sensor
<1>5. (IF Config(t.profiles, d) = {} THEN None ELSE t.profiles[Newest(Config(t.profiles, d))].firmware)
      = (IF Config(s.profiles, d) = {} THEN None ELSE s.profiles[Newest(Config(s.profiles, d))].firmware)
  BY <1>1, <1>2 DEF Config, last
<1>6. Item(d, t) = Item(d, s)
  BY <1>4, <1>5 DEF Item
<1> QED BY <1>3, <1>6

(* Every write goes with Disturb, which keeps what is read true.           *)
LEMMA DisturbKeepsViews == ASSUME ViewInv, Disturb PROVE ViewInv'
<1>1. CASE view.at # "reading"
  BY <1>1 DEF Disturb, ViewInv
<1>2. CASE view.at = "reading"
  <2>1. ReadingInv
    BY <1>2 DEF ViewInv, Idle
  <2> DEFINE D == {d \in view.devices : Row(d)' = Row(d)}
             A == {a \in view.assets : (a \in assets') = (a \in assets)}
  <2>2. view' = [view EXCEPT !.writes = view.writes + 1, !.devices = D, !.assets = A]
    BY <1>2 DEF Disturb
  <2>3. /\ view' \in Reading /\ view'.done = view.done /\ view'.read = view.read
        /\ view'.devices = D /\ view'.assets = A
    <3>1. view \in Reading /\ D \in SUBSET Device /\ A \in SUBSET Asset
      BY <2>1 DEF ReadingInv, Reading
    <3> HIDE DEF D, A
    <3>2. view.writes + 1 \in Nat
      BY <3>1 DEF Reading
    <3>3. PICK writes \in Nat : writes = view.writes + 1
      BY <3>2
    <3>4. view' = [view EXCEPT !.writes = writes, !.devices = D, !.assets = A]
      BY <2>2, <3>3
    <3>5. view' = [at |-> "reading", done |-> view.done, read |-> view.read, writes |-> writes,
                   devices |-> D, assets |-> A]
      BY <3>1, <3>4 DEF Reading
    <3> QED BY <3>1, <3>5 DEF Reading
  <2>4. ASSUME NEW d \in view'.devices
        PROVE  /\ d \in view.devices /\ devices'[d] = devices[d] /\ evidence'[d] = evidence[d]
               /\ (d \in measured') = (d \in measured)
               /\ RowsOf(profiles', d) = RowsOf(profiles, d)
    <3>1. d \in view.devices /\ Row(d)' = Row(d)
      BY <2>3
    <3> QED BY <3>1 DEF Row, RowsOf, ProfilesOf
  <2>5. ReadIsTrue'
    <3>1. view.done >= 1 => \A a \in view'.assets : a \in view.read[1] <=> a \in assets'
      BY <2>1, <2>3 DEF ReadingInv, ReadIsTrue
    <3>2. view.done >= 2 => \A d \in view'.devices : view.read[2][d] = devices'[d]
      BY <2>1, <2>4 DEF ReadingInv, ReadIsTrue
    <3>3. view.done >= 3 => \A d \in view'.devices : d \in view.read[3] <=> d \in measured'
      BY <2>1, <2>4 DEF ReadingInv, ReadIsTrue
    <3>4. view.done >= 4 => /\ view.read[4] \in Seq(ProfileRow)
                            /\ \A d \in view'.devices : RowsOf(view.read[4], d) = RowsOf(profiles', d)
      BY <2>1, <2>4 DEF ReadingInv, ReadIsTrue
    <3>5. view.done >= 5 => \A d \in view'.devices : view.read[5][d] = evidence'[d]
      BY <2>1, <2>4 DEF ReadingInv, ReadIsTrue
    <3> QED BY <2>3, <3>1, <3>2, <3>3, <3>4, <3>5 DEF ReadIsTrue
  <2> QED BY <2>1, <2>3, <2>5 DEF ViewInv, ReadingInv
<1> QED BY <1>1, <1>2

LEMMA BeginKeepsViews == ASSUME BeginView PROVE ViewInv'
<1>1. view' = [at |-> "reading", done |-> 0, read |-> <<>>, writes |-> 0, devices |-> Device,
               assets |-> Asset]
  BY DEF BeginView
<1>2. view' \in Reading /\ Len(view'.read) = 0 /\ view'.done = 0
  BY <1>1 DEF Reading
<1>3. ReadIsTrue'
  BY <1>2 DEF ReadIsTrue
<1> QED BY <1>2, <1>3 DEF ViewInv, ReadingInv

LEMMA ReadKeepsViews == ASSUME LinksInv, TablesTyped, ViewInv, ReadTable PROVE ViewInv'
<1>1. ReadingInv /\ view.done < 5
  BY DEF ReadTable, ViewInv, Idle, Order
<1>2. PICK n \in 0..4 : view.done = n
  BY <1>1 DEF ReadingInv, Reading
<1> DEFINE name == Order[n + 1]
           table == Now[name]
<1>3. /\ n = 0 => table = assets
      /\ n = 1 => table = devices
      /\ n = 2 => table = measured
      /\ n = 3 => table = profiles
      /\ n = 4 => table = evidence
  BY DEF Order, Now
<1>4. table \in Table
  <2>1. assets \in Table /\ devices \in Table /\ measured \in Table /\ profiles \in Table
        /\ evidence \in Table
    BY DEF Table, TablesTyped, LinksInv, WorkTyped
  <2>2. n = 0 \/ n = 1 \/ n = 2 \/ n = 3 \/ n = 4
    OBVIOUS
  <2> HIDE DEF table
  <2> QED BY <1>3, <2>1, <2>2
<1> HIDE DEF table
<1>5. view' = [view EXCEPT !.done = n + 1, !.read = Append(view.read, table)]
  BY <1>2 DEF ReadTable, table
<1>6. /\ view' \in Reading /\ view'.done = n + 1 /\ view'.read = Append(view.read, table)
      /\ view'.devices = view.devices /\ view'.assets = view.assets
  <2>0. view.read \in Seq(Table)
    BY <1>1 DEF ReadingInv, Reading
  <2>1. PICK read \in Seq(Table) : read = Append(view.read, table)
    <3>1. Append(view.read, table) \in Seq(Table)
      BY <1>4, <2>0, AppendProperties
    <3> QED BY <3>1
  <2>2. view \in Reading /\ n + 1 \in 0..5
    BY <1>1 DEF ReadingInv
  <2>3. view' = [view EXCEPT !.done = n + 1, !.read = read]
    BY <1>5, <2>1
  <2>4. view' = [at |-> "reading", done |-> n + 1, read |-> read, writes |-> view.writes,
                 devices |-> view.devices, assets |-> view.assets]
    BY <2>2, <2>3 DEF Reading
  <2>5. /\ view' \in Reading /\ view'.done = n + 1 /\ view'.read = read
        /\ view'.devices = view.devices /\ view'.assets = view.assets
    BY <2>2, <2>4 DEF Reading
  <2> QED BY <2>1, <2>5
<1>7. /\ view.read \in Seq(Table) /\ Len(view.read) = n /\ Len(view'.read) = n + 1
      /\ view'.read[n + 1] = table /\ \A i \in 1..n : view'.read[i] = view.read[i]
  BY <1>1, <1>2, <1>4, <1>6 DEF ReadingInv, Reading
<1>8. UNCHANGED tables /\ profiles \in Seq(ProfileRow)
  BY DEF ReadTable, LinksInv, WorkTyped
<1>9. ReadIsTrue'
  <2>1. view'.done >= 1 => \A a \in view'.assets : a \in view'.read[1] <=> a \in assets'
    BY <1>1, <1>2, <1>3, <1>6, <1>7, <1>8 DEF ReadingInv, ReadIsTrue, tables
  <2>2. view'.done >= 2 => \A d \in view'.devices : view'.read[2][d] = devices'[d]
    BY <1>1, <1>2, <1>3, <1>6, <1>7, <1>8 DEF ReadingInv, ReadIsTrue, tables
  <2>3. view'.done >= 3 => \A d \in view'.devices : d \in view'.read[3] <=> d \in measured'
    BY <1>1, <1>2, <1>3, <1>6, <1>7, <1>8 DEF ReadingInv, ReadIsTrue, tables
  <2>4. view'.done >= 4 => /\ view'.read[4] \in Seq(ProfileRow)
                  /\ \A d \in view'.devices : RowsOf(view'.read[4], d) = RowsOf(profiles', d)
    <3>1. CASE n = 3
      BY <3>1, <1>3, <1>6, <1>7, <1>8 DEF tables
    <3>2. CASE n = 4
      BY <3>2, <1>1, <1>2, <1>6, <1>7, <1>8 DEF ReadingInv, ReadIsTrue, tables
    <3>3. CASE n < 3
      BY <3>3, <1>6
    <3> QED BY <3>1, <3>2, <3>3
  <2>5. view'.done >= 5 => \A d \in view'.devices : view'.read[5][d] = evidence'[d]
    BY <1>1, <1>2, <1>3, <1>6, <1>7, <1>8 DEF ReadingInv, ReadIsTrue, tables
  <2> QED BY <2>1, <2>2, <2>3, <2>4, <2>5 DEF ReadIsTrue
<1> QED BY <1>6, <1>7, <1>9 DEF ViewInv, ReadingInv

LEMMA BuildKeepsViews ==
  ASSUME InventoryAssumption, LinksInv, TablesTyped, ViewInv, BuildView PROVE ViewInv'
<1>1. ReadingInv /\ view.done = 5
  BY DEF BuildView, ViewInv, Idle, Order
<1> DEFINE t == [n \in {Order[i] : i \in DOMAIN Order} |->
                   view.read[CHOOSE i \in DOMAIN Order : Order[i] = n]]
           items == Items(t)
<1>2. /\ view'.at = "done" /\ view'.devices = view.devices /\ view'.assets = view.assets
      /\ view'.items = items /\ view'.edges = Contains(items, t.assets)
      /\ view'.readiness = Readiness(items) /\ UNCHANGED tables
  BY DEF BuildView
<1>3. /\ t.assets = view.read[1] /\ t.devices = view.read[2] /\ t.measured = view.read[3]
      /\ t.profiles = view.read[4] /\ t.evidence = view.read[5]
  <2>1. DOMAIN Order = 1..5 /\ Order[1] = "assets" /\ Order[2] = "devices"
        /\ Order[3] = "measured" /\ Order[4] = "profiles" /\ Order[5] = "evidence"
    BY DEF Order
  <2>2. ASSUME NEW k \in 1..5 PROVE t[Order[k]] = view.read[k]
    <3>1. \A i \in 1..5 : Order[i] = Order[k] => i = k
      BY <2>1
    <3>2. (CHOOSE i \in DOMAIN Order : Order[i] = Order[k]) = k
      BY <2>1, <3>1
    <3>3. Order[k] \in {Order[i] : i \in DOMAIN Order}
      BY <2>1
    <3> QED BY <3>2, <3>3
  <2> HIDE DEF t
  <2> QED BY <2>1, <2>2
<1> HIDE DEF t
<1>4. view.devices \in SUBSET Device /\ profiles \in Seq(ProfileRow)
  BY <1>1 DEF ReadingInv, Reading, LinksInv, WorkTyped
<1>5. ASSUME NEW d \in view.devices
      PROVE  /\ t.devices[d] = devices[d] /\ Item(d, t) = Item(d, Now)
             /\ Sensor(d, t) <=> Sensor(d, Now)
  <2>1. /\ Now.devices = devices /\ Now.measured = measured /\ Now.profiles = profiles
        /\ Now.evidence = evidence
    BY DEF Now
  <2>2. /\ view.read[4] \in Seq(ProfileRow) /\ view.read[2][d] = devices[d]
        /\ d \in view.read[3] <=> d \in measured
        /\ RowsOf(view.read[4], d) = RowsOf(profiles, d) /\ view.read[5][d] = evidence[d]
    BY <1>1 DEF ReadingInv, ReadIsTrue
  <2>3. Item(d, t) = Item(d, Now) /\ (Sensor(d, t) <=> Sensor(d, Now))
    BY <1>3, <1>4, <2>1, <2>2, ItemIsOfRows
  <2> QED BY <1>3, <2>2, <2>3
<1>6. \A d \in Device : t.devices[d] # None => Item(d, t) \in items
  BY DEF Items
<1>7. \A i \in items : i.id \in Device /\ t.devices[i.id] # None /\ i = Item(i.id, t)
  <2> TAKE i \in items
  <2>1. PICK d \in Device : t.devices[d] # None /\ i = Item(d, t)
    BY DEF Items
  <2>2. i.id = d
    BY <2>1 DEF Item
  <2> QED BY <2>1, <2>2
<1>8. \A d \in Device : Item(d, t).id = d /\ Item(d, t).asset = t.devices[d].asset
                        /\ (Item(d, t).sensor <=> Sensor(d, t))
                        /\ (Item(d, t).validated <=> Sensor(d, t) /\ t.evidence[d] = "validated")
  BY DEF Item
<1> HIDE DEF items
<1>9. ASSUME NEW d \in view.devices
      PROVE  /\ {i \in items : i.id = d} = IF Registered(d) THEN {Item(d, Now)} ELSE {}
             /\ \A a \in view.assets : <<a, d>> \in Contains(items, t.assets) <=>
                  Registered(d) /\ devices[d].asset = a /\ a \in assets
  <2>1. d \in Device
    BY <1>4
  <2>2. {i \in items : i.id = d} = IF Registered(d) THEN {Item(d, Now)} ELSE {}
    BY <1>5, <1>6, <1>7, <1>8, <2>1 DEF Registered
  <2>3. ASSUME NEW a \in view.assets
        PROVE  <<a, d>> \in Contains(items, t.assets) <=>
                 Registered(d) /\ devices[d].asset = a /\ a \in assets
    <3>1. a \in t.assets <=> a \in assets
      BY <1>1, <1>3 DEF ReadingInv, ReadIsTrue
    <3>2. <<a, d>> \in Contains(items, t.assets) <=>
            \E i \in items : i.asset \in t.assets /\ i.asset = a /\ i.id = d
      BY DEF Contains
    <3>3. (\E i \in items : i.asset \in t.assets /\ i.asset = a /\ i.id = d) <=>
            t.devices[d] # None /\ t.devices[d].asset = a /\ a \in t.assets
      BY <1>6, <1>7, <1>8, <2>1
    <3> QED BY <1>5, <3>1, <3>2, <3>3 DEF Registered
  <2> QED BY <2>2, <2>3
<1>10. ASSUME view.devices = Device
       PROVE  Readiness(items) = "hardware_evidence_ready" <=>
                /\ \E d \in Device : Registered(d) /\ Sensor(d, Now)
                /\ \A d \in Device : Registered(d) /\ Sensor(d, Now) => evidence[d] = "validated"
  <2>1. \A d \in Device : t.evidence[d] = evidence[d]
    BY <1>1, <1>3, <1>10 DEF ReadingInv, ReadIsTrue
  <2>2. Readiness(items) = "hardware_evidence_ready" <=>
          /\ \E i \in items : i.sensor
          /\ \A i \in items : i.sensor => i.validated
    BY DEF Readiness
  <2>3. (\E i \in items : i.sensor) <=> \E d \in Device : Registered(d) /\ Sensor(d, Now)
    BY <1>5, <1>6, <1>7, <1>8, <1>10 DEF Registered
  <2>4. (\A i \in items : i.sensor => i.validated) <=>
          \A d \in Device : Registered(d) /\ Sensor(d, Now) => evidence[d] = "validated"
    BY <1>5, <1>6, <1>7, <1>8, <1>10, <2>1 DEF Registered
  <2> QED BY <2>2, <2>3, <2>4
<1>11. ViewIsTrue'
  <2>1. /\ \A d : Registered(d)' <=> Registered(d)
        /\ \A d : Item(d, Now)' = Item(d, Now) /\ (Sensor(d, Now)' <=> Sensor(d, Now))
        /\ UNCHANGED <<assets, devices, evidence>>
    BY <1>2 DEF tables, Registered, Now, Item, Sensor
  <2> QED BY <1>2, <1>9, <1>10, <2>1 DEF ViewIsTrue
<1> QED BY <1>2, <1>11 DEF ViewInv

(* Where the newest profile of a device is enabled, the drift report and   *)
(* the CMDB take the desired version from the same row.                    *)
LEMMA OneDesiredVersion == ASSUME LinksInv PROVE ViewsAgree
<1> SUFFICES ASSUME NEW d \in Device, Registered(d), ProfilesOf(profiles, d) # {},
                    profiles[Newest(ProfilesOf(profiles, d))].enabled
             PROVE  LET desired == Item(d, Now).desired
                    IN /\ Drift(d) = "aligned" <=> desired # None /\ devices[d].firmware = desired
                       /\ Drift(d) = "unmanaged" <=> desired = None
  BY DEF ViewsAgree
<1> DEFINE rows == ProfilesOf(profiles, d)
           last == Newest(rows)
<1>1. profiles \in Seq(ProfileRow) /\ rows \in SUBSET DOMAIN profiles
  BY DEF LinksInv, WorkTyped, ProfilesOf
<1>2. last \in rows /\ \A j \in rows : j <= last
  BY <1>1, LastExists
<1>3. last \in Enabled(profiles, d) /\ Enabled(profiles, d) \subseteq rows
  BY <1>2 DEF Enabled
<1>4. Newest(Enabled(profiles, d)) = last
  <2>1. /\ Newest(Enabled(profiles, d)) \in Enabled(profiles, d)
        /\ \A j \in Enabled(profiles, d) : j <= Newest(Enabled(profiles, d))
    BY <1>1, <1>3, LastExists
  <2>2. Newest(Enabled(profiles, d)) \in Int /\ last \in Int
    BY <1>1, <1>2, <1>3, <2>1
  <2> HIDE DEF last
  <2> QED BY <1>2, <1>3, <2>1, <2>2
<1> HIDE DEF last
<1>5. Item(d, Now).desired = profiles[last].firmware
  BY DEF Item, Now, Config, last
<1>6. Drift(d) = IF profiles[last].firmware = None THEN "unmanaged"
                 ELSE IF devices[d].firmware = None THEN "unknown"
                 ELSE IF devices[d].firmware = profiles[last].firmware THEN "aligned"
                 ELSE IF devices[d].firmware < profiles[last].firmware
                 THEN "upgrade_required" ELSE "ahead_of_profile"
  BY <1>3, <1>4 DEF Drift
<1> QED BY <1>5, <1>6

LEMMA LastOfThree ==
  ASSUME NEW a, NEW b, NEW c
  PROVE  LET s == <<a, b>> \o <<c>> \o <<>> IN s[Len(s)] = c
<1> DEFINE S == {a, b, c}
<1>1. <<a, b>> \in Seq(S) /\ <<c>> \in Seq(S) /\ <<>> \in Seq(S)
  OBVIOUS
<1>2. Len(<<a, b>> \o <<c>>) = 3 /\ (<<a, b>> \o <<c>>)[3] = c /\ <<a, b>> \o <<c>> \in Seq(S)
  BY <1>1
<1>3. (<<a, b>> \o <<c>>) \o <<>> = <<a, b>> \o <<c>>
  BY <1>1, <1>2
<1> QED BY <1>2, <1>3

(* The verdict on a version needs a validated board, whose only check that *)
(* can come last is the one of the version.                                *)
LEMMA VerdictNeedsAll ==
  ASSUME NEW board \in Boards, NEW runtime \in BOOLEAN, NEW version
  PROVE  Compatible(board, version, runtime) <=>
           /\ board \in {"x86_64-edge", "radxa-rock-pi-4b-plus"}
           /\ runtime
           /\ version # None /\ version >= 1
<1>1. DOMAIN Catalog = {"raspberry-pi-4", "raspberry-pi-5", "x86_64-edge", "generic-linux-arm64",
                        "radxa-rock-pi-4b-plus"}
  BY DEF Catalog, Unproved
<1>2. CASE board \in {"x86_64-edge", "radxa-rock-pi-4b-plus"}
  <2>1. Catalog[board] = [minimum |-> 1, status |-> "supported", validated |-> TRUE]
    BY <1>2 DEF Catalog, Unproved
  <2>2. board # "unlisted" /\ board \notin Unproved
    BY <1>2 DEF Unproved
  <2>3. ASSUME version # None
        PROVE  LET checks == Checks(board, version, runtime)
               IN checks[Len(checks)] = "passed" <=> version >= 1
    <3> DEFINE run == IF runtime THEN "supported" ELSE "unsupported"
    <3>1. Catalog[board].status = "supported" /\ Catalog[board].minimum = 1
      BY <2>1
    <3>2. CASE version >= 1
      <4>1. Checks(board, version, runtime) = <<"supported", run>> \o <<"passed">> \o <<>>
        BY <2>2, <2>3, <3>1, <3>2 DEF Checks
      <4> HIDE DEF run
      <4> QED BY <3>2, <4>1, LastOfThree
    <3>3. CASE ~(version >= 1)
      <4>1. Checks(board, version, runtime) = <<"supported", run>> \o <<"review_required">> \o <<>>
        BY <2>2, <2>3, <3>1, <3>3 DEF Checks
      <4>2. LET checks == Checks(board, version, runtime)
            IN checks[Len(checks)] = "review_required"
        <5> HIDE DEF run
        <5> QED BY <4>1, LastOfThree
      <4> QED BY <3>3, <4>2
    <3> QED BY <3>2, <3>3
  <2> QED BY <1>1, <1>2, <2>1, <2>3 DEF Compatible
<1>3. CASE board \notin {"x86_64-edge", "radxa-rock-pi-4b-plus"}
  <2>1. board \in DOMAIN Catalog => ~Catalog[board].validated
    BY <1>1, <1>3 DEF Catalog, Unproved
  <2> QED BY <1>3, <2>1 DEF Compatible
<1> QED BY <1>2, <1>3

LEMMA VerdictsAreTrue == ASSUME LinksInv PROVE CompatibilityTrue
BY VerdictNeedsAll DEF CompatibilityTrue

-----------------------------------------------------------------------------
LEMMA InitInventory == Init => InventoryInv
<1> SUFFICES ASSUME Init PROVE InventoryInv
  OBVIOUS
<1>1. TablesTyped
  BY DEF Init, TablesTyped, Proofs
<1>2. ViewInv
  BY DEF Init, ViewInv
<1> QED BY <1>1, <1>2, InitLinks DEF InventoryInv

LEMMA StepKeepsTables ==
  ASSUME InventoryAssumption, InventoryInv, [Next]_vars PROVE TablesTyped'
<1> USE DEF InventoryInv, TablesTyped
<1>1. CASE UNCHANGED vars \/ BeginView \/ ReadTable \/ BuildView
  BY <1>1 DEF vars, tables, BeginView, ReadTable, BuildView
<1>2. ASSUME NEW a \in Asset, AddAsset(a) PROVE TablesTyped'
  BY <1>2 DEF AddAsset
<1>3. CASE ResetDemo
  BY <1>3 DEF ResetDemo, Proofs
<1>4. ASSUME NEW w \in Worker, NEW d \in Device,
             (\E row \in Rows : BeginDevice(w, d, row)) \/ (\E patch \in Patches : BeginUpdate(w, d, patch))
      PROVE  TablesTyped'
  BY <1>4 DEF BeginDevice, BeginUpdate, tables
<1>5. ASSUME NEW w \in Worker, \/ \E offer \in Offers : BeginProfile(w, offer)
                               \/ WriteDevice(w) \/ WriteProfile(w) \/ CheckRun(w) \/ Abort(w)
      PROVE  TablesTyped'
  BY <1>5 DEF BeginProfile, WriteDevice, WriteProfile, CheckRun, Abort, tables
<1>6. ASSUME NEW w \in Worker, NEW run \in Runs, BeginRun(w, run) PROVE TablesTyped'
  <2>1. run.asset \in Asset
    BY DEF InventoryAssumption
  <2> QED BY <1>6, <2>1 DEF BeginRun
<1>7. ASSUME NEW w \in Worker, AddEvidence(w) PROVE TablesTyped'
  <2>1. work[w] \in RunWork
    BY <1>7 DEF AddEvidence, LinksInv, WorkTyped, Work, DeviceWork, ProfileWork, Idle
  <2>2. work[w].device \in Device /\ work[w].evidence \in Proofs
    BY <2>1 DEF RunWork, RunRecord, Proofs
  <2> QED BY <1>7, <2>2 DEF AddEvidence
<1>8. ASSUME NEW w \in Worker, AddSample(w) PROVE TablesTyped'
  <2>1. work[w] \in RunWork
    BY <1>8 DEF AddSample, LinksInv, WorkTyped, Work, DeviceWork, ProfileWork, Idle
  <2>2. work[w].device \in Device
    BY <2>1 DEF RunWork, RunRecord
  <2> QED BY <1>8, <2>2 DEF AddSample
<1> QED BY <1>1, <1>2, <1>3, <1>4, <1>5, <1>6, <1>7, <1>8 DEF Next

LEMMA QuietStepKeepsViews == ASSUME ViewInv, UNCHANGED <<tables, view>> PROVE ViewInv'
<1>1. /\ \A d : Registered(d)' <=> Registered(d)
      /\ \A d : Item(d, Now)' = Item(d, Now) /\ (Sensor(d, Now)' <=> Sensor(d, Now))
  BY DEF tables, Registered, Now, Item, Sensor
<1>2. ViewIsTrue => ViewIsTrue'
  BY <1>1 DEF ViewIsTrue, tables
<1>3. ReadingInv => ReadingInv'
  BY DEF ReadingInv, ReadIsTrue, tables
<1> QED BY <1>2, <1>3 DEF ViewInv

LEMMA StepKeepsViews ==
  ASSUME InventoryAssumption, InventoryInv, [Next]_vars PROVE ViewInv'
<1> USE DEF InventoryInv
<1>1. CASE UNCHANGED <<tables, view>>
  BY <1>1, QuietStepKeepsViews
<1>2. CASE Disturb
  BY <1>2, DisturbKeepsViews
<1>3. CASE BeginView \/ ReadTable \/ BuildView
  BY <1>3, BeginKeepsViews, ReadKeepsViews, BuildKeepsViews
<1>4. UNCHANGED <<tables, view>> \/ Disturb \/ BeginView \/ ReadTable \/ BuildView
  BY DEF Next, vars, AddAsset, BeginDevice, BeginUpdate, WriteDevice, BeginProfile, WriteProfile,
         BeginRun, CheckRun, AddEvidence, AddSample, ResetDemo, Abort
<1> QED BY <1>1, <1>2, <1>3, <1>4

LEMMA StepKeepsLinks ==
  ASSUME InventoryAssumption, LinksInv, [Next]_vars PROVE LinksInv'
<1>1. CASE UNCHANGED vars \/ BeginView \/ ReadTable \/ BuildView
  BY <1>1, StutterKeepsLinks DEF vars, tables, BeginView, ReadTable, BuildView
<1>2. ASSUME NEW a \in Asset, AddAsset(a) PROVE LinksInv'
  BY <1>2, StutterKeepsLinks DEF AddAsset
<1>3. CASE ResetDemo
  BY <1>3, ResetKeepsLinks
<1>4. ASSUME NEW w \in Worker, WriteDevice(w) \/ WriteProfile(w) PROVE LinksInv'
  BY <1>4, WriteDeviceKeepsLinks, WriteProfileKeepsLinks
<1>5. ASSUME NEW w \in Worker,
             \/ \E d \in Device, row \in Rows : BeginDevice(w, d, row)
             \/ \E d \in Device, patch \in Patches : BeginUpdate(w, d, patch)
             \/ \E offer \in Offers : BeginProfile(w, offer)
             \/ \E run \in Runs : BeginRun(w, run)
             \/ CheckRun(w) \/ AddEvidence(w) \/ AddSample(w) \/ Abort(w)
      PROVE  LinksInv'
  BY <1>5, MovesKeepLinks
<1>6. QED BY <1>1, <1>2, <1>3, <1>4, <1>5 DEF Next

(* The invariant is inductive, and what it says of the variables.          *)
LEMMA InventoryStep ==
  ASSUME InventoryAssumption, InventoryInv, [Next]_vars PROVE InventoryInv'
BY StepKeepsLinks, StepKeepsTables, StepKeepsViews DEF InventoryInv

LEMMA InventoryHolds == ASSUME InventoryInv PROVE TypeOK /\ InventorySound
<1>1. TypeOK
  BY DEF InventoryInv, LinksInv, WorkTyped, TablesTyped, TypeOK, ProfileRow, DeviceRow, Proofs,
         Registered, Optional
<1>2. ViewIsTrue
  BY DEF InventoryInv, ViewInv, ReadingInv, Reading, Idle, ViewIsTrue
<1> QED BY <1>1, <1>2, OneDesiredVersion, VerdictsAreTrue DEF InventoryInv, LinksInv, InventorySound

(* In every reachable state rows name registered ones unless a reset       *)
(* overtook their writer (add_device, update_device, add_config_profile),  *)
(* the CMDB shows what did not change while it was read as it is           *)
(* (build_cmdb), and agrees with the drift report on desired versions.     *)
THEOREM InventoryAlwaysSound == ASSUME InventoryAssumption PROVE Spec => []InventorySound
<1>1. InventoryInv /\ [Next]_vars => InventoryInv'
  BY InventoryStep
<1>2. InventoryInv => InventorySound
  BY InventoryHolds
<1> QED BY <1>1, <1>2, InitInventory, PTL DEF Spec
===============================================================================
