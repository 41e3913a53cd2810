------------------------------ MODULE Inventory ------------------------------
(***************************************************************************)
(* The inventory (app.py): assets, devices, configuration profiles and     *)
(* hardware evidence, written by single requests, by simulations and by    *)
(* commissioning runs, one transaction per row, without foreign keys; and  *)
(* its views: the CMDB of cmdb.py, put together from a read of every       *)
(* table, the firmware drift report and the firmware compatibility check.  *)
(***************************************************************************)
EXTENDS Integers, FiniteSets, Sequences

CONSTANTS
  Device, Asset, Profile,  \* ids
  Named,     \* profiles whose id or name holds that of a hardware profile
  Firmware,  \* semantic versions, as numbers in their order
  Rows, Patches, Offers, Runs,  \* what requests may ask to write
  Worker,    \* requests that write
  MaxWrites, \* writes during one read of the CMDB (bound)
  None       \* no asset, no version, no row

Optional(S) == S \cup {None}
InventoryAssumption ==
  /\ MaxWrites \in Nat /\ Firmware \subseteq Nat /\ Named \subseteq Profile
  /\ Rows \subseteq [asset : Optional(Asset), firmware : Optional(Firmware)]
  /\ Patches \subseteq [{"firmware"} -> Optional(Firmware)] \cup [{"asset"} -> Optional(Asset)]
                      \cup [{"status"} -> {"maintenance"}]
  /\ Offers \subseteq [id : Profile, device : Optional(Device), firmware : Optional(Firmware),
                      enabled : BOOLEAN]
  /\ Runs \subseteq [device : Device, asset : Asset, firmware : Firmware, profile : Profile,
                    evidence : {"none", "recorded", "validated"}]
  /\ \A run \in Runs : run.evidence # "none" <=> run.profile \in Named
  /\ None \notin [asset : Optional(Asset), firmware : Optional(Firmware),
                  status : {"registered", "maintenance"}]

VARIABLES
  assets,    \* registered assets
  devices,   \* per device its row or None
  profiles,  \* rows of config_profiles in the order of their rowids
  evidence,  \* hardware_evidence: "none", "recorded" or "validated"
  measured,  \* devices with a stored sample of their metric
  work,      \* per worker: the request under way
  overtaken, \* workers whose next write rests on a check before a reset
  crossed,   \* dangling rows whose writer was overtaken by a reset
  view       \* the CMDB under way

tables == <<assets, devices, profiles, evidence, measured>>
vars == <<tables, work, overtaken, crossed, view>>

Idle == [at |-> "idle"]
Goto(w, state) == work' = [work EXCEPT ![w] = state]
Registered(d) == devices[d] # None

-----------------------------------------------------------------------------
(* Views *)

(* list_firmware_drift: the newest enabled profile of a device manages it. *)
ProfilesOf(rows, d) == {i \in DOMAIN rows : rows[i].device = d}
Newest(S) == CHOOSE i \in S : \A j \in S : j <= i
Enabled(rows, d) == {i \in ProfilesOf(rows, d) : rows[i].enabled}

Drift(d) ==
  IF Enabled(profiles, d) = {} THEN "unmanaged"
  ELSE LET desired == profiles[Newest(Enabled(profiles, d))].firmware
           current == devices[d].firmware
       IN IF desired = None THEN "unmanaged"
          ELSE IF current = None THEN "unknown"
          ELSE IF current = desired THEN "aligned"
          ELSE IF current < desired THEN "upgrade_required" ELSE "ahead_of_profile"

(* firmware_compatibility_result.  The verdict is read off the last check, *)
(* which is the one of the version unless a board lacks its evidence.      *)
Unproved == {"raspberry-pi-4", "raspberry-pi-5"}
Catalog ==
  [m \in Unproved \cup {"x86_64-edge", "generic-linux-arm64", "radxa-rock-pi-4b-plus"} |->
     CASE m \in Unproved           -> [minimum |-> 1, status |-> "validation_required", validated |-> FALSE]
       [] m = "generic-linux-arm64" -> [minimum |-> 2, status |-> "review_required", validated |-> FALSE]
       [] OTHER                     -> [minimum |-> 1, status |-> "supported", validated |-> TRUE]]
Boards == DOMAIN Catalog \cup {"unlisted"}

Checks(board, version, runtime) ==
  <<IF board = "unlisted" THEN "unsupported" ELSE Catalog[board].status,
    IF runtime THEN "supported" ELSE "unsupported">>
  \o (IF version = None THEN <<"invalid">>
      ELSE IF board = "unlisted" THEN <<>>
      ELSE IF version >= Catalog[board].minimum THEN <<"passed">> ELSE <<"review_required">>)
  \o IF board \in Unproved THEN <<"validation_required">> ELSE <<>>
Compatible(board, version, runtime) ==
  LET checks == Checks(board, version, runtime)
  IN /\ board \in DOMAIN Catalog /\ Catalog[board].validated /\ Catalog[board].status = "supported"
     /\ version # None /\ runtime
     /\ checks[Len(checks)] = "passed"

(* build_cmdb: a device is a sensor if its metric and its evidence, or the *)
(* name of its last profile, agree on a hardware profile.                  *)
Config(rows, d) == ProfilesOf(rows, d)
Sensor(d, t) ==
  /\ d \in t.measured
  /\ \/ t.evidence[d] # "none"
     \/ Config(t.profiles, d) # {} /\ t.profiles[Newest(Config(t.profiles, d))].id \in Named
Item(d, t) ==
  [id |-> d, asset |-> t.devices[d].asset, status |-> t.devices[d].status,
   firmware |-> t.devices[d].firmware,
   desired |-> IF Config(t.profiles, d) = {} THEN None
               ELSE t.profiles[Newest(Config(t.profiles, d))].firmware,
   sensor |-> Sensor(d, t), validated |-> Sensor(d, t) /\ t.evidence[d] = "validated"]
Items(t) == {Item(d, t) : d \in {e \in Device : t.devices[e] # None}}
Readiness(items) ==
  LET sensors == {i \in items : i.sensor}
  IN IF sensors = {} THEN "no_sensor_evidence"
     ELSE IF \A i \in sensors : i.validated THEN "hardware_evidence_ready"
     ELSE "partial_hardware_evidence"

(* build_cmdb_graph keeps the relations both of whose ends are nodes. *)
Contains(items, present) == {<<i.asset, i.id>> : i \in {j \in items : j.asset \in present}}

(* The tables as they are now, in one record. *)
Now == [assets |-> assets, devices |-> devices, profiles |-> profiles, evidence |-> evidence,
        measured |-> measured]

-----------------------------------------------------------------------------
(* A reader of the CMDB reads one table after the other; its answer is     *)
(* sent before the next write.  MaxWrites bounds the writes that overtake  *)
(* one reader.                                                             *)
Row(d) ==
  <<devices[d], evidence[d], d \in measured,
    [i \in ProfilesOf(profiles, d) |-> profiles[i]]>>
Disturb ==
  /\ view.at = "reading" => view.writes < MaxWrites
  /\ view' = IF view.at # "reading" THEN Idle
             ELSE [view EXCEPT !.writes = @ + 1,
                               !.devices = {d \in @ : Row(d)' = Row(d)},
                               !.assets = {a \in @ : (a \in assets') = (a \in assets)}]

Order == <<"assets", "devices", "measured", "profiles", "evidence">>
BeginView ==
  /\ view = Idle
  /\ view' = [at |-> "reading", done |-> 0, read |-> <<>>, writes |-> 0, devices |-> Device,
              assets |-> Asset]
  /\ UNCHANGED <<tables, work, overtaken, crossed>>

ReadTable ==
  /\ view.at = "reading" /\ view.done < Len(Order)
  /\ view' = [view EXCEPT !.done = @ + 1, !.read = Append(@, Now[Order[view.done + 1]])]
  /\ UNCHANGED <<tables, work, overtaken, crossed>>

BuildView ==
  /\ view.at = "reading" /\ view.done = Len(Order)
  /\ LET t == [n \in {Order[i] : i \in DOMAIN Order} |->
                 view.read[CHOOSE i \in DOMAIN Order : Order[i] = n]]
         items == Items(t)
     IN view' = [at |-> "done", devices |-> view.devices, assets |-> view.assets, items |-> items,
                 edges |-> Contains(items, t.assets), readiness |-> Readiness(items)]
  /\ UNCHANGED <<tables, work, overtaken, crossed>>

-----------------------------------------------------------------------------
(* Writers.  A check and the write it guards are two transactions.         *)
AddAsset(a) ==
  /\ assets' = assets \cup {a}
  /\ UNCHANGED <<devices, profiles, evidence, measured, work, overtaken, crossed>>
  /\ Disturb

(* add_device, and the rest of the run it is part of. *)
Refers(a) == a \in Optional(assets)
New(r) == [asset |-> r.asset, firmware |-> r.firmware, status |-> "registered"]
BeginDevice(w, d, row) ==
  /\ work[w] = Idle
  /\ Refers(row.asset)
  /\ Goto(w, [at |-> "device", of |-> "request", device |-> d, row |-> New(row)])
  /\ UNCHANGED <<tables, overtaken, crossed, view>>

(* update_device: fields the request leaves out keep the value just read.  *)
BeginUpdate(w, d, patch) ==
  /\ work[w] = Idle
  /\ Registered(d) /\ DOMAIN patch # {}
  /\ "asset" \in DOMAIN patch => Refers(patch.asset)
  /\ LET row == [n \in DOMAIN devices[d] |-> IF n \in DOMAIN patch THEN patch[n] ELSE devices[d][n]]
     IN /\ Goto(w, [at |-> "update", of |-> "request", device |-> d, row |-> row])
        /\ overtaken' = IF Refers(row.asset) THEN overtaken ELSE overtaken \cup {w}
  /\ UNCHANGED <<tables, crossed, view>>

Marked(w, key, dangling) ==
  crossed' = IF dangling /\ (w \in overtaken \/ key \in crossed) THEN crossed \cup {key}
             ELSE crossed \ {key}

(* The UPDATE of a row that a reset has deleted changes nothing.           *)
WriteDevice(w) ==
  /\ work[w].at \in {"device", "update"}
  /\ LET d == work[w].device
         row == work[w].row
     IN IF work[w].at = "update" /\ ~Registered(d) THEN UNCHANGED <<devices, crossed>>
        ELSE /\ devices' = [devices EXCEPT ![d] = row]
             /\ Marked(w, <<"device", d>>, ~Refers(row.asset))
  /\ Goto(w, IF work[w].of = "request" THEN Idle ELSE [work[w] EXCEPT !.at = "check profile"])
  /\ overtaken' = overtaken \ {w}
  /\ UNCHANGED <<assets, profiles, evidence, measured>>
  /\ Disturb

(* add_config_profile *)
BeginProfile(w, offer) ==
  /\ work[w] = Idle
  /\ offer.device \in Optional({d \in Device : Registered(d)})
  /\ Goto(w, [at |-> "profile", of |-> "request", profile |-> offer])
  /\ UNCHANGED <<tables, overtaken, crossed, view>>

(* An upsert keeps the rowid of the row it finds. *)
Upsert(rows, row) ==
  LET I == {i \in DOMAIN rows : rows[i].id = row.id}
  IN IF I = {} THEN Append(rows, row) ELSE [i \in DOMAIN rows |-> IF i \in I THEN row ELSE rows[i]]

WriteProfile(w) ==
  /\ work[w].at = "profile"
  /\ LET row == work[w].profile
     IN /\ profiles' = Upsert(profiles, row)
        /\ Marked(w, <<"profile", row.id>>, row.device # None /\ ~Registered(row.device))
  /\ Goto(w, IF work[w].of = "request" THEN Idle ELSE [work[w] EXCEPT !.at = "evidence"])
  /\ overtaken' = overtaken \ {w}
  /\ UNCHANGED <<assets, devices, evidence, measured>>
  /\ Disturb

(* run_simulation brings no evidence; run_operational_workflow and the     *)
(* registration of discovered hardware do.                                 *)
BeginRun(w, run) ==
  /\ work[w] = Idle
  /\ assets' = assets \cup {run.asset}
  /\ Goto(w, [at |-> "check device", of |-> "run", device |-> run.device,
              row |-> New(run), evidence |-> run.evidence,
              profile |-> [id |-> run.profile, device |-> run.device, firmware |-> run.firmware,
                           enabled |-> TRUE]])
  /\ UNCHANGED <<devices, profiles, evidence, measured, overtaken, crossed>>
  /\ Disturb

(* A check that fails ends the run; what it wrote stays. *)
Known_trusting(state) == state.at = "check device" \/ Registered(state.device)
Known(state) ==
  Refers(state.row.asset) /\ (state.at = "check device" \/ Registered(state.device))
CheckRun(w) ==
  /\ work[w].at \in {"check device", "check profile"}
  /\ LET device == work[w].at = "check device"
     IN Goto(w, IF Known(work[w]) THEN [work[w] EXCEPT !.at = IF device THEN "device" ELSE "profile"]
                ELSE Idle)
  /\ UNCHANGED <<tables, overtaken, crossed, view>>

AddEvidence(w) ==
  /\ work[w].at = "evidence"
  /\ evidence' = IF work[w].evidence = "none" THEN evidence
                 ELSE [evidence EXCEPT ![work[w].device] = work[w].evidence]
  /\ Goto(w, [work[w] EXCEPT !.at = "sample"])
  /\ UNCHANGED <<assets, devices, profiles, measured, overtaken, crossed>>
  /\ Disturb

(* add_telemetry refuses an unknown device. *)
AddSample(w) ==
  /\ work[w].at = "sample"
  /\ measured' = IF Registered(work[w].device) THEN measured \cup {work[w].device} ELSE measured
  /\ Goto(w, Idle)
  /\ UNCHANGED <<assets, devices, profiles, evidence, overtaken, crossed>>
  /\ Disturb

(* reset_demo_data empties all tables in one transaction. *)
ResetDemo ==
  /\ assets' = {} /\ measured' = {}
  /\ devices' = [d \in Device |-> None]
  /\ profiles' = <<>>
  /\ evidence' = [d \in Device |-> "none"]
  /\ overtaken' = {w \in Worker : work[w].at \in {"device", "update", "profile"}}
  /\ UNCHANGED work
  /\ crossed' = {}
  /\ Disturb

(* A request dies between two transactions. *)
Abort(w) ==
  /\ work[w] # Idle
  /\ Goto(w, Idle)
  /\ overtaken' = overtaken \ {w}
  /\ UNCHANGED <<tables, crossed, view>>

Init ==
  /\ assets = {} /\ measured = {}
  /\ devices = [d \in Device |-> None]
  /\ profiles = <<>>
  /\ evidence = [d \in Device |-> "none"]
  /\ work = [w \in Worker |-> Idle]
  /\ overtaken = {} /\ crossed = {}
  /\ view = Idle

Next ==
  \/ \E a \in Asset : AddAsset(a)
  \/ \E w \in Worker, d \in Device :
       \/ \E row \in Rows : BeginDevice(w, d, row)
       \/ \E patch \in Patches : BeginUpdate(w, d, patch)
  \/ \E w \in Worker :
       \/ \E offer \in Offers : BeginProfile(w, offer)
       \/ \E run \in Runs : BeginRun(w, run)
       \/ WriteDevice(w) \/ WriteProfile(w) \/ CheckRun(w) \/ AddEvidence(w) \/ AddSample(w)
       \/ Abort(w)
  \/ ResetDemo \/ BeginView \/ ReadTable \/ BuildView

Spec == Init /\ [][Next]_vars

-----------------------------------------------------------------------------
(* Properties *)

TypeOK ==
  /\ assets \subseteq Asset /\ measured \subseteq Device
  /\ \A d \in Device : Registered(d) =>
       devices[d] \in [asset : Optional(Asset), firmware : Optional(Firmware),
                       status : {"registered", "maintenance"}]
  /\ profiles \in Seq([id : Profile, device : Optional(Device),
                       firmware : Optional(Firmware), enabled : BOOLEAN])
  /\ evidence \in [Device -> {"none", "recorded", "validated"}]

(* No table has foreign keys: a device names a registered asset and a      *)
(* profile a registered device, unless a reset came between the check and  *)
(* the write of the row or of one an update started from (add_device,      *)
(* update_device, add_config_profile).                                     *)
LinksHold ==
  /\ \A d \in Device : Registered(d) /\ <<"device", d>> \notin crossed => Refers(devices[d].asset)
  /\ \A i \in DOMAIN profiles :
       profiles[i].device # None /\ <<"profile", profiles[i].id>> \notin crossed =>
         Registered(profiles[i].device)

(* The CMDB shows every device and asset none of whose rows changed while  *)
(* it was read as it is, and is ready just if the evidence of all sensors  *)
(* was validated, if nothing changed at all (build_cmdb).                  *)
ViewIsTrue ==
  view.at = "done" =>
    /\ \A d \in view.devices :
         /\ {i \in view.items : i.id = d} = IF Registered(d) THEN {Item(d, Now)} ELSE {}
         /\ \A a \in view.assets : <<a, d>> \in view.edges <=>
              Registered(d) /\ devices[d].asset = a /\ a \in assets
    /\ view.devices = Device => (view.readiness = "hardware_evidence_ready" <=>
         /\ \E d \in Device : Registered(d) /\ Sensor(d, Now)
         /\ \A d \in Device : Registered(d) /\ Sensor(d, Now) => evidence[d] = "validated")

(* The drift report and the CMDB speak of the same desired version, unless *)
(* the newest profile of the device is disabled: a device the report calls *)
(* aligned runs the version the CMDB asks for (list_firmware_drift).       *)
ViewsAgree ==
  \A d \in Device : Registered(d) =>
    LET rows == ProfilesOf(profiles, d)
        desired == Item(d, Now).desired
    IN rows # {} /\ profiles[Newest(rows)].enabled =>
         /\ Drift(d) = "aligned" <=> desired # None /\ devices[d].firmware = desired
         /\ Drift(d) = "unmanaged" <=> desired = None

(* The version of a device counts as compatible just if its board is       *)
(* supported and validated, on a supported runtime, and the version is     *)
(* valid and not below the minimum (firmware_compatibility_result).        *)
CompatibilityTrue ==
  \A d \in Device, board \in Boards, runtime \in BOOLEAN : Registered(d) =>
    LET version == devices[d].firmware
    IN Compatible(board, version, runtime) <=>
         /\ board \in {"x86_64-edge", "radxa-rock-pi-4b-plus"}
         /\ runtime
         /\ version # None /\ version >= 1

InventorySound == LinksHold /\ ViewIsTrue /\ ViewsAgree /\ CompatibilityTrue
=============================================================================
