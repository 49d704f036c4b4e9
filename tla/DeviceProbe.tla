----------------------------- MODULE DeviceProbe -----------------------------
(***************************************************************************)
(* How storage devices come to life: pci.cpp scans the bus and offers each *)
(* function to the registered drivers; sdhci::Manager and AhciManager map  *)
(* its registers, enable it (pci::CommandGuard), start their devices and   *)
(* register them with BlockManager, or undo all of it.  The devices behave *)
(* as in BlockDevice: a started device may fail quietly (Offline) and an   *)
(* AHCI port may not stop (Quarantined).  Meanwhile tasks use, and break,  *)
(* the devices that are published, and other drivers fill the registry.    *)
(***************************************************************************)
EXTENDS Naturals, SequencesExt, FiniteSetsExt

CONSTANTS
  Absent, Sd, Ahci, Other,
  Present,      \* the PCI functions in the order of the scan
  Kind,         \* Kind[f]: the driver whose ids match f, or Other
  Ports,        \* the AHCI ports, 1 .. n
  SdSlots,      \* sdhci MAX_DEVICES
  TableSize,    \* MAX_ENUM_DEVICES
  RegistrySize  \* BlockManager::MAX_DEVICES

ASSUME DeviceProbeAssumption ==
  /\ {SdSlots, TableSize, RegistrySize} \subseteq Nat
  /\ Ports \subseteq Nat \ {0}
  /\ Absent \notin ToSet(Present)

Functions == ToSet(Present)
Devices == ({Sd} \X (1 .. SdSlots)) \cup ({Ahci} \X Ports)

VARIABLES
  table, scanned,   \* enumerated_devices_, scan_complete_
  drivers, bound,   \* registered_drivers_, bound_driver_indexes_
  cursor,           \* probe_drivers: the function and the driver it is at
  job,              \* the probe callback that runs, or None
  mapped, enabled,  \* functions whose registers are mapped, whose command
                    \* register has the enabled bits
  dev,              \* dev[d]: its state, and the function it drives
  locations,        \* locations_ of the SD manager
  controller,       \* controller_state_ of the AHCI manager
  registry          \* BlockManager::devices_

probeVars == <<scanned, table, drivers, bound, cursor>>
deviceProbeVars == <<probeVars, job, mapped, enabled, dev, locations, controller, registry>>

ProbeInit ==
  /\ table = <<>> /\ scanned = FALSE
  /\ drivers = <<>> /\ bound = [f \in Functions |-> Absent]
  /\ cursor = Absent /\ job = Absent
  /\ mapped = {} /\ enabled = {}
  /\ dev = [d \in Devices |-> [state |-> "Offline", fn |-> Absent]]
  /\ locations = <<>> /\ controller = "Offline" /\ registry = <<>>

\* sdhci::Manager::init, AhciManager::init and pci::register_driver
RegisterDriver(k) ==
  /\ cursor = Absent
  /\ k \notin ToSet(drivers)
  /\ drivers' = Append(drivers, k)
  /\ UNCHANGED <<scanned, table, bound, cursor, job, mapped, enabled, dev,
                 locations, controller, registry>>

\* scan_all_devices: functions beyond the table are left out.
Scan == IF scanned THEN table ELSE SubSeq(Present, 1, Min({Len(Present), TableSize}))

ProbeDrivers ==
  /\ cursor = Absent
  /\ table' = Scan /\ scanned' = TRUE
  /\ cursor' = <<1, 1>>
  /\ UNCHANGED <<drivers, bound, job, mapped, enabled, dev, locations, controller,
                 registry>>

Fn == table[cursor[1]]

\* The two loops of probe_drivers, up to a probe callback.
Advance ==
  /\ cursor # Absent /\ job = Absent
  /\ IF cursor[1] > Len(table)
     THEN cursor' = Absent /\ UNCHANGED job
     ELSE IF bound[Fn] # Absent \/ cursor[2] > Len(drivers)
     THEN cursor' = <<cursor[1] + 1, 1>> /\ UNCHANGED job
     ELSE IF drivers[cursor[2]] # Kind[Fn]
     THEN cursor' = <<cursor[1], cursor[2] + 1>> /\ UNCHANGED job
     ELSE job' = [fn |-> Fn, step |-> "begin", port |-> 1] /\ UNCHANGED cursor
  /\ UNCHANGED <<scanned, table, drivers, bound, mapped, enabled, dev, locations,
                 controller, registry>>

Goto(s) == job' = [job EXCEPT !.step = s]

\* The callback returns to probe_drivers, with or without an error.
Fails == job' = Absent /\ cursor' = <<cursor[1], cursor[2] + 1>> /\ UNCHANGED bound

Succeeds ==
  /\ job' = Absent
  /\ bound' = [bound EXCEPT ![job.fn] = drivers[cursor[2]]]
  /\ cursor' = <<cursor[1] + 1, 1>>

-----------------------------------------------------------------------------
\* BlockManager::register_devices: all of them, or none.
Registers(ds) ==
  /\ Cardinality(ds) <= RegistrySize - Len(registry)
  /\ ds \cap ToSet(registry) = {}

Register(ds) == registry' = registry \o SetToSortSeq(ds, LAMBDA a, b : a[2] < b[2])

\* ide.cpp and tests register devices as well.
RegisterOther ==
  /\ Registers({<<Other, Len(registry) + 1>>})
  /\ Register({<<Other, Len(registry) + 1>>})
  /\ UNCHANGED <<probeVars, job, mapped, enabled, dev, locations, controller>>

-----------------------------------------------------------------------------
\* sdhci::Manager::probe_callback
SdDevice == <<Sd, Len(locations) + 1>>

SdBegin ==
  /\ job # Absent /\ job.step = "begin" /\ Kind[job.fn] = Sd
  /\ \/ /\ Fails              \* Busy, Full, a BAR it cannot use, or no mapping
        /\ UNCHANGED <<mapped, enabled>>
     \/ /\ job.fn \notin ToSet(locations)
        /\ Len(locations) < SdSlots
        /\ mapped' = mapped \cup {job.fn}
        /\ enabled' = enabled \cup {job.fn}
        /\ Goto("init")
        /\ UNCHANGED <<bound, cursor>>
  /\ UNCHANGED <<scanned, table, drivers, dev, locations, controller, registry>>

SdInit ==
  /\ job # Absent /\ job.step = "init" /\ Kind[job.fn] = Sd
  /\ \/ /\ dev' = [dev EXCEPT ![SdDevice] = [state |-> "Ready", fn |-> job.fn]]
        /\ Goto("register")
     \/ Goto("undo") /\ UNCHANGED dev
  /\ UNCHANGED <<probeVars, mapped, enabled, locations, controller, registry>>

SdRegister ==
  /\ job # Absent /\ job.step = "register" /\ Kind[job.fn] = Sd
  /\ IF Registers({SdDevice})
     THEN Register({SdDevice}) /\ Goto("commit")
     ELSE Goto("undo") /\ UNCHANGED registry
  /\ UNCHANGED <<probeVars, mapped, enabled, dev, locations, controller>>

SdCommit ==
  /\ job # Absent /\ job.step = "commit"
  /\ locations' = Append(locations, job.fn)
  /\ Succeeds
  /\ UNCHANGED <<scanned, table, drivers, mapped, enabled, dev, controller, registry>>

\* device.shutdown, then the destructors of the guard and of the mapping.
SdUndo ==
  /\ job # Absent /\ job.step = "undo" /\ Kind[job.fn] = Sd
  /\ dev' = [dev EXCEPT ![SdDevice] = [state |-> "Offline", fn |-> Absent]]
  /\ enabled' = enabled \ {job.fn}
  /\ mapped' = mapped \ {job.fn}
  /\ Fails
  /\ UNCHANGED <<scanned, table, drivers, locations, controller, registry>>

-----------------------------------------------------------------------------
\* AhciManager::probe_callback and probe_controller
AhciBegin ==
  /\ job # Absent /\ job.step = "begin" /\ Kind[job.fn] = Ahci
  /\ \/ /\ Fails              \* Busy, a BAR it cannot use, no mapping, no version
        /\ UNCHANGED <<mapped, enabled, controller>>
     \/ /\ controller = "Offline"
        /\ controller' = "Initializing"
        /\ mapped' = mapped \cup {job.fn}
        /\ enabled' = enabled \cup {job.fn}
        /\ Goto("port")
        /\ UNCHANGED <<bound, cursor>>
  /\ UNCHANGED <<scanned, table, drivers, dev, locations, registry>>

Port == <<Ahci, job.port>>

NextPort == job' = [job EXCEPT !.port = @ + 1]

\* One port: absent, detected, failed and stopped, or failed and not stopped.
AhciPort ==
  /\ job # Absent /\ job.step = "port" /\ job.port \in Ports
  /\ \/ NextPort /\ UNCHANGED dev
     \/ /\ NextPort
        /\ dev' = [dev EXCEPT ![Port] = [state |-> "Ready", fn |-> job.fn]]
     \/ /\ dev' = [dev EXCEPT ![Port] = [state |-> "Quarantined", fn |-> job.fn]]
        /\ Goto("undo")
  /\ UNCHANGED <<probeVars, mapped, enabled, locations, controller, registry>>

Candidates == {d \in Devices : d[1] = Ahci /\ dev[d].state = "Ready"}

AhciRegister ==
  /\ job # Absent /\ job.step = "port" /\ job.port \notin Ports
  /\ IF Candidates # {} /\ Registers(Candidates)
     THEN /\ Register(Candidates)
          /\ controller' = "Ready"
          /\ Succeeds
     ELSE Goto("undo") /\ UNCHANGED <<bound, cursor, controller, registry>>
  /\ UNCHANGED <<scanned, table, drivers, mapped, enabled, dev, locations>>

\* Every staged port is stopped; those that do not stop are quarantined.
Stopped(Q) ==
  [d \in Devices |->
     IF d[1] # Ahci \/ dev[d].state = "Quarantined" THEN dev[d]
     ELSE IF d \in Q THEN [dev[d] EXCEPT !.state = "Quarantined"]
     ELSE [state |-> "Offline", fn |-> Absent]]

\* Mutant of AhciUndo: the controller of a port that does not stop is
\* released like any other.
AhciUndoRelease ==
  /\ job # Absent /\ job.step = "undo" /\ Kind[job.fn] = Ahci
  /\ \E Q \in SUBSET Candidates : dev' = Stopped(Q)
  /\ controller' = "Offline"
  /\ enabled' = enabled \ {job.fn} /\ mapped' = mapped \ {job.fn}
  /\ Fails
  /\ UNCHANGED <<scanned, table, drivers, locations, registry>>

AhciUndo ==
  /\ job # Absent /\ job.step = "undo" /\ Kind[job.fn] = Ahci
  /\ \E Q \in SUBSET Candidates :
       /\ dev' = Stopped(Q)
       /\ IF \E d \in Devices : Stopped(Q)[d].state = "Quarantined"
          THEN controller' = "Quarantined" /\ UNCHANGED <<mapped, enabled>>
          ELSE /\ controller' = "Offline"
               /\ enabled' = enabled \ {job.fn} /\ mapped' = mapped \ {job.fn}
  /\ Fails
  /\ UNCHANGED <<scanned, table, drivers, locations, registry>>

-----------------------------------------------------------------------------
\* A request on a published device fails and takes it Offline, or into
\* quarantine; the manager keeps its slot, mapping and command.
Break(d) ==
  /\ d \in ToSet(registry) /\ dev[d].state = "Ready"
  /\ \E s \in {"Offline"} \cup (IF d[1] = Ahci THEN {"Quarantined"} ELSE {}) :
       dev' = [dev EXCEPT ![d].state = s]
  /\ UNCHANGED <<probeVars, job, mapped, enabled, locations, controller, registry>>

ProbeNext ==
  \/ ProbeDrivers \/ Advance \/ RegisterOther
  \/ SdBegin \/ SdInit \/ SdRegister \/ SdCommit \/ SdUndo
  \/ AhciBegin \/ AhciPort \/ AhciRegister \/ AhciUndo
  \/ \E k \in {Sd, Ahci} : RegisterDriver(k)
  \/ \E d \in Devices : Break(d)

ProbeSpec == ProbeInit /\ [][ProbeNext]_deviceProbeVars

-----------------------------------------------------------------------------
Published(f) == \E d \in Devices \cap ToSet(registry) : dev[d].fn = f

Running(f) == \E d \in Devices : dev[d].fn = f /\ dev[d].state # "Offline"

Owner(f) == {d \in Devices : dev[d].fn = f}

(* A probe is all or nothing.  A function that runs, or whose devices are  *)
(* published, keeps its mapping and its command bits; once its callback    *)
(* has returned, any other function has neither and drives no device.  The *)
(* devices a driver published are those of one controller each, a slot is  *)
(* never given to two functions, the running devices of a published        *)
(* controller are all in the registry, and a bound function is published.  *)
ResourcesExact ==
  /\ \A f \in Functions :
        /\ Running(f) \/ Published(f) => f \in mapped \cap enabled
        /\ job = Absent \/ job.fn # f =>
             /\ f \in mapped <=> Running(f) \/ Published(f)
             /\ f \in mapped <=> f \in enabled
             /\ bound[f] # Absent <=> Published(f)
             /\ Published(f) => Owner(f) \subseteq ToSet(registry)
  /\ IsInjective(registry) /\ Len(registry) <= RegistrySize
  /\ IsInjective(locations)
  /\ controller = "Offline" => \A d \in Devices : d[1] = Ahci => dev[d].fn = Absent
=============================================================================
