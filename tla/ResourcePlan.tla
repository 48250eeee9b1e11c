---------------------------- MODULE ResourcePlan ----------------------------
(***************************************************************************)
(* What Terraform makes of the attributes of the provider's resources: the *)
(* plan it computes from schema, configuration and state, and what Create  *)
(* and Update make known, compare, keep and carry out.  The framework is   *)
(* modelled from how the schemas use it; a schema tells, for each kind of  *)
(* resource, who gives an attribute its value (the configuration has to,   *)
(* may, may or else the provider does, only the provider does), what has a *)
(* default, keeps its value in a plan, and cannot change in place.         *)
(***************************************************************************)
EXTENDS Naturals

CONSTANTS
    PlanKinds,  \* the kinds of resource that are looked at
    PlanValues, \* values a configuration may give
    AtFirst,    \* the one it gives at first, if any (or PlanStopped, as a state)
    PlanStopped,\* as the state of a daemon, that it is not to run
    MaxEdits    \* bounds the changes of the configuration

ASSUME PlanAssumption ==
    /\ MaxEdits \in Nat /\ AtFirst \in PlanValues
    /\ PlanStopped \in PlanValues \ {AtFirst}
    /\ PlanValues \cap {"null", "default", "made", "unknown", "stale"} = {}

DiskImageSchema ==
    [required |-> {"name", "size_mb"}, optional |-> {}, both |-> {},
     computed |-> {"id", "filename", "used_bytes"},
     default |-> {}, keep |-> {"id"}, replace |-> {}]

CloudInitISOSchema ==
    [required |-> {"name", "user_data", "meta_data", "network_config"}, optional |-> {}, both |-> {},
     computed |-> {"id", "filename"},
     default |-> {}, keep |-> {"id"}, replace |-> {}]

EveInstallerSchema ==
    [required |-> {"name", "tag", "cluster"},
     optional |-> {"tls_ca", "object_signing_ca", "additional_hosts", "authorized_keys", "grub_cfg",
                   "device_port_config_override"},
     both |-> {"format"}, computed |-> {"id", "filename"},
     default |-> {"format"}, keep |-> {"id"}, replace |-> {"format"}]

InstalledNodeSchema ==
    [required |-> {"serial_no"},
     optional |-> {"name", "installer_iso", "installer_raw", "disk_image_base", "disk_1_image_base",
                   "swtpm_socket", "extra_qemu_args"},
     both |-> {"serial_type"},
     computed |-> {"id", "disk_image", "disk_1_image", "serial_console_log", "ovmf_vars", "success",
                   "soft_serial"},
     default |-> {"serial_type"}, keep |-> {"id"}, replace |-> {"serial_type"}]

EdgeNodeSchema ==
    [required |-> {"serial_no"},
     optional |-> {"name", "mem", "cpus", "nic0", "serial_port_server", "disk_image_base",
                   "disk_1_image_base", "disk_size_mb", "drive_if", "swtpm_socket", "ovmf_vars_src",
                   "extra_qemu_args", "use_gvproxy", "cpu_pins"},
     both |-> {"serial_type"},
     computed |-> {"id", "serial_port_socket", "serial_console_log", "disk_image", "disk_1_image",
                   "ovmf_vars", "qmp_socket", "vm_running", "ssh_port", "nic0_port_forwards"},
     default |-> {"serial_type"}, keep |-> {"id"}, replace |-> {"serial_type"}]

HostReservationSchema ==
    LET reserved == {"cpus_reserved", "mem_reserved", "devs_reserved", "cpus_reserved_count",
                     "mem_reserved_total_gb"} IN
    [required |-> {}, optional |-> {"cpus", "mem", "devs"}, both |-> {"path"},
     computed |-> {"id"} \cup reserved,
     default |-> {"path"}, keep |-> {"id"} \cup reserved, replace |-> {"path", "cpus", "mem", "devs"}]

TAPSchema ==
    [required |-> {"name"}, optional |-> {"owner", "group", "master", "ipv4_address", "netns"},
     both |-> {"mtu", "state"}, computed |-> {"id", "mover_status"},
     default |-> {}, keep |-> {"id"}, replace |-> {"name", "netns"}]

BridgeSchema ==
    [required |-> {"name"}, optional |-> {"ipv4_address", "ipv6_address", "netns", "enslaved_interfaces"},
     both |-> {"mtu", "state", "mac_address"}, computed |-> {"id"},
     default |-> {}, keep |-> {"id"}, replace |-> {"name", "netns", "enslaved_interfaces"}]

VLANSchema ==
    [required |-> {"vlan_id", "parent"}, optional |-> {"ipv4_address", "ipv6_address"},
     both |-> {"mtu", "state", "mac_address"}, computed |-> {"id", "name"},
     default |-> {}, keep |-> {"id"}, replace |-> {}]

NetNSSchema ==
    [required |-> {"name"}, optional |-> {}, both |-> {}, computed |-> {"id"},
     default |-> {}, keep |-> {"id"}, replace |-> {"name"}]

LAGSchema ==
    [required |-> {"name"},
     optional |-> {"mode", "miimon", "lacp_rate", "xmit_hash_policy", "ipv4_address", "ipv6_address",
                   "netns", "enslaved_interfaces"},
     both |-> {"mtu", "state", "mac_address"}, computed |-> {"id"},
     default |-> {}, keep |-> {"id"},
     replace |-> {"name", "mode", "miimon", "lacp_rate", "xmit_hash_policy", "netns"}]

DHCPServerSchema ==
    [required |-> {"interface", "server_id", "nameserver", "router", "netmask", "pool"},
     optional |-> {"netns", "static_route"}, both |-> {"lease_time", "state"},
     computed |-> {"id", "leases_file", "config_file", "pid_file"},
     default |-> {}, keep |-> {"id"}, replace |-> {"netns"}]

DHCP6ServerSchema ==
    [required |-> {"interface", "server_id", "nameserver", "pool"}, optional |-> {"prefix"},
     both |-> {"lease_time", "state"}, computed |-> {"id", "leases_file", "config_file", "pid_file"},
     default |-> {}, keep |-> {"id"}, replace |-> {}]

RADVSchema ==
    LET intervals == {"prefix_valid_lifetime", "prefix_preferred_lifetime", "router_lifetime",
                      "max_interval", "min_interval", "hop_limit"} IN
    [required |-> {"interface", "prefix"}, optional |-> {"dns_servers", "route"},
     both |-> {"prefix_on_link", "prefix_autonomous", "managed_config", "other_config", "state"}
              \cup intervals,
     computed |-> {"id", "config_file", "pid_file"},
     default |-> intervals, keep |-> {"id"}, replace |-> {"interface", "prefix", "route"}]

InternetMonitorSchema ==
    LET probe == {"interval", "ping_count", "ping_timeout", "dns_timeout", "http_timeout",
                  "doh_endpoint", "flush_every_n", "privileged_icmp"} IN
    [required |-> {"destinations"}, optional |-> {"netns"}, both |-> {"output_file", "state"} \cup probe,
     computed |-> {"id", "config_file", "pid_file"},
     default |-> probe, keep |-> {"id", "output_file"}, replace |-> {"netns"}]

MonitorSystemUsageSchema ==
    LET sample == {"interval", "flush_every_n", "include_env"} IN
    [required |-> {}, optional |-> {"namespaces", "netns"}, both |-> {"output_file", "state"} \cup sample,
     computed |-> {"id", "config_file", "pid_file"},
     default |-> sample, keep |-> {"id", "output_file"}, replace |-> {"netns"}]

LocalDatastoreSchema ==
    [required |-> {"static_dir"}, optional |-> {"listen", "bw_limit", "username", "password"},
     both |-> {"state"}, computed |-> {"id", "pid_file"},
     default |-> {}, keep |-> {"id"}, replace |-> {}]

SwTPMSchema ==
    [required |-> {"name"}, optional |-> {}, both |-> {"state"}, computed |-> {"id", "socket"},
     default |-> {}, keep |-> {"id", "socket"}, replace |-> {"name"}]

WaitUntilSchema ==
    LET outcome == {"attempts", "elapsed", "stdout", "stderr", "script_path"} IN
    [required |-> {"script"}, optional |-> {"interpreter", "attempt_timeout", "triggers"},
     both |-> {"timeout", "interval"}, computed |-> {"id"} \cup outcome,
     default |-> {"timeout", "interval"}, keep |-> {"id"} \cup outcome,
     replace |-> {"script", "interpreter", "triggers"}]

SchemaOf ==
    [disk_image |-> DiskImageSchema, cloud_init_iso |-> CloudInitISOSchema,
     eve_installer |-> EveInstallerSchema, installed_edge_node |-> InstalledNodeSchema,
     edge_node |-> EdgeNodeSchema, host_reservation |-> HostReservationSchema,
     tap |-> TAPSchema, bridge |-> BridgeSchema, vlan |-> VLANSchema, netns |-> NetNSSchema,
     lag |-> LAGSchema, dhcp_server |-> DHCPServerSchema, dhcp6_server |-> DHCP6ServerSchema,
     radv |-> RADVSchema, internet_monitor |-> InternetMonitorSchema,
     monitor_system_usage |-> MonitorSystemUsageSchema, local_datastore |-> LocalDatastoreSchema,
     swtpm |-> SwTPMSchema, wait_until |-> WaitUntilSchema]

ASSUME PlanKindsAssumption == PlanKinds \subseteq DOMAIN SchemaOf

Configurable(k) == SchemaOf[k].required \cup SchemaOf[k].optional \cup SchemaOf[k].both
Computable(k)   == SchemaOf[k].both \cup SchemaOf[k].computed
AttributesOf(k) == Configurable(k) \cup Computable(k)

-----------------------------------------------------------------------------
(* Create: the attributes it gives a value when the plan has none.         *)
MadeByDHCP           == {"id", "config_file", "leases_file", "lease_time", "pid_file", "state"}
MadeByDHCP6          == {"id", "config_file", "leases_file", "lease_time", "pid_file", "state"}
MadeByRADV           == {"id", "prefix_on_link", "prefix_autonomous", "managed_config", "other_config",
                         "config_file", "pid_file", "state"}
MadeByMonitor        == {"id", "output_file", "config_file", "pid_file", "state"}
MadeBySystemUsage    == {"id", "output_file", "config_file", "pid_file", "state"}
MadeByDatastore      == {"id", "pid_file", "state"}

(* The interface is read back, except when it is left to the mover.        *)
MadeByTAP(conf) ==
    {"id", "mover_status"} \cup IF conf["netns"] = "null" THEN {"mtu", "state"} ELSE {}

Made(k, conf) ==
    CASE k = "dhcp_server"          -> MadeByDHCP
      [] k = "dhcp6_server"         -> MadeByDHCP6
      [] k = "radv"                 -> MadeByRADV
      [] k = "internet_monitor"     -> MadeByMonitor
      [] k = "monitor_system_usage" -> MadeBySystemUsage
      [] k = "local_datastore"      -> MadeByDatastore
      [] k = "tap"                  -> MadeByTAP(conf)
      [] OTHER                      -> Computable(k)

(***************************************************************************)
(* Update: a plan that changes an attribute in refused is an error; kept   *)
(* are copied from the state; those in filled, made up, and in read, read  *)
(* back, when the plan has no value; acts are the ones it acts upon        *)
(* (Reaches tells which of them come to the system).                       *)
(***************************************************************************)
UpdateUnsupported(k) ==
    [refused |-> AttributesOf(k), kept |-> {}, filled |-> {}, read |-> {}, acts |-> {}]

UpdateOfDHCP ==
    [refused |-> {"interface", "server_id", "nameserver", "router", "netmask", "pool", "lease_time",
                  "static_route"},
     kept |-> {}, filled |-> {"state"}, read |-> {}, acts |-> {"state"}]

UpdateOfDHCP6 ==
    [refused |-> {"interface", "server_id", "prefix", "nameserver", "pool", "lease_time"},
     kept |-> {}, filled |-> {"state"}, read |-> {}, acts |-> {"state"}]

UpdateOfRADV ==
    [refused |-> {}, kept |-> {}, filled |-> {"state"}, read |-> {}, acts |-> {"state"}]

UpdateOfMonitor ==
    [refused |-> {"destinations", "interval", "ping_count", "ping_timeout", "dns_timeout", "http_timeout",
                  "doh_endpoint", "flush_every_n", "privileged_icmp", "output_file"},
     kept |-> {"config_file", "pid_file", "output_file"},
     filled |-> {"state"}, read |-> {}, acts |-> {"state", "pid_file"}]

(* Mutant: a comparison is forgotten.                                      *)
UpdateOfSystemUsage_no_env ==
    [refused |-> {"interval", "flush_every_n", "namespaces", "output_file"},
     kept |-> {"config_file", "pid_file", "output_file"},
     filled |-> {"state"}, read |-> {}, acts |-> {"state", "pid_file"}]

UpdateOfSystemUsage ==
    [refused |-> {"interval", "flush_every_n", "namespaces", "include_env", "output_file"},
     kept |-> {"config_file", "pid_file", "output_file"},
     filled |-> {"state"}, read |-> {}, acts |-> {"state", "pid_file"}]

UpdateOfDatastore ==
    [refused |-> {}, kept |-> {}, filled |-> {"state"}, read |-> {},
     acts |-> {"listen", "static_dir", "bw_limit", "username", "password", "state"}]

UpdateOfLAG ==
    [refused |-> {}, kept |-> {}, filled |-> {}, read |-> {"mtu", "state", "mac_address"},
     acts |-> {"mtu", "mac_address", "ipv4_address", "ipv6_address", "enslaved_interfaces", "state"}]

UpdateOfSwTPM ==
    [refused |-> {}, kept |-> {}, filled |-> {"state"}, read |-> {}, acts |-> {"state"}]

(* Nothing is left for a timeout to rule once the condition was met.       *)
UpdateOfWaitUntil ==
    [refused |-> {}, kept |-> {"id", "script_path", "attempts", "elapsed", "stdout", "stderr"},
     filled |-> {}, read |-> {}, acts |-> {"timeout", "interval", "attempt_timeout"}]

UpdateOf(k) ==
    CASE k = "dhcp_server"          -> UpdateOfDHCP
      [] k = "dhcp6_server"         -> UpdateOfDHCP6
      [] k = "radv"                 -> UpdateOfRADV
      [] k = "internet_monitor"     -> UpdateOfMonitor
      [] k = "monitor_system_usage" -> UpdateOfSystemUsage
      [] k = "local_datastore"      -> UpdateOfDatastore
      [] k = "lag"                  -> UpdateOfLAG
      [] k = "swtpm"                -> UpdateOfSwTPM
      [] k = "wait_until"           -> UpdateOfWaitUntil
      [] OTHER                      -> UpdateUnsupported(k)

-----------------------------------------------------------------------------
VARIABLES
    plKind,   \* the kind of the resource
    plConf,   \* its configuration: a value given, or "null", per attribute
    plSaved,  \* its state: the value saved, per attribute; no attribute before Create
    plReal,   \* the values the system was given; as pid_file, whether the file names the daemon
    plLast,   \* the last apply: what it did, what it changed and how it ended
    plEdits

planVars == <<plKind, plConf, plSaved, plReal, plLast, plEdits>>

NotApplied == [op |-> "none", edited |-> {}, result |-> "none"]

PlanInit ==
    /\ plKind \in PlanKinds
    /\ \E full, stopped \in BOOLEAN :
         plConf = [a \in Configurable(plKind) |->
                     IF stopped /\ a = "state" THEN PlanStopped
                     ELSE IF full \/ a \in SchemaOf[plKind].required THEN AtFirst ELSE "null"]
    /\ plSaved = [a \in {} |-> "null"] /\ plReal = [a \in {} |-> "null"]
    /\ plLast = NotApplied /\ plEdits = 0

Exists == plSaved # [a \in {} |-> "null"]

(* The user changes the configuration.                                     *)
EditConfig ==
    /\ plEdits < MaxEdits
    /\ \E a \in Configurable(plKind) :
         \E v \in (PlanValues \cup IF a \in SchemaOf[plKind].required THEN {} ELSE {"null"}) \ {plConf[a]} :
            plConf' = [plConf EXCEPT ![a] = v]
    /\ plEdits' = plEdits + 1
    /\ UNCHANGED <<plKind, plSaved, plReal, plLast>>

(***************************************************************************)
(* The plan.  What the configuration leaves out has its default or, where  *)
(* the provider may choose, the value it had.  If that differs from the    *)
(* state at all, the values the provider chooses are unknown, except those *)
(* that have a default or are marked to keep theirs.                       *)
(***************************************************************************)
ConfigGives(a) == a \in Configurable(plKind) /\ plConf[a] # "null"
HasDefault(a)  == a \in SchemaOf[plKind].default

Proposed(a, old) ==
    IF ConfigGives(a) THEN plConf[a]
    ELSE IF HasDefault(a) THEN "default"
    ELSE IF a \in Computable(plKind) THEN old ELSE "null"

Planned ==
    [a \in AttributesOf(plKind) |->
       IF ConfigGives(a) \/ HasDefault(a) \/ a \notin Computable(plKind) \/ a \in SchemaOf[plKind].keep
       THEN Proposed(a, plSaved[a]) ELSE "unknown"]

PlannedNew ==
    [a \in AttributesOf(plKind) |->
       IF ConfigGives(a) \/ HasDefault(a) \/ a \notin Computable(plKind)
       THEN Proposed(a, "null") ELSE "unknown"]

(* A Create that ends with an error leaves a resource to be replaced.      *)
Tainted  == plLast.op \in {"create", "replace"} /\ plLast.result = "unknown"
HasDiff  == \E a \in AttributesOf(plKind) : Proposed(a, plSaved[a]) # plSaved[a]
Replaced == \E a \in SchemaOf[plKind].replace : Planned[a] # plSaved[a]
Edited   == {a \in Configurable(plKind) : Planned[a] # plSaved[a] /\ Planned[a] # "unknown"}

(* What is still unknown after an apply is an error, and saved as null.    *)
Known(values)   == [a \in DOMAIN values |-> IF values[a] = "unknown" THEN "null" ELSE values[a]]
Outcome(values) == IF \E a \in DOMAIN values : values[a] = "unknown" THEN "unknown" ELSE "ok"

New == [a \in AttributesOf(plKind) |->
          IF PlannedNew[a] = "unknown" /\ a \in Made(plKind, plConf) THEN "made" ELSE PlannedNew[a]]

(* Only a daemon that Create starts is told the path of its PID file.      *)
FirstReal == [a \in AttributesOf(plKind) |->
                IF a = "pid_file" /\ New["state"] = PlanStopped THEN "null" ELSE Known(New)[a]]

CreateAs(op) ==
    /\ plSaved' = Known(New) /\ plReal' = FirstReal
    /\ plLast' = [op |-> op, edited |-> {}, result |-> Outcome(New)]
    /\ UNCHANGED <<plKind, plConf, plEdits>>

ApplyCreate  == ~Exists /\ CreateAs("create")
ApplyReplace == Exists /\ (Tainted \/ (HasDiff /\ Replaced)) /\ CreateAs("replace")

(* Update, with the plan and the state.                                    *)
Updated ==
    LET u == UpdateOf(plKind) IN
    [a \in AttributesOf(plKind) |->
       IF a \in u.kept THEN plSaved[a]
       ELSE IF Planned[a] # "unknown" THEN Planned[a]
       ELSE IF a \in u.filled THEN "made"
       ELSE IF a \in u.read THEN plReal[a] ELSE "unknown"]

Refuses == \E a \in UpdateOf(plKind).refused : Planned[a] # plSaved[a]

UpdateRefused ==
    /\ Exists /\ HasDiff /\ ~Replaced /\ ~Tainted /\ Refuses
    /\ plLast' = [op |-> "update", edited |-> Edited, result |-> "refused"]
    /\ UNCHANGED <<plKind, plConf, plSaved, plReal, plEdits>>

(***************************************************************************)
(* What of that comes to the system.  The paths of the configuration and   *)
(* of the PID file are unknown in the plan and are passed on as "": a DHCP *)
(* server or a RADV started so exits at once, a datastore runs and can no  *)
(* longer be found.  One that is not found is not stopped; it keeps its    *)
(* port, on which no other comes up.                                       *)
(***************************************************************************)
ExitsUnconfigured == {"dhcp_server", "dhcp6_server", "radv"}

WantsStopped   == Updated["state"] = PlanStopped
ServerLives    == plReal["state"] # PlanStopped
ServerFound    == plReal["pid_file"] = "made"
SettingsChange == \E a \in UpdateOfDatastore.acts \ {"state"} : Updated[a] # plSaved[a]

(* Beside a server that is not found one comes up on another port, unless  *)
(* a third has that.                                                       *)
DatastoreReaches ==
    IF ~ServerLives \/ ServerFound THEN {UpdateOfDatastore.acts}
    ELSE IF SettingsChange /\ ~WantsStopped /\ Updated["listen"] # plReal["listen"]
         THEN {UpdateOfDatastore.acts, {}} ELSE {{}}

Reaches ==
    CASE plKind \in ExitsUnconfigured  -> {IF WantsStopped THEN {"state"} ELSE {}}
      [] plKind = "local_datastore"    -> DatastoreReaches
      [] OTHER                         -> {UpdateOf(plKind).acts}

(* The datastore's PID file goes on naming the server before.              *)
GoesStale == plKind = "local_datastore" /\ ServerFound /\ ~WantsStopped /\ (SettingsChange \/ ~ServerLives)

(* To stop a daemon that never wrote a PID file is an error; a datastore   *)
(* only warns of it when its settings change.                              *)
StopFindsNoFile ==
    /\ "pid_file" \in AttributesOf(plKind) /\ plReal["pid_file"] = "null"
    /\ WantsStopped /\ plSaved["state"] # PlanStopped
    /\ ~(plKind = "local_datastore" /\ SettingsChange)

Updates == Exists /\ HasDiff /\ ~Replaced /\ ~Tainted /\ ~Refuses

UpdateFails ==
    /\ Updates /\ StopFindsNoFile
    /\ plLast' = [op |-> "update", edited |-> Edited, result |-> "failed"]
    /\ UNCHANGED <<plKind, plConf, plSaved, plReal, plEdits>>

UpdateAccepted ==
    /\ Updates /\ ~StopFindsNoFile
    /\ plSaved' = Known(Updated)
    /\ \E reached \in Reaches :
         plReal' = [a \in AttributesOf(plKind) |->
                      IF a \in reached THEN Updated[a]
                      ELSE IF a = "pid_file" /\ GoesStale THEN "stale" ELSE plReal[a]]
    /\ plLast' = [op |-> "update", edited |-> Edited, result |-> Outcome(Updated)]
    /\ UNCHANGED <<plKind, plConf, plEdits>>

PlanNext == EditConfig \/ ApplyCreate \/ ApplyReplace \/ UpdateRefused \/ UpdateFails \/ UpdateAccepted

PlanSpec == PlanInit /\ [][PlanNext]_planVars

-----------------------------------------------------------------------------
(* The variables keep their types.                                         *)
PlanTypeOK ==
    /\ plKind \in PlanKinds /\ plEdits \in 0..MaxEdits
    /\ plConf \in [Configurable(plKind) -> PlanValues \cup {"null"}]
    /\ Exists =>
         /\ plSaved \in [AttributesOf(plKind) -> PlanValues \cup {"null", "default", "made"}]
         /\ plReal \in [AttributesOf(plKind) -> PlanValues \cup {"null", "default", "made", "stale"}]
    /\ plLast.op \in {"none", "create", "update", "replace"} /\ plLast.edited \subseteq Configurable(plKind)
    /\ plLast.result \in {"none", "ok", "refused", "failed", "unknown"}

(***************************************************************************)
(* Create, whatever is configured, and Update, whatever it accepts, know   *)
(* every attribute in the end: Terraform takes one that is unknown after   *)
(* an apply for an error.  Not so for a TAP in a namespace, which is not   *)
(* read back, and for the daemons whose Update forgets the paths.          *)
(***************************************************************************)
ForgetsPaths == {"dhcp_server", "dhcp6_server", "radv", "local_datastore"}

PlanKnown ==
    plLast.result = "unknown" =>
      \/ plLast.op = "update" /\ plKind \in ForgetsPaths
      \/ plLast.op # "update" /\ plKind = "tap" /\ plSaved["netns"] # "null"

(* What an accepted Update may leave undone: to start a daemon that reads  *)
(* a configuration, though it stops one; what RADV does not look at; and   *)
(* anything of a datastore whose PID file no longer names its server.      *)
MayBeVain(a) ==
    \/ plKind \in ExitsUnconfigured /\ a = "state" /\ plSaved["state"] # PlanStopped
    \/ plKind = "radv" /\ a # "state"
    \/ plKind = "local_datastore" /\ plReal["pid_file"] # "made"

(* What is saved is what the daemon, interface or file was given: no other *)
(* change of an attribute is accepted without effect, and none is made and *)
(* not saved.  In particular a daemon saved as stopped was stopped.        *)
PlanCarriedOut ==
    Exists => \A a \in Configurable(plKind) :
                plSaved[a] = plReal[a] \/ (plLast.op = "update" /\ MayBeVain(a))

(* An apply is what Terraform reports of it, for every kind of resource    *)
(* and whatever attributes are given, left out or changed: schema, Create  *)
(* and Update agree on who gives an attribute its value.                   *)
PlanApplied == PlanKnown /\ PlanCarriedOut

(* "The provider will automatically start or stop the daemon to match this *)
(* state": a change of nothing but the state of a daemon is not refused.   *)
PlanDaemons ==
    {"dhcp_server", "dhcp6_server", "radv", "internet_monitor", "monitor_system_usage", "local_datastore"}

PlanStateInPlace ==
    plKind \in PlanDaemons /\ plLast.edited = {"state"} => plLast.result # "refused"
=============================================================================
