---------------------------- MODULE LaunchConfig ----------------------------
(***************************************************************************)
(* build_launch_config and make_launch_bundle: at every launch the         *)
(* config.json of the bundle (its image) and the container's registry      *)
(* settings are merged into the config.json of the generated bundle, one   *)
(* section after the other, each on what the ones before it left.  A       *)
(* section that goes through a list takes a step for each of its entries.  *)
(*                                                                         *)
(* cfg keeps the parts of the OCI configuration the sections touch.  Lists *)
(* whose order says nothing are sets: of mounts, each its destination, who *)
(* asked for it and the number of the entry it comes from, and of limits   *)
(* alike.  ujail, which reads the result, refuses two mounts at one        *)
(* destination and two limits of one type.                                 *)
(* A setting that is not given is "unset", or an empty list.               *)
(***************************************************************************)
EXTENDS Naturals, Sequences

CONSTANTS
  Strings,    \* paths, names, keys and the like
  Settings,   \* the registry settings of a container
  Image,      \* what the config.json of a bundle may say
  Host,       \* the state of the host: files, devices, cgroup
  DefaultCaps, DefaultPath

\* An environment value is the list it denotes when it is a PATH.
Paths == Seq(Strings)
Variables == [key : Strings, value : Paths]
Mounts(bys) == [dest : Strings, by : bys, n : Nat]
Limits(by) == [type : Strings, by : {by}, n : Nat]
DeviceRules == [given : BOOLEAN, list : Paths]
Identities == [uid : Nat, gid : Nat, more : Seq(Nat)]
Namespaces == [type : Strings, path : Strings]
Capabilities == [explicit : BOOLEAN, set : SUBSET Strings]
Profiles == {"unset", "unconfined", "valid", "invalid"}

SettingsType ==
  [readonly_root : BOOLEAN, infra : Strings,
   volumes : Seq([src : Strings, dst : Strings, makeable : BOOLEAN]), tmpfs : Paths,
   shm_size : Strings, cgroup_view : BOOLEAN, resources : DeviceRules, devices : Paths,
   env_file : Paths, env : Seq(Variables), user : Seq(Nat),
   rlimits : SUBSET Limits("registry"), cap_add : SUBSET Strings, cap_drop : SUBSET Strings,
   sysctl : SUBSET Strings, no_new_privileges : BOOLEAN, seccomp : Profiles]

ConfigType(bys, limits) ==
  [readonly : BOOLEAN, ns : Seq(Namespaces), mounts : SUBSET Mounts(bys),
   resources : DeviceRules, nodes : Paths, env : Seq(Variables), user : Identities,
   rlimits : SUBSET limits, caps : Capabilities, sysctl : SUBSET Strings,
   nnp : BOOLEAN, dir : Strings, seccomp : Strings]

ImageType ==
  [readable : BOOLEAN, executable : SUBSET Strings,
   config : ConfigType({"bundle"}, Limits("bundle"))]

ASSUME LaunchAssumption ==
  /\ {"/dev/shm", "/sys/fs/cgroup", "/etc/resolv.conf", "network", "none", "registry's"}
       \subseteq Strings
  /\ Settings \subseteq SettingsType /\ Image \subseteq ImageType
  /\ \A h \in Host : \A f \in DOMAIN h.files : h.files[f] \in Seq(Variables)
  /\ DefaultCaps \subseteq Strings /\ DefaultPath \in Paths

VARIABLES
  c,       \* the container's settings
  image,   \* its bundle
  host,    \* the host's files and devices
  made,    \* the directories made for volumes
  at,      \* the section being worked on: an index of Order
  k,       \* how many entries of its list are done
  cfg,     \* the configuration so far
  out      \* "none", "written" or "failed"

vars == <<c, image, host, made, at, k, cfg, out>>

\* Mutant: the registry's resources are merged when the devices are already in.
OrderDevicesFirst ==
  <<"root", "infra", "volumes", "tmpfs", "cgroup", "clear", "devices", "resources", "env",
    "user", "rlimits", "caps", "sysctl", "nnp", "args", "seccomp", "write">>

Order ==
  <<"root", "infra", "volumes", "tmpfs", "cgroup", "resources", "clear", "devices", "env",
    "user", "rlimits", "caps", "sysctl", "nnp", "args", "seccomp", "write">>

\* A section that is done.
Section(s, new) ==
  /\ out = "none" /\ Order[at] = s
  /\ cfg' = new /\ at' = at + 1 /\ k' = 0
  /\ UNCHANGED <<c, image, host, made, out>>

\* The next entry of a section's list, and a list that is at its end.
Entry(s, list, new) ==
  /\ out = "none" /\ Order[at] = s /\ k < Len(list)
  /\ cfg' = new /\ k' = k + 1
  /\ UNCHANGED <<c, image, host, at, out>>

Ended(s, list) == k >= Len(list) /\ Section(s, cfg)

\* A section fails loudly: nothing is written.
Refuse(s) ==
  /\ out = "none" /\ Order[at] = s
  /\ out' = "failed"
  /\ UNCHANGED <<c, image, host, made, at, k, cfg>>

-----------------------------------------------------------------------------
(* Mounts.                                                                 *)

Mount(dest, by, n) == [dest |-> dest, by |-> by, n |-> n]

Without(ms, dests) == {m \in ms : m.dest \notin dests}

\* Mutant: a mount already at the destination stays.
AddedTo(ms, m) == ms \cup {m}

\* What is mounted at the destination so far is dropped.
Placed(ms, m) == Without(ms, {m.dest}) \cup {m}

\* The bundle's config.json is there and parses.
Root ==
  /\ image.readable
  /\ Section("root", [cfg EXCEPT !.readonly = @ \/ c.readonly_root])

Unreadable == ~image.readable /\ Refuse("root")

\* netifd has written a resolver for the infra.
HasResolver == c.infra # "unset" /\ c.infra \in host.resolv

IsNetwork(e) == e.type = "network"

\* Every network namespace of the bundle becomes the infra's; one is added if none is.
\* The resolver's mount is appended as it is.
Infra ==
  LET shared == [type |-> "network", path |-> c.infra]
      ns == [i \in DOMAIN cfg.ns |-> IF IsNetwork(cfg.ns[i]) THEN shared ELSE cfg.ns[i]]
  IN Section("infra",
       IF c.infra = "unset" THEN cfg
       ELSE [cfg EXCEPT
         !.ns = IF \E i \in DOMAIN ns : IsNetwork(ns[i]) THEN ns ELSE Append(ns, shared),
         !.mounts = IF HasResolver
                    THEN @ \cup {Mount("/etc/resolv.conf", "infra", 1)} ELSE @])

\* A source that is not there is created, where it is an absolute path whose last
\* component is not like a file's (makeable).
Volumes ==
  \/ LET v == c.volumes[k + 1]
     IN /\ Entry("volumes", c.volumes,
                 [cfg EXCEPT !.mounts = Placed(@, Mount(v.dst, "volumes", k + 1))])
        /\ made' = IF v.makeable THEN made \cup ({v.src} \ host.sources) ELSE made
  \/ Ended("volumes", c.volumes)

\* The shared memory is one more.
Scratch == IF c.shm_size = "unset" THEN c.tmpfs ELSE Append(c.tmpfs, "/dev/shm")

Tmpfs ==
  \/ /\ UNCHANGED made
     /\ Entry("tmpfs", Scratch,
              [cfg EXCEPT !.mounts = Placed(@, Mount(Scratch[k + 1], "tmpfs", k + 1))])
  \/ Ended("tmpfs", Scratch)

SeesCgroup == c.cgroup_view /\ host.cgroup

CgroupView ==
  Section("cgroup",
    IF SeesCgroup
    THEN [cfg EXCEPT !.mounts = Placed(@, Mount("/sys/fs/cgroup", "cgroup", 1))] ELSE cfg)

-----------------------------------------------------------------------------
(* Resources and devices: of linux.resources only its devices, rules that  *)
(* each name a device or a directory, which allows what is in it.          *)

\* The registry's keys replace the bundle's.
Resources ==
  Section("resources",
    [cfg EXCEPT !.resources = IF c.resources.given THEN c.resources ELSE @])

Listed == {c.devices[i] : i \in DOMAIN c.devices}

\* What is mounted at a listed path is dropped ...
ClearDevices ==
  Section("clear", [cfg EXCEPT !.mounts = Without(@, Listed)])

\* ... a directory is bound as it is and its devices allowed by their major numbers, a
\* device gets a node and a rule, and one that is not there is skipped.
Devices ==
  \/ /\ UNCHANGED made
     /\ LET d == c.devices[k + 1]
            allowed == [given |-> TRUE, list |-> Append(cfg.resources.list, d)]
        IN Entry("devices", c.devices,
             IF d \in host.devdirs
             THEN [cfg EXCEPT !.mounts = @ \cup {Mount(d, "devices", k + 1)},
                              !.resources = allowed]
             ELSE IF d \in host.devnodes
             THEN [cfg EXCEPT !.nodes = Append(@, d), !.resources = allowed]
             ELSE cfg)
  \/ Ended("devices", c.devices)

-----------------------------------------------------------------------------
(* The process.                                                            *)

\* The entries of the env_files, then the inline ones.
Env ==
  \/ /\ k < Len(c.env_file) /\ c.env_file[k + 1] \in DOMAIN host.files
     /\ Entry("env", c.env_file, [cfg EXCEPT !.env = @ \o host.files[c.env_file[k + 1]]])
     /\ UNCHANGED made
  \/ k >= Len(c.env_file) /\ Section("env", [cfg EXCEPT !.env = @ \o c.env])

\* An env_file that is not there fails the launch.
EnvMissing ==
  /\ k < Len(c.env_file) /\ c.env_file[k + 1] \notin DOMAIN host.files
  /\ Refuse("env")

\* uid[:gid[,gid...]]: the group is the user's number where none is given.
Identity(u) ==
  [uid |-> u[1], gid |-> u[IF Len(u) = 1 THEN 1 ELSE 2], more |-> SubSeq(u, 3, Len(u))]

User ==
  Section("user", IF c.user = <<>> THEN cfg ELSE [cfg EXCEPT !.user = Identity(c.user)])

Merged(old, new) == {r \in old : \A q \in new : q.type # r.type} \cup new

Rlimits ==
  Section("rlimits", [cfg EXCEPT !.rlimits = Merged(@, c.rlimits)])

\* Mutant: what is added is dropped again.
CapsAddedFirst(base) ==
  IF "ALL" \in c.cap_drop THEN {} ELSE (base \cup c.cap_add) \ c.cap_drop

CapsOf(base) == (IF "ALL" \in c.cap_drop THEN {} ELSE base \ c.cap_drop) \cup c.cap_add

\* No capability set at all means every capability to ujail.
Caps ==
  Section("caps",
    IF c.cap_add \cup c.cap_drop = {} THEN cfg
    ELSE [cfg EXCEPT !.caps =
            [explicit |-> TRUE, set |-> CapsOf(IF @.explicit THEN @.set ELSE DefaultCaps)]])

HasNetns == c.infra # "unset" \/ \E i \in DOMAIN cfg.ns : IsNetwork(cfg.ns[i])

Sysctl ==
  /\ "net" \in c.sysctl => HasNetns
  /\ Section("sysctl", [cfg EXCEPT !.sysctl = IF c.sysctl = {} THEN @ ELSE c.sysctl])

SysctlRefused == "net" \in c.sysctl /\ ~HasNetns /\ Refuse("sysctl")

NoNewPrivileges ==
  Section("nnp", [cfg EXCEPT !.nnp = c.no_new_privileges])

First(S) == CHOOSE i \in S : \A j \in S : i <= j

\* The directories of the first PATH= of an environment.
SearchPath(env) ==
  LET paths == {i \in DOMAIN env : env[i].key = "PATH"}
  IN IF paths = {} THEN DefaultPath ELSE env[First(paths)].value

\* A bare command becomes the first executable of that name; a name not found stays.
Args ==
  LET path == SearchPath(cfg.env)
      found == {i \in DOMAIN path : path[i] \in image.executable}
  IN Section("args",
       IF cfg.dir = "bare" /\ found # {}
       THEN [cfg EXCEPT !.dir = path[First(found)]] ELSE cfg)

Seccomp ==
  /\ c.seccomp \in {"unset", "unconfined", "valid"}
  /\ Section("seccomp", [cfg EXCEPT !.seccomp =
       CASE c.seccomp = "unset" -> @ [] c.seccomp = "unconfined" -> "none" [] OTHER -> "registry's"])

\* Not there, not JSON, or without a defaultAction.
SeccompRefused == c.seccomp = "invalid" /\ Refuse("seccomp")

\* make_launch_bundle: only a complete configuration is written.
Write ==
  /\ out = "none" /\ Order[at] = "write"
  /\ out' \in {"written", "failed"}
  /\ UNCHANGED <<c, image, host, made, at, k, cfg>>

-----------------------------------------------------------------------------
\* The bundle's config.json, parsed.
Init ==
  /\ c \in Settings /\ image \in Image /\ host \in Host
  /\ made = {} /\ at = 1 /\ k = 0 /\ out = "none"
  /\ cfg = image.config

Next ==
  \/ Root \/ Unreadable \/ Infra \/ Volumes \/ Tmpfs \/ CgroupView \/ Resources
  \/ ClearDevices \/ Devices \/ Env \/ EnvMissing \/ User \/ Rlimits \/ Caps
  \/ Sysctl \/ SysctlRefused \/ NoNewPrivileges \/ Args \/ Seccomp \/ SeccompRefused \/ Write

Spec == Init /\ [][Next]_vars
-----------------------------------------------------------------------------
(* Properties.  They speak of the configuration as written.                *)

\* A section's claim on a destination counts before those of the sections before it, the
\* last of its entries before the others.
Claim(entries, below) == IF entries = {} THEN below ELSE entries
LastOf(list, d, by) ==
  {Mount(d, by, i) : i \in {j \in DOMAIN list : /\ list[j] = d
                                               /\ \A l \in DOMAIN list : list[l] = d => l <= j}}

\* What must be mounted at a destination.
Asked(d) ==
  IF d \in Listed
  THEN IF d \in host.devdirs
       THEN {Mount(d, "devices", i) : i \in {j \in DOMAIN c.devices : c.devices[j] = d}}
       ELSE {}
  ELSE Claim(IF d = "/sys/fs/cgroup" /\ SeesCgroup THEN {Mount(d, "cgroup", 1)} ELSE {},
       Claim(LastOf(Scratch, d, "tmpfs"),
       Claim(LastOf([i \in DOMAIN c.volumes |-> c.volumes[i].dst], d, "volumes"),
             {m \in image.config.mounts : m.dest = d}
             \cup IF d = "/etc/resolv.conf" /\ HasResolver
                  THEN {Mount(d, "infra", 1)} ELSE {})))

Destinations ==
  {m.dest : m \in cfg.mounts \cup image.config.mounts} \cup Listed
  \cup {Scratch[i] : i \in DOMAIN Scratch} \cup {c.volumes[i].dst : i \in DOMAIN c.volumes}
  \cup {"/sys/fs/cgroup", "/etc/resolv.conf"}

\* Every destination has the mounts the settings ask for and no other, so that two meet
\* only where the bundle or the list of devices has it twice, or the bundle mounts the
\* resolv.conf the infra does: "two mounts with the same destination make ujail reject
\* the whole OCI spec" (container.cpp:1410).
MountsAsked ==
  out = "written" =>
    /\ \A d \in Destinations : {m \in cfg.mounts : m.dest = d} = Asked(d)
    /\ \A m, o \in cfg.mounts : m # o /\ m.dest = o.dest =>
         \/ m.by = o.by /\ m.by \in {"bundle", "devices"}
         \/ {m.by, o.by} = {"bundle", "infra"} /\ m.dest = "/etc/resolv.conf"

\* A listed device that exists is allowed in the container's device cgroup, after every
\* rule that the bundle or the registry has: the order of two sections decides it.
DevicesAllowed ==
  out = "written" =>
    \A d \in Listed \cap (host.devdirs \cup host.devnodes) :
      \E i \in DOMAIN cfg.resources.list :
        /\ cfg.resources.list[i] = d
        /\ i > Len(IF c.resources.given THEN c.resources.list
                   ELSE image.config.resources.list)

\* No capability is left that was dropped and not added back, or that neither the base
\* has nor anyone added; and one that was added is there, also when ALL is dropped.
CapsAsked ==
  c.cap_add \cup c.cap_drop # {} =>
    /\ cfg.caps.explicit
    /\ c.cap_add \subseteq cfg.caps.set
    /\ \A cap \in cfg.caps.set \ c.cap_add :
         /\ cap \notin c.cap_drop /\ "ALL" \notin c.cap_drop
         /\ cap \in IF image.config.caps.explicit THEN image.config.caps.set ELSE DefaultCaps

\* A bare command runs from the first directory that has it of the PATH the image
\* declares, also when the registry or an env_file adds a PATH of its own.
ProgramOnPath ==
  image.config.dir = "bare" =>
    LET declared == image.config.env
        path == SearchPath(declared)
    IN (\E i \in DOMAIN declared : declared[i].key = "PATH") =>
         \/ /\ cfg.dir = "bare"
            /\ \A i \in DOMAIN path : path[i] \notin image.executable
         \/ \E i \in DOMAIN path :
              /\ cfg.dir = path[i] /\ path[i] \in image.executable
              /\ \A j \in 1 .. i - 1 : path[j] \notin image.executable

\* The registry's net.* sysctls need a network namespace: without one they would
\* reconfigure the router (container.cpp:1706).
NetSysctlIsolated ==
  "net" \in c.sysctl => \E i \in DOMAIN cfg.ns : IsNetwork(cfg.ns[i])

\* The registry's limits are set, and a type occurs twice only where the registry or the
\* bundle lists it twice: ujail refuses such a configuration (ENOTUNIQ).
RlimitsUnique ==
  /\ c.rlimits \subseteq cfg.rlimits
  /\ \A r, q \in cfg.rlimits : r # q /\ r.type = q.type => r.by = q.by

\* What the process gets is what the image and the registry together say of it, however
\* the sections that merge the two are interleaved (build_launch_config).
ProcessAsAsked ==
  out = "written" =>
    /\ CapsAsked /\ ProgramOnPath /\ NetSysctlIsolated /\ RlimitsUnique
    /\ cfg.user \in Identities
=============================================================================
