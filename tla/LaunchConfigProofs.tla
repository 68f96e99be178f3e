------------------------- MODULE LaunchConfigProofs -------------------------
(***************************************************************************)
(* The properties of LaunchConfig, proved for any settings, image and      *)
(* host, and for lists of any length.                                      *)
(***************************************************************************)
EXTENDS LaunchConfig, SequenceTheorems, WellFoundedInduction, TLAPS

-----------------------------------------------------------------------------
(* The inductive invariant: what the sections that are done have left.     *)

Bys == {"bundle", "infra", "volumes", "tmpfs", "cgroup", "devices"}

Config == ConfigType(Bys, Limits("bundle") \cup Limits("registry"))

\* Every variable stays in its domain.
Typed ==
  /\ c \in SettingsType /\ image \in ImageType
  /\ \A f \in DOMAIN host.files : host.files[f] \in Seq(Variables)
  /\ at \in 1 .. 17 /\ k \in Nat
  /\ cfg \in Config
  /\ out \in {"none", "written", "failed"} /\ (out = "written" => at = 17)

\* How many entries of the list of the section at place p are done.
Done(p, list) == IF at > p THEN Len(list) ELSE IF at = p THEN k ELSE 0

\* No list is gone through past its end.
Within ==
  /\ at = 3 => k <= Len(c.volumes)
  /\ at = 4 => k <= Len(Scratch)
  /\ at = 8 => k <= Len(c.devices)

\* The last of the first n entries of a list that is for d.
LastUpto(list, n, d, by) ==
  {Mount(d, by, i) : i \in {j \in 1 .. n : /\ list[j] = d
                                          /\ \A l \in 1 .. n : list[l] = d => l <= j}}

Targets == [i \in DOMAIN c.volumes |-> c.volumes[i].dst]

\* What is mounted at d before the section at place p, or in it, when v volumes and t
\* filesystems are mounted.
Bottom(d, p) ==
  {m \in image.config.mounts : m.dest = d}
  \cup IF d = "/etc/resolv.conf" /\ HasResolver /\ p > 2 THEN {Mount(d, "infra", 1)} ELSE {}
Top(d, p) ==
  IF d = "/sys/fs/cgroup" /\ SeesCgroup /\ p > 5 THEN {Mount(d, "cgroup", 1)} ELSE {}
Below(d, p, v, t) ==
  Claim(Top(d, p),
  Claim(LastUpto(Scratch, t, d, "tmpfs"),
  Claim(LastUpto(Targets, v, d, "volumes"), Bottom(d, p))))

\* The first n devices at d.
Bound(d, n) ==
  IF d \in host.devdirs
  THEN {Mount(d, "devices", i) : i \in {j \in 1 .. n : c.devices[j] = d}} ELSE {}

MountsAt(d) == {m \in cfg.mounts : m.dest = d}

MountsSoFar ==
  \A d \in Strings :
    MountsAt(d) = IF d \in Listed /\ at > 7 THEN Bound(d, Done(8, c.devices))
                  ELSE Below(d, at, Done(3, c.volumes), Done(4, Scratch))

\* The rules before those of the devices.
Given == IF c.resources.given THEN c.resources.list ELSE image.config.resources.list

Present == host.devdirs \cup host.devnodes

RulesSoFar ==
  /\ at <= 6 => cfg.resources = image.config.resources
  /\ at > 6 => Len(cfg.resources.list) >= Len(Given)
  /\ \A j \in 1 .. Done(8, c.devices) :
       c.devices[j] \in Present =>
         \E i \in DOMAIN cfg.resources.list :
           cfg.resources.list[i] = c.devices[j] /\ i > Len(Given)

NetworkSoFar ==
  /\ at > 2 /\ c.infra # "unset" => \E i \in DOMAIN cfg.ns : IsNetwork(cfg.ns[i])
  /\ at > 13 => NetSysctlIsolated

CapsSoFar ==
  /\ at <= 12 => cfg.caps = image.config.caps
  /\ at > 12 => CapsAsked

LimitsSoFar ==
  /\ at <= 11 => cfg.rlimits = image.config.rlimits
  /\ at > 11 => RlimitsUnique

\* The image's environment stays in front.
EnvIsAdded ==
  /\ Len(image.config.env) <= Len(cfg.env)
  /\ \A i \in DOMAIN image.config.env : cfg.env[i] = image.config.env[i]

ProgramSoFar ==
  /\ EnvIsAdded
  /\ at <= 15 => cfg.dir = image.config.dir
  /\ at > 15 => ProgramOnPath

IInv == /\ Typed /\ Within /\ MountsSoFar /\ RulesSoFar /\ NetworkSoFar
        /\ CapsSoFar /\ LimitsSoFar /\ ProgramSoFar

-----------------------------------------------------------------------------
(* Arithmetic and lists.                                                   *)

\* A set of numbers that is not empty has a least one.
LEMMA Minimum ==
  ASSUME NEW S \in SUBSET Nat, S # {}
  PROVE  \E i \in S : \A j \in S : i <= j
<1> DEFINE R == OpToRel(<, Nat)
<1>1. PICK x \in S : \A y \in S : ~(<<y, x>> \in R)
  <2>1. IsWellFoundedOn(R, Nat)
    BY NatLessThanWellFounded
  <2> HIDE DEF R
  <2> QED BY <2>1, WFMin, Zenon
<1>2. \A y \in S : ~(y < x)
  <2> TAKE y \in S
  <2>1. y < x => <<y, x>> \in R
    BY DEF OpToRel
  <2> QED
    <3> HIDE DEF R
    <3> QED BY <1>1, <2>1, Zenon
<1> QED
  <2> HIDE DEF R
  <2> QED BY <1>2

\* So First is one of a set of positions, and the first.
LEMMA FirstIs ==
  ASSUME NEW S \in SUBSET Nat, S # {}
  PROVE  First(S) \in S /\ \A j \in S : First(S) <= j
BY Minimum DEF First

\* A section has one place.
LEMMA Places ==
  ASSUME at \in 1 .. 17
  PROVE  /\ (Order[at] = "root" => at = 1)       /\ (Order[at] = "infra" => at = 2)
         /\ (Order[at] = "volumes" => at = 3)    /\ (Order[at] = "tmpfs" => at = 4)
         /\ (Order[at] = "cgroup" => at = 5)     /\ (Order[at] = "resources" => at = 6)
         /\ (Order[at] = "clear" => at = 7)      /\ (Order[at] = "devices" => at = 8)
         /\ (Order[at] = "env" => at = 9)        /\ (Order[at] = "user" => at = 10)
         /\ (Order[at] = "rlimits" => at = 11)   /\ (Order[at] = "caps" => at = 12)
         /\ (Order[at] = "sysctl" => at = 13)    /\ (Order[at] = "nnp" => at = 14)
         /\ (Order[at] = "args" => at = 15)      /\ (Order[at] = "seccomp" => at = 16)
         /\ (Order[at] = "write" => at = 17)
<1>1. at = 1 \/ at = 2 \/ at = 3 \/ at = 4 \/ at = 5 \/ at = 6 \/ at = 7 \/ at = 8 \/ at = 9
      \/ at = 10 \/ at = 11 \/ at = 12 \/ at = 13 \/ at = 14 \/ at = 15 \/ at = 16 \/ at = 17
  OBVIOUS
<1>2. QED
  BY <1>1 DEF Order

-----------------------------------------------------------------------------
(* Types.                                                                  *)

\* The parts of a configuration, and a configuration with one part replaced.
LEMMA Parts ==
  ASSUME NEW f \in Config
  PROVE  /\ f.readonly \in BOOLEAN /\ f.ns \in Seq(Namespaces)
         /\ f.mounts \in SUBSET Mounts(Bys)
         /\ f.resources \in DeviceRules /\ f.nodes \in Paths /\ f.env \in Seq(Variables)
         /\ f.user \in Identities /\ f.caps \in Capabilities
         /\ f.rlimits \in SUBSET (Limits("bundle") \cup Limits("registry"))
         /\ f.dir \in Strings
BY DEF Config, ConfigType

LEMMA Replaced ==
  ASSUME NEW f \in Config
  PROVE  /\ \A v \in BOOLEAN : [f EXCEPT !.readonly = v] \in Config
         /\ \A v \in SUBSET Mounts(Bys) : [f EXCEPT !.mounts = v] \in Config
         /\ \A v \in SUBSET Mounts(Bys), w \in Seq(Namespaces) :
              [f EXCEPT !.ns = w, !.mounts = v] \in Config
         /\ \A v \in DeviceRules : [f EXCEPT !.resources = v] \in Config
         /\ \A v \in SUBSET Mounts(Bys), w \in DeviceRules :
              [f EXCEPT !.mounts = v, !.resources = w] \in Config
         /\ \A v \in Paths, w \in DeviceRules :
              [f EXCEPT !.nodes = v, !.resources = w] \in Config
         /\ \A v \in Seq(Variables) : [f EXCEPT !.env = v] \in Config
         /\ \A v \in Identities : [f EXCEPT !.user = v] \in Config
         /\ \A v \in SUBSET (Limits("bundle") \cup Limits("registry")) :
              [f EXCEPT !.rlimits = v] \in Config
         /\ \A v \in Capabilities : [f EXCEPT !.caps = v] \in Config
         /\ \A v \in SUBSET Strings : [f EXCEPT !.sysctl = v] \in Config
         /\ \A v \in BOOLEAN : [f EXCEPT !.nnp = v] \in Config
         /\ \A v \in Strings : [f EXCEPT !.dir = v] \in Config
         /\ \A v \in Strings : [f EXCEPT !.seccomp = v] \in Config
BY DEF Config, ConfigType

\* The parts of the settings.
LEMMA Set ==
  ASSUME Typed
  PROVE  /\ c.infra \in Strings /\ c.readonly_root \in BOOLEAN
         /\ c.volumes \in Seq([src : Strings, dst : Strings, makeable : BOOLEAN])
         /\ c.tmpfs \in Seq(Strings) /\ c.devices \in Seq(Strings) /\ Scratch \in Seq(Strings)
         /\ c.env_file \in Seq(Strings) /\ c.env \in Seq(Variables) /\ c.user \in Seq(Nat)
         /\ c.resources \in DeviceRules /\ c.rlimits \in SUBSET Limits("registry")
         /\ c.cap_add \in SUBSET Strings /\ c.cap_drop \in SUBSET Strings
         /\ c.sysctl \in SUBSET Strings /\ c.no_new_privileges \in BOOLEAN
         /\ Listed \in SUBSET Strings
<1>1. /\ c.infra \in Strings /\ c.readonly_root \in BOOLEAN
      /\ c.volumes \in Seq([src : Strings, dst : Strings, makeable : BOOLEAN])
      /\ c.tmpfs \in Seq(Strings) /\ c.devices \in Seq(Strings)
      /\ c.env_file \in Seq(Strings) /\ c.env \in Seq(Variables) /\ c.user \in Seq(Nat)
      /\ c.resources \in DeviceRules /\ c.rlimits \in SUBSET Limits("registry")
      /\ c.cap_add \in SUBSET Strings /\ c.cap_drop \in SUBSET Strings
      /\ c.sysctl \in SUBSET Strings /\ c.no_new_privileges \in BOOLEAN
  BY DEF Typed, SettingsType, Paths
<1>2. Scratch \in Seq(Strings)
  <2>1. "/dev/shm" \in Strings
    BY LaunchAssumption
  <2>2. \A x \in Strings : Append(c.tmpfs, x) \in Seq(Strings)
    BY <1>1
  <2> QED
    BY <1>1, <2>1, <2>2, Zenon DEF Scratch
<1>3. Listed \in SUBSET Strings
  BY <1>1 DEF Listed
<1> QED
  BY <1>1, <1>2, <1>3
-----------------------------------------------------------------------------
(* What the steps may do.                                                  *)

\* A section that is done, at place p, with the new configuration; an entry of its list;
\* and a step that ends the run without touching anything.
Passes(p, new) == at = p /\ at' = p + 1 /\ k' = 0 /\ out = "none" /\ out' = "none" /\ cfg' = new
Takes(p, list, new) ==
  /\ at = p /\ at' = p /\ k < Len(list) /\ k' = k + 1
  /\ out = "none" /\ out' = "none" /\ cfg' = new
Stops == at' = at /\ k' = k /\ cfg' = cfg /\ out' \in {"failed", "written"}
         /\ (out' = "written" => at = 17)

\* The steps by their place.
LEMMA Steps ==
  ASSUME Typed, Next
  PROVE  /\ c' = c /\ image' = image /\ host' = host
         /\ \/ Root /\ Passes(1, cfg')
            \/ Infra /\ Passes(2, cfg')
            \/ /\ Volumes
               /\ \/ LET new == Mount(c.volumes[k + 1].dst, "volumes", k + 1)
                     IN Takes(3, c.volumes, [cfg EXCEPT !.mounts = Placed(@, new)])
                  \/ Passes(3, cfg) /\ k >= Len(c.volumes)
            \/ /\ Tmpfs
               /\ \/ LET new == Mount(Scratch[k + 1], "tmpfs", k + 1)
                     IN Takes(4, Scratch, [cfg EXCEPT !.mounts = Placed(@, new)])
                  \/ Passes(4, cfg) /\ k >= Len(Scratch)
            \/ CgroupView /\ Passes(5, cfg')
            \/ Resources /\ Passes(6, cfg')
            \/ ClearDevices /\ Passes(7, [cfg EXCEPT !.mounts = Without(@, Listed)])
            \/ /\ Devices
               /\ \/ Takes(8, c.devices, cfg')
                  \/ Passes(8, cfg) /\ k >= Len(c.devices)
            \/ /\ Env
               /\ \/ /\ c.env_file[k + 1] \in DOMAIN host.files
                     /\ Takes(9, c.env_file,
                              [cfg EXCEPT !.env = @ \o host.files[c.env_file[k + 1]]])
                  \/ Passes(9, [cfg EXCEPT !.env = @ \o c.env])
            \/ User /\ Passes(10, cfg')
            \/ Rlimits /\ Passes(11, [cfg EXCEPT !.rlimits = Merged(@, c.rlimits)])
            \/ Caps /\ Passes(12, cfg')
            \/ Sysctl /\ Passes(13, cfg')
            \/ NoNewPrivileges /\ Passes(14, cfg')
            \/ Args /\ Passes(15, cfg')
            \/ Seccomp /\ Passes(16, cfg')
            \/ Stops
<1>0. at \in 1 .. 17 /\ k \in Nat /\ out \in {"none", "written", "failed"}
  BY DEF Typed
<1>l. Len(c.volumes) \in Nat /\ Len(Scratch) \in Nat /\ Len(c.devices) \in Nat
  BY Set
<1>p. /\ (Order[at] = "root" => at = 1)       /\ (Order[at] = "infra" => at = 2)
      /\ (Order[at] = "volumes" => at = 3)    /\ (Order[at] = "tmpfs" => at = 4)
      /\ (Order[at] = "cgroup" => at = 5)     /\ (Order[at] = "resources" => at = 6)
      /\ (Order[at] = "clear" => at = 7)      /\ (Order[at] = "devices" => at = 8)
      /\ (Order[at] = "env" => at = 9)        /\ (Order[at] = "user" => at = 10)
      /\ (Order[at] = "rlimits" => at = 11)   /\ (Order[at] = "caps" => at = 12)
      /\ (Order[at] = "sysctl" => at = 13)    /\ (Order[at] = "nnp" => at = 14)
      /\ (Order[at] = "args" => at = 15)      /\ (Order[at] = "seccomp" => at = 16)
      /\ (Order[at] = "write" => at = 17)
  BY <1>0, Places
<1>u. c' = c /\ image' = image /\ host' = host
  <2>1. \A s, new : Section(s, new) => c' = c /\ image' = image /\ host' = host
    BY DEF Section
  <2>2. \A s, list, new : Entry(s, list, new) => c' = c /\ image' = image /\ host' = host
    BY DEF Entry
  <2>3. \A s : Refuse(s) => c' = c /\ image' = image /\ host' = host
    BY DEF Refuse
  <2> QED
    BY <2>1, <2>2, <2>3, Zenon
       DEF Next, Root, Unreadable, Infra, Volumes, Tmpfs, CgroupView, Resources, ClearDevices,
           Devices, Env, EnvMissing, User, Rlimits, Caps, Sysctl, SysctlRefused,
           NoNewPrivileges, Args, Seccomp, SeccompRefused, Write, Ended
<1>1. ASSUME Root PROVE Passes(1, cfg')
  <2>1. PICK new : Section("root", new)
    BY <1>1 DEF Root
  <2> QED
    BY <1>p, <2>1 DEF Section, Passes
<1>2. ASSUME Infra PROVE Passes(2, cfg')
  <2>1. PICK new : Section("infra", new)
    BY <1>2 DEF Infra
  <2> QED
    BY <1>p, <2>1 DEF Section, Passes
<1>3. ASSUME Volumes
       PROVE  \/ LET new == Mount(c.volumes[k + 1].dst, "volumes", k + 1)
                 IN Takes(3, c.volumes, [cfg EXCEPT !.mounts = Placed(@, new)])
              \/ (Passes(3, cfg) /\ k >= Len(c.volumes))
  <2> DEFINE new == Mount(c.volumes[k + 1].dst, "volumes", k + 1)
  <2>1. CASE Entry("volumes", c.volumes, [cfg EXCEPT !.mounts = Placed(@, new)])
    BY <1>p, <2>1 DEF Entry, Takes
  <2>2. CASE Ended("volumes", c.volumes)
    BY <1>p, <2>2 DEF Ended, Section, Passes
  <2> QED
    BY <1>3, <2>1, <2>2, Zenon DEF Volumes
<1>4. ASSUME Tmpfs
       PROVE  \/ LET new == Mount(Scratch[k + 1], "tmpfs", k + 1)
                 IN Takes(4, Scratch, [cfg EXCEPT !.mounts = Placed(@, new)])
              \/ (Passes(4, cfg) /\ k >= Len(Scratch))
  <2> DEFINE new == Mount(Scratch[k + 1], "tmpfs", k + 1)
  <2>1. CASE Entry("tmpfs", Scratch, [cfg EXCEPT !.mounts = Placed(@, new)])
    BY <1>p, <2>1 DEF Entry, Takes
  <2>2. CASE Ended("tmpfs", Scratch)
    BY <1>p, <2>2 DEF Ended, Section, Passes
  <2> QED
    BY <1>4, <2>1, <2>2, Zenon DEF Tmpfs
<1>5. ASSUME CgroupView PROVE Passes(5, cfg')
  <2>1. PICK new : Section("cgroup", new)
    BY <1>5 DEF CgroupView
  <2> QED
    BY <1>p, <2>1 DEF Section, Passes
<1>6. ASSUME Resources PROVE Passes(6, cfg')
  <2>1. PICK new : Section("resources", new)
    BY <1>6 DEF Resources
  <2> QED
    BY <1>p, <2>1 DEF Section, Passes
<1>7. ASSUME ClearDevices PROVE Passes(7, [cfg EXCEPT !.mounts = Without(@, Listed)])
  <2>1. Section("clear", [cfg EXCEPT !.mounts = Without(@, Listed)])
    BY <1>7 DEF ClearDevices
  <2> QED
    BY <1>p, <2>1 DEF Section, Passes
<1>8. ASSUME Devices
       PROVE  \/ Takes(8, c.devices, cfg')
              \/ (Passes(8, cfg) /\ k >= Len(c.devices))
  <2>1. ASSUME NEW new, Entry("devices", c.devices, new) PROVE Takes(8, c.devices, cfg')
    BY <1>p, <2>1 DEF Entry, Takes
  <2>2. CASE Ended("devices", c.devices)
    BY <1>p, <2>2 DEF Ended, Section, Passes
  <2> QED
    BY <1>8, <2>1, <2>2, Zenon DEF Devices
<1>9. ASSUME Env
      PROVE  \/ /\ c.env_file[k + 1] \in DOMAIN host.files
                /\ Takes(9, c.env_file,
                         [cfg EXCEPT !.env = @ \o host.files[c.env_file[k + 1]]])
             \/ Passes(9, [cfg EXCEPT !.env = @ \o c.env])
  <2>1. CASE /\ c.env_file[k + 1] \in DOMAIN host.files
             /\ Entry("env", c.env_file,
                      [cfg EXCEPT !.env = @ \o host.files[c.env_file[k + 1]]])
    BY <1>p, <2>1 DEF Entry, Takes
  <2>2. CASE Section("env", [cfg EXCEPT !.env = @ \o c.env])
    BY <1>p, <2>2 DEF Section, Passes
  <2> QED
    BY <1>9, <2>1, <2>2, Zenon DEF Env
<1>10. ASSUME User PROVE Passes(10, cfg')
  <2>1. PICK new : Section("user", new)
    BY <1>10 DEF User
  <2> QED
    BY <1>p, <2>1 DEF Section, Passes
<1>11. ASSUME Rlimits PROVE Passes(11, [cfg EXCEPT !.rlimits = Merged(@, c.rlimits)])
  <2>1. Section("rlimits", [cfg EXCEPT !.rlimits = Merged(@, c.rlimits)])
    BY <1>11 DEF Rlimits
  <2> QED
    BY <1>p, <2>1 DEF Section, Passes
<1>12. ASSUME Caps PROVE Passes(12, cfg')
  <2>1. PICK new : Section("caps", new)
    BY <1>12 DEF Caps
  <2> QED
    BY <1>p, <2>1 DEF Section, Passes
<1>13. ASSUME Sysctl PROVE Passes(13, cfg')
  <2>1. PICK new : Section("sysctl", new)
    BY <1>13 DEF Sysctl
  <2> QED
    BY <1>p, <2>1 DEF Section, Passes
<1>14. ASSUME NoNewPrivileges PROVE Passes(14, cfg')
  <2>1. PICK new : Section("nnp", new)
    BY <1>14 DEF NoNewPrivileges
  <2> QED
    BY <1>p, <2>1 DEF Section, Passes
<1>15. ASSUME Args PROVE Passes(15, cfg')
  <2>1. PICK new : Section("args", new)
    BY <1>15 DEF Args
  <2> QED
    BY <1>p, <2>1 DEF Section, Passes
<1>16. ASSUME Seccomp PROVE Passes(16, cfg')
  <2>1. PICK new : Section("seccomp", new)
    BY <1>16 DEF Seccomp
  <2> QED
    BY <1>p, <2>1 DEF Section, Passes
<1>17. ASSUME Unreadable \/ EnvMissing \/ SysctlRefused \/ SeccompRefused \/ Write
       PROVE  Stops
  <2>1. CASE Write
    BY <1>0, <1>p, <2>1 DEF Write, Stops
  <2>2. ASSUME NEW s, Refuse(s) PROVE Stops
    BY <2>2 DEF Refuse, Stops
  <2> QED
    BY <1>17, <2>1, <2>2, Zenon DEF Unreadable, EnvMissing, SysctlRefused, SeccompRefused
<1> QED
  BY <1>u, <1>1, <1>2, <1>3, <1>4, <1>5, <1>6, <1>7, <1>8, <1>9, <1>10, <1>11, <1>12, <1>13,
     <1>14, <1>15, <1>16, <1>17, Zenon DEF Next

\* The directories searched are those of the environment's first PATH, if it has one.
LEMMA SearchPathIs ==
  ASSUME NEW env \in Seq(Variables)
  PROVE  SearchPath(env) \in Paths
<1> DEFINE paths == {i \in DOMAIN env : env[i].key = "PATH"}
<1>1. paths \in SUBSET Nat /\ \A i \in paths : env[i].value \in Paths
  <2>1. \A i \in DOMAIN env : i \in Nat /\ env[i] \in Variables
    OBVIOUS
  <2> QED
    BY <2>1 DEF Variables
<1>2. paths # {} => First(paths) \in paths
  <2> HIDE DEF paths
  <2> QED BY <1>1, FirstIs
<1>3. SearchPath(env) = IF paths = {} THEN DefaultPath ELSE env[First(paths)].value
  BY DEF SearchPath
<1> HIDE DEF paths
<1> QED
  BY <1>1, <1>2, <1>3, LaunchAssumption

\* A mount whose destination is one of ours is added, or put in place of what is there.
LEMMA PlacedMounts ==
  ASSUME NEW ms \in SUBSET Mounts(Bys), NEW d \in Strings, NEW by \in Bys, NEW n \in Nat
  PROVE  /\ Mount(d, by, n) \in Mounts(Bys)
         /\ Placed(ms, Mount(d, by, n)) \in SUBSET Mounts(Bys)
         /\ ms \cup {Mount(d, by, n)} \in SUBSET Mounts(Bys)
         /\ \A S : Without(ms, S) \in SUBSET Mounts(Bys)
<1>1. Mount(d, by, n) \in Mounts(Bys)
  BY DEF Mount, Mounts
<1>2. \A S : Without(ms, S) \in SUBSET Mounts(Bys)
  BY DEF Without
<1> QED
  BY <1>1, <1>2 DEF Placed

\* Each section leaves a configuration.
LEMMA StaysConfig ==
  ASSUME Typed, Next
  PROVE  cfg' \in Config
<1>0. cfg \in Config /\ k \in Nat
  BY DEF Typed
<1>m. cfg.mounts \in SUBSET Mounts(Bys)
  BY <1>0, Parts
<1>1. CASE Root
  <2>1. cfg' = [cfg EXCEPT !.readonly = cfg.readonly \/ c.readonly_root]
    BY <1>1 DEF Root, Section
  <2>2. (cfg.readonly \/ c.readonly_root) \in BOOLEAN
    OBVIOUS
  <2> QED
    BY <1>0, <2>1, <2>2, Replaced
<1>2. CASE Infra
  <2> DEFINE shared == [type |-> "network", path |-> c.infra]
             ns == [i \in DOMAIN cfg.ns |-> IF IsNetwork(cfg.ns[i]) THEN shared ELSE cfg.ns[i]]
             new == IF \E i \in DOMAIN ns : IsNetwork(ns[i]) THEN ns ELSE Append(ns, shared)
             ms == IF HasResolver THEN cfg.mounts \cup {Mount("/etc/resolv.conf", "infra", 1)}
                   ELSE cfg.mounts
  <2>1. cfg' = IF c.infra = "unset" THEN cfg ELSE [cfg EXCEPT !.ns = new, !.mounts = ms]
    BY <1>2 DEF Infra, Section
  <2>2. shared \in Namespaces
    BY Set, LaunchAssumption DEF Namespaces
  <2>3. new \in Seq(Namespaces)
    <3>1. cfg.ns \in Seq(Namespaces)
      BY <1>0, Parts
    <3> HIDE DEF shared
    <3>2. ns \in Seq(Namespaces)
      <4>1. DOMAIN cfg.ns = 1 .. Len(cfg.ns) /\ Len(cfg.ns) \in Nat
        BY <3>1
      <4>2. \A i \in 1 .. Len(cfg.ns) : cfg.ns[i] \in Namespaces
        BY <3>1
      <4>3. ns \in [1 .. Len(cfg.ns) -> Namespaces]
        BY <2>2, <4>1, <4>2
      <4> HIDE DEF ns
      <4>4. \A S, f : \A n \in Nat : f \in [1 .. n -> S] => f \in Seq(S)
        BY SeqDef
      <4> QED
        BY <4>1, <4>3, <4>4, Zenon
    <3> HIDE DEF ns
    <3> QED
      BY <2>2, <3>2
  <2>4. ms \in SUBSET Mounts(Bys)
    <3>1. "infra" \in Bys /\ "/etc/resolv.conf" \in Strings /\ 1 \in Nat
      BY LaunchAssumption DEF Bys
    <3> QED
      BY <1>m, <3>1, PlacedMounts, Zenon
  <2> HIDE DEF new, ms
  <2> QED
    BY <1>0, <2>1, <2>3, <2>4, Replaced
<1>3. CASE Takes(3, c.volumes, [cfg EXCEPT !.mounts =
                   Placed(@, Mount(c.volumes[k + 1].dst, "volumes", k + 1))])
  <2>1. c.volumes[k + 1].dst \in Strings /\ k + 1 \in Nat /\ "volumes" \in Bys
    <3>1. c.volumes \in Seq([src : Strings, dst : Strings, makeable : BOOLEAN])
      BY Set
    <3>2. k + 1 \in 1 .. Len(c.volumes)
      BY <1>0, <1>3, <3>1 DEF Takes
    <3>3. c.volumes[k + 1] \in [src : Strings, dst : Strings, makeable : BOOLEAN]
      BY <3>1, <3>2, ElementOfSeq, Zenon
    <3> QED
      BY <1>0, <3>3 DEF Bys
  <2>2. Placed(cfg.mounts, Mount(c.volumes[k + 1].dst, "volumes", k + 1)) \in SUBSET Mounts(Bys)
    BY <1>m, <2>1, PlacedMounts, Zenon
  <2> QED
    BY <1>0, <1>3, <2>2, Replaced DEF Takes
<1>4. CASE Takes(4, Scratch, [cfg EXCEPT !.mounts =
                   Placed(@, Mount(Scratch[k + 1], "tmpfs", k + 1))])
  <2>1. Scratch[k + 1] \in Strings /\ k + 1 \in Nat /\ "tmpfs" \in Bys
    BY <1>0, <1>4, Set DEF Takes, Bys
  <2>2. Placed(cfg.mounts, Mount(Scratch[k + 1], "tmpfs", k + 1)) \in SUBSET Mounts(Bys)
    BY <1>m, <2>1, PlacedMounts, Zenon
  <2> QED
    BY <1>0, <1>4, <2>2, Replaced DEF Takes
<1>5. CASE CgroupView
  <2>1. \/ cfg' = cfg
        \/ cfg' = [cfg EXCEPT !.mounts = Placed(@, Mount("/sys/fs/cgroup", "cgroup", 1))]
    BY <1>5 DEF CgroupView, Section
  <2>2. Placed(cfg.mounts, Mount("/sys/fs/cgroup", "cgroup", 1)) \in SUBSET Mounts(Bys)
    <3>1. "cgroup" \in Bys /\ "/sys/fs/cgroup" \in Strings /\ 1 \in Nat
      BY LaunchAssumption DEF Bys
    <3> QED
      BY <1>m, <3>1, PlacedMounts, Zenon
  <2> QED
    BY <1>0, <2>1, <2>2, Replaced
<1>6. CASE Resources
  <2>1. cfg' = [cfg EXCEPT !.resources = IF c.resources.given THEN c.resources ELSE @]
    BY <1>6 DEF Resources, Section
  <2>2. c.resources \in DeviceRules /\ cfg.resources \in DeviceRules
    BY <1>0, Parts, Set
  <2> QED
    BY <1>0, <2>1, <2>2, Replaced
<1>7. CASE ClearDevices
  <2>1. cfg' = [cfg EXCEPT !.mounts = Without(@, Listed)]
    BY <1>7 DEF ClearDevices, Section
  <2>2. Without(cfg.mounts, Listed) \in SUBSET Mounts(Bys)
    BY <1>m DEF Without
  <2> QED
    BY <1>0, <2>1, <2>2, Replaced
<1>8. CASE Devices /\ Takes(8, c.devices, cfg')
  <2> DEFINE d == c.devices[k + 1]
             allowed == [given |-> TRUE, list |-> Append(cfg.resources.list, d)]
  <2>1. \/ cfg' = [cfg EXCEPT !.mounts = @ \cup {Mount(d, "devices", k + 1)},
                              !.resources = allowed]
        \/ cfg' = [cfg EXCEPT !.nodes = Append(@, d), !.resources = allowed]
        \/ cfg' = cfg
    BY <1>8 DEF Devices, Entry, Ended, Section
  <2>2. d \in Strings
    BY <1>0, <1>8, Set DEF Takes
  <2> HIDE DEF d
  <2>3. cfg.resources \in DeviceRules /\ cfg.nodes \in Paths
    BY <1>0, Parts
  <2>4. allowed \in DeviceRules /\ Append(cfg.nodes, d) \in Paths
    BY <2>2, <2>3 DEF DeviceRules, Paths
  <2>5. cfg.mounts \cup {Mount(d, "devices", k + 1)} \in SUBSET Mounts(Bys)
    <3>1. "devices" \in Bys /\ k + 1 \in Nat
      BY <1>0 DEF Bys
    <3> QED
      <4>1. Mount(d, "devices", k + 1) \in Mounts(Bys)
        BY <1>m, <2>2, <3>1, PlacedMounts, Zenon
      <4> QED
        BY <1>m, <4>1
  <2> HIDE DEF allowed
  <2>6. \A v \in SUBSET Mounts(Bys) :
          [cfg EXCEPT !.mounts = v, !.resources = allowed] \in Config
    BY <1>0, <2>4, Replaced
  <2>7. \A v \in Paths : [cfg EXCEPT !.nodes = v, !.resources = allowed] \in Config
    BY <1>0, <2>4, Replaced
  <2> QED
    BY <1>0, <2>1, <2>4, <2>5, <2>6, <2>7
<1>9. CASE Env
  <2>0. cfg.env \in Seq(Variables) /\ c.env \in Seq(Variables)
    BY <1>0, Parts, Set
  <2>1. CASE /\ c.env_file[k + 1] \in DOMAIN host.files
             /\ cfg' = [cfg EXCEPT !.env = @ \o host.files[c.env_file[k + 1]]]
    <3>1. host.files[c.env_file[k + 1]] \in Seq(Variables)
      BY <2>1 DEF Typed
    <3>2. \A s \in Seq(Variables) : cfg.env \o s \in Seq(Variables)
      BY <2>0
    <3> QED
      BY <1>0, <2>1, <3>1, <3>2, Replaced
  <2>2. CASE cfg' = [cfg EXCEPT !.env = @ \o c.env]
    <3>1. cfg.env \o c.env \in Seq(Variables)
      BY <2>0
    <3> QED
      BY <1>0, <2>2, <3>1, Replaced
  <2> QED
    BY <1>9, <2>1, <2>2 DEF Env, Entry, Section
<1>10. CASE User
  <2>1. cfg' = IF c.user = <<>> THEN cfg ELSE [cfg EXCEPT !.user = Identity(c.user)]
    BY <1>10 DEF User, Section
  <2>2. ASSUME c.user # <<>> PROVE Identity(c.user) \in Identities
    <3>1. c.user \in Seq(Nat)
      BY Set
    <3>2. Len(c.user) \in Nat /\ Len(c.user) >= 1
      BY <2>2, <3>1
    <3>3. SubSeq(c.user, 3, Len(c.user)) \in Seq(Nat)
      BY <3>1
    <3>4. c.user[1] \in Nat
      BY <3>1, <3>2
    <3>5. ASSUME Len(c.user) # 1 PROVE c.user[2] \in Nat
      <4> DEFINE n == Len(c.user)
      <4>1. n \in Nat /\ n >= 1 /\ n # 1
        BY <3>2, <3>5
      <4>2. 2 \in 1 .. n
        <5> HIDE DEF n
        <5> QED BY <4>1
      <4> QED
        BY <3>1, <4>2, ElementOfSeq, Zenon
    <3>6. c.user[IF Len(c.user) = 1 THEN 1 ELSE 2] \in Nat
      BY <3>4, <3>5
    <3> QED
      BY <3>3, <3>4, <3>6 DEF Identity, Identities
  <2> QED
    BY <1>0, <2>1, <2>2, Replaced
<1>11. CASE Rlimits
  <2>1. cfg' = [cfg EXCEPT !.rlimits = Merged(@, c.rlimits)]
    BY <1>11 DEF Rlimits, Section
  <2>2. cfg.rlimits \in SUBSET (Limits("bundle") \cup Limits("registry"))
        /\ c.rlimits \in SUBSET Limits("registry")
    BY <1>0, Parts, Set
  <2>3. Merged(cfg.rlimits, c.rlimits) \in SUBSET (Limits("bundle") \cup Limits("registry"))
    BY <2>2 DEF Merged
  <2> QED
    BY <1>0, <2>1, <2>3, Replaced
<1>12. CASE Caps
  <2> DEFINE base == IF cfg.caps.explicit THEN cfg.caps.set ELSE DefaultCaps
             new == [explicit |-> TRUE, set |-> CapsOf(base)]
  <2>1. cfg' = cfg \/ cfg' = [cfg EXCEPT !.caps = new]
    BY <1>12 DEF Caps, Section
  <2>2. base \in SUBSET Strings /\ c.cap_add \in SUBSET Strings
    BY <1>0, Parts, Set, LaunchAssumption DEF Capabilities
  <2> HIDE DEF base
  <2>3. CapsOf(base) \in SUBSET Strings
    BY <2>2 DEF CapsOf
  <2>4. new \in Capabilities
    BY <2>3 DEF Capabilities
  <2> HIDE DEF new
  <2> QED
    BY <1>0, <2>1, <2>4, Replaced
<1>13. CASE Sysctl
  <2>1. cfg' = [cfg EXCEPT !.sysctl = IF c.sysctl = {} THEN @ ELSE c.sysctl]
    BY <1>13 DEF Sysctl, Section
  <2>2. cfg.sysctl \in SUBSET Strings /\ c.sysctl \in SUBSET Strings
    BY <1>0, Set DEF Config, ConfigType
  <2> QED
    BY <1>0, <2>1, <2>2, Replaced
<1>14. CASE NoNewPrivileges
  <2>1. cfg' = [cfg EXCEPT !.nnp = c.no_new_privileges]
    BY <1>14 DEF NoNewPrivileges, Section
  <2> QED
    BY <1>0, <2>1, Replaced, Set
<1>15. CASE Args
  <2> DEFINE path == SearchPath(cfg.env)
             found == {i \in DOMAIN path : path[i] \in image.executable}
  <2>1. cfg' = IF cfg.dir = "bare" /\ found # {}
               THEN [cfg EXCEPT !.dir = path[First(found)]] ELSE cfg
    BY <1>15 DEF Args, Section
  <2>2. path \in Paths
    BY <1>0, Parts, SearchPathIs
  <2> HIDE DEF path
  <2>3. found \in SUBSET Nat
    BY <2>2 DEF Paths
  <2>4. found # {} => First(found) \in found
    <3> HIDE DEF found
    <3> QED BY <2>3, FirstIs
  <2>5. found # {} => path[First(found)] \in Strings
    BY <2>2, <2>4 DEF Paths
  <2> HIDE DEF found
  <2> QED
    BY <1>0, <2>1, <2>5, Replaced
<1>16. CASE Seccomp
  <2>1. cfg' \in {cfg, [cfg EXCEPT !.seccomp = "none"], [cfg EXCEPT !.seccomp = "registry's"]}
    BY <1>0, <1>16 DEF Seccomp, Section, Config, ConfigType
  <2>2. "none" \in Strings /\ "registry's" \in Strings
    BY LaunchAssumption
  <2>3. /\ [cfg EXCEPT !.seccomp = "none"] \in Config
        /\ [cfg EXCEPT !.seccomp = "registry's"] \in Config
    BY <1>0, <2>2, Replaced, Zenon
  <2> QED
    BY <1>0, <2>1, <2>3
<1>17. CASE cfg' = cfg
  BY <1>0, <1>17
<1> QED
  BY <1>1, <1>2, <1>3, <1>4, <1>5, <1>6, <1>7, <1>8, <1>9, <1>10, <1>11, <1>12, <1>13,
     <1>14, <1>15, <1>16, <1>17, Steps DEF Passes, Stops

\* How the place moves: on, to the next entry of the list there, or nowhere.
LEMMA Moves ==
  ASSUME Typed, Next
  PROVE  /\ c' = c /\ image' = image /\ host' = host
         /\ \/ at \in 1 .. 16 /\ at' = at + 1 /\ k' = 0 /\ out' = "none"
            \/ /\ at \in {3, 4, 8, 9} /\ at' = at /\ k' = k + 1 /\ out' = "none"
               /\ (at = 3 => k < Len(c.volumes)) /\ (at = 4 => k < Len(Scratch))
               /\ (at = 8 => k < Len(c.devices))
            \/ /\ at' = at /\ k' = k /\ cfg' = cfg
               /\ out' \in {"failed", "written"} /\ (out' = "written" => at = 17)
<1>1. \A p, new : Passes(p, new) =>
        (p \in 1 .. 16 => at \in 1 .. 16 /\ at' = at + 1 /\ k' = 0 /\ out' = "none")
  BY DEF Passes
<1>2. \A p, list, new : Takes(p, list, new) =>
        at = p /\ at' = at /\ k' = k + 1 /\ k < Len(list) /\ out' = "none"
  BY DEF Takes
<1>3. Stops => /\ at' = at /\ k' = k /\ cfg' = cfg
               /\ out' \in {"failed", "written"} /\ (out' = "written" => at = 17)
  BY DEF Stops
<1>4. c' = c /\ image' = image /\ host' = host
  BY Steps
<1>5. CASE \E p \in 1 .. 16 : \E new : Passes(p, new)
  BY <1>1, <1>4, <1>5
<1>6. CASE \E new : Takes(3, c.volumes, new)
  BY <1>2, <1>4, <1>6
<1>7. CASE \E new : Takes(4, Scratch, new)
  BY <1>2, <1>4, <1>7
<1>8. CASE \E new : Takes(8, c.devices, new)
  BY <1>2, <1>4, <1>8
<1>9. CASE \E new : Takes(9, c.env_file, new)
  BY <1>2, <1>4, <1>9
<1>10. CASE Stops
  BY <1>3, <1>4, <1>10
<1> QED
  <2>1. 1 \in 1 .. 16 /\ 2 \in 1 .. 16 /\ 3 \in 1 .. 16 /\ 4 \in 1 .. 16 /\ 5 \in 1 .. 16
        /\ 6 \in 1 .. 16 /\ 7 \in 1 .. 16 /\ 8 \in 1 .. 16 /\ 9 \in 1 .. 16 /\ 10 \in 1 .. 16
        /\ 11 \in 1 .. 16 /\ 12 \in 1 .. 16 /\ 13 \in 1 .. 16 /\ 14 \in 1 .. 16
        /\ 15 \in 1 .. 16 /\ 16 \in 1 .. 16
    OBVIOUS
  <2> QED
    BY <1>5, <1>6, <1>7, <1>8, <1>9, <1>10, <2>1, Steps, Zenon

LEMMA StaysTyped ==
  ASSUME Typed, Within, Next
  PROVE  Typed' /\ Within'
<1>0. at \in 1 .. 17 /\ k \in Nat /\ c \in SettingsType /\ image \in ImageType
      /\ \A f \in DOMAIN host.files : host.files[f] \in Seq(Variables)
  BY DEF Typed
<1>l. Len(c.volumes) \in Nat /\ Len(Scratch) \in Nat /\ Len(c.devices) \in Nat
  BY Set
<1>1. c' = c /\ image' = image /\ host' = host /\ Scratch' = Scratch
  BY Moves DEF Scratch
<1>2. at' \in 1 .. 17 /\ k' \in Nat /\ out' \in {"none", "written", "failed"}
      /\ (out' = "written" => at' = 17)
  BY <1>0, Moves
<1>3. Typed'
  BY <1>0, <1>1, <1>2, StaysConfig DEF Typed
<1>4. Within'
  BY <1>0, <1>1, <1>l, Moves DEF Within
<1> QED
  BY <1>3, <1>4

-----------------------------------------------------------------------------
(* What each section leaves alone, and what it does to its own part.       *)

Same(f, g) ==
  /\ f.ns = g.ns /\ f.mounts = g.mounts /\ f.resources = g.resources /\ f.env = g.env
  /\ f.rlimits = g.rlimits /\ f.caps = g.caps /\ f.dir = g.dir

\* A configuration keeps the parts that are not replaced.
LEMMA Kept ==
  ASSUME NEW f \in Config
  PROVE  /\ \A v : Same(f, [f EXCEPT !.readonly = v])
         /\ \A v : Same(f, [f EXCEPT !.user = v])
         /\ \A v : Same(f, [f EXCEPT !.sysctl = v])
         /\ \A v : Same(f, [f EXCEPT !.nnp = v])
         /\ \A v : Same(f, [f EXCEPT !.seccomp = v])
BY DEF Config, ConfigType, Same

LEMMA Frames ==
  ASSUME Typed, Next
  PROVE  /\ at # 2 => cfg'.ns = cfg.ns
         /\ at \notin {2, 3, 4, 5, 7, 8} => cfg'.mounts = cfg.mounts
         /\ at \notin {6, 8} => cfg'.resources = cfg.resources
         /\ at # 9 => cfg'.env = cfg.env
         /\ at # 11 => cfg'.rlimits = cfg.rlimits
         /\ at # 12 => cfg'.caps = cfg.caps
         /\ at # 15 => cfg'.dir = cfg.dir
<1>0. cfg \in Config
  BY DEF Typed
<1>s. ASSUME Same(cfg, cfg')
      PROVE  /\ cfg'.ns = cfg.ns /\ cfg'.mounts = cfg.mounts /\ cfg'.resources = cfg.resources
             /\ cfg'.env = cfg.env /\ cfg'.rlimits = cfg.rlimits /\ cfg'.caps = cfg.caps
             /\ cfg'.dir = cfg.dir
  BY <1>s DEF Same
<1>1. CASE Root
  <2>1. cfg' = [cfg EXCEPT !.readonly = cfg.readonly \/ c.readonly_root]
    BY <1>1 DEF Root, Section
  <2> QED
    BY <1>0, <1>s, <2>1, Kept
<1>2. CASE Infra /\ Passes(2, cfg')
  <2>1. cfg' = cfg \/ \E v, w : cfg' = [cfg EXCEPT !.ns = v, !.mounts = w]
    BY <1>2 DEF Infra, Section
  <2> QED
    BY <1>0, <1>2, <2>1 DEF Passes, Config, ConfigType
<1>3. CASE Takes(3, c.volumes, [cfg EXCEPT !.mounts =
                   Placed(@, Mount(c.volumes[k + 1].dst, "volumes", k + 1))])
  BY <1>0, <1>3 DEF Takes, Config, ConfigType
<1>4. CASE Takes(4, Scratch, [cfg EXCEPT !.mounts =
                   Placed(@, Mount(Scratch[k + 1], "tmpfs", k + 1))])
  BY <1>0, <1>4 DEF Takes, Config, ConfigType
<1>5. CASE CgroupView /\ Passes(5, cfg')
  <2>1. cfg' = cfg \/ \E v : cfg' = [cfg EXCEPT !.mounts = v]
    BY <1>5 DEF CgroupView, Section
  <2> QED
    BY <1>0, <1>5, <2>1 DEF Passes, Config, ConfigType
<1>6. CASE Resources /\ Passes(6, cfg')
  <2>1. \E v : cfg' = [cfg EXCEPT !.resources = v]
    BY <1>6 DEF Resources, Section
  <2> QED
    BY <1>0, <1>6, <2>1 DEF Passes, Config, ConfigType
<1>7. CASE Passes(7, [cfg EXCEPT !.mounts = Without(@, Listed)])
  BY <1>0, <1>7 DEF Passes, Config, ConfigType
<1>8. CASE Devices /\ Takes(8, c.devices, cfg')
  <2>1. \/ \E v, w : cfg' = [cfg EXCEPT !.mounts = v, !.resources = w]
        \/ \E v, w : cfg' = [cfg EXCEPT !.nodes = v, !.resources = w]
        \/ cfg' = cfg
    BY <1>8 DEF Devices, Entry, Ended, Section
  <2> QED
    BY <1>0, <1>8, <2>1 DEF Takes, Config, ConfigType
<1>9. CASE Env /\ at = 9
  <2>1. \E v : cfg' = [cfg EXCEPT !.env = v]
    BY <1>9 DEF Env, Entry, Section
  <2> QED
    BY <1>0, <1>9, <2>1 DEF Config, ConfigType
<1>10. CASE User
  <2>1. cfg' = cfg \/ cfg' = [cfg EXCEPT !.user = Identity(c.user)]
    BY <1>10 DEF User, Section
  <2>2. Same(cfg, [cfg EXCEPT !.user = Identity(c.user)])
    BY <1>0, Kept
  <2>3. cfg' = [cfg EXCEPT !.user = Identity(c.user)] => Same(cfg, cfg')
    BY <2>2
  <2> QED
    BY <1>s, <2>1, <2>3
<1>11. CASE Passes(11, [cfg EXCEPT !.rlimits = Merged(@, c.rlimits)])
  BY <1>0, <1>11 DEF Passes, Config, ConfigType
<1>12. CASE Caps /\ Passes(12, cfg')
  <2>1. cfg' = cfg \/ \E v : cfg' = [cfg EXCEPT !.caps = v]
    BY <1>12 DEF Caps, Section
  <2> QED
    BY <1>0, <1>12, <2>1 DEF Passes, Config, ConfigType
<1>13. CASE Sysctl
  <2>1. cfg' = [cfg EXCEPT !.sysctl = IF c.sysctl = {} THEN @ ELSE c.sysctl]
    BY <1>13 DEF Sysctl, Section
  <2> QED
    BY <1>0, <1>s, <2>1, Kept
<1>14. CASE NoNewPrivileges
  <2>1. cfg' = [cfg EXCEPT !.nnp = c.no_new_privileges]
    BY <1>14 DEF NoNewPrivileges, Section
  <2> QED
    BY <1>0, <1>s, <2>1, Kept
<1>15. CASE Args /\ Passes(15, cfg')
  <2>1. cfg' = cfg \/ \E v : cfg' = [cfg EXCEPT !.dir = v]
    BY <1>15 DEF Args, Section
  <2> QED
    BY <1>0, <1>15, <2>1 DEF Passes, Config, ConfigType
<1>16. CASE Seccomp
  <2>1. \E v : cfg' = [cfg EXCEPT !.seccomp = v]
    BY <1>16 DEF Seccomp, Section
  <2> QED
    BY <1>0, <1>s, <2>1, Kept
<1>17. CASE cfg' = cfg
  BY <1>17
<1> QED
  <2>1. \A p, new : Passes(p, new) => cfg' = new /\ at = p
    BY DEF Passes
  <2>2. \A p, list, new : Takes(p, list, new) => at = p
    BY DEF Takes
  <2>3. Stops => cfg' = cfg
    BY DEF Stops
  <2> QED
    BY <1>1, <1>2, <1>3, <1>4, <1>5, <1>6, <1>7, <1>8, <1>9, <1>10, <1>11, <1>12, <1>13,
       <1>14, <1>15, <1>16, <1>17, <2>1, <2>2, <2>3, Steps

\* The section that is passed at a place.
LEMMA Passed ==
  ASSUME Typed, Next, at' # at
  PROVE  /\ at \in 1 .. 16 /\ at' = at + 1
         /\ at = 2 => Infra
         /\ at = 5 => CgroupView
         /\ at = 6 => Resources
         /\ at = 7 => cfg' = [cfg EXCEPT !.mounts = Without(@, Listed)]
         /\ at = 11 => cfg' = [cfg EXCEPT !.rlimits = Merged(@, c.rlimits)]
         /\ at = 12 => Caps
         /\ at = 13 => Sysctl
         /\ at = 15 => Args
<1>0. at \in 1 .. 17
  BY DEF Typed
<1>1. at \in 1 .. 16 /\ at' = at + 1
  BY Moves
<1>2. \A p, new : Passes(p, new) => cfg' = new /\ at = p
  BY DEF Passes
<1>3. \A p, list, new : Takes(p, list, new) => at' = at
  BY DEF Takes
<1>4. Stops => at' = at
  BY DEF Stops
<1> QED
  BY <1>1, <1>2, <1>3, <1>4, Steps

\* The container is in a network of its own if its sysctls reach one.
LEMMA NetworkNext ==
  ASSUME Typed, NetworkSoFar, Next
  PROVE  NetworkSoFar'
<1>0. at \in 1 .. 17 /\ cfg \in Config
  BY DEF Typed
<1>1. c' = c /\ image' = image /\ (at' = at \/ at' = at + 1)
  BY Moves
<1>2. ASSUME at' > 2, c.infra # "unset" PROVE \E i \in DOMAIN cfg'.ns : IsNetwork(cfg'.ns[i])
  <2>1. CASE at # 2
    <3>1. at > 2
      BY <1>0, <1>1, <1>2, <2>1
    <3> QED
      BY <1>2, <2>1, <3>1, Frames DEF NetworkSoFar
  <2>2. CASE at = 2
    <3> DEFINE shared == [type |-> "network", path |-> c.infra]
               ns == [i \in DOMAIN cfg.ns |->
                       IF IsNetwork(cfg.ns[i]) THEN shared ELSE cfg.ns[i]]
    <3>0. Infra
      <4>1. at' # at
        BY <1>2, <2>2
      <4> QED BY <2>2, <4>1, Passed
    <3>1. cfg'.ns = IF \E i \in DOMAIN ns : IsNetwork(ns[i]) THEN ns ELSE Append(ns, shared)
      BY <1>0, <1>2, <3>0 DEF Infra, Section, Config, ConfigType
    <3>2. IsNetwork(shared)
      BY DEF IsNetwork
    <3>3. cfg.ns \in Seq(Namespaces)
      BY <1>0, Parts
    <3>4. DOMAIN ns = 1 .. Len(cfg.ns) /\ Len(cfg.ns) \in Nat
      BY <3>3
    <3>5. ns \in Seq(UNION {{ns[i]} : i \in DOMAIN ns}) /\ Len(ns) \in Nat
      <4> HIDE DEF shared
      <4>1. ns \in [1 .. Len(cfg.ns) -> UNION {{ns[i]} : i \in DOMAIN ns}]
        BY <3>4
      <4> HIDE DEF ns
      <4>2. ns \in Seq(UNION {{ns[i]} : i \in DOMAIN ns})
        BY <3>4, <4>1, SeqDef
      <4> QED
        BY <4>2
    <3> HIDE DEF shared, ns
    <3>6. Len(ns) + 1 \in DOMAIN Append(ns, shared) /\ Append(ns, shared)[Len(ns) + 1] = shared
      BY <3>5
    <3> QED
      BY <3>1, <3>2, <3>6
  <2> QED
    BY <2>1, <2>2
<1>3. ASSUME at' > 13 PROVE NetSysctlIsolated'
  <2>1. CASE at # 13
    <3>1. at > 13
      BY <1>0, <1>1, <1>3, <2>1
    <3>2. cfg'.ns = cfg.ns
      BY <3>1, Frames
    <3>3. NetSysctlIsolated
      BY <3>1 DEF NetworkSoFar
    <3> QED
      BY <1>1, <3>2, <3>3 DEF NetSysctlIsolated
  <2>2. CASE at = 13
    <3>1. "net" \in c.sysctl => HasNetns
      <4>1. at' # at
        BY <1>3, <2>2
      <4> QED BY <2>2, <4>1, Passed DEF Sysctl
    <3>2. cfg'.ns = cfg.ns
      BY <2>2, Frames
    <3>3. HasNetns => \E i \in DOMAIN cfg.ns : IsNetwork(cfg.ns[i])
      BY <2>2 DEF NetworkSoFar, HasNetns
    <3> QED
      BY <1>1, <3>1, <3>2, <3>3 DEF NetSysctlIsolated
  <2> QED
    BY <2>1, <2>2
<1> QED
  BY <1>1, <1>2, <1>3 DEF NetworkSoFar

\* The capabilities are as asked.
LEMMA CapsNext ==
  ASSUME Typed, CapsSoFar, Next
  PROVE  CapsSoFar'
<1>0. at \in 1 .. 17 /\ cfg \in Config
  BY DEF Typed
<1>1. c' = c /\ image' = image
  BY Moves
<1>2. CASE at = 12 /\ at' # at
  <2> DEFINE base == IF cfg.caps.explicit THEN cfg.caps.set ELSE DefaultCaps
  <2>1. Caps /\ at' = 13
    BY <1>2, Passed
  <2>2. CASE c.cap_add \cup c.cap_drop = {}
    BY <1>1, <2>1, <2>2 DEF CapsSoFar, CapsAsked
  <2>3. CASE c.cap_add \cup c.cap_drop # {}
    <3>1. cfg'.caps = [explicit |-> TRUE, set |-> CapsOf(base)]
      BY <1>0, <2>1, <2>3 DEF Caps, Section, Config, ConfigType
    <3>2. cfg'.caps.explicit /\ cfg'.caps.set = CapsOf(base)
      BY <3>1
    <3>3. base = IF image.config.caps.explicit THEN image.config.caps.set ELSE DefaultCaps
      BY <1>2 DEF CapsSoFar
    <3> HIDE DEF base
    <3>4. \A cap \in CapsOf(base) \ c.cap_add :
            cap \notin c.cap_drop /\ "ALL" \notin c.cap_drop /\ cap \in base
      BY DEF CapsOf
    <3>5. c.cap_add \subseteq CapsOf(base)
      BY DEF CapsOf
    <3>6. CapsAsked'
      BY <1>1, <3>2, <3>3, <3>4, <3>5 DEF CapsAsked
    <3> QED
      BY <2>1, <3>6 DEF CapsSoFar
  <2> QED
    BY <2>2, <2>3
<1>3. CASE at # 12 \/ at' = at
  <2>1. at' <= 12 => at <= 12
    BY <1>0, Moves
  <2>2. at' > 12 => at > 12
    BY <1>0, <1>3, Moves
  <2>3. cfg'.caps = cfg.caps
    BY <1>3, Frames, Moves
  <2>4. CapsAsked' = CapsAsked
    BY <1>1, <2>3 DEF CapsAsked
  <2> QED
    BY <1>1, <2>1, <2>2, <2>3, <2>4 DEF CapsSoFar
<1> QED
  BY <1>2, <1>3

\* A list that is left is done, and leaves the configuration.
LEMMA EndedList ==
  ASSUME Typed, Next, at' # at
  PROVE  /\ at = 3 => k >= Len(c.volumes) /\ cfg' = cfg
         /\ at = 4 => k >= Len(Scratch) /\ cfg' = cfg
         /\ at = 8 => k >= Len(c.devices) /\ cfg' = cfg
<1>1. \A p, new : Passes(p, new) => cfg' = new /\ at = p
  BY DEF Passes
<1>2. \A p, list, new : Takes(p, list, new) => at' = at
  BY DEF Takes
<1>3. Stops => at' = at
  BY DEF Stops
<1> QED
  BY <1>1, <1>2, <1>3, Steps

\* The limits are as asked.
LEMMA LimitsNext ==
  ASSUME Typed, LimitsSoFar, Next
  PROVE  LimitsSoFar'
<1>0. at \in 1 .. 17 /\ cfg \in Config /\ c' = c /\ image' = image /\ (at' = at \/ at' = at + 1)
  BY Moves DEF Typed
<1>1. CASE at = 11 /\ at' # at
  <2>1. cfg'.rlimits = Merged(cfg.rlimits, c.rlimits) /\ at' = 12
    BY <1>0, <1>1, Passed DEF Config, ConfigType
  <2>2. cfg.rlimits = image.config.rlimits
    BY <1>1 DEF LimitsSoFar
  <2>3. \A r \in cfg.rlimits : r.by = "bundle"
    BY <2>2 DEF Typed, ImageType, ConfigType, Limits
  <2>4. \A r \in c.rlimits : r.by = "registry"
    BY Set DEF Limits
  <2>5. RlimitsUnique'
    BY <1>0, <2>1, <2>3, <2>4 DEF RlimitsUnique, Merged
  <2> QED
    BY <2>1, <2>5 DEF LimitsSoFar
<1>2. CASE at # 11 \/ at' = at
  <2>1. (at' <= 11 => at <= 11) /\ (at' > 11 => at > 11)
    BY <1>0, <1>2
  <2>2. cfg'.rlimits = cfg.rlimits
    BY <1>2, Frames, Moves
  <2> QED
    BY <1>0, <2>1, <2>2 DEF LimitsSoFar, RlimitsUnique
<1> QED
  BY <1>1, <1>2

\* A device of the list: it may be there or not.
LEMMA Taken ==
  ASSUME Typed, Next, at = 8, at' = at, k' # k
  PROVE  /\ k' = k + 1 /\ k < Len(c.devices)
         /\ cfg'.mounts = IF c.devices[k + 1] \in host.devdirs
                          THEN cfg.mounts \cup {Mount(c.devices[k + 1], "devices", k + 1)}
                          ELSE cfg.mounts
         /\ cfg'.resources.list = IF c.devices[k + 1] \in Present
                                  THEN Append(cfg.resources.list, c.devices[k + 1])
                                  ELSE cfg.resources.list
<1>0. cfg \in Config
  BY DEF Typed
<1>1. Devices /\ Takes(8, c.devices, cfg')
  <2>1. \A p, new : ~Passes(p, new)
    BY DEF Passes, Typed
  <2>2. \A p, list, new : Takes(p, list, new) => p = 8
    BY DEF Takes
  <2>3. ~Stops
    BY DEF Stops
  <2> QED
    BY <2>1, <2>2, <2>3, Steps
<1>2. k' = k + 1 /\ k < Len(c.devices)
  BY <1>1 DEF Takes
<1> DEFINE d == c.devices[k + 1]
           allowed == [given |-> TRUE, list |-> Append(cfg.resources.list, d)]
<1>3. cfg' = IF d \in host.devdirs
             THEN [cfg EXCEPT !.mounts = @ \cup {Mount(d, "devices", k + 1)},
                              !.resources = allowed]
             ELSE IF d \in host.devnodes
             THEN [cfg EXCEPT !.nodes = Append(@, d), !.resources = allowed]
             ELSE cfg
  <2>1. ~Ended("devices", c.devices)
    BY <1>2, Set DEF Ended, Typed
  <2> QED
    BY <1>1, <2>1 DEF Devices, Entry
<1>4. allowed.list = Append(cfg.resources.list, d)
  OBVIOUS
<1> HIDE DEF d, allowed
<1>5. /\ cfg'.mounts = IF d \in host.devdirs
                       THEN cfg.mounts \cup {Mount(d, "devices", k + 1)} ELSE cfg.mounts
      /\ cfg'.resources = IF d \in Present THEN allowed ELSE cfg.resources
  BY <1>0, <1>3 DEF Config, ConfigType, Present
<1> QED
  BY <1>2, <1>4, <1>5 DEF d

\* The devices' rules follow those of the bundle or the registry.
LEMMA RulesNext ==
  ASSUME Typed, Within, RulesSoFar, Next
  PROVE  RulesSoFar'
<1>0. at \in 1 .. 17 /\ k \in Nat /\ cfg \in Config /\ c' = c /\ image' = image /\ host' = host
      /\ (at' = at \/ at' = at + 1)
  BY Moves DEF Typed
<1>1. Given' = Given /\ Present' = Present
  BY <1>0 DEF Given, Present
<1>2. Given \in Paths /\ cfg.resources.list \in Paths /\ Len(c.devices) \in Nat
  <2>1. image.config.resources \in DeviceRules /\ c.resources \in DeviceRules
    BY Set DEF Typed, ImageType, ConfigType
  <2>2. cfg.resources \in DeviceRules
    BY <1>0, Parts
  <2> QED
    BY <2>1, <2>2, Set DEF Given, DeviceRules
<1>3. Len(Given) \in Nat /\ Len(cfg.resources.list) \in Nat
  BY <1>2 DEF Paths
<1>4. CASE at = 6 /\ at' # at
  <2>1. Resources /\ at' = 7
    BY <1>4, Passed
  <2>2. cfg'.resources = IF c.resources.given THEN c.resources ELSE cfg.resources
    BY <1>0, <2>1 DEF Resources, Section, Config, ConfigType
  <2>3. cfg'.resources.list = Given
    BY <1>4, <2>2 DEF RulesSoFar, Given
  <2>4. Done(8, c.devices)' = 0
    BY <2>1 DEF Done
  <2> QED
    BY <1>1, <1>3, <2>1, <2>3, <2>4 DEF RulesSoFar
<1>5. CASE at = 8 /\ at' = at /\ k' # k
  <2> DEFINE d == c.devices[k + 1]
             list == cfg.resources.list
  <2>1. k' = k + 1 /\ k < Len(c.devices)
        /\ cfg'.resources.list = IF d \in Present THEN Append(list, d) ELSE list
    BY <1>5, Taken
  <2>2. Done(8, c.devices) = k /\ Done(8, c.devices)' = k + 1
    BY <1>5, <2>1 DEF Done
  <2>3. \A j \in 1 .. k : c.devices[j] \in Present =>
          \E i \in DOMAIN list : list[i] = c.devices[j] /\ i > Len(Given)
    BY <2>2 DEF RulesSoFar
  <2>4. Len(list) >= Len(Given)
    BY <1>5 DEF RulesSoFar
  <2>5. list \in Seq(Strings) /\ d \in Strings
    BY <1>0, <1>2, <2>1, Set DEF Paths
  <2> HIDE DEF d, list
  <2>6. Len(list) \in Nat /\ DOMAIN list = 1 .. Len(list)
    BY <2>5
  <2>7. /\ DOMAIN Append(list, d) = 1 .. Len(list) + 1 /\ Append(list, d)[Len(list) + 1] = d
        /\ Len(Append(list, d)) = Len(list) + 1
        /\ \A i \in DOMAIN list : Append(list, d)[i] = list[i]
    BY <2>5
  <2>8. \A i \in DOMAIN list : i \in DOMAIN Append(list, d)
    BY <2>6, <2>7
  <2>9. ASSUME NEW j \in 1 .. k + 1, c.devices[j] \in Present
        PROVE  \E i \in DOMAIN cfg'.resources.list :
                 cfg'.resources.list[i] = c.devices[j] /\ i > Len(Given)
    <3>1. CASE j = k + 1
      <4>1. c.devices[j] = d
        BY <3>1 DEF d
      <4>2. Len(list) + 1 \in DOMAIN Append(list, d) /\ Len(list) + 1 > Len(Given)
        BY <1>3, <2>4, <2>6, <2>7
      <4> QED
        BY <2>1, <2>7, <2>9, <4>1, <4>2
    <3>2. CASE j \in 1 .. k
      <4>1. PICK i \in DOMAIN list : list[i] = c.devices[j] /\ i > Len(Given)
        BY <2>3, <2>9, <3>2
      <4> QED
        BY <2>1, <2>7, <2>8, <4>1
    <3> QED
      BY <1>0, <2>9, <3>1, <3>2
  <2>10. Len(cfg'.resources.list) >= Len(Given)
    BY <1>3, <2>1, <2>4, <2>6, <2>7
  <2> QED
    BY <1>0, <1>1, <1>5, <2>2, <2>9, <2>10 DEF RulesSoFar
<1>6. CASE /\ ~(at = 6 /\ at' # at)
           /\ ~(at = 8 /\ at' = at /\ k' # k)
  <2>1. cfg'.resources = cfg.resources
    <3>1. CASE at \notin {6, 8}
      BY <3>1, Frames
    <3>2. CASE at' = at /\ k' = k
      BY <1>0, <3>2, Moves
    <3>3. CASE at = 8 /\ at' = 9
      BY <3>3, EndedList
    <3> QED
      BY <1>0, <1>6, <3>1, <3>2, <3>3, Moves
  <2>2. Done(8, c.devices)' = Done(8, c.devices)
    <3>1. CASE at = 8 /\ at' = 9
      BY <1>0, <1>2, <3>1, EndedList DEF Done, Within
    <3>2. CASE at = 7 /\ at' = 8
      BY <3>2, Moves DEF Done
    <3>3. CASE at \notin {7, 8}
      BY <1>0, <3>3 DEF Done
    <3>4. CASE at' = at /\ k' = k
      BY <1>0, <3>4 DEF Done
    <3>5. CASE at = 7 /\ at' = at
      BY <3>5 DEF Done
    <3> QED
      BY <1>0, <1>6, <3>1, <3>2, <3>3, <3>4, <3>5
  <2>3. (at' <= 6 => at <= 6) /\ (at' > 6 => at > 6)
    BY <1>0, <1>6
  <2> QED
    BY <1>0, <1>1, <2>1, <2>2, <2>3 DEF RulesSoFar
<1> QED
  BY <1>4, <1>5, <1>6

\* What is added behind an environment does not change its first PATH.
LEMMA SamePath ==
  ASSUME NEW old \in Seq(Variables), NEW env \in Seq(Variables), Len(old) <= Len(env),
         \A i \in DOMAIN old : env[i] = old[i], \E i \in DOMAIN old : old[i].key = "PATH"
  PROVE  SearchPath(env) = SearchPath(old)
<1> DEFINE P(e) == {i \in DOMAIN e : e[i].key = "PATH"}
           f == First(P(old))
           g == First(P(env))
<1>1. /\ DOMAIN old = 1 .. Len(old) /\ DOMAIN env = 1 .. Len(env)
      /\ Len(old) \in Nat /\ Len(env) \in Nat
  OBVIOUS
<1>2. P(old) \in SUBSET Nat /\ P(env) \in SUBSET Nat /\ P(old) # {}
  BY <1>1
<1>3. \A i \in P(old) : i \in P(env)
  BY <1>1
<1>4. \A i \in P(env) : i <= Len(old) => i \in P(old)
  BY <1>1
<1>5. P(env) # {}
  BY <1>2, <1>3
<1>6. \A i \in P(old) : i <= Len(old)
  BY <1>1
<1>7. SearchPath(env) = env[g].value /\ SearchPath(old) = old[f].value
  BY <1>2, <1>5 DEF SearchPath
<1>8. \A i \in P(old) : i \in DOMAIN old
  OBVIOUS
<1> HIDE DEF P
<1>9. /\ f \in P(old) /\ \A j \in P(old) : f <= j
      /\ g \in P(env) /\ \A j \in P(env) : g <= j
  BY <1>2, <1>5, FirstIs
<1> HIDE DEF f, g
<1>10. g <= f /\ f <= Len(old) /\ f \in Nat /\ g \in Nat
  BY <1>2, <1>3, <1>6, <1>9
<1>11. g \in P(old)
  BY <1>1, <1>4, <1>9, <1>10
<1>12. f = g
  BY <1>9, <1>10, <1>11
<1> QED
  BY <1>7, <1>8, <1>9, <1>12

\* The environment grows behind the image's, and the program is looked for on its PATH.
LEMMA ProgramNext ==
  ASSUME Typed, ProgramSoFar, Next
  PROVE  ProgramSoFar'
<1>0. at \in 1 .. 17 /\ cfg \in Config /\ c' = c /\ image' = image /\ host' = host
      /\ (at' = at \/ at' = at + 1)
  BY Moves DEF Typed
<1> DEFINE declared == image.config.env
<1>1. declared \in Seq(Variables) /\ cfg.env \in Seq(Variables) /\ c.env \in Seq(Variables)
  BY <1>0, Parts, Set DEF Typed, ImageType, ConfigType
<1>2. EnvIsAdded'
  <2>1. CASE cfg'.env = cfg.env
    BY <1>0, <2>1 DEF ProgramSoFar, EnvIsAdded
  <2>2. ASSUME NEW s \in Seq(Variables), cfg'.env = cfg.env \o s PROVE EnvIsAdded'
    <3> DEFINE e == cfg.env
    <3>1. Len(declared) <= Len(e) /\ \A i \in DOMAIN declared : e[i] = declared[i]
      BY DEF ProgramSoFar, EnvIsAdded
    <3>2. e \in Seq(Variables)
      BY <1>1
    <3> HIDE DEF e, declared
    <3>3. Len(declared) \in Nat /\ DOMAIN declared = 1 .. Len(declared)
      BY <1>1
    <3>4. Len(e) \in Nat /\ Len(s) \in Nat /\ Len(e \o s) = Len(e) + Len(s)
      BY <3>2
    <3>5. \A i \in 1 .. Len(e) : (e \o s)[i] = e[i]
      BY <3>2
    <3>6. Len(declared) <= Len(e \o s) /\ \A i \in DOMAIN declared : (e \o s)[i] = declared[i]
      BY <3>1, <3>3, <3>4, <3>5
    <3> QED
      BY <1>0, <2>2, <3>6 DEF EnvIsAdded, e, declared
  <2>3. CASE Env
    <3>1. \/ /\ c.env_file[k + 1] \in DOMAIN host.files
             /\ cfg' = [cfg EXCEPT !.env = @ \o host.files[c.env_file[k + 1]]]
          \/ cfg' = [cfg EXCEPT !.env = @ \o c.env]
      BY <2>3 DEF Env, Entry, Section
    <3>2. \A f \in DOMAIN host.files : host.files[f] \in Seq(Variables)
      BY DEF Typed
    <3>3. \A v : [cfg EXCEPT !.env = v].env = v
      BY <1>0 DEF Config, ConfigType
    <3>4. \E v \in Seq(Variables) : cfg' = [cfg EXCEPT !.env = @ \o v]
      BY <1>1, <3>1, <3>2, Zenon
    <3>5. \E v \in Seq(Variables) : cfg'.env = cfg.env \o v
      BY <3>3, <3>4
    <3> QED
      BY <2>2, <3>5
  <2>4. CASE at = 9
    <3>1. Env \/ Stops
      <4>1. \A p, new : Passes(p, new) => p = 9
        BY <2>4 DEF Passes
      <4>2. \A p, list, new : Takes(p, list, new) => p = 9
        BY <2>4 DEF Takes
      <4> QED
        BY <4>1, <4>2, Steps
    <3>2. Stops => cfg' = cfg
      BY DEF Stops
    <3> QED
      BY <2>1, <2>3, <3>1, <3>2
  <2> QED
    BY <2>1, <2>4, Frames
<1>3. CASE at = 15 /\ at' # at
  <2> DEFINE path == SearchPath(cfg.env)
             found == {i \in DOMAIN path : path[i] \in image.executable}
  <2>1. Args /\ at' = 16
    BY <1>3, Passed
  <2>2. cfg.dir = image.config.dir
    BY <1>3 DEF ProgramSoFar
  <2>3. cfg'.dir = IF cfg.dir = "bare" /\ found # {} THEN path[First(found)] ELSE cfg.dir
    BY <1>0, <2>1 DEF Args, Section, Config, ConfigType
  <2>4. path \in Paths
    BY <1>1, SearchPathIs
  <2>5. (\E i \in DOMAIN declared : declared[i].key = "PATH") => path = SearchPath(declared)
    BY <1>1, SamePath DEF ProgramSoFar, EnvIsAdded
  <2>6. ASSUME image.config.dir = "bare"
        PROVE  \/ /\ cfg'.dir = "bare"
                  /\ \A i \in DOMAIN path : path[i] \notin image.executable
               \/ \E i \in DOMAIN path :
                    /\ cfg'.dir = path[i] /\ path[i] \in image.executable
                    /\ \A j \in 1 .. i - 1 : path[j] \notin image.executable
    <3> HIDE DEF path
    <3>1. CASE found = {}
      BY <2>2, <2>3, <2>6, <3>1
    <3>2. CASE found # {}
      <4>1. found \in SUBSET Nat /\ DOMAIN path = 1 .. Len(path) /\ Len(path) \in Nat
        BY <2>4 DEF Paths
      <4>2. \A i \in DOMAIN path : i \in found <=> path[i] \in image.executable
        OBVIOUS
      <4>3. found \subseteq DOMAIN path
        OBVIOUS
      <4> HIDE DEF found
      <4>4. First(found) \in found /\ \A j \in found : First(found) <= j
        BY <3>2, <4>1, FirstIs
      <4>5. ASSUME NEW j \in 1 .. First(found) - 1 PROVE path[j] \notin image.executable
        <5>1. First(found) \in 1 .. Len(path)
          BY <4>1, <4>3, <4>4
        <5>2. j \in DOMAIN path /\ ~(First(found) <= j)
          BY <4>1, <5>1
        <5> QED
          BY <4>2, <4>4, <5>2
      <4>6. cfg'.dir = path[First(found)]
        BY <2>2, <2>3, <2>6, <3>2
      <4> QED
        BY <4>2, <4>3, <4>4, <4>5, <4>6
    <3> QED
      BY <3>1, <3>2
  <2>7. ProgramOnPath'
    <3> HIDE DEF path
    <3> QED
      BY <1>0, <2>5, <2>6 DEF ProgramOnPath
  <2> QED
    BY <1>2, <2>1, <2>7 DEF ProgramSoFar
<1>4. CASE at # 15 \/ at' = at
  <2>1. (at' <= 15 => at <= 15) /\ (at' > 15 => at > 15)
    BY <1>0, <1>4
  <2>2. cfg'.dir = cfg.dir
    BY <1>4, Frames, Moves
  <2> QED
    BY <1>0, <1>2, <2>1, <2>2 DEF ProgramSoFar, ProgramOnPath
<1> QED
  BY <1>3, <1>4

-----------------------------------------------------------------------------
(* What is mounted at each destination.                                    *)

At(ms, d) == {m \in ms : m.dest = d}
One(m) == {m}

\* The next entry of a list is its last so far.
LEMMA LastNext ==
  ASSUME NEW list, NEW n \in Nat, NEW d, NEW by
  PROVE  LastUpto(list, n + 1, d, by) =
           IF list[n + 1] = d THEN One(Mount(d, by, n + 1)) ELSE LastUpto(list, n, d, by)
<1> DEFINE L(m) == {j \in 1 .. m : list[j] = d /\ \A l \in 1 .. m : list[l] = d => l <= j}
<1>1. \A m : LastUpto(list, m, d, by) = {Mount(d, by, i) : i \in L(m)}
  BY DEF LastUpto
<1>2. list[n + 1] = d => L(n + 1) = {n + 1}
  OBVIOUS
<1>3. list[n + 1] # d => L(n + 1) = L(n)
  OBVIOUS
<1> HIDE DEF L
<1>4. CASE list[n + 1] = d
  BY <1>1, <1>2, <1>4 DEF One
<1>5. CASE list[n + 1] # d
  <2>1. LastUpto(list, n + 1, d, by) = LastUpto(list, n, d, by)
    BY <1>1, <1>3, <1>5
  <2> QED
    BY <1>5, <2>1
<1> QED
  BY <1>4, <1>5

LEMMA LastNone ==
  ASSUME NEW list, NEW d, NEW by
  PROVE  LastUpto(list, 0, d, by) = {}
BY DEF LastUpto

\* The next device of a directory is bound once more.
LEMMA BoundNext ==
  ASSUME NEW n \in Nat, NEW d
  PROVE  /\ Bound(d, n + 1) = IF d \in host.devdirs /\ c.devices[n + 1] = d
                              THEN Bound(d, n) \cup {Mount(d, "devices", n + 1)}
                              ELSE Bound(d, n)
         /\ Bound(d, 0) = {}
<1> DEFINE L(m) == {j \in 1 .. m : c.devices[j] = d}
<1>1. \A m : Bound(d, m) = IF d \in host.devdirs
                           THEN {Mount(d, "devices", i) : i \in L(m)} ELSE {}
  BY DEF Bound
<1>2. L(0) = {}
  OBVIOUS
<1>3. L(n + 1) = IF c.devices[n + 1] = d THEN L(n) \cup {n + 1} ELSE L(n)
  OBVIOUS
<1> HIDE DEF L
<1>4. Bound(d, 0) = {}
  BY <1>1, <1>2
<1>5. CASE d \notin host.devdirs
  BY <1>1, <1>4, <1>5
<1>6. CASE d \in host.devdirs /\ c.devices[n + 1] # d
  BY <1>1, <1>3, <1>4, <1>6
<1>7. CASE d \in host.devdirs /\ c.devices[n + 1] = d
  BY <1>1, <1>3, <1>4, <1>7
<1> QED
  BY <1>5, <1>6, <1>7

\* What is mounted depends on nothing that the steps change but the place.
LEMMA BelowStays ==
  ASSUME c' = c, image' = image, host' = host
  PROVE  /\ Scratch' = Scratch /\ Targets' = Targets /\ Listed' = Listed
         /\ HasResolver' = HasResolver /\ SeesCgroup' = SeesCgroup
         /\ \A d, n : Bound(d, n)' = Bound(d, n)
         /\ \A d, p, v, t : Below(d, p, v, t)' = Below(d, p, v, t)
         /\ \A d, p, q, v, t : (p > 2 <=> q > 2) /\ (p > 5 <=> q > 5) =>
              Below(d, p, v, t) = Below(d, q, v, t)
<1>1. /\ Scratch' = Scratch /\ Targets' = Targets /\ Listed' = Listed
      /\ HasResolver' = HasResolver /\ SeesCgroup' = SeesCgroup
  BY DEF Scratch, Targets, Listed, HasResolver, SeesCgroup
<1>2. \A d, n : Bound(d, n)' = Bound(d, n)
  BY DEF Bound
<1>3. \A d, p : Top(d, p)' = Top(d, p) /\ Bottom(d, p)' = Bottom(d, p)
  BY <1>1 DEF Top, Bottom
<1>4. \A d, n : /\ LastUpto(Scratch, n, d, "tmpfs")' = LastUpto(Scratch, n, d, "tmpfs")
                /\ LastUpto(Targets, n, d, "volumes")' = LastUpto(Targets, n, d, "volumes")
  BY <1>1 DEF LastUpto
<1>5. \A d, p, v, t : Below(d, p, v, t)' = Below(d, p, v, t)
  BY <1>3, <1>4, Zenon DEF Below, Claim
<1>6. \A d, p, q, v, t : (p > 2 <=> q > 2) /\ (p > 5 <=> q > 5) =>
        Below(d, p, v, t) = Below(d, q, v, t)
  <2>1. \A d, p, q : (p > 2 <=> q > 2) => Bottom(d, p) = Bottom(d, q)
    BY DEF Bottom
  <2>2. \A d, p, q : (p > 5 <=> q > 5) => Top(d, p) = Top(d, q)
    BY DEF Top
  <2> QED
    BY <2>1, <2>2, Zenon DEF Below
<1> QED
  BY <1>1, <1>2, <1>5, <1>6

\* A volume and a temporary filesystem of the lists.
LEMMA ListTaken ==
  ASSUME Typed, Next, at' = at, k' # k
  PROVE  /\ at \in {3, 4, 8, 9} /\ k' = k + 1
         /\ at = 3 => /\ k < Len(c.volumes)
                      /\ cfg' = [cfg EXCEPT !.mounts =
                                   Placed(@, Mount(c.volumes[k + 1].dst, "volumes", k + 1))]
         /\ at = 4 => /\ k < Len(Scratch)
                      /\ cfg' = [cfg EXCEPT !.mounts =
                                   Placed(@, Mount(Scratch[k + 1], "tmpfs", k + 1))]
<1>1. \A p, new : ~Passes(p, new)
  BY DEF Passes, Typed
<1>2. \A p, list, new : Takes(p, list, new) =>
        at = p /\ k' = k + 1 /\ k < Len(list) /\ cfg' = new
  BY DEF Takes
<1>3. ~Stops
  BY DEF Stops
<1> QED
  BY <1>1, <1>2, <1>3, Steps

\* The destinations of the volumes, as a list.
LEMMA TargetsAre ==
  ASSUME Typed
  PROVE  Targets \in Seq(Strings) /\ Len(Targets) = Len(c.volumes)
<1>1. c.volumes \in Seq([src : Strings, dst : Strings, makeable : BOOLEAN])
  BY Set
<1>2. DOMAIN c.volumes = 1 .. Len(c.volumes) /\ Len(c.volumes) \in Nat
  BY <1>1
<1>3. \A i \in 1 .. Len(c.volumes) : c.volumes[i].dst \in Strings
  <2> TAKE i \in 1 .. Len(c.volumes)
  <2>1. c.volumes[i] \in [src : Strings, dst : Strings, makeable : BOOLEAN]
    BY <1>1, ElementOfSeq, Zenon
  <2> QED
    BY <2>1
<1>4. Targets \in [1 .. Len(c.volumes) -> Strings]
  BY <1>2, <1>3 DEF Targets
<1>5. \A n \in Nat : \A f : f \in [1 .. n -> Strings] => f \in Seq(Strings)
  BY SeqDef
<1>6. Targets \in Seq(Strings)
  BY <1>2, <1>4, <1>5, Zenon
<1>7. Len(Targets) \in Nat /\ 1 .. Len(Targets) = 1 .. Len(c.volumes)
  BY <1>4, <1>6
<1> QED
  BY <1>2, <1>6, <1>7

\* A section of a list of mounts adds one layer; the others add one mount, drop those of
\* the devices, or bind them.
LEMMA MountsNext ==
  ASSUME Typed, Within, MountsSoFar, Next
  PROVE  MountsSoFar'
<1>0. at \in 1 .. 17 /\ k \in Nat /\ cfg \in Config /\ c' = c /\ image' = image /\ host' = host
      /\ (at' = at \/ at' = at + 1)
  BY Moves DEF Typed
<1> DEFINE volumes == Len(c.volumes)
           tmpfs == Len(Scratch)
           devices == Len(c.devices)
<1>l. volumes \in Nat /\ tmpfs \in Nat /\ devices \in Nat
  BY Set
<1>w. (at = 3 => k <= volumes) /\ (at = 4 => k <= tmpfs) /\ (at = 8 => k <= devices)
  BY DEF Within
<1>e. (at = 3 /\ at' # at => k = volumes /\ cfg' = cfg)
      /\ (at = 4 /\ at' # at => k = tmpfs /\ cfg' = cfg)
      /\ (at = 8 /\ at' # at => k = devices /\ cfg' = cfg)
  BY <1>0, <1>l, <1>w, EndedList
<1> DEFINE v == Done(3, c.volumes)
           t == Done(4, Scratch)
           b == Done(8, c.devices)
<1>1. SUFFICES ASSUME NEW d \in Strings
               PROVE  At(cfg'.mounts, d) = IF d \in Listed /\ at' > 7 THEN Bound(d, b')
                                           ELSE Below(d, at', v', t')
  BY <1>0, BelowStays DEF MountsSoFar, MountsAt, At
<1>2. At(cfg.mounts, d) = IF d \in Listed /\ at > 7 THEN Bound(d, b) ELSE Below(d, at, v, t)
  BY DEF MountsSoFar, MountsAt, At
<1>3. /\ v = IF at > 3 THEN volumes ELSE IF at = 3 THEN k ELSE 0
      /\ t = IF at > 4 THEN tmpfs ELSE IF at = 4 THEN k ELSE 0
      /\ b = IF at > 8 THEN devices ELSE IF at = 8 THEN k ELSE 0
      /\ v' = IF at' > 3 THEN volumes ELSE IF at' = 3 THEN k' ELSE 0
      /\ t' = IF at' > 4 THEN tmpfs ELSE IF at' = 4 THEN k' ELSE 0
      /\ b' = IF at' > 8 THEN devices ELSE IF at' = 8 THEN k' ELSE 0
  BY <1>0, BelowStays DEF Done
<1> HIDE DEF volumes, tmpfs, devices, v, t, b
<1>m. at' # at => k' = 0
  BY Moves
<1>p. \A new : [cfg EXCEPT !.mounts = new].mounts = new
  BY <1>0 DEF Config, ConfigType
<1>r. \A p, q \in 1 .. 17 : \A x, y : (p > 2 <=> q > 2) /\ (p > 5 <=> q > 5) =>
        Below(d, p, x, y) = Below(d, q, x, y)
  BY <1>0, BelowStays
<1>4. CASE at = 2 /\ at' # at
  <2>1. Infra /\ at' = 3 /\ k' = 0
    BY <1>4, <1>m, Passed
  <2>2. cfg'.mounts = IF HasResolver
                      THEN cfg.mounts \cup {Mount("/etc/resolv.conf", "infra", 1)}
                      ELSE cfg.mounts
    BY <1>0, <2>1 DEF Infra, Section, HasResolver, Config, ConfigType
  <2>3. v = 0 /\ t = 0 /\ v' = 0 /\ t' = 0
    BY <1>3, <1>4, <2>1
  <2>4. \A p : Below(d, p, 0, 0) = Claim(Top(d, p), Bottom(d, p))
    BY LastNone DEF Below, Claim
  <2>5. Top(d, 2) = {} /\ Top(d, 3) = {}
    BY DEF Top
  <2>6. Bottom(d, 3) = IF d = "/etc/resolv.conf" /\ HasResolver
                       THEN Bottom(d, 2) \cup {Mount(d, "infra", 1)} ELSE Bottom(d, 2)
    BY DEF Bottom
  <2>7. At(cfg.mounts, d) = Bottom(d, 2)
    BY <1>2, <1>4, <2>3, <2>4, <2>5 DEF Claim
  <2>8. At(cfg'.mounts, d) = Bottom(d, 3)
    BY <2>2, <2>6, <2>7 DEF At, Mount
  <2> QED
    BY <2>1, <2>3, <2>4, <2>5, <2>8 DEF Claim
<1>5. CASE at = 3 /\ at' = at /\ k' # k
  <2> DEFINE e == c.volumes[k + 1].dst
  <2>1. k' = k + 1 /\ k < Len(c.volumes)
        /\ cfg'.mounts = Placed(cfg.mounts, Mount(e, "volumes", k + 1))
    BY <1>5, <1>p, ListTaken
  <2>2. v = k /\ v' = k + 1 /\ t = 0 /\ t' = 0
    BY <1>3, <1>5, <2>1
  <2>3. Targets[k + 1] = e
    BY <1>0, <2>1, Set DEF Targets
  <2> HIDE DEF e
  <2>4. At(cfg'.mounts, d) = IF d = e THEN {Mount(d, "volumes", k + 1)} ELSE At(cfg.mounts, d)
    BY <2>1 DEF At, Mount, Placed, Without
  <2>5. LastUpto(Targets, k + 1, d, "volumes") =
          IF d = e THEN {Mount(d, "volumes", k + 1)} ELSE LastUpto(Targets, k, d, "volumes")
    <3>1. LastUpto(Targets, k + 1, d, "volumes") =
            IF Targets[k + 1] = d THEN One(Mount(d, "volumes", k + 1))
            ELSE LastUpto(Targets, k, d, "volumes")
      BY <1>0, LastNext
    <3> QED
      BY <2>3, <3>1 DEF One
  <2>6. LastUpto(Scratch, 0, d, "tmpfs") = {} /\ Top(d, 3) = {}
    <3>1. LastUpto(Scratch, 0, d, "tmpfs") = {}
      BY LastNone
    <3> QED
      BY <3>1 DEF Top
  <2> QED
    BY <1>2, <1>5, <2>2, <2>4, <2>5, <2>6 DEF Below, Claim
<1>6. CASE at = 4 /\ at' = at /\ k' # k
  <2> DEFINE e == Scratch[k + 1]
  <2>1. k' = k + 1 /\ k < Len(Scratch)
        /\ cfg'.mounts = Placed(cfg.mounts, Mount(e, "tmpfs", k + 1))
    BY <1>6, <1>p, ListTaken
  <2>2. t = k /\ t' = k + 1 /\ v = volumes /\ v' = volumes
    BY <1>3, <1>6, <2>1
  <2> HIDE DEF e
  <2>4. At(cfg'.mounts, d) = IF d = e THEN {Mount(d, "tmpfs", k + 1)} ELSE At(cfg.mounts, d)
    BY <2>1 DEF At, Mount, Placed, Without
  <2>5. LastUpto(Scratch, k + 1, d, "tmpfs") =
          IF d = e THEN {Mount(d, "tmpfs", k + 1)} ELSE LastUpto(Scratch, k, d, "tmpfs")
    <3>1. LastUpto(Scratch, k + 1, d, "tmpfs") =
            IF Scratch[k + 1] = d THEN One(Mount(d, "tmpfs", k + 1))
            ELSE LastUpto(Scratch, k, d, "tmpfs")
      BY <1>0, LastNext
    <3> QED
      BY <3>1 DEF One, e
  <2>6. Top(d, 4) = {}
    BY DEF Top
  <2> QED
    BY <1>2, <1>6, <2>2, <2>4, <2>5, <2>6 DEF Below, Claim
<1>7. CASE at = 5 /\ at' # at
  <2>1. CgroupView /\ at' = 6
    BY <1>7, Passed
  <2>2. cfg'.mounts = IF SeesCgroup
                      THEN Placed(cfg.mounts, Mount("/sys/fs/cgroup", "cgroup", 1))
                      ELSE cfg.mounts
    BY <1>0, <2>1 DEF CgroupView, Section, Config, ConfigType
  <2>3. v' = v /\ t' = t
    BY <1>3, <1>7, <2>1
  <2>4. Top(d, 5) = {} /\ Bottom(d, 6) = Bottom(d, 5)
        /\ Top(d, 6) = IF d = "/sys/fs/cgroup" /\ SeesCgroup
                       THEN {Mount(d, "cgroup", 1)} ELSE {}
    BY DEF Top, Bottom
  <2>5. At(cfg'.mounts, d) = IF d = "/sys/fs/cgroup" /\ SeesCgroup
                             THEN {Mount(d, "cgroup", 1)} ELSE At(cfg.mounts, d)
    BY <2>2 DEF At, Mount, Placed, Without
  <2> QED
    BY <1>2, <1>7, <2>1, <2>3, <2>4, <2>5 DEF Below, Claim
<1>8. CASE at = 7 /\ at' # at
  <2>1. cfg'.mounts = Without(cfg.mounts, Listed) /\ at' = 8 /\ k' = 0
    <3>1. cfg' = [cfg EXCEPT !.mounts = Without(@, Listed)] /\ at' = 8
      BY <1>8, Passed
    <3> QED
      BY <1>8, <1>m, <1>p, <3>1
  <2>2. v' = v /\ t' = t /\ b' = 0
    BY <1>3, <1>8, <2>1
  <2>3. At(cfg'.mounts, d) = IF d \in Listed THEN {} ELSE At(cfg.mounts, d)
    BY <2>1 DEF At, Without
  <2>4. Below(d, 8, v, t) = Below(d, 7, v, t)
    BY <1>r
  <2>5. Bound(d, 0) = {}
    BY <1>0, BoundNext, Zenon
  <2> QED
    BY <1>2, <1>8, <2>1, <2>2, <2>3, <2>4, <2>5
<1>9. CASE at = 8 /\ at' = at /\ k' # k
  <2> DEFINE e == c.devices[k + 1]
  <2>1. k' = k + 1 /\ k < Len(c.devices)
        /\ cfg'.mounts = IF e \in host.devdirs
                         THEN cfg.mounts \cup {Mount(e, "devices", k + 1)} ELSE cfg.mounts
    BY <1>9, Taken
  <2>2. v' = v /\ t' = t /\ b = k /\ b' = k + 1
    BY <1>3, <1>9, <2>1
  <2>3. e \in Listed
    BY <1>0, <2>1, Set DEF Listed
  <2>4. Bound(d, k + 1) = IF d \in host.devdirs /\ e = d
                          THEN Bound(d, k) \cup {Mount(d, "devices", k + 1)} ELSE Bound(d, k)
    BY <1>0, BoundNext
  <2> HIDE DEF e
  <2>5. At(cfg'.mounts, d) = IF d \in host.devdirs /\ e = d
                             THEN At(cfg.mounts, d) \cup {Mount(d, "devices", k + 1)}
                             ELSE At(cfg.mounts, d)
    BY <2>1 DEF At, Mount
  <2>6. CASE d \in Listed
    BY <1>2, <1>9, <2>2, <2>4, <2>5, <2>6
  <2>7. CASE d \notin Listed
    BY <1>2, <1>9, <2>2, <2>3, <2>5, <2>7
  <2> QED
    BY <2>6, <2>7
<1>10. CASE /\ ~(at \in {2, 5, 7} /\ at' # at)
            /\ ~(at \in {3, 4, 8} /\ at' = at /\ k' # k)
  <2>1. cfg'.mounts = cfg.mounts
    <3>1. CASE at \notin {2, 3, 4, 5, 7, 8}
      BY <3>1, Frames
    <3>2. CASE at \in {3, 4, 8} /\ at' # at
      BY <1>e, <3>2
    <3>3. CASE at' = at /\ k' = k
      BY <1>0, <3>3, Moves
    <3>4. CASE at \in {2, 5, 7} /\ at' = at
      BY <3>4, Moves
    <3> QED
      BY <1>10, <3>1, <3>2, <3>3, <3>4
  <2>2. at' = at => v' = v /\ t' = t /\ b' = b
    <3>1. CASE at \in {3, 4, 8}
      BY <1>3, <1>10, <3>1
    <3>2. CASE at \notin {3, 4, 8}
      BY <1>0, <1>3, <3>2
    <3> QED
      BY <3>1, <3>2
  <2>3. at' # at => v' = v /\ t' = t /\ b' = b
    BY <1>0, <1>3, <1>e, <1>m, <1>10
  <2>4. (at' > 2 <=> at > 2) /\ (at' > 5 <=> at > 5) /\ (at' > 7 <=> at > 7) /\ at' \in 1 .. 17
    BY <1>0, <1>10, Moves
  <2>5. Below(d, at', v, t) = Below(d, at, v, t)
    BY <1>0, <1>r, <2>4
  <2> QED
    BY <1>0, <1>2, <2>1, <2>2, <2>3, <2>4, <2>5
<1> QED
  <2>1. at \in {2, 5, 7} /\ at' # at =>
          (at = 2 /\ at' # at) \/ (at = 5 /\ at' # at) \/ (at = 7 /\ at' # at)
    OBVIOUS
  <2>2. at \in {3, 4, 8} /\ at' = at /\ k' # k =>
          \/ at = 3 /\ at' = at /\ k' # k
          \/ at = 4 /\ at' = at /\ k' # k
          \/ at = 8 /\ at' = at /\ k' # k
    OBVIOUS
  <2> QED
    BY <1>4, <1>5, <1>6, <1>7, <1>8, <1>9, <1>10, <2>1, <2>2, Zenon

-----------------------------------------------------------------------------
(* The invariant.                                                          *)

LEMMA IInvInit ==
  ASSUME Init
  PROVE  IInv
<1>1. /\ c \in SettingsType /\ image \in ImageType /\ cfg = image.config /\ at = 1 /\ k = 0
      /\ out = "none" /\ \A f \in DOMAIN host.files : host.files[f] \in Seq(Variables)
  BY LaunchAssumption DEF Init
<1>2. cfg \in Config
  <2>1. cfg \in ConfigType({"bundle"}, Limits("bundle"))
    BY <1>1 DEF ImageType
  <2>2. Mounts({"bundle"}) \subseteq Mounts(Bys)
    BY DEF Mounts, Bys
  <2> QED
    BY <2>1, <2>2 DEF Config, ConfigType
<1>3. Typed
  BY <1>1, <1>2 DEF Typed
<1>4. Within
  BY <1>1 DEF Within
<1>5. \A p, list : p \in 2 .. 17 => Done(p, list) = 0
  BY <1>1 DEF Done
<1>6. MountsSoFar
  <2> SUFFICES ASSUME NEW d \in Strings
               PROVE  MountsAt(d) = Below(d, at, Done(3, c.volumes), Done(4, Scratch))
    <3>1. ~(at > 7)
      BY <1>1
    <3> QED
      BY <3>1 DEF MountsSoFar
  <2>1. Done(3, c.volumes) = 0 /\ Done(4, Scratch) = 0
    BY <1>5
  <2>2. LastUpto(Scratch, 0, d, "tmpfs") = {}
    BY LastNone
  <2>3. LastUpto(Targets, 0, d, "volumes") = {}
    BY LastNone
  <2>4. Top(d, 1) = {} /\ Bottom(d, 1) = {m \in image.config.mounts : m.dest = d}
    BY DEF Top, Bottom
  <2> QED
    BY <1>1, <2>1, <2>2, <2>3, <2>4 DEF MountsAt, Below, Claim
<1>7. RulesSoFar
  <2>1. Done(8, c.devices) = 0
    BY <1>5
  <2> QED
    BY <1>1, <2>1 DEF RulesSoFar
<1>8. NetworkSoFar /\ CapsSoFar /\ LimitsSoFar
  BY <1>1 DEF NetworkSoFar, CapsSoFar, LimitsSoFar
<1>9. ProgramSoFar
  <2>1. Len(image.config.env) \in Nat
    BY <1>1 DEF ImageType, ConfigType
  <2> QED
    BY <1>1, <2>1 DEF ProgramSoFar, EnvIsAdded
<1> QED
  BY <1>3, <1>4, <1>6, <1>7, <1>8, <1>9 DEF IInv

LEMMA IInvStutter ==
  ASSUME IInv, UNCHANGED vars
  PROVE  IInv'
<1>0. c' = c /\ image' = image /\ host' = host /\ at' = at /\ k' = k /\ cfg' = cfg /\ out' = out
  BY DEF vars
<1>1. Typed' /\ Within'
  BY <1>0, BelowStays DEF IInv, Typed, Within
<1>2. MountsSoFar'
  BY <1>0, BelowStays DEF IInv, MountsSoFar, MountsAt, Done
<1>3. RulesSoFar'
  BY <1>0 DEF IInv, RulesSoFar, Done, Given, Present
<1>4. NetworkSoFar' /\ CapsSoFar' /\ LimitsSoFar'
  BY <1>0
     DEF IInv, NetworkSoFar, NetSysctlIsolated, CapsSoFar, CapsAsked, LimitsSoFar, RlimitsUnique
<1>5. ProgramSoFar'
  BY <1>0 DEF IInv, ProgramSoFar, EnvIsAdded, ProgramOnPath
<1> QED
  BY <1>1, <1>2, <1>3, <1>4, <1>5 DEF IInv

LEMMA IInvNext ==
  ASSUME IInv, [Next]_vars
  PROVE  IInv'
<1>1. CASE Next
  BY <1>1, StaysTyped, MountsNext, RulesNext, NetworkNext, CapsNext, LimitsNext, ProgramNext
     DEF IInv
<1>2. CASE UNCHANGED vars
  BY <1>2, IInvStutter
<1> QED
  BY <1>1, <1>2

LEMMA Invariance == Spec => []IInv
<1>1. Init => IInv
  BY IInvInit
<1>2. IInv /\ [Next]_vars => IInv'
  BY IInvNext
<1> QED
  BY <1>1, <1>2, PTL DEF Spec

\* The configuration of the generated bundle, and all else build_launch_config works on,
\* stays in its domain, for any settings, bundle and host.
THEOREM ConfigIsTyped == Spec => []Typed
<1>1. IInv => Typed
  BY DEF IInv
<1> QED
  BY <1>1, Invariance, PTL
-----------------------------------------------------------------------------
(* The properties.                                                         *)

\* Of a list only its last entry for a destination counts.
LEMMA LastOfAll ==
  ASSUME NEW S, NEW list \in Seq(S), NEW d, NEW by
  PROVE  /\ LastUpto(list, Len(list), d, by) = LastOf(list, d, by)
         /\ \A m, o \in LastOf(list, d, by) : m = o
<1>1. DOMAIN list = 1 .. Len(list) /\ Len(list) \in Nat
  OBVIOUS
<1> DEFINE L == {j \in DOMAIN list : /\ list[j] = d
                                     /\ \A l \in DOMAIN list : list[l] = d => l <= j}
<1>2. \A i, j \in L : i = j
  <2>1. \A i, j \in L : i \in Nat /\ j \in Nat /\ i <= j /\ j <= i
    BY <1>1
  <2> QED
    BY <2>1
<1>3. LastOf(list, d, by) = {Mount(d, by, i) : i \in L}
  BY DEF LastOf
<1>4. LastUpto(list, Len(list), d, by) = {Mount(d, by, i) : i \in L}
  BY <1>1 DEF LastUpto
<1> HIDE DEF L
<1> QED
  BY <1>2, <1>3, <1>4

\* What is mounted at the end is what is asked for.
LEMMA AskedIs ==
  ASSUME Typed, NEW d
  PROVE  /\ d \in Listed => Asked(d) = Bound(d, Len(c.devices))
         /\ d \notin Listed => Asked(d) = Below(d, 17, Len(c.volumes), Len(Scratch))
<1>1. /\ c.volumes \in Seq([src : Strings, dst : Strings, makeable : BOOLEAN])
      /\ Scratch \in Seq(Strings) /\ c.devices \in Seq(Strings)
  BY Set
<1>2. DOMAIN c.devices = 1 .. Len(c.devices)
  BY <1>1
<1>3. ASSUME d \in Listed PROVE Asked(d) = Bound(d, Len(c.devices))
  BY <1>2, <1>3 DEF Asked, Bound
<1>4. LastUpto(Scratch, Len(Scratch), d, "tmpfs") = LastOf(Scratch, d, "tmpfs")
  BY <1>1, LastOfAll
<1>5. Targets \in Seq(Strings) /\ Len(Targets) = Len(c.volumes)
  BY TargetsAre
<1>6. LastUpto(Targets, Len(c.volumes), d, "volumes") = LastOf(Targets, d, "volumes")
  BY <1>5, LastOfAll
<1>7. ASSUME d \notin Listed PROVE Asked(d) = Below(d, 17, Len(c.volumes), Len(Scratch))
  <2>1. Top(d, 17) = IF d = "/sys/fs/cgroup" /\ SeesCgroup THEN {Mount(d, "cgroup", 1)} ELSE {}
    BY DEF Top
  <2>2. Bottom(d, 17) = {m \in image.config.mounts : m.dest = d}
                        \cup IF d = "/etc/resolv.conf" /\ HasResolver
                             THEN {Mount(d, "infra", 1)} ELSE {}
    BY DEF Bottom
  <2>3. Asked(d) = Claim(Top(d, 17), Claim(LastOf(Scratch, d, "tmpfs"),
                     Claim(LastOf(Targets, d, "volumes"), Bottom(d, 17))))
    BY <1>7, <2>1, <2>2, Zenon DEF Asked, Targets
  <2> QED
    BY <1>4, <1>6, <2>3 DEF Below
<1> QED
  BY <1>3, <1>7

\* Two mounts at one destination.
LEMMA Meet ==
  ASSUME Typed, NEW d, NEW m \in Asked(d), NEW o \in Asked(d), m # o
  PROVE  \/ m.by = o.by /\ m.by \in {"bundle", "devices"}
         \/ {m.by, o.by} = {"bundle", "infra"} /\ d = "/etc/resolv.conf"
<1>1. CASE d \in Listed
  BY <1>1 DEF Asked, Mount
<1>2. CASE d \notin Listed
  <2>1. Scratch \in Seq(Strings) /\ Targets \in Seq(Strings)
    BY Set, TargetsAre
  <2>2. \A x, y \in LastOf(Scratch, d, "tmpfs") : x = y
    BY <2>1, LastOfAll
  <2>3. \A x, y \in LastOf(Targets, d, "volumes") : x = y
    BY <2>1, LastOfAll
  <2> DEFINE base == {x \in image.config.mounts : x.dest = d}
             resolver == IF d = "/etc/resolv.conf" /\ HasResolver
                         THEN {Mount(d, "infra", 1)} ELSE {}
             cgroup == IF d = "/sys/fs/cgroup" /\ SeesCgroup
                       THEN {Mount(d, "cgroup", 1)} ELSE {}
  <2>4. Asked(d) = Claim(cgroup, Claim(LastOf(Scratch, d, "tmpfs"),
                     Claim(LastOf(Targets, d, "volumes"), base \cup resolver)))
    BY <1>2, Zenon DEF Asked, Targets
  <2>5. \A x, y \in cgroup : x = y
    OBVIOUS
  <2>6. \A x \in base : x.by = "bundle"
    BY DEF Typed, ImageType, ConfigType, Mounts
  <2>7. \A x \in resolver : x = Mount(d, "infra", 1) /\ x.by = "infra" /\ d = "/etc/resolv.conf"
    BY DEF Mount
  <2> HIDE DEF base, resolver, cgroup
  <2>8. m \in base \cup resolver /\ o \in base \cup resolver
    BY <2>2, <2>3, <2>4, <2>5 DEF Claim
  <2> QED
    BY <2>6, <2>7, <2>8
<1> QED
  BY <1>1, <1>2

\* When the configuration is written every destination has the mounts the settings, the
\* bundle and the devices ask for and no other, for lists of any length: of the entries of
\* a list the last counts, of the sections the last, and what is left twice was there twice
\* in the bundle or in the list of devices, or is the resolver's (build_launch_config).
THEOREM MountsAreAsked == Spec => []MountsAsked
<1>1. IInv => MountsAsked
  <2> SUFFICES ASSUME IInv, out = "written" PROVE MountsAsked
    BY DEF MountsAsked
  <2>0. Typed /\ MountsSoFar /\ at = 17 /\ cfg \in Config /\ image \in ImageType
    BY DEF IInv, Typed
  <2>1. /\ Done(3, c.volumes) = Len(c.volumes) /\ Done(4, Scratch) = Len(Scratch)
        /\ Done(8, c.devices) = Len(c.devices)
    BY <2>0 DEF Done
  <2>2. \A d \in Strings : MountsAt(d) = Asked(d)
    <3> TAKE d \in Strings
    <3>1. CASE d \in Listed
      <4>1. MountsAt(d) = Bound(d, Len(c.devices))
        BY <2>0, <2>1, <3>1 DEF MountsSoFar
      <4> QED
        BY <2>0, <3>1, <4>1, AskedIs
    <3>2. CASE d \notin Listed
      <4>1. MountsAt(d) = Below(d, 17, Len(c.volumes), Len(Scratch))
        BY <2>0, <2>1, <3>2 DEF MountsSoFar
      <4> QED
        BY <2>0, <3>2, <4>1, AskedIs
    <3> QED
      BY <3>1, <3>2
  <2>3. \A m \in cfg.mounts : m.dest \in Strings
    BY <2>0, Parts DEF Mounts
  <2>4. Destinations \subseteq Strings
    <3>1. \A m \in image.config.mounts : m.dest \in Strings
      BY <2>0 DEF ImageType, ConfigType, Mounts
    <3>2. Listed \subseteq Strings /\ {Scratch[i] : i \in DOMAIN Scratch} \subseteq Strings
      BY <2>0, Set
    <3>3. \A i \in DOMAIN c.volumes : c.volumes[i].dst \in Strings
      BY <2>0, TargetsAre DEF Targets
    <3>4. {"/sys/fs/cgroup", "/etc/resolv.conf"} \subseteq Strings
      BY LaunchAssumption
    <3> QED
      BY <2>3, <3>1, <3>2, <3>3, <3>4 DEF Destinations
  <2>5. \A d \in Destinations : {m \in cfg.mounts : m.dest = d} = Asked(d)
    BY <2>2, <2>4 DEF MountsAt
  <2>6. ASSUME NEW m \in cfg.mounts, NEW o \in cfg.mounts, m # o, m.dest = o.dest
        PROVE  \/ m.by = o.by /\ m.by \in {"bundle", "devices"}
               \/ {m.by, o.by} = {"bundle", "infra"} /\ m.dest = "/etc/resolv.conf"
    <3>1. m \in MountsAt(m.dest) /\ o \in MountsAt(m.dest)
      BY <2>6 DEF MountsAt
    <3>2. m \in Asked(m.dest) /\ o \in Asked(m.dest)
      BY <2>2, <2>3, <3>1
    <3> QED
      BY <2>0, <2>6, <3>2, Meet
  <2> QED
    BY <2>5, <2>6 DEF MountsAsked
<1> QED
  BY <1>1, Invariance, PTL

\* When the configuration is written a listed device that exists has its rule, behind
\* every rule of the bundle or the registry.
THEOREM DevicesAreAllowed == Spec => []DevicesAllowed
<1>1. IInv => DevicesAllowed
  <2> SUFFICES ASSUME IInv, out = "written",
                      NEW d \in Listed \cap (host.devdirs \cup host.devnodes)
               PROVE  \E i \in DOMAIN cfg.resources.list :
                        cfg.resources.list[i] = d /\ i > Len(Given)
    BY DEF DevicesAllowed, Given
  <2>1. Typed /\ RulesSoFar /\ at = 17
    BY DEF IInv, Typed
  <2>2. Done(8, c.devices) = Len(c.devices)
    BY <2>1 DEF Done
  <2>3. DOMAIN c.devices = 1 .. Len(c.devices)
    BY <2>1, Set
  <2>4. PICK j \in 1 .. Len(c.devices) : c.devices[j] = d
    BY <2>3 DEF Listed
  <2> QED
    BY <2>1, <2>2, <2>4 DEF RulesSoFar, Present
<1> QED
  BY <1>1, Invariance, PTL

\* When the configuration is written the process has the capabilities that the image and
\* the registry together ask for, runs from the image's own PATH, is in a network
\* namespace if its sysctls reach one, and has each limit from one source.
THEOREM ProcessIsAsAsked == Spec => []ProcessAsAsked
<1>1. IInv => ProcessAsAsked
  <2> SUFFICES ASSUME IInv, out = "written" PROVE ProcessAsAsked
    BY DEF ProcessAsAsked
  <2>1. at = 17 /\ cfg \in Config
    BY DEF IInv, Typed
  <2>2. CapsAsked /\ RlimitsUnique /\ NetSysctlIsolated /\ ProgramOnPath
    BY <2>1 DEF IInv, CapsSoFar, LimitsSoFar, NetworkSoFar, ProgramSoFar
  <2>3. cfg.user \in Identities
    BY <2>1, Parts
  <2> QED
    BY <2>2, <2>3 DEF ProcessAsAsked
<1> QED
  BY <1>1, Invariance, PTL
=============================================================================
