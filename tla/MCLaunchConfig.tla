--------------------------- MODULE MCLaunchConfig ---------------------------
(***************************************************************************)
(* Instances of LaunchConfig for TLC: the sections that meet vary          *)
(* together, the others are plain.                                         *)
(***************************************************************************)
EXTENDS LaunchConfig

Caps3 == {"CHOWN", "NET_RAW", "SYS_ADMIN"}
SomeStrings ==
  Caps3 \cup {"ALL", "unset", "lan", "dmz", "64m", "PATH", "file", "missing", "bare", "none",
    "bundle's", "image's", "registry's", "deny all", "mount", "network", "net", "kernel",
    "NOFILE", "CORE", "/run", "/opt", "/bin", "/usr/bin", "/etc/resolv.conf", "/dev/shm",
    "/dev/dri", "/dev/video0", "/dev/gone", "/sys/fs/cgroup"}
SomeDefaultCaps == {"CHOWN", "NET_RAW"}
SomeDefaultPath == <<"/usr/bin", "/bin">>

NoRules == [given |-> FALSE, list |-> <<>>]
OwnRules(list) == [given |-> TRUE, list |-> list]
Limit(type, by, n) == [type |-> type, by |-> by, n |-> n]

Plain == [readonly_root |-> FALSE, infra |-> "unset", volumes |-> <<>>, tmpfs |-> <<>>,
          shm_size |-> "unset", cgroup_view |-> FALSE, resources |-> NoRules, devices |-> <<>>,
          env_file |-> <<>>, env |-> <<>>, user |-> <<>>, rlimits |-> {},
          cap_add |-> {}, cap_drop |-> {}, sysctl |-> {}, no_new_privileges |-> TRUE,
          seccomp |-> "unset"]

Volume(d) == [src |-> d, dst |-> d, makeable |-> d # "/etc/resolv.conf"]

\* Everything that mounts something, at destinations of every other.
Mounting ==
  {[Plain EXCEPT !.infra = i, !.volumes = v, !.tmpfs = t, !.shm_size = s,
                 !.cgroup_view = g, !.devices = d] :
     i \in {"unset", "lan"},
     v \in {<<>>, <<Volume("/run")>>, <<Volume("/etc/resolv.conf"), Volume("/dev/shm")>>,
            <<Volume("/sys/fs/cgroup"), Volume("/dev/dri")>>, <<Volume("/run"), Volume("/run")>>},
     t \in {<<>>, <<"/run">>, <<"/dev/shm">>},
     s \in {"unset", "64m"}, g \in BOOLEAN,
     d \in {<<>>, <<"/dev/dri">>, <<"/dev/video0">>, <<"/dev/dri", "/dev/gone", "/dev/dri">>}}

\* Devices with and without device rules of the registry's own.
Allowing ==
  {[Plain EXCEPT !.resources = r, !.devices = d] :
     r \in {NoRules, OwnRules(<<>>), OwnRules(<<"deny all">>), OwnRules(<<"/dev/video0">>)},
     d \in {<<"/dev/video0">>, <<"/dev/dri", "/dev/video0">>}}

Processes ==
  {[Plain EXCEPT !.env_file = f, !.env = e, !.rlimits = r, !.user = u] :
     f \in {<<>>, <<"file">>, <<"missing">>},
     e \in {<<>>, <<[key |-> "PATH", value |-> <<"/bin">>]>>},
     r \in {{}, {Limit("NOFILE", "registry", 1)},
            {Limit("CORE", "registry", 1), Limit("NOFILE", "registry", 2)}},
     u \in {<<>>, <<1000>>, <<1000, 100, 44>>}}

Confined ==
  {[Plain EXCEPT !.cap_add = a, !.cap_drop = d] :
     a \in SUBSET Caps3, d \in SUBSET (Caps3 \cup {"ALL"})}
  \cup {[Plain EXCEPT !.infra = i, !.sysctl = y, !.seccomp = p, !.readonly_root = TRUE] :
         i \in {"unset", "lan", "dmz"}, y \in SUBSET {"net", "kernel"},
         p \in {"unset", "unconfined", "valid", "invalid"}}

SomeSettings == Mounting \cup Allowing \cup Processes \cup Confined

Bundle(readable, ms, ns, caps, env, executable) ==
  [readable |-> readable, executable |-> executable,
   config |-> [readonly |-> FALSE, ns |-> ns,
               mounts |-> {Mount(ms[i], "bundle", i) : i \in DOMAIN ms},
               resources |-> IF ns = <<>> THEN NoRules ELSE OwnRules(<<"image's">>),
               nodes |-> <<>>, env |-> env,
               user |-> [uid |-> 0, gid |-> 0, more |-> <<>>],
               rlimits |-> {Limit("NOFILE", "bundle", 1)},
               caps |-> caps, sysctl |-> {}, nnp |-> FALSE, dir |-> "bare",
               seccomp |-> "bundle's"]]

Own(type) == [type |-> type, path |-> "unset"]
NoCaps == [explicit |-> FALSE, set |-> {}]
ImagePath == <<[key |-> "PATH", value |-> <<"/opt", "/usr/bin">>]>>

SomeImage ==
  {Bundle(TRUE, <<"/run", "/dev/shm", "/sys/fs/cgroup">>, <<Own("mount"), Own("network")>>,
          NoCaps, ImagePath, {"/usr/bin"}),
   Bundle(TRUE, <<"/etc/resolv.conf", "/dev/dri", "/run">>, <<Own("mount")>>,
          [explicit |-> TRUE, set |-> {"CHOWN", "SYS_ADMIN"}], ImagePath, {"/bin"}),
   Bundle(TRUE, <<>>, <<>>, NoCaps, <<>>, {"/bin", "/usr/bin"}),
   Bundle(FALSE, <<>>, <<>>, NoCaps, <<>>, {})}

SomeHost ==
  {[resolv |-> r, sources |-> {}, cgroup |-> g, devdirs |-> {"/dev/dri"},
    devnodes |-> {"/dev/video0"},
    files |-> [file |-> <<[key |-> "PATH", value |-> <<"/usr/bin">>]>>]] :
     r \in {{}, {"lan"}}, g \in BOOLEAN}
=============================================================================
