# A TLA+ model of uxcd

uxcd is a container supervisor for OpenWrt. One daemon, a single `uloop` thread,
serves the ubus object `uxcd`, launches every container as a `ujail` child, and
keeps it in the state its user asked for. This directory holds TLA+ modules of
the daemon, TLC configurations that check them on small instances, and TLAPS
proofs of what matters most.

Line numbers are those of `src/container.cpp` unless another file is named.

## 1. The system

| component | state it keeps | operations | talks to |
|---|---|---|---|
| supervision (`container.cpp`) | `containers`: per name the wanted state, the jail's pid, crash count, dependency and infra wait windows; timers in uloop | `start`, `stop`, `restart`, `launch`, the exit callback, relaunch and grace timers, adopt and infra watchdogs, `init` | `ujail` children by fork, signal and reap; the registry; cgroups; netifd through `ifup` |
| registry | `/etc/uxc/<name>.json` with `.json.bak` and `.json.tmp`, one set per container; the bundles `<path>`, `<path>.prev`, `<path>.rollback-tmp`; `auth.json` | `create`, `setconfig`, `remove`, `rename_container`, `rollback_swap`, `prune`, `registry_set`, `registry_remove`; `docker2uxcd` and `uxc enable` write it too | read again by every `launch` and by `dep_cycle`, and by `init` |
| shared network namespaces (infra) | what netifd has up | `ensure_infra`, `infra_watchdog`; `netifd/netns.sh` creates and removes | gates `launch`; members are restarted after an outage |
| healthchecks | `health`, `hc_fails`, a worker process per cycle | `run_health_check`, `health_worker_exit_cb`, `apply_health_verdict` | gates dependents in `launch`, restarts an unhealthy container, decides a safe upgrade |
| jobs and upgrades | `jobs`, `updates`, the bundle, its `.prev` backup, the recorded image and digest | `job_start`, `upgrade`, `job_exit_cb`, `watch_health`, `rollback`, `job_cancel`, `prune` | `docker2uxcd` children; `restart`; `setconfig` |
| published ports | `fwd_pid`, `fwd_restarts` | `start_port_forwards`, `fwd_exit_cb`, `adopt_port_forwards` | `tcpredir` children |
| scheduler | the last minute each rule fired in; the rules themselves are the containers' | `run_scheduler`, `cron_match` | `start`, `stop`, `restart`, `check_updates`, past the lock of the ubus methods |
| exec, console | one worker per call | `exec_async`, `exec_timeout_cb`, `console` | `uxe`, `ttyd` children |
| launch configuration | none | `build_launch_config` | writes the bundle `ujail` reads |
| logs, events, credentials, doctor, metrics | files, a ring of events | append, rotate, report | read-only for the rest, but for the notify script |
| command line (`uxc.cpp`, `compose.cpp`), LuCI | none in the daemon | clients of the ubus object | |

### What is hard

*Ordering inside one callback.* `launch()` starts dependencies by calling
`start()`, which calls `launch()`: a recursion over a user's graph, cycles
included, while the caller iterates a vector that a second `launch()` of the same
container would reload.

*Timers that outlive their reason.* A relaunch timer holds only a name. Between
its creation and its firing the container may be stopped, removed, renamed,
started by hand or by a dependent, or be running already. A grace timer must kill
one instance and not its successor.

*Two views of one fact.* The in-memory entry and the registry file; a pid and a
populated cgroup; the namespace a jail joined and the namespace of that name that
exists now.

*Restarts of the daemon.* Everything the daemon knows but the registry is lost.
It finds its containers again by name and cgroup. Jails go on, stop, or are still
starting meanwhile.

*Progress.* Every wait (dependency, infra, mount, backoff) is a timer that
somebody must have armed, and is meant to be bounded.

For each component, what makes it correct:

- supervision: a container wanted up has somebody who will launch it or a stated
  reason why not; a stop wins over every timer; never two jails of one name; a
  dependency is ready before its dependent unless the wait was given up; a cycle
  delays nobody; an infra member is not left on a dead namespace.
- registry: the file and the entry agree after every operation; a crash leaves
  either the old or the new registration; references follow a rename.
- healthchecks: a verdict belongs to the instance that was probed; the retry
  count is of consecutive failures of one instance.
- jobs and upgrades: one upgrade of a container at a time; the recorded image
  describes the live bundle; a failed upgrade ends on the bundle it started from.
- ports: a forwarder lives exactly as long as its container; the respawn limit
  holds.
- scheduler: a rule fires in each minute its expression names, once.
- launch configuration: what `ujail` gets is what the image and the registry say
  together, with no destination or limit twice and no section undoing another.

`PROJECT.json` lists the hazards line by line with the properties that cover
them, and say why where none does.

## 2. Modules

| module | what it is |
|---|---|
| `Supervision` | the abstract specification: which containers are wanted, how many jails of a name run, which will be killed if they do not go |
| `Supervisor` | the supervisor: commands, `launch()`, exits, timers, watchdogs, the registry, daemon death and boot, jails and netifd as environment; its properties and its inductive invariant; it implements `Supervision` |
| `MCSupervisor` | the configurations the runs register and offer |
| `SupervisorProofs` | type correctness, the inductive invariant, the safety invariants, the three action properties and the refinement, proved |
| `SafeUpdate` | upgrades of one container: jobs, bundle rotation, provenance, the health watch, rollback, and what users, the update check and a daemon death do meanwhile; the supervisor is reduced to "restart signals or launches, now or later" |
| `MCSafeUpdate` | its instance for TLC |
| `SafeUpdateProofs` | its type correctness and its three safety properties, proved |
| `Attendants` | what uxcd keeps beside one running container: the health cycle with its forked worker, the `tcpredir` forwarder with its respawn limit, and what an exit, a daemon death and an adoption do to both; a launch is reduced to "some time while wanted up" |
| `AttendantsProofs` | its type correctness, and that verdicts fall on the instance they are of, proved |
| `NetnsProto` | one shared network namespace: `netifd/netns.sh` command by command, netifd around it, two members that uxcd launches into it, and the kernel's lifetime of namespaces and veth pairs |
| `NetnsProofs` | its type correctness, and what the scripts leave and spare, proved |
| `Sessions` | the processes a call leaves behind: exec workers with their timeouts and capture files, browser consoles with their reaper |
| `SessionsProofs` | its type correctness, and that answers and consoles in use are left alone, proved |
| `Registry` | the abstract specification: a map from names to entries, the bundles and the credentials; each request one step, and the outcomes a request that is cut short may leave |
| `RegistryFiles` | the same requests as system calls on the files, any of which may fail, with the daemon's death between any two; it implements `Registry` |
| `MCRegistry` | its instance for TLC |
| `RegistryProofs` | that `RegistryFiles` implements `Registry`, and its other two properties, proved |
| `LaunchConfig` | `build_launch_config` section by section and entry by entry, each on what the ones before it left |
| `MCLaunchConfig` | its instances for TLC |
| `LaunchConfigProofs` | its three properties for lists of any length, proved |
| `Scheduler` | cron matching, the poll, the fire times, and what reads the rules anew in between |
| `MCScheduler` | its instance for TLC |
| `SchedulerProofs` | its type correctness, the arithmetic of cron expressions, and that rules are served, proved |

The modules meet where one reduces the other. A health cycle is one verdict in
`Supervisor` and its worker, its budget and its retries in `Attendants`; a job is
the registration it makes in `Supervisor` and the whole upgrade in `SafeUpdate`;
the launch that those two take for granted is `Supervisor`; a namespace that comes
or goes in one step there is a script of nine commands in `NetnsProto`; a request
that writes the registry is one action there and a sequence of renames and unlinks
in `RegistryFiles`, a rollback one step in `SafeUpdate` and three renames and a
`setconfig` in `RegistryFiles`; a rule that `Scheduler` acts on, an upgrade that
`SafeUpdate` ends and a watch that rolls back are an errand in `Supervisor`.

### How `Supervisor` corresponds to the code

| variable | code |
|---|---|
| `ctr[c]` | the `Container` in the `containers` map; `known` is membership. `cfg` holds the fields `apply_config` sets that control depends on. `dep_wait`, `infra_wait`: `dep_wait_since`, `infra_wait_since` as none, waiting, expired. `parked` is an auxiliary field: why nobody holds a timer for a container wanted up |
| `stack` | the `launch()` frames of the running callback: the container, the index of the dependency it looks at, `dep_timeout`, and whether it will defer when the call to `start()` returns |
| `relaunch[c]` | how many `schedule_relaunch` tasks of that name are pending; `MaxTimers` means that many or more |
| `grace` | containers with a pending `signal_and_reap` task for the current pid (a task for an older pid does nothing) |
| `jail[c]` | the `ujail` the entry's pid names: forked but not yet in its cgroup (`starting`), `up`, or `dead` and not yet reaped; the namespace it is in (`orphan` once that was torn down); whether it was signalled |
| `left[c]` | another live `ujail -n c` that no entry knows of |
| `reg[c]` | `/etc/uxc/<c>.json`; `NoFile` when there is none |
| `netns`, `asked` | namespaces that exist; interfaces an `ifup` was sent for |
| `daemon`, `todo` | not running, inside `init()` with the names its autostart loop has left, or in `uloop` |
| `quota` | how many commands, errands (`unattended`), deaths and faults remain in the behaviour |

`start()`, `stop()` and `restart()` (`DoStart`, `DoStop`, `DoRestart`) have five callers:
the ubus methods; `run_scheduler` (`ScheduleFires`); `job_exit_cb` after an upgrade that
succeeded (`UpgradeRestarts`); `rollback`, by hand (`Rollback`) or by the watch of an
upgrade that failed (`WatchRestarts`); and `launch()`, for a dependency. The three that
nobody asks for at that moment are the `Errand`s. They may fall on any container at any
idle moment, as what they follow from (a clock, a converter, a window) is elsewhere; a
container its user has stopped is started by each of them.

uloop runs one callback at a time, so an action that starts a callback needs
`Idle`; jails and netifd move at any time, also between two steps of a
`launch()`. A handler without calls into `launch()` is one action. A handler that
launches pushes a frame, and each dependency the loop visits is one step, since
that is where `start()` recurses and where a jail may exit between two looks at a
cgroup.

Reductions. Time is a window that may pass at any moment; backoff delays are all
"some time later". A health cycle is its verdict. Required mounts, the launch
bundle, `pipe2` and `fork` fail at will, as often as `Faults` allows. `stable`
stands for `time - started >= STABLE_SECS`. Pids are not modelled: an entry's pid
names the jail it launched or adopted, so reuse of a pid is out of scope.
The ubus upgrade lock (`upgrade_locked`) is in `SafeUpdate`; in `Supervisor` a job
is the registration it makes (`JobRegisters`), and what its success sets off is an
errand (`UpgradeRestarts`), with the provenance that `setconfig` writes before
(`Redescribed`).

`Supervision` is what all this is for, without dependencies, networks, timers or the
registry: per container it may be told something (which dooms what runs when it is no
longer wanted, and never undoes that), be launched (only if wanted and with nothing of
its name running), or end; the daemon dies, and returns wanting what runs. `Supervisor`
maps `copies` to the jails of the name that live, known or not, `wanted` to `desired`,
and `doomed` to the grace timers whose jail still lives.

### How `SafeUpdate` corresponds to the code

| variable | code |
|---|---|
| `live`, `prev` | the version of the bundle in `<path>` and in `<path>.prev` |
| `built` | the registry file has a `build` block, and then neither `image` nor `digest` (`docs/configuration.md:143`, taken for what the converter writes) |
| `rec`, `prec` | `image`/`digest` and `prev_image`/`prev_digest` of the registry file (`build.base`/`base_digest` for a built bundle); a version stands for both |
| `job[j]` | the `Job` numbered `j` and its converter: `st` is how far the converter got, `run` is `j.running`, `upgrade` stands for `restart_after` with `safe_update`, `from` for `prev_image`/`prev_digest`, `None` where both are empty and nothing is recorded of them (2614). `over`, `lost`, `meddled` only serve the properties |
| `watch[j]`, `base[j]` | the `watch_health` task of that job and its `after_started`; `expired` once its deadline passed |
| `last` | `last_update` |
| `inst`, `launches`, `desired` | the running instance with the version it was launched from, `started` counted in launches, and whether its verdict is healthy; what the container is wanted to be |
| `checking`, `avail` | `update_check_running`, `updates[name].available` |

`job_exit_cb`, `rollback`, and the done callback of a watch are one action each,
with the swap of bundles, the swap of provenance and the restart in it. The
converter is external: it rotates, registers and exits as separate steps of a
process of its own, fails by itself only before it rotates, and can be ended
anywhere by a cancel. It runs on when the daemon dies; the next daemon does not
know it. Which version an image reference yields is the environment's choice;
`Built` are the versions that come of a Dockerfile. An upgrade repeats the build or the
pull that the registry records, or pulls the image in the request whichever it was:
then a built container has no `image` to hand on (`Origin`).

### How `Attendants` corresponds to the code

| variable | code |
|---|---|
| `cfg` | `hc_start_period > 0` and `on_unhealthy: restart`, fixed in a behaviour |
| `daemon` | uxcd runs |
| `c` | the entry: `pid` as the number of the instance, `adopted`, `wanted` for `desired == UP`, `young` for `time - started < hc_start_period`, `health`, `fails` for `hc_fails`, `task` for the scheduled health task; `worker` is the instance `hc_worker` probes, `its` that it was an adopted one, `probe` what it found; `fwd` for `fwd_pid`, `restarts`, `err` for `fwd_error`; `leftover` for an `fwd_proc` that uloop still lists after its process was reaped elsewhere; `respawn`, `retry` and `check` are the pending tasks of `fwd_exit_cb`, `start_port_forwards_deferred` and `start_port_forwards` |
| `jail`, `term` | the instance that runs and that it was told to go |
| `orphan` | a `tcpredir` of an earlier daemon holds the host port |

uloop serves expired timers before it reaps children. That order matters once: the
check a second after a forwarder's start (`CheckFires`) may reap it with `waitpid`
before uloop saw it exit, and then `fwd_exit_cb` never runs and the next start
clears an `fwd_proc` that is still linked. The model takes that as a crash of the
daemon (`Starts` with `leftover`).

Reductions. Resource checks and probes succeed or fail at will. Whether a
forwarder can start (an address, `tcpredir`, a fork) is a choice of each attempt. A
forwarder that finds the host port taken exits, which costs no fault.

### How `NetnsProto` corresponds to the code

Line numbers are those of `netifd/netns.sh`.

| variable | code |
|---|---|
| `pc` | the command of `proto_netns_setup` (`clear` 121, `add` 122, `unlink` 132, `veth` 133, `move` 139, `address` 140, `master` 169, `resolver` 184, `update` 198) or `proto_netns_teardown` (`delete` 230, `delink` 231, `forget` 232) that is next, or how the last script ended |
| `again`, `asked` | netifd sets the interface up after this teardown; an `ifup` of uxcd waits for netifd |
| `cfg` | `ipaddr` and a netmask are there (`valid`), `mode` bridged, `dns` given, chosen anew for each setup |
| `name` | which namespace `/var/run/netns/<name>` is |
| `dev` | the host's link called `<device>`: a veth with its peer's namespace, whether that is addressed and the link in the bridge; or a link of somebody else, a veth (`foreign`) or not (`host`) |
| `resolv` | `/etc/netns/<name>/resolv.conf` exists |
| `mem[m]` | a member: launched and not yet in a namespace (`forked`), or `up` in namespace `ns`; told to go |

netifd and the kernel are external. netifd runs one script of an interface at a
time; a request that comes during a setup ends the script between two commands and
runs a teardown. A namespace lives while it has a name or a member, and its pair
with it; the kernel removes both some time after. The commands the script checks
(122, 133, 170) may fail; the others are taken to succeed, `ip netns delete` among
them. Options without an address or a netmask are refused before anything is touched
(102-116): a name that an earlier setup left is then still there after the failure
(`RejectConfig`). `delete_if_veth` (81) asks whether a link is a veth and not whose: a
veth of somebody else goes like ours (`DeletedIfVeth`). The name and the device are
constants of a behaviour, nobody else deletes a namespace, and no script outlives netifd.

### How `Sessions` corresponds to the code

| variable | code |
|---|---|
| `call[k]` | an exec call and its `ExecCtx`: worker running, dead and not reaped, or the call answered; `at` the second in `outpath`; `tmo` the pending `uloop_timeout`; `own` whether the answer was the call's own output |
| `file`, `wrote` | the capture file of each name, by the call that created it, and whose output it holds |
| `con[s]` | a `ttyd`: its port, a browser is attached, `idle` for `CONSOLE_IDLE_S` since `started`; what its browser was told by `console_active`; `after`, the entries of `console_procs` it was pushed behind |
| `procs`, `reaping` | the entries of `console_procs`, whose order the `after`s say; `console_reaper_running` |
| `user` | a behaviour has exec calls or consoles: they share nothing but the daemon |

A `ttyd` that does not listen in time is killed before it is listed (`ConsoleFails`).
A file that was removed and made again is another file, to which an earlier worker
does not write. The capture is the set of calls that wrote to it.

### How `RegistryFiles` corresponds to the code, and to `Registry`

| variable | code |
|---|---|
| `json`, `bak`, `tmp` | the three files of each name: an entry (its path, dependencies, `image`, `prev_image`), none, or one without a configuration (`Blank`) |
| `auth` | `auth.json` and its `.tmp` |
| `bundle` | what `<path>`, `<path>.prev` and `<path>.rollback-tmp` hold; `Torn` is a directory of which a part is gone |
| `op` | the request and the system call that is next; for a rename the dependents, for a prune the backups that are left |
| `put` | the `setconfig` that the request is in |
| `before` | auxiliary: the registry when the request began |
| `quota` | requests, deaths and failing calls left |

The abstract variables are those of `Registry` as users may rely on them: what was
there when the request began, until it is over (`Known`). So a request that
succeeds is one step of `Registry`, all the calls before its last one stutter, and
a request that is cut short is a step of `Registry!Cut`, which lists what may be
left. `Cut` takes a failure or a death to have happened (`trouble` shrinks), so
that a request in which nothing fails can only be served. The list is the point of
the module: it is what the code leaves and nothing else, for instance a rename that
left the entry under both names, with the dependents repointed, some of them, or none.

Any call may fail. A return value that is looked at ends the request, one that is not
(the backup of `setconfig`, both unlinks of `remove`, the writes of a rename's copy and
of `write_auth`, a rename's unlink of the old file and its `opendir`, the `setconfig` of
each dependent) does not: a `remove` whose unlink fails succeeds with the entry listed.
The next life of the daemon lists what ends in `.json`; nothing reads `.bak`,
`.tmp` or `.rollback-tmp` again, so a death only forgets the request. The
converter's own writes and the command line client's are not here, nor is the
refusal to rename a container that runs (`Supervisor`).

### How `LaunchConfig` corresponds to the code

| variable | code |
|---|---|
| `c`, `image`, `host` | the settings of the `Container`, the bundle, and what `stat` and `ifstream` find on the host: constant in a behaviour |
| `cfg` | the `JSON cfg` that the function fills: namespaces, mounts, device rules and nodes, environment, user, limits, capabilities, sysctls, `seccomp`, and the directory of the program |
| `at`, `k` | the section the function is in (`Order` lists them), and how many entries of the section's list its loop has done |
| `made` | the directories `mkdir_p` made for volumes |
| `out` | not over, `config.json` written, or the launch failed |

A section that does not loop is one step, one that goes through `volumes`, `tmpfs`,
`devices` or `env_file` a step for each entry (`Entry`) and one that ends it
(`Ended`). A section that fails writes nothing (`Refuse`). Where the order of a list says
nothing it is a set of its entries: a mount is its destination, who asked for it and
which entry of that list it is, so that two equal ones stay two; a limit likewise.
`linux.resources` is only its `devices`, a list, since their order is what the cgroup
goes by; a rule is the path it stands for, one for a directory standing for those of the
majors in it. Paths, names and sizes are `Strings`; a setting that is not given is
"unset". `LaunchAssumption` says what the settings, a bundle and the host may be: records
of these types, with lists of any length. Sizes, formats, options and the probing of a
device are data.

### How `Scheduler` corresponds to the code

| variable | code |
|---|---|
| `cal`, `now` | the clock, and what `localtime_r` makes of each minute |
| `poll` | when the timer of `start_scheduler` is due |
| `file`, `rules` | the `schedules` of the registry files; `c.schedules` as last read |
| `fired` | `schedule_last_fired` and `update_cron_fired`, by minute |
| `running`, `checking` | the containers that run; the update check's worker does |
| `acted`, `whole` | auxiliary: how often a rule acted in this minute and life; the rules loaded for all of it |

The timer is armed when its callback ends, so a busy daemon (`MaxLate`) shifts all
later polls. A scheduled `start` or `restart` of a container that is down launches
it, and a launch reads its rules anew in the middle of the poll; so do `setconfig`,
a relaunch and a daemon's boot. A field of a cron expression is a list of ranges
with steps, whose numbers are any that `atoi` may read; splitting the text is left out.
A rule of a file may name any action, and `apply_config` keeps the ones it knows.
The calendar is any sequence of local times, an hour that repeats included. A poll is
taken to come less than a minute after the last (`SchedulerAssumption`), as
`SCHED_POLL_MS` is half of one and a busy daemon is taken not to be late by the rest.

## 3. Runs

Every run sets `CHECK_DEADLOCK FALSE`: once commands, deaths and faults are spent
a system at rest has no step left, which is not an error.

| run | instance | shows |
|---|---|---|
| `Lifecycle` | one container with a healthcheck that restarts it and one free name; 4 commands, 1 errand, 1 death, 1 fault, `max_restarts` 1, 2 timers | `WantedIsPursued`, `StopIsEnforced`, `OnlyStartWants` under every interleaving of every command and errand |
| `Graphs` | a ring of three; a chain of three whose last has a healthcheck; 1 command; fair | the recursion ends (`NoReentry`), a ring does not wait (`CyclesDoNotWait`), a dependent waits for health (`LaunchWaitsForDeps`) but not for ever (`WantedRuns`) |
| `Outcomes` | a container with a healthcheck; two members of one infra; one container in an infra netifd does not have; any of them may be configured into that infra later; 1 command, 1 death, 1 fault; fair; the daemon dies only when every jail is in its cgroup | `ImplementsSupervision` (the refinement, of which `NoSecondCopy` is a consequence), `StopEnds`, `RemovedIsDropped`, `OutageIsNoticed`, `BadInfraGivesUp` |
| `Updates` | two jobs on one container, a good and a bad version that are built and one that is pulled; 3 commands, 1 death; fair | `RecordedIsLive`, `RollbackRestores`, `VerifiedIsNew`, `WatchConcludes`, whatever overlaps what |
| `Attendants` | one container with probes and ports; 3 instances, `hc_retries` 2, `FWD_MAX_RESTARTS` 1; 1 command, 1 death, 2 faults; fair | `VerdictIsOwn`, `WorkersEnd`, `DeadForwarderIsSeen`, `SpinEnds` |
| `Netns` | two members; 2 commands, 1 death of netifd, 2 faults; with and without a host link or a foreign veth in the way, or made meanwhile; fair | `EndsClean` (what is there after a setup, a failed setup, a teardown), `HostLinkSpared`, `OutageEnds` |
| `Sessions` | three exec calls in two seconds, or two consoles on two ports; 1 death, 1 fault; fair | `OutputIsOwn`, `InUseSpared`, `CallsAnswered`, `IdleEnds` |
| `Registry` | a container with a backup, its dependency and a free name; 3 requests, 1 death, 1 failing call | `Implements` (the refinement), `SetConfigKeeps` |
| `Launch` | groups of settings that meet (mounts, devices, process, confinement), on four images and four hosts | `MountsAsked`, `DevicesAllowed`, `ProcessAsAsked` |
| `Scheduler` | two containers and the update check; three minutes of four ticks, polls every two, up to two late; 1 edit, 1 death | `RulesServed` against a second definition of what a cron expression means |

The bounds. Each hazard needs few actors: two timers of one name to compete, a
dependent and a dependency, a ring longer than two so that `dep_cycle` has to
walk, two members of one infra. Four commands in `Lifecycle` are a start, a stop,
a change of registration and a start again with exits in between; more only
repeat. One errand falls between any two of them (`Unattended`; the other runs have
none, as a command does the same to a container). The fair runs spend their states on
several registrations instead and allow one command, death and fault each. In `Graphs` jails exit only when
signalled; free exits are in `Lifecycle`. In `Updates` three commands are two
upgrades and a rollback, or an upgrade, a pull and a rollback; two built versions are
enough for a bundle and its record to differ, and for a watch to accept the wrong
one, and a third that is pulled for an entry to say pulled of what was built. `Exits` is 0 there: the instance leaves only when told to, which the watch
cannot tell from a crash. In `Attendants` three instances are one that is probed,
one that inherits what the first left, and one after a daemon's death; two retries
make a count to inherit, one respawn makes both sides of the limit, two faults are a
forwarder that dies and its container that follows. In `Netns` two members can hold
two old namespaces while a third is made; namespaces are numbered anew when nothing
leads to them, so their number is no bound. In `Sessions` three calls in two seconds
are two that collide and one that must not suffer for it; two ports let a console
reuse one or not. In `Registry` three requests are one that is cut short, the same
again on what it left, and one more (a rollback twice, then a prune; a rename back);
one failure and one death meet in one request or in two. In `Launch` each section
that replaces, drops or refuses meets something to replace, drop or refuse, each
destination has claimants from every section before it, and a volume and a device
directory are listed twice. In `Scheduler` two ticks
of lateness make a minute of one poll, of two and of three; the three minutes are the
end of a year on a Sunday, and a Saturday into a Sunday, so that steps, ranges, day 7
and both restricted days decide differently.

### What `Updates` says about overlaps

The properties hold with every overlap allowed, because they say which jobs they
speak of. `RecordedIsLive` leaves out jobs that were *disturbed*: a plain pull, the
upgrade of a built container to a given image, a job whose daemon died, one cancelled
halfway, one during which somebody else changed the bundles. `RollbackRestores` and
`VerifiedIsNew` leave out jobs that were *meddled with* while they were converting or
watched. Each exception is needed: without it TLC finds the run that breaks the property.
One of those is kept as a run, `VRollForward`.

### Disagreements with the documentation

Two runs expect a violation; each is one property taken from a document or
comment, and a behaviour of the code that breaks it (`findings` in `PROJECT.json`
quote both sides).

| run | the code |
|---|---|
| `VRestart` | `restart` of a running container with `respawn: false` is a stop |
| `VRollForward` | a manual rollback while an upgrade is watched is undone by the watch |

Also seen while modelling, without a run of their own:

- an upgrade of a built container to an image that is given (`upgrade` with `image`)
  hands on neither a `prev_image` nor a `prev_digest` (3790: its entry has no `image`), so
  none is recorded (2614), and a later rollback swaps the bundles but not the provenance,
  or swaps in that of an older upgrade: the entry says pulled while a built bundle is
  live, though `docs/images.md:334` has it "swap along" so that the registry "always
  describes what is actually live";
- a veth of somebody else that has the device's name is deleted (`delete_if_veth`), though
  the comment above it has "a foreign same-named link is left alone";
- a rollback of a pull that was not an upgrade leaves the registry describing a
  bundle that is not live: `swap_provenance` (2434) swaps only what `job_exit_cb` of
  an upgrade recorded, though `docs/images.md:334` has the provenance "swap along";
- a setup that refuses its options (`netns.sh:102-116`) leaves a name that an earlier
  life of netifd made, and members go on being launched into it;
- `remove` reports success when its unlink failed, and the next daemon lists the
  container again (4507); a rename whose unlink failed leaves the entry under both names
  (4554);
- a member may start in a namespace that has no address yet, as `netns_exists` (1201)
  asks for the file that `netns.sh` makes first; the comment at 2102 says netifd
  addresses it before the container starts;
- the forwarder of a container that goes while the daemon restarts keeps the host
  port (2083), though `docs/networking.md:101` says a published port never outlives
  its service;
- `setconfig` leaves a moment without a file between its two renames (3484), though
  the comment at 3460 says temp and rename: a death there takes the container out of
  the list, and nothing reads its `.bak`;
- a rename on a full filesystem replaces the entry by a blank file: the copy's write
  is not checked (4546) before the original is unlinked; `write_auth` (547) loses
  every credential the same way;
- after a rollback that failed or was cut at its second or third rename, the bundle is
  in `<path>.rollback-tmp`, and every later rollback fails at its first rename (2418);
- a prune that is cut short leaves a part of a backup (4290), which a rollback later
  puts in place of the live bundle;
- `uxc enable` rewrites the registry file in place, from what it read before
  (`uxc.cpp:218`): a `setconfig` in between is lost;
- the infra's `resolv.conf` is appended beside one the image mounts itself (1375),
  though "two mounts with the same destination make ujail reject the whole OCI spec"
  (1410); so does a device directory that `devices` lists twice: what is mounted there
  is dropped once, before the loop that mounts (1501, 1558);
- a limit type that `rlimits` lists twice is passed on twice (1641), as only the
  bundle's are looked at;
- a PATH of the registry or of an `env_file` does not change where a bare command is
  looked up (1731), though inline entries win in the environment;
- a scheduled `start`, `stop` or `restart` goes past the lock of an upgrade, which is
  in the ubus methods only (2339);
- after a daemon restart a scheduled rule may act a second time in its minute, as the
  fire times are in memory;
- a container that its user stopped and that is still in its grace period when the
  daemon restarts is adopted as wanted up (3039);
- the entry of a removed container that had been re-adopted is never dropped, as
  `adopt_watchdog` does not look at the registry (`RemovedIsDropped` therefore
  excludes adopted ones);
- a `docker2uxcd` job that rewrites the registry while a `launch()` is between two
  dependencies changes what `dep_cycle` and the rest of that launch go by: a container
  may wait for one that waits for it, or be forked before a dependency that it passed
  over as being on a cycle (`JobsWait` in section 5 excludes it);
- a daemon that dies between the fork of a jail and the jail's entry into its
  cgroup starts it twice (`CleanDeaths` excludes that for `ImplementsSupervision` and
  `NoSecondCopy`);
- `start` refuses a container that was registered after its first, failed, start;
- a namespace that goes and returns between two watchdog ticks, or a member that
  ignores the watchdog's SIGTERM, leaves members on the orphan;
- a health watch is lost with the daemon, so an upgrade may end neither verified
  nor rolled back;
- dependents of a renamed container start without it, as the new name is not in
  memory;
- a mistyped infra is retried for ever if the container was ever launched without one or
  in another: `infra_was_up` is set by that launch (2901), and `BadInfraGivesUp` speaks of
  the others;
- a container that was healthy and breaks within `start_period` stays healthy until
  the period is over (1021), though `docs/configuration.md:174` ends it at a passing
  probe;
- two exec calls of one container within a second share one capture file, so their
  outputs mix (963);
- a command that ended just before its timeout was served is reported as timed out
  (946); a pipe or fork that fails leaves the capture file;
- `console_active` of a reused port answers for the console that had it before; a
  console is forgotten when the daemon restarts, and never ended if nobody connects;
- a `restart` after a `stop` that interrupted a dependency wait does not wait;
- `hc_fails` of an instance that exits between two cycles counts for the next one;
- when the pipe or the fork of a health worker fails the resource checks decide
  alone, so a container with probes only is called healthy;
- the worker of an adopted instance is not cancelled when `adopt_watchdog` sees it
  go, and its verdict falls on the next instance (`VerdictIsOwn` excludes it);
- a forwarder reaped by its own check is not put back, its error is only reported;
- a container its user stops during a watch counts as unhealthy; the rollback
  restarts it. So does an upgrade with a container that was stopped before or during its
  job (2621).

## 4. Fairness

`FairSpec` assumes: a callback that began runs to its end (`CallbackRuns`, weak);
uloop serves each expired timer, each dead child and each watchdog tick though
other callbacks come between (`UloopServes`, strong, because every callback
disables the others while it runs); procd respawns the daemon and `init()` runs
through (`DaemonReturns`); time passes, a forked jail either starts or dies, and
netifd answers an `ifup` for an interface it has (`WorldMoves`). Nothing is
assumed of users, of a running jail's exit, or of its obedience to a signal.

`SafeUpdate!FairSpec` assumes only that the poll task of a watch is served and
that its window passes (weak: uloop calls the task every second, and nothing
disables it). Nothing is assumed of the container, the converter or the users.

`Attendants!FairSpec` assumes, weakly, that uloop reaps a dead forwarder or worker,
serves the respawn task and the worker's kill task, and that a forwarder which
cannot bind exits. The daemon need not return, a hanging probe need not end, and
the health task need not run: no property rests on them.

`NetnsProto!FairSpec` assumes, weakly, that netifd runs its scripts and serves an
`ifup`, and that the watchdog ticks. uxcd's requests are seconds apart and a script
takes less, so that a request in the middle of one is rare: it costs a command.
Otherwise every setup could be ended by the next request, for ever.

`Sessions!FairSpec` assumes, weakly, that uloop serves timeouts and the reaper and
reaps a worker, that the idle time passes, and that a `ttyd` told to go goes. No
command of a user need end.

`RegistryFiles`, `LaunchConfig` and `Scheduler` state no fairness: their properties are
about what a step or a minute may do, and a minute is over when the clock says so,
whether the daemon polled or not; that it is not later than `MaxLate` is a guard of
`Tick`.

## 5. Proofs

`SupervisorProofs` proves, for any set of containers and infras, any registry and
any quotas:

- `TypeCorrect`: `TypeOK` is an invariant,
- `PursuedAlways`: `WantedIsPursued` is an invariant,
- `StopEnforced`: `StopIsEnforced`,
- `NeverReentered`: `NoReentry`, for every dependency graph,
- `OneCopy`: `NoSecondCopy`, assuming `CleanDeaths`.

The last four follow from `Inductive`: `Spec => [](TypeOK /\ SupervisorInv)`. None of
them is inductive by itself:

- `WantedIsPursued` speaks of idle moments. In the middle of a callback the
  container being launched has no timer; `Pursued` adds "or it is on the stack".
- `NoReentry` needs to know why `start()` does not come back to a frame: every
  container on the stack is wanted up (`LaunchingIsWanted`), and `PullUp` starts
  only containers that are not.
- `LaunchingIsWanted` also says a container being launched has no pid, which makes
  `LaunchForks` overwrite none.
- `NoSecondCopy` needs that an entry's pid and its jail go together
  (`PidsMatchJails`), that a dead daemon left only jails the next will find
  (`DownIsEmpty`), and so that `left` stays empty (`NothingLeftBehind`).

`SupervisionIsImplemented` is the refinement: `CleanDeaths /\ Spec =>
ImplementsSupervision`. Beside `SupervisorInv` it needs `Own` of every container: a grace
timer is pending only for an entry that has a pid, so that the instance launched next has
none yet, and an adopted jail was up, so that an empty cgroup means it is gone. Most steps
are then one of two kinds for each container, `Quiet` (its jail and its timer stay, and if
it is no longer wanted there is a timer or nothing to kill) or `Cleared` (an exit handler
found its jail gone), and both are a `Told` of `Supervision`; left are the fork, the end
of a jail, the death and the return of the daemon.

The proofs have one step per action and under it one per conjunct the action can
disturb. The assumptions are `SupervisorAssumption`, which TLC evaluates in every
run.

Three theorems are about steps:

- `StartWants`: `OnlyStartWants`, with no further hypothesis: a stop is undone only by
  those who call `start()` or `restart()`, which are commands, errands and the launch of
  a dependent, and never by the supervision itself. Its lemmas go through the
  actions by what they may do to `desired` (`Touched`, `LaunchTouches`, and one lemma
  per group that its steps are *timid*).
- `CyclesNeverWait`: `Spec /\ JobsWait => CyclesDoNotWait`.
- `DepsComeFirst`: `CleanDeaths /\ Spec /\ JobsWait => LaunchWaitsForDeps`.

The last two need `FramesOK`, an invariant of the frames of the running callback: a
container being launched has the configuration the registry holds; the dependencies
its loop has passed are still met, unless it is late; and a frame that will defer has a
dependency that is on no cycle with it. The second part is the hard one: between the
look at a dependency and the fork lie the launches of all its other dependencies, which
may themselves start, wait, give up or crash, and a jail may exit at any time. It holds
because uloop reaps nothing in the middle of a callback (`MidCallback`), so that an entry
keeps its pid, and a pull never touches a container that is up. `JobsWait` says that no
job registers a container while a callback runs. Without it both are false, and TLC
shows it on the instance of `Graphs` with three commands and a registration a job may
make: the file is rewritten between two steps of one `launch()`, and `dep_cycle` changes
its answer. `CleanDeaths` is there because a jail that a dead daemon left
behind counts as alive to `cgroup_alive` and may exit in the middle of a callback.

`RegistryProofs` proves, for any names, bundles, entries and found registries, any
number of requests, deaths and failing calls:

- `RegistryIsImplemented`: `Spec => Implements`, that is, every behaviour of the files
  is one of `Registry` under the mapping `Known`: a request shows when it is over;
- `FilesAreTyped`: `TypeOK`,
- `SetConfigKeepsEntries`: `SetConfigKeeps`.

`Implements` says nothing of the middle of a request, so its invariant `IInv` has to.
It records how far the files are from `before` at each place of each kind of request
(`SetConfigPart` to `AuthPart`), and that a difference the request did not ask for
needs trouble since it began (`Hurt`). `Replaced` is what `setconfig`, a rename and a
rollback share: where an entry is while it is being replaced. A step within
a request leaves `Known` alone (`Hidden`); one that ends it is a step of
`A!Served` if what it leaves is what was asked for, and of `A!Cut` otherwise
(`ShownServed`, `ShownCut`). What a death leaves is read off the same parts as what a
failing call leaves, in one lemma per kind (`SetConfigShown` to `AuthCutShort`). The
assumption is `RegistryFilesAssumption`. The steps of `SetConfigKeeps` need the same
invariant: creating and publishing write only where nothing was.

`SafeUpdateProofs` proves, for any versions, any number of jobs, commands, deaths and
exits, with or without a health watch and automatic upgrades, whatever overlaps what:
`UpdatesAreTyped` (`TypeOK`), `RegistryDescribesLive` (`RecordedIsLive`),
`RollbackIsToWhatWasReplaced` (`RollbackRestores`) and `VerifiedUpgradeIsLive`
(`VerifiedIsNew`). None is inductive. `Provenance` says what an undisturbed job knows
that the registry does not yet: from its rotation to its end the backup is `job.from`
and not `prec`, and at most one job is there, although upgrades may overlap. A job that
records nothing (`from` is `None`) is a disturbed one: `prec` stays what it was, of an
older bundle or none. `OverIsBack` says that a job nobody meddled with finds its own
version live and what it replaced in `.prev`, or a prune took that. `LaterIsNew` says
that an instance launched after a watch began is of the live bundle, which is why
`after_started` keeps the lingering old instance from passing for the new one. The
assumption is `SafeUpdateAssumption`.

`NetnsProofs` proves, for any finite set of members and any number of commands, deaths
and faults: `NetworkIsTyped`, `ScriptsEndClean` (`EndsClean`) and `HostLinkIsSpared`
(`HostLinkSpared`). `EndsClean` speaks of scripts that ended, so `SetupMade` and
`TeardownTook` say for each command what the script has achieved when it gets there,
whoever cut the scripts before it short. That the members' namespaces never use up the
numbers is a counting argument (`FreshSpace`), which is what the assumption that
`Members` is finite is for. A setup that refuses its options changes nothing, and
`FailedIsAbsent` excepts it. `HostLinkIsSpared` is of links that are no veth.

`AttendantsProofs` proves, for any retries, respawn limit and quotas:
`AttendantsAreTyped` and `VerdictsAreOwn` (`VerdictIsOwn`). Its invariant says that a
worker probes the instance there is, or is left of one that had been adopted
(`WorkerIsOwn`), that instances are numbered as they come (`Numbered`, without which a
new one could be the one a worker is left of), and that nothing is known while the
daemon is gone.

`SessionsProofs` proves, for any calls, consoles, ports and length of the clock:
`SessionsAreTyped`, `AnswersAreOwn` (`OutputIsOwn`) and `ConsolesInUseAreSpared`
(`InUseSpared`). Calls share names, files and seconds, so the invariant follows each
file: it is of a call of the second in its name (`FileIsOfCall`, `FdIsOfCall`), and a
call that has its second to itself holds the file it made, with its own output in it
(`FileIsOwn`). The assumption that is used is that `None` is no call.

`SchedulerProofs` proves, for any rules, calendar, edits and deaths:
`SchedulerIsTyped` and `RulesAreServed` (`RulesServed`). Two arguments meet. `CronMeans`
is arithmetic: for every expression and every local time `CronMatch`, as the code
computes it, holds exactly when the time is in the sets the expression denotes
(division with remainder, day 7, both days restricted). And the timer: what matches and
was loaded for the whole minute, and has not fired, will be polled in it, since a poll
is due at most one period after the start of the minute (`TimerIsNear`) and no later
than `MaxLate` after that; that it fires once is `FiredIsActed`. The assumption
`PollTicks + MaxLate <= TicksPerMinute` is where the argument ends if the daemon is busy
for longer.

`LaunchConfigProofs` proves, for any settings, bundle and host, with lists of any
length: `ConfigIsTyped`, `MountsAreAsked` (`MountsAsked`), `DevicesAreAllowed`
(`DevicesAllowed`) and `ProcessIsAsAsked` (`ProcessAsAsked`). The properties speak of the
configuration as written; the invariant `IInv` says what is true of it at each section
and each entry of its list:

- `MountsSoFar`: what is mounted at each destination is what the bundle, the resolver and
  the entries that are done claim (`Below`), the later claim dropping the earlier, until
  the devices are cleared, and then what the devices done so far bind (`Bound`). It speaks
  of every destination at once, since an entry drops what is mounted at its own and must
  leave every other alone; `LastUpto` says that of the entries done the last counts;
- `RulesSoFar`: the rules the devices add stay behind those of the bundle or the
  registry. This is where the order of two sections is used, and where the mutant that
  swaps them fails;
- `NetworkSoFar`, `CapsSoFar`, `LimitsSoFar`: untouched until their section, as asked
  after it; a namespace once joined stays, which the sysctls later rely on;
- `ProgramSoFar`: the image's environment stays in front of what the sections append, so
  that its PATH is the first;
- `Typed`, `Within`: the domains, and that no list is gone through past its end.

That a first PATH and a first directory exist is `Minimum`: a set of numbers has a least
one because `<` is well-founded on them, so this needs no induction of its own. The
entries are appended by steps of the specification and not by a recursive operator, so
the induction over a list is that of the invariant. The assumption is `LaunchAssumption`.

Only model-checked are the liveness properties (`WantedRuns`, `StopEnds`,
`RemovedIsDropped`, `OutageIsNoticed`, `BadInfraGivesUp`, `WatchConcludes`,
`WorkersEnd`, `DeadForwarderIsSeen`, `SpinEnds`, `OutageEnds`, `CallsAnswered`,
`IdleEnds`), as liveness under fairness is beyond the prover here. Every invariant,
action property and refinement that a run checks is proved.

## 6. Plan

Done: `Supervisor` with `Supervision` and the proof of that refinement; `SafeUpdate`,
`Attendants`, `NetnsProto`, `Sessions`, `Scheduler` and `LaunchConfig` with the proofs of
all their safety properties; `Registry` with `RegistryFiles` and the proof of that
refinement. What could follow:

1. An abstract namespace (there or not, wired or not) that `NetnsProto` implements, and
   an abstract upgrade (atomic, ends on the new bundle or on the old one) that
   `SafeUpdate` implements where nothing disturbs it, with their proofs.
2. `RegistryFiles` with the two writers outside the daemon, `docker2uxcd` and
   `uxc enable`, between any two of its steps.
3. Container logs: the pipe, the rotation, and `detect_addr_in_use`, which reads the
   log at an exit before the pipe is drained.

### Not modelled

Doctor, metrics, list and info, LuCI and the command line clients are read-only or
presentation; events and the notify script tell what happened and nothing waits for
them; images is the converter's; `uxe` is process plumbing. The bundle's own
`config.json` and what `ujail` makes of the launch configuration are outside the
repository.
