# TLA+ models of trivialInit

trivialInit is an init system (PID 1) in C++: a set of CRTP mixins that share one
object, `InitSystem`, whose `run()` mounts file systems, sets up signals, finds and
parses systemd unit files, binds sockets, orders and starts units, and then supervises
them in an epoll loop until it is told to shut down. This directory holds models of it
that TLC checks and TLAPS proves about. Paths below are relative to the repository;
`mixins/` stands for `include/trivialInit/mixins/`.

## 1. The system

| component | state | operations | hard behaviour |
|---|---|---|---|
| Process supervision, `mixins/process.hpp` | `processes_`, `unit_to_pid_`, `exit_callbacks_`, `pending_restarts_`, `restart_counts_` | `spawn`, `track_process`, `on_child_exit`, `apply_restart_count`, `reap_children`, `drain_pending_restarts`, `stop_unit`, `active_count`; in the child `setup_child_context` | exits at any moment; counters handed from a dead process over two tables to its successor; pids recycled by the kernel; privileges given up in several calls that may fail each, with `/etc/passwd` read again for each; ids given as numbers |
| Signals and event loop, `mixins/signal_handler.hpp` | `signal_fd_`, `epoll_fd_`, `shutdown_requested_` | `SignalSetup`, `drain_signals`, `poll_once` | SIGCHLD coalesces; signals arrive during handling |
| Unit execution, `mixins/unit_exec.hpp` | `exec_order_` | `DependencyResolve`, `UnitExecute`, `start_service`, `start_mount`, `process_restarts`, `eval_conditions` | ordering with cycles, repeated and missing names; a blocking `waitpid` for `ExecStartPre` inside the event loop; failing forks |
| Sockets, `mixins/socket.hpp`, `systemd/socket_unit.hpp` | `socket_units_` (descriptors, `active_connections`), `fd_to_socket_` | `SocketBind`, `collect_socket_env`, `register_accept_sockets`, `accept_ready`, `spawn_with_socket_fds`, `close_all_sockets` | connection limits over every failure path; renumbering of descriptors between fork and exec; FD_CLOEXEC taken off and put back |
| Main program, `init_system.hpp`, `src/main.cpp`, `src/trivialctl.cpp` | – | `run`, `poll_once_with_sockets`, `maybe_fix_runtime_dirs`, `run_monitor` | order of the phases and their early returns, shutdown while events keep coming |
| File systems, `mixins/filesystem.hpp` | `mounted_`, `runtime_dirs_chowned_` | `EarlyMount`, `fix_runtime_dir_ownership`, `Shutdown`; `start_mount` of unit execution | mounts that hide or carry others, that fail, or were there before; chown only makes sense after systemd-sysusers |
| Unit discovery, `mixins/unit_scan.hpp` | list of found units | `UnitDiscovery` | priority of search paths, symlinks, templates |
| Unit parsing, `mixins/unit_parse.hpp`, `systemd/unit_file.hpp` | `units_` | `UnitParse`, `find_unit`, `all_units` | repeated keys, continuation lines, negated conditions |
| Specifiers, `src/systemd/specifiers.cpp` | – | `resolve` | applied twice to arguments |
| TUI, `mixins/tui.hpp` | windows, tab, selected row, scroll offsets | `render`, `handle_input` | viewport arithmetic at its limits, windows given back once |
| Journal, `mixins/journal.hpp` | the entries | `log`, `log_fmt` | – |

The mixins call each other through `self()` in one thread. What runs concurrently is
outside: children that exit, clients that connect, other processes that send signals or
leave orphans behind, and the clock. `run()` sees them only in its system calls. The
components interact through shared tables: `start_service` (execution) fills
`processes_` through `spawn` or `spawn_with_socket_fds`; `drain_signals` calls
`reap_children`, which erases from those tables, runs the exit callback that
`accept_ready` registered (and that lowers `active_connections`), and appends to
`pending_restarts_`; `process_restarts` drains that list and calls `start_service` again.

What makes each part correct:

- supervision: no zombie is left, no kill reaches a pid that is not ours, a unit runs at
  most once, its restart history is not lost, back-off and start limits hold;
- event loop: no SIGCHLD is lost, a shutdown request is carried through;
- execution: no unit is started before those it is ordered after, none is lost except
  through a cycle;
- sockets: connections are counted exactly; a service gets its sockets at 3, 4, … and no
  descriptor of anybody else;
- shutdown: nothing is started any more, everything gets SIGTERM before SIGKILL; mounts,
  socket files, descriptors and the terminal are given back on every way out;
- the child: privileges are given up completely or not at all, but for what a failing
  call leaves, whose result the code does not look at; variables and arguments are those
  of the unit file;
- the screen: the selected unit and the newest entries are on it.

PROJECT.json lists, under `hazards`, the places where these are at risk.

## 2. Modules

| module | models |
|---|---|
| `RestartRules` | `parse_restart_policy`, `should_restart`, the back-off delay |
| `Supervisor` (extends it) | `run()` from the phase UnitExecute to its return: supervision, signals, service starts, Accept=yes connections, shutdown, composed in one state machine with the kernel |
| `StartOrder` | abstract: what a dependency phase promises |
| `DependencyResolve` | the phase DependencyResolve; implements `StartOrder` |
| `SocketActivation` | listening descriptors from SocketBind to the exec of the service |
| `UnitScan` | the phase UnitDiscovery |
| `UnitParse` | one unit file: continued lines, sections, repeated keys, conditions, and `eval_conditions` |
| `CommandLine` | specifiers, `split_exec`, `parse_environment`, as operators on strings |
| `Pairing` (extends it) | which services a socket unit belongs to |
| `ChildContext` | RuntimeDirectory= and `setup_child_context` |
| `ServiceChild` (extends `SocketActivation` and `CommandLine`) | a service or a connection up to its exec: composes the two with `ChildContext` |
| `Filesystem` | early mounts, mount units, runtime directories and unmounts over the kernel's mount table |
| `SocketFiles` | parsing and binding of socket units and what they leave in the file system |
| `Tui` | windows, keys, scrolling, and the rows each page shows |
| `Program` | both programs from start to exit: composes `Filesystem`, `SocketFiles`, `Tui` |
| `SequenceLemmas` | facts about numbers, recursive functions, scanners and sequences that several proofs use |
| `SupervisorProofs`, `RestartProofs` (extends it), `DependencyResolveProofs`, `ServiceChildProofs` (with those about `SocketActivation`), `UnitScanProofs`, `UnitParseProofs`, `ProgramProofs` | theorems and proofs |
| `MCSupervisor`, `MCDependencyResolve`, `MCSocketActivation`, `MCUnitScan`, `MCUnitParse`, `MCServiceChild`, `MCProgram` | instances for TLC |

### RestartRules and Supervisor

The init thread is a program counter (`phase`: boot, run, grace, final, done; `pc`: the
system call it is about to make). Each system call that looks at the kernel is a step of
its own (`epoll_wait`: `Poll`; one read of the signalfd: `drain_signals`,
`SignalsDrained`; one `waitpid(-1)`: `ReapTracked`, `ReapUntracked`, `ChildrenReaped`;
one fork: `RunStartPre`, `Spawn`; one `accept_ready`: `AcceptConnection`, or
`RefuseConnection` with four ways out (`AcceptFails`, `CloseOverLimit`, `CloseUnserved`,
`ConnectionForkFails`), each of which counts up and down where the code does; the blocking
`waitpid` of `start_service`: `WaitStartPre`; the kill loops: `StopUnits`, `KillAll`), and the code
between two of them belongs to the step before it. So everything that can really happen
between two system calls can happen between two steps, and nothing else can. The
environment actions `Exit`, `Reparent`, `Connect`, `Tick`, `SendSignal` are the kernel's
part and are external.

Tables keep their names. `pending_restarts_` is a set (an entry is identified by its
unit and time); `restart_counts_` uses a zero count for "no entry"; a
`TrackedProcess` without `unit_name` stands for "not in the map". `burst_limit` and
`burst_interval_s` of a process are read from the unit file, from which `start_service`
copies them. Conditions (`eval_conditions`) are evaluated once per unit at boot against
the file system and the kernel command line: their outcome is nondeterministic where
the unit has any. Fork can always fail. `exec_order_` is restricted to services;
targets and other units change no state. Two variables are history, read by properties
only: `scheduled` (when restarts were scheduled) and `sysusers_ok`.

### DependencyResolve

The After=, Requires= and Before= lists are chosen in `Init`; one record per mention of
a unit is an edge, so a name that occurs twice gives two edges as in the code. The
iteration order of the code's hash maps is left open: the initial queue is in any order
and edges of a unit are followed in any order. `Pop` is the head of the while loop,
`Follow` an iteration of the loop over `graph[cur]`, `Return` the end.

### SocketActivation

An open file is named by its descriptor in PID 1. PID 1 opens descriptors from
`FirstFd` upwards, entries that cannot be bound take none. Units are bound in any order
and collected in any order (`socket_units_` is a hash map). The child's descriptor table
is a function on its open descriptors; `Renumber` is an iteration of its loop, with
`close` and `dup2` as external operators; `Exec` closes what has FD_CLOEXEC. PID 1 waits
for the child to reach exec in the model; their descriptor tables are separate from fork
on, so the order does not matter.

### UnitScan

The file system is chosen in `Init`: which names each search directory holds, and which
links its `.wants` and `.requires` directories hold. `OpenDirectory`, `PassOver`,
`Discover` and `EndOfPass` are the two nested loops; entries come in any order. A link
that cannot be read, resolved or followed leads to `None`.

### UnitParse

A file is any sequence of up to `MaxLines` physical lines; `ReadLine` takes one and
appends it to `accumulated`, and a line that does not end in a backslash hands the
logical line to `process_line`. A continued line is assumed
to have a blank before its backslash: without one the code glues the words on both sides
together. `LineAssumption` says what a line is: a header, an entry, a comment or other text over
the constant set `Word`, where only entries and comments are continued. A value is the
sequence of its words, in which `|`, `!`, `=` and brackets are words of their own, so what
a continuation appends to an empty value is looked at by `parse_condition` like any other
value. The string in `raw_sections` is the sequence of the values that
were joined with RS, so joining, `split_rs` and `split_list` are modelled by what they do
(an empty first value vanishes, a later one leaves a separator that `split_rs` skips).
`negate` is a choice where the code leaves it uninitialised. What `access`, `stat`,
`/proc/cmdline` and so on say about the tests of the unit (`Tests`) is the function
`world`, chosen when the conditions are evaluated. `after` and
`exec_start_pre` stand for the fields read as a list of words and as a list of commands.

### CommandLine, Pairing, ChildContext, ServiceChild

Strings are sequences of characters here, because scanners of characters are what the
code consists of; a few of them stand for others (`"blank"`, and `"''"` for the double
quote). Each scanner is an operator for one more character (`ReadSpecifier`, `ReadWord`,
`ReadAssignment`) and a recursive function over the text (`Resolving`, `Splitting`,
`Assigning`). `resolve` is a table of specifiers applied from left to right; one
letter stands for all specifiers that are fixed directories (`t`), one for those that are
read from the system (`H`), one for those that are always empty (`o`). `split_exec` and
`environment` keep the states of the code's scanners (quotes, backslashes).
`ServiceArgv` applies them in the order of `start_service`: resolve, split, resolve each
word again; `accept_ready` splits the command as it stands in the file.

`ChildContext` has a step for each look into `/etc/passwd` and what follows it:
`RuntimeDirectory`, `LookupUser`, `DirectoryOfUser`. `chown`, `chdir` and any of `setgid`,
`initgroups` and `setuid` may fail although their arguments are good (`faults` keeps which
did), and users may be added to `/etc/passwd` between any two steps. The function has two
ways out, and so has the model: `DirectoryOfUser` and `EnvironmentOfUser` for a user it has
found, `DirectoryOfRoot` and `EnvironmentOfRoot` for the others. A name that consists of
digits is the number it says (`number`); one that does not fit `unsigned long` (`ULong`)
makes `stoul` throw, which ends the child (`Aborted`), or PID 1 itself where
`start_service` looks it up, and one that only does not fit `uid_t` wraps around (`Ids`).
The kernel's rule that only root may change ids is external. `ServiceChild` runs
the descriptor loop of `SocketActivation` before the context, as the child does; its
steps on descriptors are `SocketActivation`'s actions, so what holds of them there holds
here for the same constants.

### Filesystem, SocketFiles, Tui, Program

`Filesystem` has a mount table that behaves like the kernel's: a path leads to the
topmost mount of its longest mounted prefix, a mount hangs on another, `MNT_DETACH` takes
the mounts that hang on it along. `kFlagMap` has every token that matters to that table,
and `Operation` the order in which the kernel looks at the flags: a remount or a change of
propagation leaves the table alone, a bind mount copies what its source leads to
(`mount_bind`, with `MS_REC` all that is mounted below it), a move takes it away from
there (`mount_move`; `moved` remembers from where), all else mounts something new.
`start_mount` compares devices to see whether a target is mounted, as the code does.
`Where=/` is a path of its own (`OverRoot`), because the absolute paths of
a running program go on starting at the directory that a mount on `/` covers, and only
`..` leads into that mount.
`SocketFiles` has the names in the file system and who made them; `unlink`, `bind`,
`listen`, `mkfifo` and `open` may fail each on its own, and `bind` makes its node under as
much of the path as `sun_path` holds (`SunPath`, 107 bytes in the code). `Tui` numbers units and entries from 0 and
computes the rows of a page with the code's arithmetic; a frame is what was drawn last.

`Program` is `run()` and `run_monitor()` as one program counter with a mode (`init`,
`test`, `monitor`) and a return code. Phases that cannot fail and touch nothing here
(UnitDiscovery, UnitParse, DependencyResolve) have no step. The services are
`Supervisor`'s; here systemd-sysusers may end at any time. `Destructors` is what happens
after `run()` returns, on whatever way.

## 3. Runs

| run | instance | shows |
|---|---|---|
| `restart` | two services (one always restarting, one on failure with two ExecStartPre commands), an orphan, SIGTERM; 4 seconds of time | `KillTargetsAreChildren`, `NoLostSigchld`, `SingleInstance`, `RestartHistoryKept`, `BurstBound`, `BackoffHonoured`, `RestartNotLost` |
| `boot` | systemd-sysusers with a condition, a bare template started only by its socket, which has two descriptors and MaxConnections=1, a socket whose service does not exist, SIGUSR1, the TUI's quit key | `TypeOK`, `GracefulStop`, `ConnectionsCounted`, `ShutdownIsFinal`, `ChownNotWhileSysUsersRuns` |
| `progress` | one service with ExecStartPre, restarts and connections of the same name, under `FairSpec` | `KillTargetsAreChildren`, `SingleInstance`, `ZombiesReaped`, `DueRestartAttempted`, `ShutdownCompletes` |
| `sysusers_doc` (violation) | as `boot` | the comment "Called after systemd-sysusers exits successfully" (filesystem.hpp:133) does not describe the code: absence from `unit_to_pid_` is enough |
| `dependency` | four units, each with any of five After= and three Requires= lists (repeated, own, missing, circular names) | `InDegreeIsOpenEdges`, `OnlyCyclesLeftOut`, `ImplementsStartOrder` |
| `before_doc` (violation) | the same units with Before= lists | README.md:97 lists Before as supported; it is parsed and never read |
| `sockets` | three socket units with 1, 2 and 1 entries, any of which may fail to bind, two of them of one service, one with connections; a service without sockets with any of 36 combinations of User=, Group=, DynamicUser= and WorkingDirectory=, of numbers for User= and Group= that are root's, fit, wrap around, mean "unknown" or are too long, of commands with up to two arguments in three kinds of units, and of 132 texts of Environment= | `NoForeignDescriptor`, `OrderedActivation`, `AllOrNoPrivileges`, `OwnsRuntimeDirectory`, `ArgumentsAsWritten`, `EnvironmentAsWritten` |
| `socket_names` (violation) | three socket units of which two belong to one service | when descriptors of two units are collected in another order than they were opened, the renumbering closes one it still needs; the service gets another socket under its name, or exits with 125 |
| `parse` | all files of up to four lines over twenty-one kinds of lines, continued ones and comments among them, on every machine | `RepeatedKeysAddUp`, `NegatedTestsDecide`, whatever the uninitialised flag holds |
| `negate_doc` (violation) | conditions without `!` | `negate` is not "true if value originally started with '!'" (unit_file.hpp:32) but indeterminate |
| `scan` | three names (a template, an instance, one without extension) over two directories and their `.wants`, in all combinations | `HighestPriorityWins`, `EnabledUnitsFound` |
| `program` | PID 1 on an empty file system, after an initramfs or with everything mounted, and fifteen mount units: a bind mount given twice, /run, /dev, /sys/fs, an incomplete one, a remount, a mount moved below itself (refused) and /tmp and /dev moved, a copy of /dev with all below it, /dev bound over /, a change of propagation; test mode with one mount unit and socket units of every kind that share a path, address a file, cannot be expanded or have paths that are cut to the same one; trivialctl with terminals of 7, 11 and 18 lines | `EarlyMountsUndone`, `NoMountOverMount`, `RuntimeDirsVisible`, `SocketNodesRemoved`, `SelectionVisible`, `NewestEntriesShown`, `CleanExit`, `RefusedOnlyWhereCovered` |

Bounds, each a constant named in the module:

- `Pid` with two ids: enough for a process and the one that replaces it or
  serves a connection, and small enough that ids are recycled all the time, which is the
  interesting case. Fork fails when they are exhausted as well as at any other moment.
- `MaxTime` caps the clock. In `restart` it is 4 with delays of 1, 2 and 3 (the cap
  `kMaxDelay`), so that back-off doubles and windows of 2 and 3 seconds
  end and begin again. A restart with the capped delay is scheduled, but none comes due
  within the 4 seconds; that no restart precedes its delay, a capped one included, is
  proved (`BackoffKept`). The code's base delay is 100 ms and its cap 10 minutes
  (process.hpp:207-208): the steps between them are more, and of the same kind.
- `GracePolls` = 1 (50 in the code): the grace loop can be left early, in time, or late.
- `MaxBacklog` = 1 per descriptor, two descriptors on one socket: the limit is reached
  from both.
- `MaxLines` = 4: a section header and three lines of a key, or two keys that alternate, or a
  key outside and inside its section.
- `MaxFailures` = 1 mount or bind that fails (any of them): the properties of `program` are
  about what one failure may spoil, and are proved for any number. The calls of a child may
  all fail.
- `Host`, `Terminal`, `all_units` and `mount_units` depend on the mode, which keeps mount
  units, sockets and screens from multiplying: mounts and sockets have no state in common,
  and test mode does with them what PID 1 does on the same table. The theorems are about
  any in every mode.
- `Ids` = 10 and `ULong` = 20: 9 is `(uid_t)-1`, 12 wraps around to 2, 20 is too long.
- `SunPath` = 4: two paths of five and six characters are cut to the same one.
- `units` = 3, `MaxEntries` = 4, `Height` 7, 11 and 18: a terminal of 7 lines has no room
  for a list, one of 11 shows two of the units and three of the entries, one of 18 all of
  them and one entry on the overview. `MaxScroll` = 2 caps `scroll_offset_`, which the
  code does not limit: with 11 lines 1 reaches the oldest entry and 2 runs past it.
- Two search directories are enough for "first" and "later"; a third adds none of either.
- Symmetry over pids is used in the safety runs only.

### Fairness

`FairSpec` has weak fairness of the init thread as a whole (the kernel schedules PID 1;
where it blocks in `epoll_wait` the time-out of 100 or 1000 ms wakes it, and the model's
`Poll` is always enabled there) and of the clock. There is none for the exit of an
ExecStartPre child: the code waits for these commands without a time-out, and one that
hangs hangs PID 1. So each liveness property says that its promise is kept, or
`StartPreHangs` from some time on, the one way in which it is not. There is no fairness
for the exit of services, for connections or for signals: `ShutdownCompletes` holds with services that ignore
SIGTERM. The instance sends no SIGUSR1 and has no orphans, because an outside that never
stops sending them could keep `drain_signals` in its loop for ever; the code has no
bound there either.

## 4. What is proved

What follows is proved for every value of the constants that satisfies the named assumptions
(`SupervisorAssumption`, `DelayAssumption`, `DependencyAssumption`, `SocketAssumption`,
`ServiceAssumption`, `FileAssumption`, `WrittenAssumption`, `ScanAssumption`,
`LineAssumption`, `ProgramAssumption`, `MountAssumption`, `PrivateAssumption`: the types of the constants,
that no mount unit makes mounts shared (no proof uses that, but the model does not do them justice),
that pids and units are finite, that `exec_order_` has no repetitions — which
`DependencyResolve` establishes — that no directory is twice on the search path, that
the empty string is the name of no user or group, and that commands, names and values
are sequences). TLC evaluates them on every instance. With these theorems every safety
property that a run checks is also proved.

Of `Supervisor`, in `SupervisorProofs`:

- `TypeCorrect`, `KillsOnlyChildren`, `ConnectionLimit`, from the inductive invariant
  `TablesInv` = `TypeOK` ∧ `KillTargetsAreChildren` ∧ `ConnectionsCounted` ∧ `JobInv`.
  The three need each other: the connection counter is a natural number only because it
  equals a cardinality, and the equality is kept by a reap only because a pid in the
  tables is a child that is not free. `JobInv` says that the child awaited by
  `start_service` is in no table, so that its pid can be released without touching them.
- `SigchldNeverLost`: inductive with `TablesInv` – the step that leaves the reaping loop
  requires that there is no zombie, and every other step that makes one sets SIGCHLD.
- `ShutdownFinal`, an action property, from `ControlInv`, which ties `phase` to the `pc`
  values that occur in it: no start step has its `pc` after the main loop.
- `OneInstancePerUnit`, from `InstanceInv` = `SingleInstance` ∧ `QueueInv`. The
  strengthening says that during boot nothing is pending and units still ahead in
  `exec_order_` have no process, and that connection processes never restart.
- `StoppedGracefully` and `NoEarlyChown` (an action property), from `NamesInv`: a unit on
  its way through the tables is one of `exec_order_` or paired with a socket, and the
  process of one that is not paired is the one `unit_to_pid_` holds for its name. So the
  loop that stops the units of `exec_order_` reaches it, and a systemd-sysusers missing
  from `unit_to_pid_` has no process.

And in `RestartProofs`:

- `HistoryKept`, `BackoffKept` and `BurstLimit`, from `RestartInv`, one invariant for the
  whole way of a unit's counters (process, pending restart, `restart_counts_`).
  `HistoryOf` ties them to `scheduled`, and says that a process or a start in progress is
  later than every exit counted so far: the delay is positive, so no two exits are
  counted at the same second, and a count of restarts is a cardinality of times.
  `BurstsOf` says that there is a set of windows that do not overlap, cover all restarts
  and hold at most the limit each; a stretch as long as a window meets at most two of
  them (`TwoWindows`).
- `NoUnitForgotten`, an action property, from `TablesInv`, `ControlInv`, `InstanceInv`,
  `RestartInv` and `PolicyInv` (a main process has the policy of its unit until `stop_unit` revokes it).

Of the other modules:

- `InDegreeCorrect`, `LeftOutOnlyByCycles`, `Refinement` about `DependencyResolve`, from
  `Inv` = types ∧ `InDegreeIsOpenEdges` ∧ a unit has in-degree 0 exactly when it is in
  the queue or in the order, and is there once. `Refinement` shows that `Pop` is
  `StartOrder`'s `Start` and all else stutters.
- `ActivationInOrder` about `SocketActivation`, from the loop invariant `LoopInv`:
  descriptors below `Target(i)` are in place, those above are as in PID 1 except for the
  ones already moved; ascending descriptors are never below their targets.
- `OwnDescriptorsOnly`, for descriptors in any order, from `OwnInv`: what is open above
  standard error without FD_CLOEXEC is the service's own, and so is what the loop has
  still to duplicate.
- `ServiceOwnDescriptorsOnly` and `ServiceActivationInOrder`: `ServiceSpec` implements
  `SocketActivation`'s `Spec` (`ServiceImplementsActivation`), so both carry over.
- `PrivilegesDropped` and `RuntimeDirectoryOwned` about `ServiceChild`,
  from `ContextInv`, which says for each `step` of the child what credentials, directory
  and variables it has. `CredInv` must remember why a child is root: its user is dynamic
  or unknown, or was added (`added`) after the child had looked. `DirInv` and `CredInv` meet
  in the user's id, which both lookups find if the first one did.
- `PriorityOfDirectories` and `EnabledAreFound` about `UnitScan`, from `ScanInv`: the name
  of everything the loops have been past is taken, and a name that is taken has an entry
  of the first directory that has it. That there is a first one is a result of the scan
  itself and needs no induction over the search path.
- `SelectionStaysVisible`, `NewestEntriesStayShown` and `ExitIsClean` about `Program`,
  from `ScreenInv`: the windows exist exactly while the TUI is active, the selection is a
  unit, scroll positions are not negative, and a frame is right until the next key or the
  end of the TUI. The lemmas `SelectionDrawn`, `RecentDrawn` and `PageDrawn` are the
  arithmetic of the pages for every height.
- `SocketFilesRemoved` about `Program`, from `SocketInv`: every node that may not stay has
  an open entry of its name or is in `leftover`, and an entry that makes nodes never has another's file under
  its path. The proof found `ListenNetlink=` missing among the directives under whose name
  a file is removed: a path there is family 0 to `bind_netlink`, binds, and is unlinked.

- `EarlyMountsAreUndone`, `RefusedWhereCovered` (an action property), `NoMountOverAnother`
  and `RuntimeDirsStayVisible` about `Program`, for every table of mounts at the start that
  `HostTable` describes and every list of mount units, moves, copies and failures included,
  from `MountInv`. What a path leads to
  (`Lookup`, `Topmost`) and what a detached mount takes along (`Detach`) are recursions
  over the table; `LookupIsNewest` says that in a table built by mounts the first is the
  newest mount on a prefix of the path. `MountInv` says that the table is such a tree, with
  the host's mounts older than the program's and directories older than what is mounted
  below them (`Tree`, `Ages`), that a target in `mounted_` leads to the file system that
  belongs there unless a mount unit covers it or has moved it (`Undoable`, `Recorded`), and that
  `mounted_` has a directory before those below it, so that the shutdown takes the last
  one first (`Ordered`).
- `NothingLost` and `NegationDecides` about `UnitParse`, for files of any length, from
  `ParseInv`: the sections hold what the complete logical lines so far give, and
  `accumulated` is the one that is still being continued (`Processed`). The properties speak of
  positions in the file (`EndOf`, `SectionOf`, `ValueOf`), the loop of one line after the
  other; the lemmas say what one more line changes in the former.
- `EnvironmentRead` about `ServiceChild`: `parse_environment` reads what `Rendered` writes
  (`ParseRendered`), for all values. It goes assignment by assignment (`PairRead`), with
  one induction over a value in quotes and one over a value without (`QuotedText`,
  `UnquotedText`). `FileInv` says that the unit being started comes from one of the
  files, and `ContextInv` that its variables are set when the child gets to its exec.
- `ArgumentsRead` about `ServiceChild`: resolving, splitting and resolving again gives
  the same words as splitting and resolving once. The induction is over the command:
  its scanner of words and that of the resolved command stay in step (`Together`), where
  a pending `%` is the only difference; each word of the second is one of the first,
  resolved, and resolves to itself. `ResolveByPosition` shows, for every text, that
  `resolve` is its definition by positions, in which runs of `%` are counted.

Induction over data is done with sets: `SequenceLemmas` derives from the least element
of a set of numbers that a set of sequences that has the empty one and is closed under
`Append` has them all, and that a recursive function over an interval or a sequence
exists and is unique. The induction theorems of the library take an operator as a
parameter and cannot be used.

Only model-checked: `ZombiesReaped`, `DueRestartAttempted`, `ShutdownCompletes`. Liveness
is out of the prover's reach.

## 5. Limits of the models

- `GracefulStop` excepts units that share their name with connections: `accept_ready`
  tracks each connection under the service's name, so `unit_to_pid_` holds one of them
  only, and reaping one erases the entry of another. Those processes get SIGKILL without
  SIGTERM. No document of the repository promises otherwise.
- `BurstBound` is twice the limit, because windows are counted from their first exit and
  a sliding interval can meet two of them.
- A unit whose fork or ExecStartPre fails during a restart is not tried again.
  `RestartNotLost` says that these are the only ways to lose one.
- `AllOrNoPrivileges` states what a failing call leaves behind instead of excluding it:
  `setgid`, `initgroups` and `setuid` are called with their results ignored, so one that
  fails leaves its own part with root. It excepts numbers that wrap around.
- `EarlyMountsUndone`, `RefusedOnlyWhereCovered` and `RuntimeDirsVisible` except what a
  mount unit has covered or moved away (`CoveredByUnit`, `MovedAway`): the program has no
  record of where its mounts have gone. Copies and moved mounts count as the unit's.
- Mounts are taken to be private, as the kernel makes them. In test mode on a host
  that has made its root shared, mounts propagate to other namespaces, which is not modelled.
- `SocketNodesRemoved` excepts nodes whose path was cut and those whose `listen` or `open`
  failed (`leftover`), and fifos with a relative name.
- `ArgumentsAsWritten` is about commands whose specifiers insert neither blanks, quotes
  nor `%` and are not empty, and without `%%`; `EnvironmentAsWritten` about files with one line `Environment=`;
  `NoMountOverMount` excepts bind mounts of the file system they hang on.
- `Supervisor`, `DependencyResolve` and `ServiceChild` take parsed units as constants
  or choose them in `Init`; the modules are not composed with `UnitParse`.

Not modelled:

- socket options, netlink groups, the parsing of inet addresses, and of numbers other than
  those of User= and Group=;
- fields that are only copied from a unit file into `UnitFile` or `SocketUnit`;
- what each kind of condition asks of the machine: its answer is open in `UnitParse` and
  `Supervisor`;
- texts, colours and levels of the journal and the TUI, the width of the terminal;
- `signal_unit` and `queue_restart`, which nothing calls, and the mixin base, which is
  static.

Seen while modelling, and not stated as properties:

- a repeated scalar key (`Restart=`, `ExecStart=`) keeps all its values joined by RS,
  although unit_parse.hpp:60 speaks of the last one; so do repeated `Environment=` lines,
  where the RS becomes part of a name or of a value;
- a line continued without a blank before its backslash is glued to the next;
- a negated condition of a type `eval_one` does not know is false, although
  unit_exec.hpp:173 says unknown conditions do not block a unit;
- a `.wants` link without a unit's extension is recorded under its target's name and
  parsed under its own (`EnabledUnitsFound` excepts it);
- commands are resolved twice (unit_exec.hpp:348 and 352), so `%%i`
  becomes the instance, although `%%` is a literal `%` in one pass (test_specifiers.cpp:15);
- mounts of mount units are never undone; an early mount that was there before (EBUSY)
  is recorded as an own one, so in test mode the shutdown detaches those of the host;
  a remount never reaches `mount`, because its target is mounted already; `ro,rw` is
  read-only;
- SIGWINCH is blocked in `run()`, so only trivialctl notices a new size; a window that
  grows may show blank rows below the list; `scroll_offset_` runs past the end and has to
  be scrolled back; the keys s, x and r that the help advertises (tui.hpp:291) are not
  handled;
- `close_all_sockets` unlinks the names of ListenSpecial=, ListenMessageQueue= and
  ListenNetlink=, which it did not create, and leaves fifos with a relative name, nodes
  whose `listen` or `open` failed, and sockets whose path is longer than 107 bytes, because
  `bind` makes them under the first 107 and `unlink` looks for all (socket.hpp:418 and 256);
- a number for User= or Group= that fits `unsigned long` but not `uid_t` is cut to its
  lower 32 bits (process.hpp:75) instead of being refused.

## 6. Plan

Done: (1) `RestartRules`, `Supervisor`; (2) `DependencyResolve` with `StartOrder`;
(3) `SocketActivation`; (4) `UnitParse`, `UnitScan`; (5) `CommandLine`, `Pairing`,
`ChildContext`, composed in `ServiceChild`; (6) `Filesystem`, `SocketFiles`, `Tui`,
composed in `Program`; their runs and the theorems above.

Proved since: every safety property, those of the recursive operators (mounts, unit
files, scanners) included.

To do: compose `UnitParse` with `ServiceChild`, so that the files of the latter are those
the former reads. In the code they meet in `units_`; here `Environment=` and the commands
are taken as the lines of a file.
