-------------------------------- MODULE Program --------------------------------
(***************************************************************************)
(* The two programs from start to exit: trivialinit, as PID 1 or in test   *)
(* mode (InitSystem::run), and trivialctl (InitSystem::run_monitor).  The  *)
(* file systems (Filesystem), the descriptors of SignalMixin, the files of *)
(* sockets (SocketFiles) and the terminal (Tui) are acquired on the way in *)
(* and given back on the way out, partly by destructors; phases may fail   *)
(* and return early.                                                       *)
(*                                                                         *)
(* The services meanwhile are the subject of Supervisor; here they are     *)
(* what logs entries, and systemd-sysusers may end at any time.            *)
(***************************************************************************)
EXTENDS Integers, Sequences, FiniteSets

CONSTANTS
  Name, RuntimeUser, MaxFailures,      \* see Filesystem
  units, Height, MaxEntries, MaxScroll,\* see Tui
  Unescaped, Present, SunPath,         \* see SocketFiles
  \* what a program finds in each of its modes:
  Host,         \* what may be mounted at the start: [Modes -> sets of tables]
  Terminal,     \* the heights of the terminal at the start: [Modes -> sets]
  all_units,    \* the socket units, in the order of the hash map: [Modes -> sequences]
  mount_units   \* the mount units, in the order of exec_order_: [Modes -> sequences]

VARIABLES
  mounts, moved, mounted_, early, runtime_dirs, owned, runtime_dirs_chowned_,
  refused, failures,
  tui_active_, current_tab_, selected_row_, svc_scroll_, scroll_offset_, height,
  windows, curses, misused, entries, frame,
  nodes, pending, bound, lost, leftover,
  mode,         \* "init" (PID 1), "test" or "monitor"
  pc, rc,
  idx,          \* mount unit that is next
  open_fds,     \* of signal_fd_ and epoll_fd_
  blocked       \* all signals are blocked

Fs   == INSTANCE Filesystem
Tui  == INSTANCE Tui
Sock == INSTANCE SocketFiles

Modes == {"init", "test", "monitor"}

ASSUME ProgramAssumption ==
  /\ units \in Nat /\ MaxEntries \in Nat /\ MaxScroll \in Nat
  /\ SunPath \in Nat \ {0}
  /\ Height \subseteq Nat
  /\ Terminal \in [Modes -> SUBSET Nat]

ASSUME MountAssumption ==
  /\ \A k \in 1..Len(Fs!kEarlyMounts) : Fs!kEarlyMounts[k].target \in Seq(Name)
  /\ \A md \in Modes : \A table \in Host[md] : Fs!HostTable(table)
  /\ \A md \in Modes : mount_units[md] \in
       Seq([name : STRING, what : Seq(Name) \cup {Fs!Empty},
            where : (Seq(Name) \ {<<>>}) \cup {Fs!OverRoot, Fs!Empty},
            fs : STRING, options : Seq(STRING)])
  /\ Name \cap {"", "/"} = {}

\* No unit makes mounts shared, which would then propagate, and none copies
\* what another one has mounted over / together with /.
ASSUME PrivateAssumption ==
  \A md \in Modes :
    LET us == mount_units[md]
        flags(k) == Fs!parse_mount_options(us[k].options).flags
    IN \A k \in 1..Len(us) :
         /\ "MS_SHARED" \notin flags(k)
         /\ us[k].what = <<>> /\ {"MS_BIND", "MS_REC"} \subseteq flags(k) =>
              \A j \in 1..Len(us) : us[j].where # Fs!OverRoot

files == <<mounts, moved, mounted_, early, runtime_dirs, owned,
           runtime_dirs_chowned_, refused, failures>>
tui == <<tui_active_, current_tab_, selected_row_, svc_scroll_, scroll_offset_,
         height, windows, curses, misused, entries, frame>>
sockfiles == <<nodes, pending, bound, lost, leftover>>
signals == <<open_fds, blocked>>
vars == <<files, tui, sockfiles, mode, pc, rc, idx, signals>>

Init ==
  /\ mode \in Modes
  /\ \E table \in Host[mode] : Fs!FilesInit(table)
  /\ Tui!TuiInit(IF mode = "monitor" THEN 0..MaxEntries ELSE {0}, Terminal[mode])
  /\ Sock!SocketsInit(all_units[mode])
  /\ pc = IF mode = "monitor" THEN "tui" ELSE "early"
  /\ rc = 0 /\ idx = 1
  /\ open_fds = {} /\ blocked = FALSE

-------------------------------------------------------------------------------
(* run() up to its main loop                                               *)

\* An entry of kEarlyMounts; a failure on /proc ends the program.
EarlyMountPhase ==
  /\ pc = "early" /\ ~Fs!NoProc
  /\ Fs!EarlyMount \/ Fs!EarlyMountFails
  /\ UNCHANGED <<tui, sockfiles, mode, pc, rc, idx, signals>>

EarlyMountReturns ==
  /\ pc = "early"
  /\ \/ Fs!NoProc /\ pc' = "exit" /\ rc' = 1 /\ UNCHANGED files
     \/ ~Fs!NoProc /\ Fs!CreateRuntimeDirs /\ pc' = "signals" /\ UNCHANGED rc
  /\ UNCHANGED <<tui, sockfiles, mode, idx, signals>>

\* phase::SignalSetup: sigprocmask, signalfd, epoll_create1.
SignalSetup ==
  /\ pc = "signals"
  /\ \/ UNCHANGED signals /\ rc' = 1
     \/ blocked' = TRUE /\ UNCHANGED open_fds /\ rc' = 1
     \/ blocked' = TRUE /\ open_fds' = {"signal_fd_"} /\ rc' = 1
     \/ blocked' = TRUE /\ open_fds' = {"signal_fd_", "epoll_fd_"} /\ UNCHANGED rc
  /\ pc' = IF rc' = 1 THEN "exit" ELSE "sockets"
  /\ UNCHANGED <<files, tui, sockfiles, mode, idx>>

\* phase::SocketBind, entry by entry; like all the phases after SignalSetup
\* it returns 0.
SocketBind ==
  /\ pc = "sockets"
  /\ \/ /\ Sock!SkipEntry \/ Sock!BindEntry \/ (~Sock!Openable /\ Sock!BindFails)
        /\ UNCHANGED files
     \/ /\ (Sock!Openable /\ Sock!BindFails) \/ Sock!BindFailsLate
        /\ failures < MaxFailures /\ failures' = failures + 1
        /\ UNCHANGED <<mounts, moved, mounted_, early, runtime_dirs, owned,
                       runtime_dirs_chowned_, refused>>
  /\ UNCHANGED <<tui, mode, pc, rc, idx, signals>>

SocketsBound ==
  /\ pc = "sockets" /\ pending = <<>>
  /\ pc' = "units"
  /\ UNCHANGED <<files, tui, sockfiles, mode, rc, idx, signals>>

\* The mount units of phase::UnitExecute; conditions may skip them.
ExecuteMountUnit ==
  /\ pc = "units" /\ idx <= Len(mount_units[mode])
  /\ idx' = idx + 1
  /\ Fs!start_mount(mount_units[mode][idx]) \/ UNCHANGED files
  /\ UNCHANGED <<tui, sockfiles, mode, pc, rc, signals>>

\* phase::TuiStart, where PID 1 leaves the console alone; the monitor starts
\* the TUI in any case.
TuiStart ==
  /\ \/ pc = "units" /\ idx > Len(mount_units[mode])
     \/ pc = "tui"
  /\ pc' = "poll"
  /\ IF mode = "init" THEN UNCHANGED tui ELSE Tui!init_tui
  /\ UNCHANGED <<files, sockfiles, mode, rc, idx, signals>>

-------------------------------------------------------------------------------
(* The main loops                                                          *)

\* poll_once_with_sockets and process_restarts: something may be logged.  (What
\* is logged while there is no TUI is never shown.)
PollOnce ==
  /\ pc = "poll"
  /\ pc' = IF tui_active_ THEN "render" ELSE "test"
  /\ \/ mode # "monitor" /\ tui_active_ /\ Tui!Log
     \/ UNCHANGED tui
  /\ UNCHANGED <<files, sockfiles, mode, rc, idx, signals>>

\* maybe_fix_runtime_dirs, once systemd-sysusers is gone.
FixRuntimeDirs ==
  /\ pc = (IF tui_active_ THEN "render" ELSE "test") /\ mode # "monitor"
  /\ \E users, groups \in SUBSET RuntimeUser :
       Fs!fix_runtime_dir_ownership(users, groups)
  /\ UNCHANGED <<tui, sockfiles, mode, pc, rc, idx, signals>>

Render ==
  /\ pc = "render"
  /\ Tui!render
  /\ pc' = "input"
  /\ UNCHANGED <<files, sockfiles, mode, rc, idx, signals>>

\* A key other than 'q'.  A terminal that changes its size is noticed where
\* SIGWINCH is not blocked.
HandleInput ==
  /\ pc = "input"
  /\ Tui!handle_input(~blocked)
  /\ pc' = "test"
  /\ UNCHANGED <<files, sockfiles, mode, rc, idx, signals>>

\* 'q', which leaves the loop unless the program is PID 1.
Quit ==
  /\ pc = "input"
  /\ pc' = IF mode = "init" THEN "test" ELSE "stop"
  /\ UNCHANGED <<files, tui, sockfiles, mode, rc, idx, signals>>

\* The test of the loop; a shutdown may have been requested.
LoopTest ==
  /\ pc = "test"
  /\ pc' = "poll" \/ (mode # "monitor" /\ pc' = "stop")
  /\ UNCHANGED <<files, tui, sockfiles, mode, rc, idx, signals>>

-------------------------------------------------------------------------------
(* The way out                                                             *)

\* shutdown_tui; run() then stops the services.
Stop ==
  /\ pc = "stop"
  /\ Tui!shutdown_tui
  /\ pc' = IF mode = "monitor" THEN "exit" ELSE "close"
  /\ UNCHANGED <<files, sockfiles, mode, rc, idx, signals>>

CloseSockets ==
  /\ pc = "close"
  /\ Sock!close_all_sockets
  /\ pc' = "unmount"
  /\ UNCHANGED <<files, tui, mode, rc, idx, signals>>

\* phase::Shutdown
UnmountOne ==
  /\ pc = "unmount"
  /\ Fs!Unmount
  /\ UNCHANGED <<tui, sockfiles, mode, pc, rc, idx, signals>>

Unmounted ==
  /\ pc = "unmount" /\ mounted_ = <<>>
  /\ pc' = "exit"
  /\ UNCHANGED <<files, tui, sockfiles, mode, rc, idx, signals>>

\* main returns: ~TuiMixin, then ~SignalMixin.
Destructors ==
  /\ pc = "exit"
  /\ Tui!shutdown_tui
  /\ open_fds' = {}
  /\ pc' = "gone"
  /\ UNCHANGED <<files, sockfiles, mode, rc, idx, blocked>>

Gone == pc = "gone" /\ UNCHANGED vars

Next ==
  \/ EarlyMountPhase \/ EarlyMountReturns \/ SignalSetup
  \/ SocketBind \/ SocketsBound \/ ExecuteMountUnit \/ TuiStart
  \/ PollOnce \/ FixRuntimeDirs \/ Render \/ HandleInput \/ Quit \/ LoopTest
  \/ Stop \/ CloseSockets \/ UnmountOne \/ Unmounted \/ Destructors \/ Gone

Spec == Init /\ [][Next]_vars

-------------------------------------------------------------------------------
(* Properties                                                              *)

\* A mount unit has covered a directory above path p, or / itself: from then
\* on start_mount cannot tell what is mounted in /.
CoveredByUnit(p) ==
  \E n \in DOMAIN mounts :
    /\ mounts[n].by = "unit"
    /\ Fs!IsStrictPrefix(mounts[n].at, p) \/ mounts[n].at = Fs!OverRoot

\* A mount unit has moved the mount at p, or one above it, to another place.
MovedAway(p) == \E q \in moved : Fs!IsPrefix(q, p)

\* The unmounts of phase::Shutdown undo those of EarlyMount: of the mounts it
\* made none is left, but for those below a directory that it failed to mount
\* and a mount unit did not, and those that lay under what a mount unit moved
\* away.  What a unit has moved or copied is its own from then on.
EarlyMountsUndone ==
  pc \in {"exit", "gone"} /\ rc = 0 =>
    \A n \in DOMAIN mounts :
      mounts[n].by = "early" => CoveredByUnit(mounts[n].at) \/ MovedAway(mounts[n].at)

\* In the reverse order every target is still a mount of its own when its
\* turn comes, not gone with its parent: umount2 refuses one only where a
\* mount unit covers it at that time, or has moved it away.
RefusedOnlyWhereCovered ==
  [][\A p \in refused' \ refused : CoveredByUnit(p) \/ MovedAway(p)]_vars

\* When mount n was made, the directory above it, its "..", was in mount k.
InDirAbove(k, n) ==
  LET OnTheWay(m) == m < n /\ Fs!IsPrefix(mounts[m].at, Fs!DirAbove(mounts[n].at))
  IN OnTheWay(k) /\ \A m \in DOMAIN mounts : OnTheWay(m) => m <= k

\* start_mount looks before it mounts: no mount unit stacks its file system
\* on another one, whichever phase or program mounted that, except where the
\* device shows no difference because it is that of the directory above.
NoMountOverMount ==
  \A n, k \in DOMAIN mounts :
    /\ mounts[n].by = "unit" /\ mounts[mounts[n].on].at = mounts[n].at
    /\ InDirAbove(k, n)
    => mounts[mounts[n].on].dev = mounts[k].dev

\* The runtime directories that PID 1 creates are the ones its services
\* find.  Only a mount unit hides them: one for /run after its early mount has
\* failed or / has been covered, or one that moves /run away.
RuntimeDirsVisible ==
  pc \in {"poll", "render", "input", "test", "stop"} /\ mode # "monitor" =>
    \/ Fs!Lookup(mounts, <<"run">>) = runtime_dirs
    \/ mounts[Fs!Lookup(mounts, <<"run">>)].by = "unit"
       /\ \/ \A k \in 1..Len(mounted_) : mounted_[k] # <<"run">>
          \/ CoveredByUnit(<<"run">>)
    \/ MovedAway(<<"run">>)

\* When close_all_sockets is through, the sockets and fifos that SocketBind
\* created are gone from the file system, but for those whose listen or open
\* failed after the node was there, sockets whose path was cut, and fifos under
\* a relative name.  What it did not create it never removes under the name of
\* a socket or fifo, only under those of ListenSpecial=, ListenMessageQueue=
\* and ListenNetlink=, which create nothing.
SocketNodesRemoved ==
  /\ pc \in {"unmount", "exit", "gone"} /\ rc = 0 =>
       \A a \in DOMAIN nodes :
         nodes[a] = "file" \/ a \in leftover \/ (nodes[a] = "fifo" /\ ~Sock!IsPath(a))
  /\ lost \cap {"Stream", "Datagram", "SequentialPacket", "FIFO"} = {}

\* render_services keeps the selected unit on the screen, whatever keys and
\* changes of the terminal came before, on whichever tab.
SelectionVisible ==
  frame.tab = "Services" /\ frame.room > 0 /\ units > 0 => selected_row_ \in frame.rows

\* The journal page is full, in one piece, and holds the newest entry unless
\* it is scrolled; the overview shows as many of the newest entries as fit.
NewestEntriesShown ==
  LET fit == Tui!Smaller(entries, frame.room)
      newest == (entries - fit) .. (entries - 1)
  IN frame.room > 0 =>
       /\ frame.tab = "Overview" => frame.rows = newest
       /\ frame.tab = "Journal" =>
            \E back \in 0..scroll_offset_ :
              /\ frame.rows = { row - back : row \in newest }
              /\ back < scroll_offset_ => 0 \in frame.rows \/ entries = 0

\* On every way out the terminal is left as it was found, the descriptors
\* are closed, and no window is drawn on or deleted once it is gone, although
\* the loop, shutdown_tui and the destructor all have a hand in it.
CleanExit ==
  /\ ~misused
  /\ curses => tui_active_ /\ mode # "init"
  /\ pc = "gone" => ~curses /\ windows # "live" /\ open_fds = {}
===============================================================================
