------------------------------ MODULE Filesystem ------------------------------
(***************************************************************************)
(* FilesystemMixin and start_mount: the early mounts, the mounts of mount  *)
(* units, the runtime directories and the unmounts at shutdown, over a     *)
(* mount table that behaves like the kernel's.                             *)
(*                                                                         *)
(* A path is the sequence of its components.  A mount hangs on another one *)
(* (field on) at a path (at), and stacks when that one hangs there, too.   *)
(* What a path leads to depends on the whole table, so a mount may hide    *)
(* others, and its detachment takes those that hang on it along.  Mounts   *)
(* are private, as the kernel makes them: none propagates to another.      *)
(***************************************************************************)
EXTENDS Integers, Sequences, FiniteSets, SequencesExt

CONSTANTS
  Name,         \* the names of files
  RuntimeUser,  \* the users that own some of the runtime directories
  MaxFailures   \* how many mounts may fail

VARIABLES
  mounts,       \* the mount table: [ids -> [at, on, dev, by]]
  moved,        \* the paths that mount units have moved mounts away from
  mounted_,     \* the targets to unmount
  early,        \* next entry of kEarlyMounts
  runtime_dirs, \* the mount that the runtime directories were created on
  owned,        \* users whose runtime directories were chowned
  runtime_dirs_chowned_,
  refused,      \* targets that umount2 refused to unmount
  failures      \* mounts that failed so far

files == <<mounts, moved, mounted_, early, runtime_dirs, owned, runtime_dirs_chowned_,
           refused, failures>>

RootMount == 0
Nowhere   == -1

\* An empty string where a path belongs, and a second name for the root
\* directory: it leads into what covers /, where no path of the program
\* leads, only "..".
Empty    == <<"">>
OverRoot == <<"/">>

-------------------------------------------------------------------------------
(* The kernel's mount table                                                *)

\* The mount on top of m at path p, if others hang there.
Topmost(t, m, p) ==
  LET Over(n) == { o \in DOMAIN t : t[o].on = n /\ t[o].at = p }
      top[n \in DOMAIN t] ==
        IF Over(n) = {} THEN n ELSE top[CHOOSE o \in Over(n) : TRUE]
  IN top[m]

\* The mount that a path leads into.
Lookup(t, p) ==
  LET into[k \in 0..Len(p)] ==
        IF k = 0 THEN Topmost(t, RootMount, <<>>)
        ELSE Topmost(t, into[k - 1], SubSeq(p, 1, k))
  IN into[Len(p)]

IsMountPoint(t, p) == t[Lookup(t, p)].at = p

Fresh(t) == 1 + Max(DOMAIN t)

Attach(t, p, dev, by) ==
  LET id == Fresh(t)
      m  == [at |-> p, on |-> Lookup(t, p), dev |-> dev, by |-> by]
  IN [n \in DOMAIN t \cup {id} |-> IF n = id THEN m ELSE t[n]]

\* MNT_DETACH: the mount and all that hang on it.
Detach(t, m) ==
  LET on[n \in DOMAIN t \cup {Nowhere}] == n = m \/ (n > RootMount /\ on[t[n].on])
  IN [n \in { n \in DOMAIN t : ~on[n] } |-> t[n]]

\* Every tmpfs and devpts is a device of its own; the others exist once.
DeviceOf(fstype, p, by) ==
  IF fstype \in {"tmpfs", "devpts"} THEN <<fstype, p, by>> ELSE <<fstype>>

\* mount refuses to stack a file system on itself: EBUSY.
Busy(t, p, dev) ==
  /\ Len(dev) = 1 /\ t[Lookup(t, p)].dev = dev
  /\ IsMountPoint(t, p) \/ (p = OverRoot /\ Lookup(t, p) = Lookup(t, <<>>))

\* The mounts below path p, in the mount that it leads into and in others.
Below(t, p) == { n \in DOMAIN t : n > Lookup(t, p) /\ IsPrefix(p, t[n].at) }

\* What path p leads into and the mounts ns below it, with their paths from p.
Branch(t, p, ns) ==
  [n \in {Lookup(t, p)} \cup ns |->
     [ at  |-> IF n \in ns THEN SubSeq(t[n].at, Len(p) + 1, Len(t[n].at)) ELSE <<>>,
       on  |-> t[n].on,
       dev |-> t[n].dev ]]
Single(dev) == [n \in {RootMount} |-> [at |-> <<>>, on |-> Nowhere, dev |-> dev]]

\* A mount unit mounts a branch at a path: its top is the unit's own mount,
\* the others are copies.
Graft(t, branch, p) ==
  LET top == Min(DOMAIN branch)
      m(n) == [ at  |-> p \o branch[n].at,
                on  |-> IF n = top THEN Lookup(t, p) ELSE Fresh(t) + branch[n].on,
                dev |-> branch[n].dev,
                by  |-> IF n = top THEN "unit" ELSE "copy" ]
  IN [n \in DOMAIN t \cup { Fresh(t) + k : k \in DOMAIN branch } |->
        IF n \in DOMAIN t THEN t[n] ELSE m(n - Fresh(t))]

-------------------------------------------------------------------------------
(* phase::EarlyMount                                                       *)

kEarlyMounts ==
  << [target |-> <<"proc">>,                 fstype |-> "proc"],
     [target |-> <<"sys">>,                  fstype |-> "sysfs"],
     [target |-> <<"dev">>,                  fstype |-> "devtmpfs"],
     [target |-> <<"dev", "shm">>,           fstype |-> "tmpfs"],
     [target |-> <<"dev", "pts">>,           fstype |-> "devpts"],
     [target |-> <<"run">>,                  fstype |-> "tmpfs"],
     [target |-> <<"sys", "fs", "cgroup">>,  fstype |-> "cgroup2"],
     [target |-> <<"tmp">>,                  fstype |-> "tmpfs"] >>

Path == Seq(Name \cup {"/"})

\* Mount n hangs on the newest of those before it that are mounted on its
\* way: its path led there when it was made.
Hangs(t, n) ==
  LET OnTheWay(m) == m < n /\ IsPrefix(t[m].at, t[n].at)
  IN /\ t[n].on \in DOMAIN t /\ OnTheWay(t[n].on)
     /\ \A m \in DOMAIN t : OnTheWay(m) => m <= t[n].on

\* A table that the kernel, an initramfs or (when the program is not PID 1) a
\* running system may have made: root may have been mounted over, no other
\* directory was twice, and the directories above those of kEarlyMounts are
\* not on the file systems that belong there.
HostTable(t) ==
  /\ IsFiniteSet(DOMAIN t) /\ DOMAIN t = 0..(Cardinality(DOMAIN t) - 1)
  /\ RootMount \in DOMAIN t
  /\ t[RootMount].at = <<>> /\ t[RootMount].on = Nowhere
  /\ \A n \in DOMAIN t : t[n].at \in Seq(Name) /\ t[n].by = "host"
  /\ \A n \in DOMAIN t \ {RootMount} :
       /\ Hangs(t, n)
       /\ t[n].at # <<>> => t[t[n].on].at # t[n].at
  /\ \A n \in DOMAIN t : \A k \in 1..Len(kEarlyMounts) :
       LET e == kEarlyMounts[k]
       IN IsStrictPrefix(t[n].at, e.target) =>
            t[n].dev # DeviceOf(e.fstype, e.target, "early")

\* table: what is mounted already.
FilesInit(table) ==
  /\ mounts = table /\ moved = {}
  /\ mounted_ = <<>>
  /\ early = 1
  /\ runtime_dirs = Nowhere
  /\ owned = {} /\ runtime_dirs_chowned_ = FALSE
  /\ refused = {} /\ failures = 0

\* One entry.  A mount that exists already counts as mounted.
EarlyMount ==
  /\ early <= Len(kEarlyMounts)
  /\ LET e   == kEarlyMounts[early]
         dev == DeviceOf(e.fstype, e.target, "early")
     IN /\ mounts' = IF Busy(mounts, e.target, dev) THEN mounts
                     ELSE Attach(mounts, e.target, dev, "early")
        /\ mounted_' = Append(mounted_, e.target)
  /\ early' = early + 1
  /\ UNCHANGED <<moved, runtime_dirs, owned, runtime_dirs_chowned_, refused, failures>>

\* mkdir or mount fails; without /proc the phase, and run(), return 1.
EarlyMountFails ==
  /\ early <= Len(kEarlyMounts)
  /\ failures < MaxFailures
  /\ failures' = failures + 1
  /\ early' = early + 1
  /\ UNCHANGED <<mounts, moved, mounted_, runtime_dirs, owned, runtime_dirs_chowned_,
                 refused>>

NoProc == early = 2 /\ mounted_ = <<>>

\* Where /run leads when the directories of kRuntimeDirs are made.
\* (mutant: before anything is mounted)
DirsMadeFirst == RootMount
DirsMadeOn == Lookup(mounts, <<"run">>)

\* The symbolic links in /dev and the runtime directories.
CreateRuntimeDirs ==
  /\ early > Len(kEarlyMounts) /\ runtime_dirs = Nowhere
  /\ runtime_dirs' = DirsMadeOn
  /\ UNCHANGED <<mounts, moved, mounted_, early, owned, runtime_dirs_chowned_, refused,
                 failures>>

-------------------------------------------------------------------------------
(* Mount units: records of name, what, where, fs and options, where fs is  *)
(* the file system that Type= and What= name.  Where=/ is OverRoot.        *)

\* kFlagMap; "ro" and "defaults" stand for the tokens whose flags, if they
\* have any, do not matter to the table.
kFlagMap ==
  [token \in {"ro", "defaults", "remount", "bind", "rbind", "move", "rec", "shared",
              "slave", "private", "unbindable"} |->
     CASE token = "ro"         -> {"MS_RDONLY"}
       [] token = "defaults"   -> {}
       [] token = "remount"    -> {"MS_REMOUNT"}
       [] token = "bind"       -> {"MS_BIND"}
       [] token = "rbind"      -> {"MS_BIND", "MS_REC"}
       [] token = "move"       -> {"MS_MOVE"}
       [] token = "rec"        -> {"MS_REC"}
       [] token = "shared"     -> {"MS_SHARED"}
       [] token = "slave"      -> {"MS_SLAVE"}
       [] token = "private"    -> {"MS_PRIVATE"}
       [] token = "unbindable" -> {"MS_UNBINDABLE"}]
Propagation == {"MS_SHARED", "MS_SLAVE", "MS_PRIVATE", "MS_UNBINDABLE"}

\* opts: the tokens of Options= between commas.
parse_mount_options(opts) ==
  [ flags |-> UNION { kFlagMap[tok] : tok \in ToSet(opts) \cap DOMAIN kFlagMap },
    data  |-> SelectSeq(opts, LAMBDA tok : tok \notin DOMAIN kFlagMap) ]

\* Where where/.. leads: ".." ends in what covers the root directory.
DirAbove(where) ==
  IF Len(where) = 1 /\ where # OverRoot THEN OverRoot ELSE Front(where)

\* st_dev of where and of where/.. differ; with Where=/ these are the root
\* directory and what covers it.
\* (mutants: only file systems of EarlyMount are looked for; none are)
AlreadyMountedEarly(where) ==
  \E k \in 1..Len(mounted_) : mounted_[k] = where
AlreadyMountedNever(where) == FALSE
AlreadyMounted(where) ==
  mounts[Lookup(mounts, where)].dev # mounts[Lookup(mounts, DirAbove(where))].dev

\* The order in which mount looks at its flags.
Operation(flags) ==
  IF "MS_REMOUNT" \in flags THEN "remount"
  ELSE IF "MS_BIND" \in flags THEN "bind"
  ELSE IF flags \cap Propagation # {} THEN "change"
  ELSE IF "MS_MOVE" \in flags THEN "move"
  ELSE "new"

\* Only a mount can be moved, and not below itself.
Movable(u) == IsMountPoint(mounts, u.what) /\ ~IsPrefix(u.what, u.where)

\* A bind mount shows what What= leads into, with MS_REC the mounts below, too.
mount_bind(u, flags) ==
  /\ mounts' = Graft(mounts,
                     Branch(mounts, u.what,
                            IF "MS_REC" \in flags THEN Below(mounts, u.what) ELSE {}),
                     u.where)
  /\ UNCHANGED moved

\* A move takes the mounts below along.
mount_move(u) ==
  /\ mounts' = Graft(Detach(mounts, Lookup(mounts, u.what)),
                     Branch(mounts, u.what, Below(mounts, u.what)), u.where)
  /\ moved' = moved \cup {u.what}

mount_new(u) ==
  LET dev == DeviceOf(u.fs, <<u.name>>, "unit")
  IN /\ mounts' = IF Busy(mounts, u.where, dev) THEN mounts
                  ELSE Graft(mounts, Single(dev), u.where)
     /\ UNCHANGED moved

\* What mount makes of the table; it may fail, too.
mount(u) ==
  LET flags == parse_mount_options(u.options).flags
      op    == Operation(flags)
  IN \/ /\ op \in {"remount", "change"} \/ (op = "move" /\ ~Movable(u))
        /\ UNCHANGED <<mounts, moved>>
     \/ op = "bind" /\ mount_bind(u, flags)
     \/ op = "move" /\ Movable(u) /\ mount_move(u)
     \/ op = "new" /\ mount_new(u)

start_mount(u) ==
  /\ \/ /\ u.what = Empty \/ u.where = Empty \/ AlreadyMounted(u.where)
        /\ UNCHANGED <<mounts, moved, failures>>
     \/ /\ u.what # Empty /\ u.where # Empty /\ ~AlreadyMounted(u.where)
        /\ \/ mount(u) /\ UNCHANGED failures
           \/ /\ failures < MaxFailures /\ failures' = failures + 1
              /\ UNCHANGED <<mounts, moved>>
  /\ UNCHANGED <<mounted_, early, runtime_dirs, owned, runtime_dirs_chowned_, refused>>

-------------------------------------------------------------------------------
(* Runtime directories and shutdown                                        *)

\* 0, the id of root, for a name that is not known.
fs_resolve_uid(name, users)  == IF name \in users THEN 1 ELSE 0
fs_resolve_gid(name, groups) == IF name \in groups THEN 1 ELSE 0

\* Both the user and the group must be known by now, and there is no second
\* time.
fix_runtime_dir_ownership(users, groups) ==
  /\ ~runtime_dirs_chowned_
  /\ runtime_dirs_chowned_' = TRUE
  /\ owned' = { o \in RuntimeUser :
                  fs_resolve_uid(o, users) # 0 /\ fs_resolve_gid(o, groups) # 0 }
  /\ UNCHANGED <<mounts, moved, mounted_, early, runtime_dirs, refused, failures>>

\* The next entry of the loop over mounted_.
\* (mutant: first to last)
NextUnmountForward == 1
NextUnmount == Len(mounted_)

\* phase::Shutdown, one umount2: only the root of a mount can be detached.
Unmount ==
  /\ mounted_ # <<>>
  /\ LET target == mounted_[NextUnmount]
     IN /\ mounted_' = RemoveAt(mounted_, NextUnmount)
        /\ IF IsMountPoint(mounts, target)
           THEN mounts' = Detach(mounts, Lookup(mounts, target)) /\ UNCHANGED refused
           ELSE refused' = refused \cup {target} /\ UNCHANGED mounts
  /\ UNCHANGED <<moved, early, runtime_dirs, owned, runtime_dirs_chowned_, failures>>
===============================================================================
