------------------------------- MODULE MCProgram -------------------------------
(***************************************************************************)
(* An instance of Program.  PID 1 starts on an empty file system, after an *)
(* initramfs or with everything mounted, and has mount units; in test mode *)
(* everything is mounted, and there are sockets and a TUI.                 *)
(*                                                                         *)
(* The mount units: a device and a bind mount below it, given twice; /run; *)
(* /dev; /sys/fs; an incomplete one; a remount; a mount moved below        *)
(* itself, which is refused; /tmp moved; a copy of /dev with all below it; *)
(* /dev bound over /, so that nothing shows any more whether /dev is       *)
(* mounted; a change of propagation; a second /dev, and /dev moved.        *)
(*                                                                         *)
(* The sockets: two units with a path in common, of every kind that leaves *)
(* something behind, a device that a netlink address names, too, an        *)
(* address with an unknown specifier, and two that are cut to the same.    *)
(***************************************************************************)
EXTENDS Program

MCName == {"proc", "sys", "dev", "shm", "pts", "run", "fs", "cgroup", "tmp",
           "data", "b", "x", "sda", "tmpfs", "devtmpfs"}

\* Tables with a root, and a root over that of an initramfs.
Root == [n \in {Fs!RootMount} |->
           [at |-> <<>>, on |-> Fs!Nowhere, dev |-> <<"root">>, by |-> "host"]]
Switched == Fs!Attach(Root, <<>>, <<"disk">>, "host")

\* Some entries of kEarlyMounts are mounted, in their order.
With(table, targets) ==
  LET Mounted(t, e) ==
        IF e.target \in targets
        THEN Fs!Attach(t, e.target, Fs!DeviceOf(e.fstype, e.target, "host"), "host")
        ELSE t
  IN Fs!FoldLeft(Mounted, table, Fs!kEarlyMounts)

Early == { Fs!kEarlyMounts[k].target : k \in 1..Len(Fs!kEarlyMounts) }
Full == With(Switched, Early)

MCHost ==
  [ init    |-> {Root, With(Switched, {<<"proc">>, <<"sys">>, <<"dev">>}), Full},
    test    |-> {Full},
    monitor |-> {Full} ]

MCTerminal == [init |-> {11}, test |-> {11}, monitor |-> Height]

Data == [name |-> "data.mount", what |-> <<"sda">>, where |-> <<"data">>, fs |-> "ext4",
         options |-> <<"ro">>]

Tmpfs(name, where) ==
  [name |-> name, what |-> <<"tmpfs">>, where |-> where, fs |-> "tmpfs",
   options |-> <<"mode=0755", "defaults">>]
Other(name, what, where, options) ==
  [name |-> name, what |-> what, where |-> where, fs |-> "", options |-> options]

Mounts ==
  << Data,
     Other("data-b.mount", <<"data">>, <<"data", "b">>, <<"bind">>),
     Other("b.mount", <<"data">>, <<"data", "b">>, <<"bind">>),
     Tmpfs("run.mount", <<"run">>),
     [Tmpfs("dev.mount", <<"dev">>) EXCEPT !.fs = "devtmpfs"],
     Tmpfs("sys-fs.mount", <<"sys", "fs">>),
     Tmpfs("x.mount", Fs!Empty),
     Other("data2.mount", <<"sda">>, <<"data">>, <<"remount">>),
     Other("data3.mount", <<"data">>, <<"data", "x">>, <<"move">>),
     Other("data-x.mount", <<"tmp">>, <<"data", "x">>, <<"move">>),
     Other("x.mount", <<"dev">>, <<"x">>, <<"rbind">>),
     Other("-.mount", <<"dev">>, Fs!OverRoot, <<"bind">>),
     Other("-2.mount", <<"dev">>, Fs!OverRoot, <<"private">>),
     Tmpfs("dev2.mount", <<"dev">>),
     Other("data-b2.mount", <<"dev">>, <<"data", "b">>, <<"move">>) >>
MCMountUnits == [init |-> Mounts, test |-> <<Data>>, monitor |-> <<>>]

NoListen ==
  [t \in {"Stream", "Datagram", "SequentialPacket", "FIFO", "Special", "Netlink",
          "MessageQueue"} |-> <<>>]
SocketUnit(name, listen) ==
  [f \in DOMAIN NoListen \cup {"name", "service"} |->
     IF f = "name" THEN name ELSE IF f = "service" THEN <<>> ELSE listen[f]]
A      == <<"/", "a">>
Long   == <<"/", "l", "o", "n", "g">>
Longer == <<"/", "l", "o", "n", "e", "r">>
Sockets ==
  << SocketUnit(<<"x", ".", "socket">>,
       [NoListen EXCEPT !["Stream"] = <<A, <<"/", "%", "z">>, Long>>,
                        !["Special"] = << <<"/", "dev">> >>]),
     SocketUnit(<<"y", "@", "i", ".", "socket">>,
       [NoListen EXCEPT !["FIFO"] = << <<"/", "%", "i">>, <<"r">> >>, !["Datagram"] = <<A, Longer>>,
                        !["Netlink"] = << <<"/", "dev">> >>]),
     SocketUnit(<<"y", "@", ".", "socket">>, [NoListen EXCEPT !["FIFO"] = <<A>>]) >>
MCAllUnits == [init |-> <<>>, test |-> Sockets, monitor |-> <<>>]
MCPresent == { <<"/", "dev">>, A }
MCUnescaped == [c \in {"\\x2d"} |-> "-"]
===============================================================================
