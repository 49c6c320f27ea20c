----------------------------- MODULE MCSupervisor -----------------------------
(***************************************************************************)
(* Instances of Supervisor for TLC.  Each configuration picks a boot order *)
(* and unit files that bring one group of hazards together.                *)
(***************************************************************************)
EXTENDS Supervisor, TLC

CONSTANTS p1, p2, p3, o1

\* A service with the given Restart= and start limits.
Service(policy, limit, interval) ==
  [ restart_policy         |-> policy,
    restart_limit_burst    |-> limit,
    restart_limit_interval |-> interval,
    exec_start_pre         |-> <<>>,
    exec_start             |-> TRUE,
    is_bare_template       |-> FALSE,
    conditional            |-> FALSE ]

PidSymmetry == Permutations(Pid)

NoSockets == <<>>

\* ---- restarts: one service that always comes back, one that does so only
\* when it fails and runs an ExecStartPre command first.
RestartUnits == {"a.service", "b.service"}
RestartFiles ==
  [u \in RestartUnits |->
     IF u = "a.service" THEN Service("always", 1, 3)
     ELSE [Service("on-failure", 2, 2) EXCEPT !.exec_start_pre = <<FALSE, TRUE>>]]
RestartOrder == <<"b.service", "a.service">>

\* ---- boot: systemd-sysusers, which may be skipped, fail to start, fail or
\* succeed; a service with an ExecStartPre command; a bare template that only
\* its socket unit starts, which has two entries and admits one connection; a
\* socket unit that finds no service.
BootUnits == {"systemd-sysusers.service", "net.service", "bare@.service"}
BootFiles ==
  [u \in BootUnits |->
     CASE u = "systemd-sysusers.service" ->
            [Service("on-failure", 1, 1) EXCEPT !.conditional = TRUE]
       [] u = "net.service" ->
            [Service("on-abort", 1, 1) EXCEPT !.exec_start_pre = <<TRUE>>]
       [] u = "bare@.service" ->
            [Service("sometimes", 1, 1) EXCEPT !.is_bare_template = TRUE]]
BootOrder == <<"systemd-sysusers.service", "bare@.service", "net.service">>
BootFdToSocket ==
  [fd \in ListenFd |-> IF fd = "fd7" THEN "lone.socket" ELSE "bare.socket"]

\* The socket units have no Service=, and there is only the template of one.
Names == INSTANCE Pairing WITH Unescaped <- <<>>
BootPair ==
  [s \in Socket |->
     LET template == <<"bare", "@", ".", "service">>
         stem == IF s = "lone.socket" THEN "lone" ELSE "bare"
         sock == [name |-> <<stem, ".", "socket">>, service |-> <<>>]
     IN IF Names!ResolvePair(sock, {template}) = template THEN "bare@.service" ELSE None]
BootMaxConn == [s \in Socket |-> 1]

\* ---- progress: one service with an ExecStartPre command that always comes
\* back and also serves connections.
LiveUnits == {"a.service"}
LiveFiles ==
  [u \in LiveUnits |->
     [Service("always", 1, 0) EXCEPT !.exec_start_pre = <<FALSE>>]]
LiveOrder == <<"a.service">>
LiveFdToSocket == [fd \in ListenFd |-> "a.socket"]
LivePair == [s \in Socket |-> "a.service"]
LiveMaxConn == [s \in Socket |-> 1]
===============================================================================
