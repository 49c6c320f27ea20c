-------------------------- MODULE ServiceChildProofs --------------------------
(***************************************************************************)
(* Proofs about SocketActivation and ServiceChild.                         *)
(*                                                                         *)
(* The renumbering of spawn_with_socket_fds is right for descriptors that  *)
(* are collected in the order they were opened, however many there are.    *)
(* This carries over to ServiceChild, where a service that runs has the    *)
(* identity, the directories and the variables its unit file asks for,     *)
(* whatever systemd-sysusers does in the meantime and whichever call       *)
(* fails.                                                                  *)
(*                                                                         *)
(* resolve, split_exec and parse_environment read their input one          *)
(* character at a time.  The lemmas about them say what one more character *)
(* does (ResolvingLaws, SplittingLaws, AssigningLaws); from these it       *)
(* follows by induction over the text what they make of a whole one.       *)
(***************************************************************************)
EXTENDS ServiceChild, SequenceLemmas, FiniteSetTheorems

-------------------------------------------------------------------------------
(* What the descriptors of PID 1 and of a child are                        *)

\* The descriptors of PID 1 above standard error.
Own == SD_LISTEN_FDS_START .. (next_fd - 1)

\* All of PID 1's descriptors are closed on exec, but for those of the
\* service that is being spawned.
Pid1Inv ==
  /\ next_fd \in Nat /\ next_fd >= FirstFd
  /\ fds \in [SocketUnit -> Seq(Nat)]
  /\ \A s \in SocketUnit : \A k \in 1..Len(fds[s]) :
       fds[s][k] \in FirstFd .. ((IF conn = None THEN next_fd ELSE conn) - 1)
  /\ env \in Seq(Nat)
  /\ \A k \in 1..Len(env) : env[k] \in Own
  /\ conn # None => conn \in Nat /\ conn = next_fd - 1 /\ conn >= FirstFd
  /\ pc \in {"bind", "idle", "collect"} => conn = None
  /\ cloexec = IF pc \in {"shuffle", "running", "failed", "exited"}
               THEN Own \ Members(env) ELSE Own

\* The child after i - 1 iterations, if its descriptors ascend: those below
\* Target(i) are in place, those from there on are as they were in PID 1
\* except that the ones already moved are closed.
LoopInv ==
  pc = "shuffle" /\ Ascending(env) =>
    /\ w = env
    /\ i \in 1..(Len(env) + 1)
    /\ \A k \in i..Len(env) : env[k] >= Target(i)
    /\ \A fd \in Int :
         fd \in DOMAIN table <=>
           \/ fd \in 0..(Target(i) - 1)
           \/ fd >= Target(i) /\ fd < next_fd
              /\ \A k \in 1..(i - 1) : env[k] # fd
    /\ \A k \in 1..(i - 1) : table[Target(k)] = env[k]
    /\ \A fd \in DOMAIN table : fd >= Target(i) => table[fd] = fd
    /\ flags = { fd \in Own \ Members(env) : fd >= Target(i) }
    /\ DOMAIN table \subseteq Int

Inv == Pid1Inv /\ LoopInv /\ OrderedActivation

-------------------------------------------------------------------------------
(* PID 1                                                                   *)

\* The flags when a spawn is over: everything is closed on exec again.
LEMMA ReturnStep ==
  ASSUME Pid1Inv, pc \in {"spawn", "running", "failed", "exited"}, ReturnFromSpawn
  PROVE  Pid1Inv'
<1> DEFINE old == IF conn = None THEN next_fd ELSE conn
<1>1. /\ next_fd' = old /\ cloexec' = (cloexec \cup Members(env)) \ {conn}
      /\ conn' = None /\ env' = <<>> /\ pc' = "idle" /\ fds' = fds
  BY DEF ReturnFromSpawn, FlagsRestored
<1>2. Members(env) \subseteq Own
  BY DEF Pid1Inv, Members
<1>3. old \in Nat /\ old >= FirstFd
  BY SocketAssumption DEF Pid1Inv
<1>4. Own' = Own \ {conn}
  <2>1. CASE conn = None
    <3>1. None \notin Own
      BY SocketAssumption DEF Pid1Inv, Own, SD_LISTEN_FDS_START
    <3> QED
      BY <1>1, <2>1, <3>1 DEF Own
  <2>2. CASE conn # None
    <3>1. conn \in Nat /\ next_fd = conn + 1
      BY <2>2 DEF Pid1Inv
    <3>2. next_fd' = conn
      BY <1>1, <2>2
    <3> QED
      BY <3>1, <3>2 DEF Own, SD_LISTEN_FDS_START
  <2> QED
    BY <2>1, <2>2
<1>5. cloexec' = Own'
  BY <1>1, <1>2, <1>4 DEF Pid1Inv
<1>6. env' \in Seq(Nat) /\ Len(env') = 0
  BY <1>1
<1>7. \A s \in SocketUnit : \A k \in 1..Len(fds[s]) :
        fds[s][k] \in FirstFd .. (old - 1)
  BY DEF Pid1Inv
<1> HIDE DEF old
<1>8. \A k \in 1..Len(env') : env'[k] \in Own'
  BY <1>6
<1>9. fds' \in [SocketUnit -> Seq(Nat)]
  BY <1>1 DEF Pid1Inv
<1> QED
  BY <1>1, <1>3, <1>5, <1>6, <1>7, <1>8, <1>9 DEF Pid1Inv

\* Every step keeps the facts about the descriptors of PID 1.
LEMMA Pid1InvStep ==
  ASSUME Pid1Inv, [Next]_vars
  PROVE  Pid1Inv'
<1> USE DEF vars, pid1, child
<1>a. FirstFd \in Nat /\ FirstFd >= SD_LISTEN_FDS_START
  BY SocketAssumption
<1>b. next_fd \in Nat /\ next_fd >= FirstFd
  BY DEF Pid1Inv
<1>c. fds \in [SocketUnit -> Seq(Nat)] /\ env \in Seq(Nat)
  BY DEF Pid1Inv
<1>1. ASSUME NEW s \in SocketUnit, BindSocketUnit(s)
      PROVE  Pid1Inv'
  <2>1. PICK bound \in 0..listen[s] :
          /\ fds' = [fds EXCEPT ![s] = [k \in 1..bound |-> next_fd + k - 1]]
          /\ next_fd' = next_fd + bound
          /\ cloexec' = cloexec \cup next_fd .. (next_fd + bound - 1)
    BY <1>1 DEF BindSocketUnit
  <2>2. pc = "bind" /\ conn = None /\ UNCHANGED <<pc, env, conn>>
    BY <1>1 DEF BindSocketUnit, Pid1Inv
  <2>3. bound \in Nat
    BY SocketAssumption
  <2>4. cloexec' = Own'
    <3>1. cloexec = Own
      BY <2>2 DEF Pid1Inv
    <3> QED
      BY <1>a, <1>b, <2>1, <2>3, <3>1 DEF Own, SD_LISTEN_FDS_START
  <2>5. Own \subseteq Own'
    BY <1>b, <2>1, <2>3 DEF Own
  <2> DEFINE new == [k \in 1..bound |-> next_fd + k - 1]
  <2>6. new \in Seq(Nat) /\ Len(new) = bound
    BY <1>b, <2>3
  <2>7. \A k \in 1..bound : new[k] \in FirstFd .. (next_fd' - 1)
    BY <1>a, <1>b, <2>1, <2>3
  <2>8. \A r \in SocketUnit : fds'[r] = IF r = s THEN new ELSE fds[r]
    BY <1>c, <2>1
  <2>9. fds' \in [SocketUnit -> Seq(Nat)]
    BY <1>c, <2>1, <2>6
  <2> HIDE DEF new
  <2>10. ASSUME NEW r \in SocketUnit, NEW k \in 1..Len(fds'[r])
         PROVE  fds'[r][k] \in FirstFd .. (next_fd' - 1)
    <3>1. CASE r = s
      BY <2>6, <2>7, <2>8, <3>1
    <3>2. CASE r # s
      <4>1. fds[r][k] \in FirstFd .. (next_fd - 1)
        BY <2>2, <2>8, <3>2 DEF Pid1Inv
      <4> QED
        BY <1>a, <1>b, <2>1, <2>3, <2>8, <3>2, <4>1
    <3> QED
      BY <3>1, <3>2
  <2>11. next_fd' \in Nat /\ next_fd' >= FirstFd
    BY <1>a, <1>b, <2>1, <2>3
  <2>12. \A k \in 1..Len(env) : env[k] \in Own'
    BY <2>5 DEF Pid1Inv
  <2> QED
    BY <1>c, <2>2, <2>4, <2>9, <2>10, <2>11, <2>12 DEF Pid1Inv
<1>2. ASSUME NEW s \in SocketUnit, collect_socket_env(s)
      PROVE  Pid1Inv'
  <2>1. /\ pc = "collect" /\ conn = None
        /\ UNCHANGED <<pc, fds, next_fd, cloexec, conn>>
        /\ env' = env \o fds[s] \/ env' = env
    BY <1>2 DEF collect_socket_env, Pid1Inv
  <2>2. Own' = Own
    BY <2>1 DEF Own
  <2>3. \A k \in 1..Len(fds[s]) : fds[s][k] \in Own
    BY <1>a, <1>b, <2>1 DEF Pid1Inv, Own, SD_LISTEN_FDS_START
  <2>4. \A k \in 1..Len(env) : env[k] \in Own
    BY DEF Pid1Inv
  <2>5. fds[s] \in Seq(Nat)
    BY <1>c
  <2>6. env' \in Seq(Nat) /\ \A k \in 1..Len(env') : env'[k] \in Own
    <3>1. CASE env' = env
      BY <1>c, <2>4, <3>1
    <3>2. CASE env' = env \o fds[s]
      <4>1. /\ env' \in Seq(Nat) /\ Len(env') = Len(env) + Len(fds[s])
            /\ \A k \in 1..Len(env) : env'[k] = env[k]
            /\ \A k \in 1..Len(fds[s]) : env'[Len(env) + k] = fds[s][k]
        BY <1>c, <2>5, <3>2
      <4>2. ASSUME NEW k \in 1..Len(env'), k \notin 1..Len(env)
            PROVE  env'[k] \in Own
        <5>1. /\ k - Len(env) \in 1..Len(fds[s])
              /\ Len(env) + (k - Len(env)) = k
          BY <1>c, <2>5, <4>1, <4>2
        <5> QED
          BY <2>3, <4>1, <5>1
      <4> QED
        BY <2>4, <4>1, <4>2
    <3> QED
      BY <2>1, <3>1, <3>2
  <2> QED
    BY <2>1, <2>2, <2>6 DEF Pid1Inv
<1>3. ASSUME NEW u \in Service, StartService(u)
      PROVE  Pid1Inv'
  <2>1. /\ pc = "idle" /\ pc' = "collect" /\ env' = <<>>
        /\ UNCHANGED <<fds, next_fd, cloexec, conn>>
    BY <1>3 DEF StartService
  <2>2. env' \in Seq(Nat) /\ Len(env') = 0 /\ Own' = Own
    BY <2>1 DEF Own
  <2> QED
    BY <2>1, <2>2 DEF Pid1Inv
<1>4. CASE SocketsBound \/ Collected
  <2>1. /\ UNCHANGED <<fds, next_fd, cloexec, env, conn>>
        /\ pc \in {"bind", "collect"} /\ pc' \in {"idle", "spawn"}
    BY <1>4 DEF SocketsBound, Collected
  <2>2. Own' = Own
    BY <2>1 DEF Own
  <2> QED
    BY <2>1, <2>2 DEF Pid1Inv
<1>5. CASE accept_ready
  <2>1. /\ pc = "idle" /\ pc' = "spawn" /\ fds' = fds
        /\ conn' = next_fd /\ next_fd' = next_fd + 1 /\ env' = <<next_fd>>
        /\ cloexec' = cloexec \cup {next_fd}
    BY <1>5 DEF accept_ready
  <2>2. conn = None /\ cloexec = Own /\ conn' # None
    BY <2>1, <1>b, SocketAssumption DEF Pid1Inv
  <2>3. Own' = Own \cup {next_fd}
    BY <1>a, <1>b, <2>1 DEF Own, SD_LISTEN_FDS_START
  <2>4. env' \in Seq(Nat) /\ Len(env') = 1 /\ env'[1] = next_fd
    BY <1>b, <2>1
  <2>5. \A k \in 1..Len(env') : env'[k] \in Own'
    BY <2>3, <2>4
  <2>6. conn' \in Nat /\ conn' = next_fd' - 1 /\ conn' >= FirstFd
    BY <1>a, <1>b, <2>1
  <2>7. next_fd' \in Nat /\ next_fd' >= FirstFd
    BY <1>a, <1>b, <2>1
  <2> QED
    BY <1>c, <2>1, <2>2, <2>3, <2>4, <2>5, <2>6, <2>7 DEF Pid1Inv
<1>6. CASE ForkFails \/ ChildStarted
  BY <1>6, ReturnStep DEF ForkFails, ChildStarted
<1>7. CASE Fork
  <2>1. /\ pc = "spawn" /\ pc' = "shuffle" /\ cloexec' = cloexec \ Members(env)
        /\ UNCHANGED <<fds, next_fd, env, conn>>
    BY <1>7 DEF Fork
  <2>2. Own' = Own /\ Members(env)' = Members(env)
    BY <2>1 DEF Own, Members
  <2> QED
    BY <2>1, <2>2 DEF Pid1Inv
<1>8. CASE Renumber \/ Exec \/ ExecFails
  <2>1. /\ UNCHANGED <<fds, next_fd, cloexec, env, conn>>
        /\ pc = "shuffle" /\ pc' \in {"shuffle", "running", "failed", "exited"}
    BY <1>8 DEF Renumber, Exec, ExecFails
  <2>2. Own' = Own /\ Members(env)' = Members(env)
    BY <2>1 DEF Own, Members
  <2> QED
    BY <2>1, <2>2 DEF Pid1Inv
<1>9. CASE UNCHANGED vars
  BY <1>9 DEF Pid1Inv, Own, Members
<1> QED
  BY <1>1, <1>2, <1>3, <1>4, <1>5, <1>6, <1>7, <1>8, <1>9 DEF Next

-------------------------------------------------------------------------------
(* The child                                                               *)

\* One iteration of the renumbering, for descriptors that ascend.
LEMMA RenumberInOrder ==
  ASSUME Pid1Inv, LoopInv, Ascending(env), Renumber
  PROVE  pc' = "shuffle" /\ LoopInv'
<1> USE DEF Target, SD_LISTEN_FDS_START
<1>1. /\ pc = "shuffle" /\ i' = i + 1 /\ UNCHANGED pid1
      /\ i <= Len(w)
  BY DEF Renumber
<1>2. UNCHANGED <<next_fd, env>>
  BY <1>1 DEF pid1
<1>3. /\ w = env /\ i \in 1..Len(env)
      /\ \A k \in i..Len(env) : env[k] >= Target(i)
      /\ \A k \in 1..(i - 1) : table[Target(k)] = env[k]
      /\ \A fd \in DOMAIN table : fd >= Target(i) => table[fd] = fd
      /\ flags = { fd \in Own \ Members(env) : fd >= Target(i) }
      /\ DOMAIN table \subseteq Int
  BY <1>1, <1>2 DEF LoopInv, Pid1Inv
<1>4. \A fd \in Int :
        fd \in DOMAIN table <=>
          \/ fd \in 0..(Target(i) - 1)
          \/ fd >= Target(i) /\ fd < next_fd /\ \A k \in 1..(i - 1) : env[k] # fd
  BY <1>1 DEF LoopInv
<1>5. env \in Seq(Nat) /\ next_fd \in Nat
  BY DEF Pid1Inv
<1>6. \A k \in 1..Len(env) : env[k] \in Nat /\ env[k] >= 3 /\ env[k] < next_fd
  BY <1>5 DEF Pid1Inv, Own
<1>7. \A j, k \in 1..Len(env) : j < k => env[j] < env[k]
  BY DEF Ascending
<1>8. \A k \in (i + 1)..Len(env) : env[k] > env[i] /\ env[k] >= Target(i + 1)
  BY <1>3, <1>5, <1>6, <1>7
<1>9. Own' = Own /\ Members(env)' = Members(env)
  BY <1>2 DEF Own, Members
<1>10. env[i] \in Members(env) /\ env[i] >= Target(i)
  BY <1>3, <1>5 DEF Members
<1>11. Own \subseteq Int
  BY DEF Own
<1> DEFINE Goal == /\ pc' = "shuffle" /\ w' = env
                   /\ \A fd \in Int :
                        fd \in DOMAIN table' <=>
                          \/ fd \in 0..(Target(i + 1) - 1)
                          \/ fd >= Target(i + 1) /\ fd < next_fd
                             /\ \A k \in 1..i : env[k] # fd
                   /\ \A k \in 1..i : table'[Target(k)] = env[k]
                   /\ \A fd \in DOMAIN table' : fd >= Target(i + 1) => table'[fd] = fd
                   /\ flags' = { fd \in Own \ Members(env) : fd >= Target(i + 1) }
                   /\ DOMAIN table' \subseteq Int
<1>12. ASSUME w[i] = Target(i)
       PROVE  Goal
  <2>1. UNCHANGED <<pc, table, flags, w>>
    BY <1>12 DEF Renumber
  <2>2. \A fd \in Int : fd >= Target(i) <=> fd = Target(i) \/ fd >= Target(i + 1)
    BY <1>3
  <2>3. Target(i) \in DOMAIN table /\ table[Target(i)] = env[i]
    <3>1. /\ env[i] = Target(i) /\ env[i] \in Int /\ env[i] >= Target(i)
          /\ env[i] < next_fd
      BY <1>3, <1>6, <1>12
    <3>2. ASSUME NEW k \in 1..(i - 1)
          PROVE  env[k] # env[i]
      <4>1. k \in 1..Len(env) /\ k < i
        BY <1>3, <1>5
      <4> QED
        BY <4>1, <1>3, <1>6, <1>7
    <3>3. env[i] \in DOMAIN table
      BY <3>1, <3>2, <1>4
    <3> QED
      BY <3>1, <3>3, <1>3
  <2>4. flags' = { fd \in Own \ Members(env) : fd >= Target(i + 1) }
    BY <1>3, <1>10, <1>11, <1>12, <2>1, <2>2
  <2>5. \A k \in 1..i : k \in 1..(i - 1) \/ k = i
    BY <1>3
  <2>6. \A k \in 1..i : table'[Target(k)] = env[k]
    BY <1>3, <2>1, <2>3, <2>5
  <2>7. ASSUME NEW fd \in Int
        PROVE  fd \in DOMAIN table <=>
                 \/ fd \in 0..(Target(i + 1) - 1)
                 \/ fd >= Target(i + 1) /\ fd < next_fd
                    /\ \A k \in 1..i : env[k] # fd
    BY <1>3, <1>4, <1>6, <1>12, <2>3, <2>5
  <2>8. \A fd \in DOMAIN table' : fd >= Target(i + 1) => table'[fd] = fd
    BY <1>3, <2>1
  <2> QED
    BY <1>1, <1>3, <2>1, <2>4, <2>6, <2>7, <2>8
<1>13. ASSUME w[i] # Target(i)
       PROVE  Goal
  <2> DEFINE src == env[i]
             tgt == Target(i)
             t == Close(table, tgt)
             d == Dup2(t, src, tgt)
  <2>1. src \in Int /\ tgt \in Int /\ src > tgt
    BY <1>3, <1>6, <1>10, <1>13
  <2>2. src \in DOMAIN table /\ table[src] = src
    <3>1. ASSUME NEW k \in 1..(i - 1)
          PROVE  env[k] # src
      <4>1. k \in 1..Len(env) /\ k < i
        BY <1>3, <1>5
      <4> QED
        BY <1>3, <1>6, <1>7, <4>1
    <3> QED
      BY <1>3, <1>4, <1>6, <2>1, <3>1, SMTT(40)
  <2>3. DOMAIN t = DOMAIN table \ {tgt} /\ \A x \in DOMAIN t : t[x] = table[x]
    BY DEF Close
  <2>4. src \in DOMAIN t
    BY <2>1, <2>2, <2>3
  <2>5. [k \in 1..Len(w) |-> IF k > i /\ w[k] = w[i] THEN tgt ELSE w[k]] = env
    <3>1. \A k \in 1..Len(env) : ~(k > i /\ env[k] = env[i])
      BY <1>3, <1>5, <1>6, <1>7
    <3> QED
      BY <1>3, <1>5, <3>1
  <2>6. ~ \E k \in (i + 1)..Len(w) : env[k] = w[i]
    BY <1>3, <1>8, <1>6
  <2>7. /\ pc' = pc /\ w' = env
        /\ table' = Close(d, src)
        /\ flags' = flags \ {tgt, src}
    BY <1>3, <1>13, <2>4, <2>5, <2>6 DEF Renumber, ClosedFirst
  <2>8. /\ DOMAIN d = DOMAIN table \cup {tgt}
        /\ d[tgt] = src
        /\ \A x \in DOMAIN table : x # tgt => d[x] = table[x]
    BY <2>2, <2>3, <2>4 DEF Dup2
  <2>9. /\ DOMAIN table' = (DOMAIN table \cup {tgt}) \ {src}
        /\ table'[tgt] = src
        /\ \A x \in DOMAIN table : x # tgt /\ x # src => table'[x] = table[x]
    BY <2>1, <2>7, <2>8 DEF Close
  <2> HIDE DEF t, d
  <2>10. \A fd \in Int : fd >= Target(i + 1) <=> fd >= tgt /\ fd # tgt
    BY <1>3
  <2>11. flags' = { fd \in Own \ Members(env) : fd >= Target(i + 1) }
    BY <1>3, <1>10, <1>11, <2>7, <2>10
  <2>12. \A k \in 1..i : k \in 1..(i - 1) \/ k = i
    BY <1>3
  <2>13. ASSUME NEW k \in 1..i
         PROVE  table'[Target(k)] = env[k]
    <3>1. CASE k = i
      BY <2>9, <3>1
    <3>2. CASE k \in 1..(i - 1)
      <4>1. Target(k) \in DOMAIN table /\ Target(k) < tgt
        BY <1>3, <1>4, <3>2
      <4> QED
        BY <1>3, <2>1, <2>9, <3>2, <4>1
    <3> QED
      BY <2>12, <3>1, <3>2
  <2>14. ASSUME NEW fd \in Int
         PROVE  fd \in DOMAIN table' <=>
                  \/ fd \in 0..(Target(i + 1) - 1)
                  \/ fd >= Target(i + 1) /\ fd < next_fd
                     /\ \A k \in 1..i : env[k] # fd
    <3>1. CASE fd < tgt
      BY <1>3, <1>4, <2>1, <2>9, <3>1
    <3>2. CASE fd = tgt
      BY <1>3, <2>1, <2>9, <3>2
    <3>3. CASE fd > tgt
      <4>1. fd \in DOMAIN table' <=> fd \in DOMAIN table /\ fd # src
        BY <2>1, <2>9, <3>3
      <4>2. fd >= Target(i) /\ fd >= Target(i + 1)
            /\ fd \notin 0..(Target(i) - 1) /\ fd \notin 0..(Target(i + 1) - 1)
        BY <1>3, <2>1, <3>3
      <4>3. fd \in DOMAIN table <=> fd < next_fd /\ \A k \in 1..(i - 1) : env[k] # fd
        BY <1>4, <4>2
      <4>4. (\A k \in 1..i : env[k] # fd) <=>
              (\A k \in 1..(i - 1) : env[k] # fd) /\ fd # src
        BY <1>3, <2>12
      <4> QED
        BY <4>1, <4>2, <4>3, <4>4
    <3> QED
      BY <2>1, <3>1, <3>2, <3>3
  <2>15. \A fd \in DOMAIN table' : fd >= Target(i + 1) => table'[fd] = fd
    BY <1>3, <2>1, <2>9, <2>10
  <2>16. DOMAIN table' \subseteq Int
    BY <1>3, <2>1, <2>9
  <2> QED
    BY <1>1, <2>7, <2>11, <2>13, <2>14, <2>15, <2>16
<1>14. Goal
  BY <1>12, <1>13
<1>15. i' \in 1..(Len(env) + 1) /\ i' - 1 = i
  BY <1>1, <1>3, <1>5
<1>16. \A k \in i'..Len(env) : env[k] >= Target(i')
  BY <1>1, <1>8
<1> QED
  BY <1>1, <1>2, <1>9, <1>14, <1>15, <1>16 DEF LoopInv

\* What exec leaves open.
LEMMA ExecStep ==
  ASSUME Pid1Inv, LoopInv, Exec
  PROVE  OrderedActivation' /\ LoopInv'
<1> USE DEF Target, SD_LISTEN_FDS_START
<1>1. /\ pc = "shuffle" /\ pc' = "running" /\ i > Len(w) /\ UNCHANGED pid1
      /\ table' = [fd \in DOMAIN table \ flags |-> table[fd]]
  BY DEF Exec
<1>2. UNCHANGED env
  BY <1>1 DEF pid1
<1> SUFFICES ASSUME Ascending(env)
             PROVE  /\ DOMAIN table' = 0 .. Target(Len(env))
                    /\ \A k \in 1..Len(env) : table'[Target(k)] = env[k]
  BY <1>1, <1>2 DEF OrderedActivation, LoopInv, Ascending
<1>3. env \in Seq(Nat) /\ next_fd \in Nat /\ next_fd >= FirstFd
  BY DEF Pid1Inv
<1>4. i = Len(env) + 1
  BY <1>1, <1>3 DEF LoopInv
<1>5. /\ DOMAIN table \subseteq Int
      /\ flags = { fd \in Own \ Members(env) : fd >= Target(i) }
      /\ \A k \in 1..Len(env) : table[Target(k)] = env[k]
  BY <1>1, <1>3, <1>4 DEF LoopInv
<1>6. \A fd \in Int :
        fd \in DOMAIN table <=>
          \/ fd \in 0..(Target(i) - 1)
          \/ fd >= Target(i) /\ fd < next_fd /\ fd \notin Members(env)
  BY <1>1, <1>3, <1>4 DEF LoopInv, Members
<1>7. \A fd \in Int : fd >= Target(i) /\ fd < next_fd => fd \in Own
  BY <1>3, <1>4 DEF Own
<1>8. \A fd \in Int : fd \in DOMAIN table \ flags <=> fd \in 0..(Target(i) - 1)
  BY <1>3, <1>4, <1>5, <1>6, <1>7
<1>9. Target(i) - 1 = Target(Len(env))
  BY <1>3, <1>4
<1>10. DOMAIN table' = 0 .. Target(Len(env))
  BY <1>1, <1>5, <1>8, <1>9
<1>11. \A k \in 1..Len(env) : Target(k) \in DOMAIN table'
  BY <1>3, <1>10
<1> QED
  BY <1>1, <1>5, <1>10, <1>11

\* Every step keeps the loop invariant of the renumbering and, with it, the
\* property.
LEMMA LoopStep ==
  ASSUME Inv, [Next]_vars
  PROVE  LoopInv' /\ OrderedActivation'
<1> USE DEF vars, pid1, child
<1>1. CASE Fork
  <2>1. /\ pc = "spawn" /\ pc' = "shuffle" /\ w' = env /\ i' = 1
        /\ table' = [fd \in 0 .. (next_fd - 1) |-> fd]
        /\ flags' = cloexec \ Members(env)
        /\ UNCHANGED <<next_fd, env>>
    BY <1>1 DEF Fork
  <2>2. OrderedActivation'
    BY <2>1 DEF OrderedActivation
  <2>3. /\ env \in Seq(Nat) /\ next_fd \in Nat /\ next_fd >= 3
        /\ cloexec = Own /\ \A k \in 1..Len(env) : env[k] \in Own
    BY <2>1, SocketAssumption DEF Inv, Pid1Inv, SD_LISTEN_FDS_START
  <2>4. Own' = Own /\ Members(env)' = Members(env)
    BY <2>1 DEF Own, Members
  <2>5. Target(1) = 3
    BY DEF Target, SD_LISTEN_FDS_START
  <2>6. flags' = { fd \in Own \ Members(env) : fd >= 3 }
    BY <2>1, <2>3 DEF Own, SD_LISTEN_FDS_START
  <2>7. DOMAIN table' = 0..(next_fd - 1) /\ \A fd \in DOMAIN table' : table'[fd] = fd
    BY <2>1
  <2>8. \A fd \in Int : fd \in 0..(next_fd - 1) <=>
                          fd \in 0..2 \/ (fd >= 3 /\ fd < next_fd)
    BY <2>3
  <2>9. \A k \in 1..Len(env) : env[k] >= 3
    BY <2>3 DEF Own, SD_LISTEN_FDS_START
  <2>10. 1 \in 1..(Len(env) + 1) /\ 1..(1 - 1) = {} /\ 3 - 1 = 2
    BY <2>3
  <2>11. \A fd \in Int :
           fd \in DOMAIN table' <=>
             \/ fd \in 0..(Target(i') - 1)
             \/ fd >= Target(i') /\ fd < next_fd'
                /\ \A k \in 1..(i' - 1) : env'[k] # fd
    <3>1. Target(i') = 3 /\ next_fd' = next_fd
      BY <2>1, <2>5
    <3>2. \A k \in 1..(i' - 1) : FALSE
      BY <2>1, <2>10
    <3>3. 0..(Target(i') - 1) = 0..2
      BY <3>1
    <3>4. SUFFICES ASSUME NEW fd \in Int
                   PROVE  fd \in DOMAIN table' <=>
                            \/ fd \in 0..(Target(i') - 1)
                            \/ fd >= Target(i') /\ fd < next_fd'
                               /\ \A k \in 1..(i' - 1) : env'[k] # fd
      OBVIOUS
    <3>5. fd \in DOMAIN table' <=> fd \in 0..2 \/ (fd >= 3 /\ fd < next_fd)
      BY <2>7, <2>8
    <3>6. fd >= Target(i') /\ fd < next_fd' <=> fd >= 3 /\ fd < next_fd
      BY <3>1
    <3>7. \A k \in 1..(i' - 1) : env'[k] # fd
      BY <3>2
    <3>8. fd \in 0..(Target(i') - 1) <=> fd \in 0..2
      BY <3>3
    <3> QED
      BY <3>5, <3>6, <3>7, <3>8
  <2>12. \A k \in i'..Len(env') : env'[k] >= Target(i')
    BY <2>1, <2>3, <2>5, <2>9
  <2>13. \A k \in 1..(i' - 1) : table'[Target(k)] = env'[k]
    BY <2>1, <2>10
  <2>14. flags' = { fd \in Own' \ Members(env)' : fd >= Target(i') }
    BY <2>1, <2>4, <2>5, <2>6
  <2>15. DOMAIN table' \subseteq Int /\ w' = env' /\ i' \in 1..(Len(env') + 1)
    BY <2>1, <2>3, <2>7
  <2>16. LoopInv'
    BY <2>7, <2>11, <2>12, <2>13, <2>14, <2>15 DEF LoopInv
  <2> QED
    BY <2>2, <2>16
<1>2. CASE Renumber
  <2>1. CASE Ascending(env)
    <3>1. pc' = "shuffle" /\ LoopInv'
      BY <1>2, <2>1, RenumberInOrder DEF Inv
    <3> QED
      BY <3>1 DEF OrderedActivation
  <2>2. CASE ~Ascending(env)
    <3>1. UNCHANGED env
      BY <1>2 DEF Renumber
    <3> QED
      BY <2>2, <3>1 DEF LoopInv, OrderedActivation, Ascending
  <2> QED
    BY <2>1, <2>2
<1>3. CASE Exec
  BY <1>3, ExecStep DEF Inv
<1>4. CASE UNCHANGED vars
  BY <1>4 DEF Inv, LoopInv, OrderedActivation, Ascending, Own, Members
<1>5. ASSUME pc' \in {"bind", "idle", "collect", "spawn", "exited"}
      PROVE  LoopInv' /\ OrderedActivation'
  BY <1>5 DEF LoopInv, OrderedActivation
<1>6. ASSUME NEW s, BindSocketUnit(s) \/ collect_socket_env(s) \/ StartService(s)
      PROVE  pc' \in {"bind", "idle", "collect", "spawn"}
  BY <1>6 DEF BindSocketUnit, collect_socket_env, StartService
<1>7. SocketsBound \/ Collected \/ accept_ready \/ ForkFails \/ ChildStarted
      \/ ExecFails
        => pc' \in {"bind", "idle", "collect", "spawn", "exited"}
  BY DEF SocketsBound, Collected, accept_ready, ForkFails, ChildStarted,
         ExecFails, ReturnFromSpawn
<1> QED
  BY <1>1, <1>2, <1>3, <1>4, <1>5, <1>6, <1>7 DEF Next

\* The invariant holds throughout.
LEMMA ActivationInvariant == Spec => []Inv
<1>1. Init => Inv
  <2> SUFFICES ASSUME Init PROVE Inv
    OBVIOUS
  <2>1. LoopInv /\ OrderedActivation
    BY DEF Init, LoopInv, OrderedActivation
  <2>2. Pid1Inv
    <3>1. /\ fds \in [SocketUnit -> Seq(Nat)] /\ env \in Seq(Nat)
          /\ Len(env) = 0 /\ \A s \in SocketUnit : Len(fds[s]) = 0
      BY DEF Init
    <3>2. cloexec = Own
      BY DEF Init, Own
    <3> QED
      BY <3>1, <3>2, SocketAssumption DEF Init, Pid1Inv
  <2> QED
    BY <2>1, <2>2 DEF Inv
<1>2. Inv /\ [Next]_vars => Inv'
  BY Pid1InvStep, LoopStep DEF Inv
<1> QED
  BY <1>1, <1>2, PTL DEF Spec

\* However many sockets a service has, and whatever else PID 1 has open, the
\* descriptors that were opened in the order they are passed arrive at
\* 3, 4, 5, ... and nothing else above standard error does.
THEOREM ActivationInOrder == Spec => []OrderedActivation
<1>1. Inv => OrderedActivation
  BY DEF Inv
<1> QED
  BY <1>1, ActivationInvariant, PTL

-------------------------------------------------------------------------------
(* Descriptors in any order                                                *)

\* The child before exec, whatever the order of its descriptors: what will
\* stay open above standard error is its own, and so is what it still has to
\* duplicate.
OwnInv ==
  pc = "shuffle" =>
    /\ w \in Seq(Nat) /\ i \in Nat \ {0}
    /\ DOMAIN table \subseteq Nat
    /\ \A k \in 1..Len(w) : w[k] >= SD_LISTEN_FDS_START /\ w[k] \notin flags
    /\ \A fd \in DOMAIN table :
         fd >= SD_LISTEN_FDS_START /\ fd \notin flags => table[fd] \in Members(env)

\* One iteration brings no descriptor of PID 1 into the open.
LEMMA RenumberKeepsOwn ==
  ASSUME OwnInv, Renumber
  PROVE  OwnInv'
<1> USE DEF SD_LISTEN_FDS_START
<1>1. pc = "shuffle" /\ i <= Len(w) /\ i' = i + 1 /\ env' = env
  BY DEF Renumber, pid1
<1>2. /\ w \in Seq(Nat) /\ i \in Nat \ {0} /\ DOMAIN table \subseteq Nat
      /\ \A k \in 1..Len(w) : w[k] >= 3 /\ w[k] \notin flags
      /\ \A fd \in DOMAIN table : fd >= 3 /\ fd \notin flags => table[fd] \in Members(env)
  BY <1>1 DEF OwnInv
<1>3. i' \in Nat \ {0} /\ i \in 1..Len(w) /\ Members(env)' = Members(env)
  BY <1>1, <1>2 DEF Members
<1>4. CASE w[i] = Target(i)
  <2>1. UNCHANGED <<pc, table, flags, w>>
    BY <1>4 DEF Renumber
  <2> QED
    BY <2>1, <1>2, <1>3 DEF OwnInv
<1>5. CASE w[i] # Target(i)
  <2> DEFINE tgt == Target(i)
             src == w[i]
             t   == Close(table, tgt)
             w2  == [k \in 1..Len(w) |-> IF k > i /\ w[k] = src THEN tgt ELSE w[k]]
             keep == \E k \in (i + 1)..Len(w) : w2[k] = src
             moved == Dup2(t, src, tgt)
  <2>1. tgt \in Nat /\ tgt >= 3 /\ src \in Nat /\ src >= 3 /\ src \notin flags
    BY <1>2, <1>3 DEF Target
  <2>2. /\ pc' = IF src \in DOMAIN t THEN pc ELSE "failed"
        /\ w' = w2
        /\ table' = IF src \notin DOMAIN t THEN t
                    ELSE IF keep THEN moved ELSE Close(moved, src)
        /\ flags' = flags \ (IF keep THEN {tgt} ELSE {tgt, src})
    BY <1>5 DEF Renumber, ClosedFirst
  <2>3. CASE src \notin DOMAIN t
    BY <2>2, <2>3 DEF OwnInv
  <2>4. CASE src \in DOMAIN t
    <3>1. w2 \in Seq(Nat) /\ Len(w2) = Len(w)
      BY <1>2, <2>1
    <3>2. \A k \in 1..Len(w) : w2[k] = tgt \/ w2[k] = w[k]
      OBVIOUS
    <3>3. flags' \subseteq flags /\ tgt \notin flags'
      BY <2>2
    <3>4. \A k \in 1..Len(w2) : w2[k] >= 3 /\ w2[k] \notin flags'
      BY <3>1, <3>2, <3>3, <2>1, <1>2
    <3>5. /\ DOMAIN t = DOMAIN table \ {tgt}
          /\ \A fd \in DOMAIN t : t[fd] = table[fd]
      BY DEF Close
    <3>6. table[src] \in Members(env)
      BY <2>1, <2>4, <3>5, <1>2
    <3>7. /\ DOMAIN moved = DOMAIN table \cup {tgt}
          /\ moved[tgt] = table[src]
          /\ \A fd \in DOMAIN moved : fd # tgt => moved[fd] = table[fd]
      BY <2>4, <3>5 DEF Dup2
    <3> HIDE DEF tgt, src, t, w2, moved, keep
    <3>8. DOMAIN table' \subseteq DOMAIN moved
          /\ \A fd \in DOMAIN table' : table'[fd] = moved[fd]
      BY <2>2, <2>4 DEF Close
    <3>9. ~keep => src \notin DOMAIN table'
      BY <2>2, <2>4 DEF Close
    <3>10. ASSUME NEW fd \in DOMAIN table', fd >= 3, fd \notin flags'
           PROVE  table'[fd] \in Members(env)
      <4>1. CASE fd = tgt
        BY <4>1, <3>6, <3>7, <3>8
      <4>2. CASE fd # tgt
        <5>1. fd \in DOMAIN table /\ table'[fd] = table[fd]
          BY <4>2, <3>7, <3>8
        <5>2. fd \notin flags
          BY <4>2, <3>9, <3>10, <2>2
        <5> QED
          BY <5>1, <5>2, <3>10, <1>2
      <4> QED
        BY <4>1, <4>2
    <3>11. DOMAIN table' \subseteq Nat
      BY <3>7, <3>8, <2>1, <1>2
    <3> QED
      BY <3>1, <3>4, <3>10, <3>11, <2>2, <1>3 DEF OwnInv
  <2> QED
    BY <2>3, <2>4
<1> QED
  BY <1>4, <1>5

\* Every step keeps the child's descriptors its own.
LEMMA OwnStep ==
  ASSUME Pid1Inv, OwnInv, NoForeignDescriptor, [Next]_vars
  PROVE  OwnInv' /\ NoForeignDescriptor'
<1> USE DEF vars, pid1, child
<1>1. CASE Fork
  <2>1. /\ pc = "spawn" /\ pc' = "shuffle" /\ w' = env /\ i' = 1
        /\ table' = [fd \in 0 .. (next_fd - 1) |-> fd]
        /\ flags' = cloexec \ Members(env) /\ env' = env
    BY <1>1 DEF Fork
  <2>2. /\ env \in Seq(Nat) /\ next_fd \in Nat /\ cloexec = Own
        /\ \A k \in 1..Len(env) : env[k] \in Own /\ env[k] \in Members(env)
    BY <2>1 DEF Pid1Inv, Members
  <2>3. Members(env)' = Members(env)
    BY <2>1 DEF Members
  <2>4. ASSUME NEW fd \in DOMAIN table', fd >= SD_LISTEN_FDS_START, fd \notin flags'
        PROVE  table'[fd] \in Members(env)
    <3>1. fd \in Own /\ table'[fd] = fd
      BY <2>1, <2>2, <2>4 DEF Own, SD_LISTEN_FDS_START
    <3> QED
      BY <3>1, <2>1, <2>2, <2>4
  <2>5. \A k \in 1..Len(env) : env[k] >= SD_LISTEN_FDS_START /\ env[k] \notin flags'
    BY <2>1, <2>2 DEF Own, SD_LISTEN_FDS_START
  <2>6. DOMAIN table' \subseteq Nat
    BY <2>1, <2>2
  <2> QED
    BY <2>1, <2>2, <2>3, <2>4, <2>5, <2>6 DEF OwnInv, NoForeignDescriptor
<1>2. CASE Renumber
  <2>1. pc' # "running"
    BY <1>2 DEF Renumber
  <2> QED
    BY <1>2, <2>1, RenumberKeepsOwn DEF NoForeignDescriptor
<1>3. CASE Exec
  <2>1. /\ pc = "shuffle" /\ pc' = "running" /\ env' = env
        /\ table' = [fd \in DOMAIN table \ flags |-> table[fd]]
    BY <1>3 DEF Exec
  <2>2. Members(env)' = Members(env)
    BY <2>1 DEF Members
  <2> QED
    BY <2>1, <2>2 DEF OwnInv, NoForeignDescriptor
<1>4. CASE UNCHANGED vars
  BY <1>4 DEF OwnInv, NoForeignDescriptor, Members
<1>5. ASSUME pc' \in {"bind", "idle", "collect", "spawn", "exited"}
      PROVE  OwnInv' /\ NoForeignDescriptor'
  BY <1>5 DEF OwnInv, NoForeignDescriptor
<1>6. ASSUME NEW s, BindSocketUnit(s) \/ collect_socket_env(s) \/ StartService(s)
      PROVE  pc' \in {"bind", "idle", "collect", "spawn"}
  BY <1>6 DEF BindSocketUnit, collect_socket_env, StartService
<1>7. SocketsBound \/ Collected \/ accept_ready \/ ForkFails \/ ChildStarted
      \/ ExecFails
        => pc' \in {"bind", "idle", "collect", "spawn", "exited"}
  BY DEF SocketsBound, Collected, accept_ready, ForkFails, ChildStarted,
         ExecFails, ReturnFromSpawn
<1> QED
  BY <1>1, <1>2, <1>3, <1>4, <1>5, <1>6, <1>7 DEF Next

\* Whatever the order in which its sockets were collected, even one in which
\* the renumbering loses some of them, a service never inherits a descriptor
\* of PID 1 or of another service.
THEOREM OwnDescriptorsOnly == Spec => []NoForeignDescriptor
<1>1. Init => OwnInv /\ NoForeignDescriptor
  BY DEF Init, OwnInv, NoForeignDescriptor
<1>2. Pid1Inv /\ OwnInv /\ NoForeignDescriptor /\ [Next]_vars
        => OwnInv' /\ NoForeignDescriptor'
  BY OwnStep
<1>3. Inv => Pid1Inv
  BY DEF Inv
<1> QED
  BY <1>1, <1>2, <1>3, ActivationInvariant, PTL DEF Spec

-------------------------------------------------------------------------------
(* Descriptors in the composition                                          *)

\* Every step of the composition is a step of SocketActivation or leaves the
\* descriptors alone.
LEMMA ServiceImplementsActivation == ServiceSpec => Spec
<1>1. ServiceInit => Init
  BY DEF ServiceInit
<1>2. [ServiceNext]_allvars => [Next]_vars
  <2> SUFFICES ASSUME [ServiceNext]_allvars PROVE [Next]_vars
    OBVIOUS
  <2>1. ASSUME NEW u \in Service, NEW file, PrepareService(u, file)
        PROVE  Next
    BY <2>1 DEF PrepareService, Next
  <2>2. ASSUME NEW file, PrepareConnection(file)
        PROVE  Next
    BY <2>2 DEF PrepareConnection, Next
  <2>3. Pid1Step \/ ForkChild \/ RenumberStep \/ ExecChild \/ BackInPid1 => Next
    BY DEF Pid1Step, ForkChild, RenumberStep, ExecChild, BackInPid1, Next
  <2>4. SetUpContext => UNCHANGED vars
    BY DEF SetUpContext
  <2>5. ASSUME NEW u, SysUsersAdds(u)
        PROVE  UNCHANGED vars
    BY <2>5 DEF SysUsersAdds
  <2>6. UNCHANGED allvars => UNCHANGED vars
    BY DEF allvars
  <2> QED
    BY <2>1, <2>2, <2>3, <2>4, <2>5, <2>6 DEF ServiceNext
<1> QED
  BY <1>1, <1>2, PTL DEF ServiceSpec, Spec

\* A service or connection that is executed in the composition never has a
\* descriptor of PID 1 or of another service.
THEOREM ServiceOwnDescriptorsOnly == ServiceSpec => []NoForeignDescriptor
BY ServiceImplementsActivation, OwnDescriptorsOnly, PTL

\* And descriptors that are collected in the order they were opened arrive
\* at 3, 4, 5, ...
THEOREM ServiceActivationInOrder == ServiceSpec => []OrderedActivation
BY ServiceImplementsActivation, ActivationInOrder, PTL

-------------------------------------------------------------------------------
(* The context                                                             *)

NoTarget == [uid |-> Ctx!NoId, gid |-> Ctx!NoId]

\* Whom the unit file stands for, whether the lookup of User= succeeds, and
\* what is left of the credentials when calls fail.
Uid == IF unit.user \in DOMAIN number THEN number[unit.user] % Ids ELSE uid_of[unit.user]
Gid == IF unit.group # "" /\ Ctx!lookup_gid(unit.group) # Ctx!NoId
       THEN Ctx!lookup_gid(unit.group) ELSE Uid
Found == IF unit.user \in DOMAIN number THEN Uid # Ctx!NoId ELSE unit.user \in passwd
Reached ==
  [ uid    |-> IF "setuid" \in faults THEN 0 ELSE Uid,
    gid    |-> IF "setgid" \in faults THEN 0 ELSE Gid,
    groups |-> IF "initgroups" \in faults THEN "" ELSE unit.user ]

StaysRoot ==
  /\ target = NoTarget /\ cred = Ctx!Root
  /\ unit.dynamic_user \/ ~Found \/ unit.user \in added
BecomesUser ==
  /\ target = [uid |-> Uid, gid |-> Gid]
  /\ ~unit.dynamic_user /\ Found
  /\ cred = Reached

\* The credentials, at each step of the child.
CredInv ==
  /\ step \in {"none", "directory", "lookup"} =>
       cred = Ctx!Root /\ target = NoTarget /\ faults \subseteq {"chown"}
  /\ step = "credentials" =>
       /\ cred = Ctx!Root /\ ~unit.dynamic_user /\ Found
       /\ target = [uid |-> Uid, gid |-> Gid]
       /\ faults \subseteq {"chown"}
  /\ step \in {"root", "root environment"} => StaysRoot
  /\ step \in {"user", "user environment"} => BecomesUser
  /\ step = "exec" => StaysRoot \/ BecomesUser

\* The runtime directory, once the child has seen to it: it belongs to the
\* user if that was known by then.
DirInv ==
  step \notin {"none", "directory", "aborted"} /\ unit.runtime_directory
    /\ "chown" \notin faults /\ Found /\ unit.user \notin added =>
      /\ dir.uid = Uid
      /\ unit.group = "" \/ Ctx!lookup_gid(unit.group) # Ctx!NoId => dir.gid = Gid

\* The variables of the unit file, over those of the user and of PID 1.
Applied ==
  \A v \in Ctx!Var :
    <<v>> \in DOMAIN unit.environment => environ[v] = unit.environment[<<v>>]
EnvInv == step = "exec" => Applied

Steps == {"none", "directory", "lookup", "credentials", "root", "user",
          "root environment", "user environment", "exec", "aborted"}

ContextInv ==
  /\ passwd \subseteq User
  /\ step \in Steps
  /\ pc = "running" => step = "exec"
  /\ step # "none" => pc \in {"shuffle", "running", "exited", "failed"}
  /\ CredInv /\ DirInv /\ EnvInv

\* What a lookup of the user gives.
LEMMA UserLookup ==
  ASSUME passwd \subseteq User
  PROVE  /\ Ctx!lookup_uid(unit.user) = IF Found THEN Uid ELSE Ctx!NoId
         /\ Found => Uid # Ctx!NoId /\ unit.user # ""
<1>1. CASE unit.user \in DOMAIN number
  BY <1>1, ServiceAssumption DEF Found, Uid, Ctx!lookup_uid
<1>2. CASE unit.user \notin DOMAIN number /\ unit.user \in passwd
  <2>1. unit.user \in User /\ unit.user # ""
    BY <1>2, ServiceAssumption
  <2>2. uid_of[unit.user] \in 0..(Ids - 2) /\ Ids \in Nat
    BY <2>1, ServiceAssumption
  <2>3. uid_of[unit.user] # Ctx!NoId
    BY <2>2 DEF Ctx!NoId
  <2> QED
    BY <1>2, <2>1, <2>3 DEF Found, Uid, Ctx!lookup_uid
<1>3. CASE unit.user \notin DOMAIN number /\ unit.user \notin passwd
  BY <1>3 DEF Found, Ctx!lookup_uid
<1> QED
  BY <1>1, <1>2, <1>3

\* setgid, initgroups and setuid, called by root in this order: what a call
\* that does not fail is to set is set, whichever of the others fail.
LEMMA CredentialsStep ==
  ASSUME cred = Ctx!Root, NEW a, NEW b, target = [uid |-> a, gid |-> b],
         faults \subseteq {"chown"}, Ctx!ChangeCredentials
  PROVE  /\ cred' = [ uid    |-> IF "setuid" \in faults' THEN 0 ELSE a,
                      gid    |-> IF "setgid" \in faults' THEN 0 ELSE b,
                      groups |-> IF "initgroups" \in faults' THEN "" ELSE unit.user ]
         /\ "chown" \in faults' <=> "chown" \in faults
<1> DEFINE Try(c, k, failing) ==
      IF Ctx!Calls[k] \in failing THEN c ELSE Ctx!Do(c, Ctx!Calls[k])
    C(x, g, h) == [uid |-> x, gid |-> g, groups |-> h]
<1>1. PICK failing \in SUBSET {"setgid", "initgroups", "setuid"} :
        /\ cred' = Try(Try(Try(cred, 1, failing), 2, failing), 3, failing)
        /\ faults' = faults \cup failing
  BY DEF Ctx!ChangeCredentials
<1>2. /\ Ctx!Calls[1] = "setgid" /\ Ctx!Calls[2] = "initgroups"
      /\ Ctx!Calls[3] = "setuid"
  BY DEF Ctx!Calls
<1>3. \A g, h : /\ Ctx!Do(C(0, g, h), "setgid") = C(0, b, h)
               /\ Ctx!Do(C(0, g, h), "initgroups") = C(0, g, unit.user)
               /\ Ctx!Do(C(0, g, h), "setuid") = C(a, g, h)
  BY DEF Ctx!Do
<1>4. cred = C(0, 0, "")
  BY DEF Ctx!Root
<1> DEFINE gid == IF "setgid" \in failing THEN 0 ELSE b
           groups == IF "initgroups" \in failing THEN "" ELSE unit.user
           uid == IF "setuid" \in failing THEN 0 ELSE a
<1> HIDE DEF C
<1>5. Try(C(0, 0, ""), 1, failing) = C(0, gid, "")
  BY <1>2, <1>3
<1>6. Try(C(0, gid, ""), 2, failing) = C(0, gid, groups)
  <2> HIDE DEF gid
  <2> QED
    BY <1>2, <1>3
<1>7. Try(C(0, gid, groups), 3, failing) = C(uid, gid, groups)
  <2> HIDE DEF gid, groups
  <2> QED
    BY <1>2, <1>3
<1>8. cred' = C(uid, gid, groups)
  <2> HIDE DEF Try, uid, gid, groups
  <2> QED
    BY <1>1, <1>4, <1>5, <1>6, <1>7
<1>9. /\ "setuid" \in faults' <=> "setuid" \in failing
      /\ "setgid" \in faults' <=> "setgid" \in failing
      /\ "initgroups" \in faults' <=> "initgroups" \in failing
      /\ "chown" \in faults' <=> "chown" \in faults
  BY <1>1
<1> QED
  BY <1>8, <1>9 DEF C

\* The steps that leave the context alone.
LEMMA QuietContext ==
  ASSUME ContextInv, UNCHANGED context,
         pc' = "running" => step = "exec",
         step # "none" => pc' \in {"shuffle", "running", "exited", "failed"}
  PROVE  ContextInv'
<1> USE DEF context
<1>1. /\ UNCHANGED <<Uid, Gid, Found, Reached, NoTarget>>
      /\ UNCHANGED <<Ctx!Root, Ctx!NoId, Ctx!lookup_gid(unit.group)>>
  BY DEF Uid, Gid, Found, Reached, NoTarget, Ctx!Root, Ctx!NoId, Ctx!lookup_gid
<1>2. CredInv'
  BY <1>1 DEF ContextInv, CredInv, StaysRoot, BecomesUser
<1>3. DirInv'
  BY <1>1 DEF ContextInv, DirInv
<1>4. EnvInv'
  BY DEF ContextInv, EnvInv, Applied, Ctx!Var
<1> QED
  BY <1>2, <1>3, <1>4 DEF ContextInv, Steps

\* A child that has not started yet.
LEMMA FreshContext ==
  ASSUME passwd' \subseteq User, step' \in {"none", "directory"},
         cred' = Ctx!Root, target' = NoTarget, faults' \subseteq {"chown"}, pc' # "running",
         step' # "none" => pc' \in {"shuffle", "running", "exited", "failed"}
  PROVE  ContextInv'
<1>1. Ctx!Root' = Ctx!Root /\ NoTarget' = NoTarget
  BY DEF Ctx!Root, NoTarget, Ctx!NoId
<1> QED
  BY <1>1 DEF ContextInv, CredInv, DirInv, EnvInv, Steps

\* What systemd-sysusers adds comes too late for the child, or in time.
LEMMA AddUserContext ==
  ASSUME ContextInv, NEW u \in User, Ctx!AddUser(u), pc' = pc
  PROVE  ContextInv'
<1>1. /\ passwd' = passwd \cup {u} /\ added' = added \cup {u}
      /\ UNCHANGED <<unit, dir, step, target, cred, cwd, environ, faults>>
  BY DEF Ctx!AddUser
<1>2. /\ UNCHANGED <<Uid, Gid, Reached, NoTarget>>
      /\ UNCHANGED <<Ctx!Root, Ctx!NoId, Ctx!lookup_gid(unit.group)>>
  BY <1>1 DEF Uid, Gid, Reached, NoTarget, Ctx!Root, Ctx!NoId, Ctx!lookup_gid
<1>3. (Found => Found') /\ (Found' => Found \/ unit.user \in added')
  BY <1>1, <1>2 DEF Found
<1>4. CredInv'
  BY <1>1, <1>2, <1>3 DEF ContextInv, CredInv, StaysRoot, BecomesUser
<1>5. DirInv'
  BY <1>1, <1>2, <1>3 DEF ContextInv, DirInv
<1>6. EnvInv'
  BY <1>1 DEF ContextInv, EnvInv, Applied, Ctx!Var
<1> QED
  BY <1>1, <1>4, <1>5, <1>6 DEF ContextInv

\* What the unit file and the users stand for changes with these only.
LEMMA SameMeaning ==
  ASSUME UNCHANGED <<passwd, unit>>
  PROVE  /\ UNCHANGED <<Uid, Gid, Found, NoTarget>>
         /\ UNCHANGED <<Ctx!Root, Ctx!NoId, Ctx!lookup_gid(unit.group)>>
BY DEF Uid, Gid, Found, NoTarget, Ctx!Root, Ctx!NoId, Ctx!lookup_gid

\* The child's own steps keep the invariant.
LEMMA ContextStepKeeps ==
  ASSUME ContextInv, pc = "shuffle", pc' = pc, Ctx!ContextStep
  PROVE  ContextInv'
<1>a. passwd \subseteq User /\ step \in Steps /\ CredInv /\ DirInv /\ EnvInv
  BY DEF ContextInv
<1>b. /\ Ctx!lookup_uid(unit.user) = IF Found THEN Uid ELSE Ctx!NoId
      /\ Found => Uid # Ctx!NoId /\ unit.user # ""
  BY <1>a, UserLookup
<1>1. CASE Ctx!RuntimeDirectory
  <2>1. /\ step = "directory" /\ step' = "lookup" /\ added' = {}
        /\ UNCHANGED <<passwd, unit, target, cred, cwd, environ>>
        /\ \/ dir' = Ctx!OwnerAfterChown(unit, dir) /\ faults' = faults
           \/ faults' = faults \cup {"chown"}
    BY <1>1 DEF Ctx!RuntimeDirectory, Ctx!OwnerInChild, Ctx!Fault
  <2>a. /\ UNCHANGED <<Uid, Gid, Found, NoTarget>>
        /\ UNCHANGED <<Ctx!Root, Ctx!NoId, Ctx!lookup_gid(unit.group)>>
    BY <2>1, SameMeaning
  <2>2. CredInv'
    BY <2>1, <2>a, <1>a DEF CredInv
  <2>3. DirInv'
    <3>1. SUFFICES ASSUME unit.runtime_directory, "chown" \notin faults', Found
                   PROVE  /\ dir'.uid = Uid
                          /\ unit.group = "" \/ Ctx!lookup_gid(unit.group) # Ctx!NoId =>
                               dir'.gid = Gid
      BY <2>1, <2>a DEF DirInv
    <3>2. dir' = Ctx!OwnerAfterChown(unit, dir)
      BY <2>1, <3>1
    <3>3. dir' = [ uid |-> Uid,
                   gid |-> LET gid == IF unit.group = "" THEN Uid
                                      ELSE Ctx!lookup_gid(unit.group)
                           IN IF gid = Ctx!NoId THEN dir.gid ELSE gid ]
      BY <3>1, <3>2, <1>b DEF Ctx!OwnerAfterChown
    <3> QED
      BY <3>1, <3>3, <1>b DEF Gid
  <2>4. EnvInv'
    BY <2>1 DEF EnvInv
  <2> QED
    BY <2>1, <2>2, <2>3, <2>4, <1>a DEF ContextInv, Steps
<1>2. CASE Ctx!LookupUser
  <2>1. /\ step = "lookup"
        /\ UNCHANGED <<passwd, added, unit, dir, cred, cwd, environ, faults>>
    BY <1>2 DEF Ctx!LookupUser
  <2>a. /\ UNCHANGED <<Uid, Gid, Found, NoTarget>>
        /\ UNCHANGED <<Ctx!Root, Ctx!NoId, Ctx!lookup_gid(unit.group)>>
    BY <2>1, SameMeaning
  <2>2. cred = Ctx!Root /\ target = NoTarget /\ faults \subseteq {"chown"}
    BY <2>1, <1>a DEF CredInv
  <2>3. CASE unit.dynamic_user \/ ~Found
    <3>1. step' = "root" /\ target' = target
      BY <1>2, <2>3, <1>b DEF Ctx!LookupUser, Ctx!LooksUp
    <3> QED
      BY <3>1, <2>1, <2>2, <2>3, <2>a, <1>a
      DEF ContextInv, CredInv, DirInv, EnvInv, StaysRoot, Steps
  <2>4. CASE ~unit.dynamic_user /\ Found
    <3>1. step' = "credentials" /\ target' = [uid |-> Uid, gid |-> Gid]
      BY <1>2, <2>4, <1>b DEF Ctx!LookupUser, Ctx!LooksUp, Gid
    <3> QED
      BY <3>1, <2>1, <2>2, <2>4, <2>a, <1>a DEF ContextInv, CredInv, DirInv, EnvInv, Steps
  <2> QED
    BY <2>3, <2>4
<1>3. CASE Ctx!Aborted
  <2>1. step' = "aborted" /\ UNCHANGED passwd
    BY <1>3 DEF Ctx!Aborted
  <2> QED
    BY <2>1, <1>a DEF ContextInv, CredInv, DirInv, EnvInv, Steps
<1>4. CASE Ctx!ChangeCredentials
  <2>1. /\ step = "credentials" /\ step' = "user"
        /\ UNCHANGED <<passwd, added, unit, dir, target, cwd, environ>>
    BY <1>4 DEF Ctx!ChangeCredentials
  <2>a. /\ UNCHANGED <<Uid, Gid, Found, NoTarget>>
        /\ UNCHANGED <<Ctx!Root, Ctx!NoId, Ctx!lookup_gid(unit.group)>>
    BY <2>1, SameMeaning
  <2>2. /\ cred = Ctx!Root /\ ~unit.dynamic_user /\ Found
        /\ target = [uid |-> Uid, gid |-> Gid] /\ faults \subseteq {"chown"}
    BY <2>1, <1>a DEF CredInv
  <2>3. /\ cred' = [ uid    |-> IF "setuid" \in faults' THEN 0 ELSE Uid,
                     gid    |-> IF "setgid" \in faults' THEN 0 ELSE Gid,
                     groups |-> IF "initgroups" \in faults' THEN "" ELSE unit.user ]
        /\ "chown" \in faults' <=> "chown" \in faults
    BY <1>4, <2>2, CredentialsStep
  <2>4. BecomesUser'
    BY <2>1, <2>2, <2>3, <2>a DEF BecomesUser, Reached
  <2>5. CredInv'
    BY <2>1, <2>4 DEF CredInv
  <2>6. DirInv'
    BY <2>1, <2>3, <2>a, <1>a DEF DirInv
  <2>7. EnvInv'
    BY <2>1 DEF EnvInv
  <2> QED
    BY <2>1, <2>5, <2>6, <2>7, <1>a DEF ContextInv, Steps
<1>5. CASE Ctx!DirectoryOfUser \/ Ctx!DirectoryOfRoot
  <2>1. /\ \/ step = "user" /\ step' = "user environment"
           \/ step = "root" /\ step' = "root environment"
        /\ UNCHANGED <<passwd, added, unit, dir, target, cred>>
        /\ faults' = faults \/ faults' = faults \cup {"chdir"}
    BY <1>5 DEF Ctx!DirectoryOfUser, Ctx!DirectoryOfRoot, Ctx!chdir, Ctx!Fault
  <2>a. /\ UNCHANGED <<Uid, Gid, Found, NoTarget>>
        /\ UNCHANGED <<Ctx!Root, Ctx!NoId, Ctx!lookup_gid(unit.group)>>
    BY <2>1, SameMeaning
  <2>2. \A call \in {"setuid", "setgid", "initgroups", "chown"} :
          call \in faults' <=> call \in faults
    BY <2>1
  <2>3. UNCHANGED Reached
    BY <2>1, <2>2, <2>a DEF Reached
  <2>4. CredInv'
    BY <2>1, <2>3, <2>a, <1>a DEF CredInv, StaysRoot, BecomesUser
  <2>5. DirInv'
    BY <2>1, <2>2, <2>a, <1>a DEF DirInv
  <2>6. EnvInv'
    BY <2>1 DEF EnvInv
  <2> QED
    BY <2>1, <2>4, <2>5, <2>6, <1>a DEF ContextInv, Steps
<1>6. CASE Ctx!EnvironmentOfUser \/ Ctx!EnvironmentOfRoot
  <2>1. /\ step \in {"user environment", "root environment"} /\ step' = "exec"
        /\ UNCHANGED <<passwd, added, unit, dir, target, cred, cwd, faults>>
        /\ environ' = Ctx!WithEnvironment
    BY <1>6 DEF Ctx!EnvironmentOfUser, Ctx!EnvironmentOfRoot
  <2>a. /\ UNCHANGED <<Uid, Gid, Found, Reached, NoTarget>>
        /\ UNCHANGED <<Ctx!Root, Ctx!NoId, Ctx!lookup_gid(unit.group)>>
    BY <2>1, SameMeaning DEF Reached
  <2>2. \A v \in Ctx!Var :
          <<v>> \in DOMAIN unit.environment => environ'[v] = unit.environment[<<v>>]
    BY <2>1 DEF Ctx!WithEnvironment
  <2>3. CredInv'
    BY <2>1, <2>a, <1>a DEF CredInv, StaysRoot, BecomesUser
  <2>4. DirInv'
    BY <2>1, <2>a, <1>a DEF DirInv
  <2>5. EnvInv'
    BY <2>1, <2>2 DEF EnvInv, Applied, Ctx!Var
  <2> QED
    BY <2>1, <2>3, <2>4, <2>5, <1>a DEF ContextInv, Steps
<1> QED
  BY <1>1, <1>2, <1>3, <1>4, <1>5, <1>6 DEF Ctx!ContextStep

\* Every step of the composition keeps it.
LEMMA ContextInvStep ==
  ASSUME ContextInv, [ServiceNext]_allvars
  PROVE  ContextInv'
<1>a. step = "none" => cred = Ctx!Root /\ target = NoTarget /\ faults \subseteq {"chown"}
  BY DEF ContextInv, CredInv
<1>b. passwd \subseteq User
  BY DEF ContextInv
<1>1. ASSUME NEW u \in Service, NEW file, PrepareService(u, file)
      PROVE  ContextInv'
  <2>1. Ctx!PrepareService(UnitFileOf(file)) /\ pc' = "collect"
    BY <1>1 DEF PrepareService, StartService
  <2>2. step = "none" /\ UNCHANGED <<passwd, step, cred, target, faults>>
    BY <2>1 DEF Ctx!PrepareService
  <2> QED
    BY <2>1, <2>2, <1>a, <1>b, FreshContext
<1>2. ASSUME NEW file, PrepareConnection(file)
      PROVE  ContextInv'
  <2>1. Ctx!PrepareConnection(UnitFileOf(file)) /\ pc' = "spawn"
    BY <1>2 DEF PrepareConnection, accept_ready
  <2>2. step = "none" /\ UNCHANGED <<passwd, step, cred, target, faults>>
    BY <2>1 DEF Ctx!PrepareConnection
  <2> QED
    BY <2>1, <2>2, <1>a, <1>b, FreshContext
<1>3. CASE Pid1Step
  <2>1. pc \notin {"shuffle", "running", "exited", "failed"} /\ pc' # "running"
    BY <1>3 DEF Pid1Step, BindSocketUnit, collect_socket_env, SocketsBound, Collected
  <2>2. step = "none" /\ UNCHANGED context
    BY <1>3, <2>1 DEF Pid1Step, ContextInv
  <2> QED
    BY <2>1, <2>2, QuietContext
<1>4. CASE ForkChild
  <2>1. pc' = "shuffle" /\ Ctx!EnterChild
    BY <1>4 DEF ForkChild, Fork
  <2>2. step = "none" /\ step' = "directory" /\ UNCHANGED <<passwd, cred, target, faults>>
    BY <2>1 DEF Ctx!EnterChild
  <2> QED
    BY <2>1, <2>2, <1>a, <1>b, FreshContext
<1>5. CASE RenumberStep
  <2>1. pc' \in {"shuffle", "failed"} /\ UNCHANGED context
    BY <1>5 DEF RenumberStep, Renumber
  <2> QED
    BY <2>1, QuietContext
<1>6. CASE SetUpContext
  <2>1. pc = "shuffle" /\ pc' = pc /\ Ctx!ContextStep
    BY <1>6 DEF SetUpContext, vars
  <2> QED
    BY <2>1, ContextStepKeeps
<1>7. CASE ExecChild
  <2>1. UNCHANGED context /\ (pc' = "exited" \/ (step = "exec" /\ pc' = "running"))
    BY <1>7 DEF ExecChild, Exec, ExecFails
  <2> QED
    BY <2>1, QuietContext
<1>8. CASE BackInPid1
  <2>1. Ctx!LeaveChild(None) /\ pc' # "running"
    BY <1>8 DEF BackInPid1, ForkFails, ChildStarted, ReturnFromSpawn
  <2>2. step' = "none" /\ cred' = Ctx!Root /\ target' = NoTarget /\ passwd' = passwd
        /\ faults' = {}
    BY <2>1 DEF Ctx!LeaveChild, NoTarget
  <2> QED
    BY <2>1, <2>2, <1>b, FreshContext
<1>9. ASSUME NEW u \in User, SysUsersAdds(u)
      PROVE  ContextInv'
  BY <1>9, AddUserContext DEF SysUsersAdds, vars
<1>10. CASE UNCHANGED allvars
  <2>1. UNCHANGED context /\ pc' = pc
    BY <1>10 DEF allvars, vars
  <2> QED
    BY <2>1, QuietContext DEF ContextInv
<1> QED
  BY <1>1, <1>2, <1>3, <1>4, <1>5, <1>6, <1>7, <1>8, <1>9, <1>10 DEF ServiceNext

\* The context of a child is as its step says it is.
LEMMA ContextInvariant == ServiceSpec => []ContextInv
<1>1. ServiceInit => ContextInv
  <2> SUFFICES ASSUME ServiceInit PROVE ContextInv
    OBVIOUS
  <2>1. /\ passwd = Known /\ step = "none" /\ cred = Ctx!Root /\ target = NoTarget
        /\ pc # "running" /\ faults = {}
    BY DEF ServiceInit, Ctx!ContextInit, NoTarget, Init
  <2> QED
    BY <2>1, ServiceAssumption DEF ContextInv, CredInv, DirInv, EnvInv, Steps
<1>2. ContextInv /\ [ServiceNext]_allvars => ContextInv'
  BY ContextInvStep
<1> QED
  BY <1>1, <1>2, PTL DEF ServiceSpec

\* A service runs with its user, group and supplementary groups, or as root
\* in all three, but for the calls that fail, each of which leaves its own
\* part root's: whatever the users and groups are, and whenever
\* systemd-sysusers adds them.
THEOREM PrivilegesDropped == ServiceSpec => []AllOrNoPrivileges
<1>1. ContextInv => AllOrNoPrivileges
  <2> SUFFICES ASSUME ContextInv, Running, Fits(unit.user), Fits(unit.group)
               PROVE  IF unit.dynamic_user \/ ~UserExists THEN cred = Ctx!Root
                      ELSE \/ cred = Granted
                           \/ unit.user \in added /\ cred = Ctx!Root
    BY DEF AllOrNoPrivileges
  <2>1. step = "exec" /\ CredInv
    BY DEF ContextInv, Running
  <2>2. StaysRoot \/ BecomesUser
    BY <2>1 DEF CredInv
  <2>3. ASSUME NEW name \in DOMAIN number, Fits(name)
        PROVE  number[name] % Ids = number[name] /\ number[name] # Ctx!NoId
    <3>1. number[name] \in Nat /\ Ids \in Nat /\ number[name] < Ids - 1
      BY <2>3, ServiceAssumption DEF Fits
    <3> QED
      BY <3>1 DEF Ctx!NoId
  <2>4. (Found <=> UserExists) /\ Uid = Full.uid
    BY <2>3 DEF Found, UserExists, Uid, Full, Meant
  <2>5. Gid = Full.gid
    <3>1. CASE unit.group \in DOMAIN number
      <4>1. unit.group # "" /\ Ctx!lookup_gid(unit.group) = number[unit.group]
        BY <3>1, <2>3, ServiceAssumption DEF Ctx!lookup_gid
      <4> QED
        BY <4>1, <3>1, <2>3 DEF Gid, Full, GroupExists, Meant
    <3>2. CASE unit.group \notin DOMAIN number /\ unit.group \in DOMAIN gid_of
      <4>1. unit.group # "" /\ gid_of[unit.group] \in 0..(Ids - 2) /\ Ids \in Nat
        BY <3>2, ServiceAssumption
      <4> DEFINE g == gid_of[unit.group]
      <4> HIDE DEF g
      <4>2. g # Ctx!NoId
        <5>1. g \in 0..(Ids - 2) /\ Ids \in Nat
          BY <4>1 DEF g
        <5> QED
          BY <5>1 DEF Ctx!NoId
      <4> QED
        BY <4>1, <4>2, <3>2 DEF Gid, Full, GroupExists, Meant, Ctx!lookup_gid, g
    <3>3. CASE unit.group \notin DOMAIN number /\ unit.group \notin DOMAIN gid_of
      BY <3>3, <2>4 DEF Gid, Full, GroupExists, Meant, Ctx!lookup_gid
    <3> QED
      BY <3>1, <3>2, <3>3
  <2>6. Reached = Granted
    BY <2>4, <2>5 DEF Reached, Granted, Full
  <2> QED
    BY <2>2, <2>4, <2>6 DEF StaysRoot, BecomesUser
<1> QED
  BY <1>1, ContextInvariant, PTL

\* A service that has given up root owns its runtime directory, unless its
\* user was added between the child's two looks or chown has failed.
THEOREM RuntimeDirectoryOwned == ServiceSpec => []OwnsRuntimeDirectory
<1>1. ContextInv => OwnsRuntimeDirectory
  <2> SUFFICES ASSUME ContextInv, Running, unit.runtime_directory, cred.uid # 0,
                      "chown" \notin faults, unit.user \notin added
               PROVE  /\ dir.uid = cred.uid
                      /\ (unit.group = "" \/ Ctx!lookup_gid(unit.group) # Ctx!NoId)
                           /\ "setgid" \notin faults => dir.gid = cred.gid
    BY DEF OwnsRuntimeDirectory
  <2>1. step = "exec" /\ CredInv /\ DirInv
    BY DEF ContextInv, Running
  <2>2. Ctx!Root.uid = 0
    BY DEF Ctx!Root
  <2>3. Found /\ cred = Reached
    BY <2>1, <2>2 DEF CredInv, StaysRoot, BecomesUser
  <2>4. /\ cred.uid = Uid
        /\ "setgid" \notin faults => cred.gid = Gid
    BY <2>3 DEF Reached
  <2>5. /\ dir.uid = Uid
        /\ unit.group = "" \/ Ctx!lookup_gid(unit.group) # Ctx!NoId => dir.gid = Gid
    BY <2>1, <2>3 DEF DirInv
  <2> QED
    BY <2>4, <2>5
<1> QED
  BY <1>1, ContextInvariant, PTL

\* It starts with the variables of its unit file.
LEMMA EnvironmentApplied == ServiceSpec => [](Running => Applied)
<1>1. ContextInv => (Running => Applied)
  BY DEF ContextInv, EnvInv, Running
<1> QED
  BY <1>1, ContextInvariant, PTL

-------------------------------------------------------------------------------
(* resolve                                                                 *)

ResolveStates(C) == [percent : BOOLEAN, result : Seq(C)]
ResolveBase == [percent |-> FALSE, result |-> <<>>]
ResolveSteps(C, ctx) ==
  [x \in ResolveStates(C) \X C |-> ReadSpecifier(x[1], x[2], ctx)]

\* Specifiers stand for characters of C.
Expands(C, ctx) == \A c \in C : Expansion(c, ctx) \in Seq(C)

\* A character takes a state of the scanner to another.
LEMMA ReadSpecifierType ==
  ASSUME NEW C, NEW ctx, Expands(C, ctx), NEW acc \in ResolveStates(C), NEW c \in C
  PROVE  ReadSpecifier(acc, c, ctx) \in ResolveStates(C)
<1>1. acc.percent \in BOOLEAN /\ acc.result \in Seq(C)
  BY DEF ResolveStates
<1>2. Append(acc.result, c) \in Seq(C)
  BY <1>1
<1>3. Expansion(c, ctx) \in Seq(C)
  BY DEF Expands
<1>4. acc.result \o Expansion(c, ctx) \in Seq(C)
  BY <1>1, <1>3, ConcatProperties
<1> QED
  BY <1>1, <1>2, <1>4 DEF ReadSpecifier, ResolveStates

\* The scanner's states are the solution of its equation.
LEMMA ResolvingScans ==
  ASSUME NEW C, NEW ctx, Expands(C, ctx), NEW s \in Seq(C)
  PROVE  \E h : /\ Scans(h, s, ResolveStates(C), ResolveBase, ResolveSteps(C, ctx))
                /\ Resolving(s, ctx) = h[Len(s)]
<1> DEFINE W == ResolveStates(C)
           next == ResolveSteps(C, ctx)
           Body(f, k) == IF k = 0 THEN ResolveBase ELSE ReadSpecifier(f[k - 1], s[k], ctx)
           Solves(f) == f = [k \in 0..Len(s) |-> Body(f, k)]
<1>1. Resolving(s, ctx) = (CHOOSE f : Solves(f))[Len(s)]
  BY DEF Resolving, ResolveBase
<1>2. /\ Len(s) \in Nat /\ \A k \in 1..Len(s) : s[k] \in C
      /\ ResolveBase \in W
  BY DEF ResolveBase, ResolveStates
<1>3. \A acc \in W : \A c \in C : next[<<acc, c>>] = ReadSpecifier(acc, c, ctx)
  BY DEF ResolveSteps
<1>4. next \in [W \X C -> W]
  <2>1. ASSUME NEW x \in W \X C
        PROVE  ReadSpecifier(x[1], x[2], ctx) \in W
    <3>1. x[1] \in W /\ x[2] \in C
      OBVIOUS
    <3> QED
      BY <3>1, ReadSpecifierType
  <2> QED
    BY <2>1 DEF ResolveSteps
<1> HIDE DEF W, next
<1>5. PICK h : Scans(h, s, W, ResolveBase, next)
  BY <1>2, <1>4, ScanExists
<1>6. Solves(h)
  <2>1. ASSUME NEW k \in 0..Len(s)
        PROVE  h[k] = Body(h, k)
    <3>1. CASE k = 0
      BY <3>1, <1>5 DEF Scans
    <3>2. CASE k # 0
      <4>1. k \in 1..Len(s) /\ k - 1 \in 0..Len(s)
        BY <3>2, <1>2
      <4>2. h[k - 1] \in W /\ h[k] = next[<<h[k - 1], s[k]>>]
        BY <4>1, <1>5 DEF Scans
      <4> QED
        BY <4>1, <4>2, <3>2, <1>2, <1>3
    <3> QED
      BY <3>1, <3>2
  <2>2. h = [k \in 0..Len(s) |-> h[k]]
    BY <1>5 DEF Scans
  <2> HIDE DEF Body
  <2> QED
    BY <2>1, <2>2
<1> DEFINE at == CHOOSE f : Solves(f)
<1>7. Solves(at)
  BY <1>6
<1> HIDE DEF at
<1>8. \A k \in 0..Len(s) : at[k] = Body(at, k)
  <2> HIDE DEF Body
  <2> QED
    BY <1>7
<1> HIDE DEF Solves
<1>9. at[0] = ResolveBase
  BY <1>8, <1>2
<1>10. ASSUME NEW k \in 1..Len(s), at[k - 1] \in W
       PROVE  at[k] = next[<<at[k - 1], s[k]>>]
  BY <1>8, <1>10, <1>2, <1>3
<1>11. \A k \in 0..Len(s) : at[k] = h[k]
  BY <1>5, <1>9, <1>10, ScanUnique
<1>12. at[Len(s)] = h[Len(s)]
  BY <1>2, <1>11
<1> QED
  BY <1>1, <1>5, <1>12 DEF at, W, next

\* What one more character does.
LEMMA ResolvingLaws ==
  ASSUME NEW C, NEW ctx, Expands(C, ctx), NEW s \in Seq(C), NEW c \in C
  PROVE  /\ Resolving(<<>>, ctx) = ResolveBase
         /\ Resolving(s, ctx) \in ResolveStates(C)
         /\ Resolving(Append(s, c), ctx) = ReadSpecifier(Resolving(s, ctx), c, ctx)
<1> DEFINE W == ResolveStates(C)
           next == ResolveSteps(C, ctx)
           t == Append(s, c)
<1>1. <<>> \in Seq(C) /\ Len(<<>>) = 0 /\ t \in Seq(C) /\ Len(s) \in Nat
  OBVIOUS
<1>2. \A acc \in W : next[<<acc, c>>] = ReadSpecifier(acc, c, ctx)
  BY DEF ResolveSteps
<1>3. PICK h : Scans(h, s, W, ResolveBase, next) /\ Resolving(s, ctx) = h[Len(s)]
  BY ResolvingScans
<1>4. PICK g : Scans(g, t, W, ResolveBase, next) /\ Resolving(t, ctx) = g[Len(t)]
  <2> HIDE DEF t
  <2> QED
    BY <1>1, ResolvingScans
<1>5. PICK e : Scans(e, <<>>, W, ResolveBase, next) /\ Resolving(<<>>, ctx) = e[0]
  BY <1>1, ResolvingScans
<1> HIDE DEF W, next
<1>6. g[Len(t)] = next[<<h[Len(s)], c>>]
  BY <1>3, <1>4, ScanAppend
<1>7. h[Len(s)] \in W
  BY <1>1, <1>3 DEF Scans
<1>8. e[0] = ResolveBase
  BY <1>5 DEF Scans
<1> QED
  BY <1>2, <1>3, <1>4, <1>5, <1>6, <1>7, <1>8 DEF W

-------------------------------------------------------------------------------
(* split_exec                                                              *)

SplitStates(C) == [r : Seq(Seq(C)), t : Seq(C), qc : {NoQuote} \cup Quotes]
SplitBase == [r |-> <<>>, t |-> <<>>, qc |-> NoQuote]
SplitSteps(C) == [x \in SplitStates(C) \X C |-> ReadWord(x[1], x[2])]

\* A character takes a state of the scanner to another.
LEMMA ReadWordType ==
  ASSUME NEW C, NEW acc \in SplitStates(C), NEW c \in C
  PROVE  ReadWord(acc, c) \in SplitStates(C) /\ EndWord(acc) \in SplitStates(C)
<1>1. acc.r \in Seq(Seq(C)) /\ acc.t \in Seq(C) /\ acc.qc \in {NoQuote} \cup Quotes
  BY DEF SplitStates
<1>2. Append(acc.t, c) \in Seq(C)
  BY <1>1
<1>3. Append(acc.r, acc.t) \in Seq(Seq(C)) /\ <<>> \in Seq(C)
  BY <1>1
<1>4. EndWord(acc) \in SplitStates(C)
  BY <1>1, <1>3 DEF EndWord, SplitStates
<1> QED
  BY <1>1, <1>2, <1>4 DEF ReadWord, SplitStates

\* The scanner's states are the solution of its equation.
LEMMA SplittingScans ==
  ASSUME NEW C, NEW s \in Seq(C)
  PROVE  \E h : /\ Scans(h, s, SplitStates(C), SplitBase, SplitSteps(C))
                /\ Splitting(s) = h[Len(s)]
<1> DEFINE W == SplitStates(C)
           next == SplitSteps(C)
           Body(f, k) == IF k = 0 THEN SplitBase ELSE ReadWord(f[k - 1], s[k])
           Solves(f) == f = [k \in 0..Len(s) |-> Body(f, k)]
<1>1. Splitting(s) = (CHOOSE f : Solves(f))[Len(s)]
  BY DEF Splitting, SplitBase
<1>2. /\ Len(s) \in Nat /\ \A k \in 1..Len(s) : s[k] \in C
      /\ SplitBase \in W
  BY DEF SplitBase, SplitStates
<1>3. \A acc \in W : \A c \in C : next[<<acc, c>>] = ReadWord(acc, c)
  BY DEF SplitSteps
<1>4. next \in [W \X C -> W]
  <2>1. ASSUME NEW x \in W \X C
        PROVE  ReadWord(x[1], x[2]) \in W
    <3>1. x[1] \in W /\ x[2] \in C
      OBVIOUS
    <3> QED
      BY <3>1, ReadWordType
  <2> QED
    BY <2>1 DEF SplitSteps
<1> HIDE DEF W, next
<1>5. PICK h : Scans(h, s, W, SplitBase, next)
  BY <1>2, <1>4, ScanExists
<1>6. Solves(h)
  <2>1. ASSUME NEW k \in 0..Len(s)
        PROVE  h[k] = Body(h, k)
    <3>1. CASE k = 0
      BY <3>1, <1>5 DEF Scans
    <3>2. CASE k # 0
      <4>1. k \in 1..Len(s) /\ k - 1 \in 0..Len(s)
        BY <3>2, <1>2
      <4>2. h[k - 1] \in W /\ h[k] = next[<<h[k - 1], s[k]>>]
        BY <4>1, <1>5 DEF Scans
      <4> QED
        BY <4>1, <4>2, <3>2, <1>2, <1>3
    <3> QED
      BY <3>1, <3>2
  <2>2. h = [k \in 0..Len(s) |-> h[k]]
    BY <1>5 DEF Scans
  <2> HIDE DEF Body
  <2> QED
    BY <2>1, <2>2
<1> DEFINE at == CHOOSE f : Solves(f)
<1>7. Solves(at)
  BY <1>6
<1> HIDE DEF at
<1>8. \A k \in 0..Len(s) : at[k] = Body(at, k)
  <2> HIDE DEF Body
  <2> QED
    BY <1>7
<1> HIDE DEF Solves
<1>9. at[0] = SplitBase
  BY <1>8, <1>2
<1>10. ASSUME NEW k \in 1..Len(s), at[k - 1] \in W
       PROVE  at[k] = next[<<at[k - 1], s[k]>>]
  BY <1>8, <1>10, <1>2, <1>3
<1>11. \A k \in 0..Len(s) : at[k] = h[k]
  BY <1>5, <1>9, <1>10, ScanUnique
<1>12. at[Len(s)] = h[Len(s)]
  BY <1>2, <1>11
<1> QED
  BY <1>1, <1>5, <1>12 DEF at, W, next

\* What one more character does.
LEMMA SplittingLaws ==
  ASSUME NEW C, NEW s \in Seq(C), NEW c \in C
  PROVE  /\ Splitting(<<>>) = SplitBase
         /\ Splitting(s) \in SplitStates(C)
         /\ Splitting(Append(s, c)) = ReadWord(Splitting(s), c)
<1> DEFINE W == SplitStates(C)
           next == SplitSteps(C)
           t == Append(s, c)
<1>1. <<>> \in Seq(C) /\ Len(<<>>) = 0 /\ t \in Seq(C) /\ Len(s) \in Nat
  OBVIOUS
<1>2. \A acc \in W : next[<<acc, c>>] = ReadWord(acc, c)
  BY DEF SplitSteps
<1>3. PICK h : Scans(h, s, W, SplitBase, next) /\ Splitting(s) = h[Len(s)]
  BY SplittingScans
<1>4. PICK g : Scans(g, t, W, SplitBase, next) /\ Splitting(t) = g[Len(t)]
  <2> HIDE DEF t
  <2> QED
    BY <1>1, SplittingScans
<1>5. PICK e : Scans(e, <<>>, W, SplitBase, next) /\ Splitting(<<>>) = e[0]
  BY <1>1, SplittingScans
<1> HIDE DEF W, next
<1>6. g[Len(t)] = next[<<h[Len(s)], c>>]
  BY <1>3, <1>4, ScanAppend
<1>7. h[Len(s)] \in W
  BY <1>1, <1>3 DEF Scans
<1>8. e[0] = SplitBase
  BY <1>5 DEF Scans
<1> QED
  BY <1>2, <1>3, <1>4, <1>5, <1>6, <1>7, <1>8 DEF W

-------------------------------------------------------------------------------
(* parse_environment                                                       *)

Parts == {"gap", "key", "value", "plain", "quoted", "escape"}
AssignStates(C) ==
  [in : Parts, key : Seq(C), val : Seq(C), out : Seq(Seq(C) \X Seq(C))]
AssignBase == [in |-> "gap", key |-> <<>>, val |-> <<>>, out |-> <<>>]
AssignSteps(C) == [x \in AssignStates(C) \X C |-> ReadAssignment(x[1], x[2])]

\* A character takes a state of the scanner to another.
LEMMA ReadAssignmentType ==
  ASSUME NEW C, NEW acc \in AssignStates(C), NEW c \in C
  PROVE  ReadAssignment(acc, c) \in AssignStates(C)
<1>1. /\ acc.in \in Parts /\ acc.key \in Seq(C) /\ acc.val \in Seq(C)
      /\ acc.out \in Seq(Seq(C) \X Seq(C))
  BY DEF AssignStates
<1>2. Append(acc.key, c) \in Seq(C) /\ Append(acc.val, c) \in Seq(C) /\ <<>> \in Seq(C)
  BY <1>1
<1>3. Append(acc.out, <<acc.key, acc.val>>) \in Seq(Seq(C) \X Seq(C))
  BY <1>1
<1>4. EndAssignment(acc) \in AssignStates(C)
  BY <1>1, <1>2, <1>3 DEF EndAssignment, AssignStates, Parts
<1>5. \A part \in Parts : InPart(acc, part) \in AssignStates(C)
  BY <1>1 DEF InPart, AssignStates
<1>6. InKey(acc, c) \in AssignStates(C)
  BY <1>1, <1>2 DEF InKey, AssignStates, Parts
<1>7. \A part \in Parts : InValue(acc, part, c) \in AssignStates(C)
  BY <1>1, <1>2 DEF InValue, AssignStates
<1>8. Unquoted(acc, c) \in AssignStates(C) /\ Quoted(acc, c) \in AssignStates(C)
  BY <1>4, <1>5, <1>7 DEF Unquoted, Quoted, Parts
<1> QED
  BY <1>1, <1>4, <1>5, <1>6, <1>7, <1>8 DEF ReadAssignment, Parts

\* The scanner's states are the solution of its equation.
LEMMA AssigningScans ==
  ASSUME NEW C, NEW s \in Seq(C)
  PROVE  \E h : /\ Scans(h, s, AssignStates(C), AssignBase, AssignSteps(C))
                /\ Assigning(s) = h[Len(s)]
<1> DEFINE W == AssignStates(C)
           next == AssignSteps(C)
           Body(f, k) == IF k = 0 THEN AssignBase ELSE ReadAssignment(f[k - 1], s[k])
           Solves(f) == f = [k \in 0..Len(s) |-> Body(f, k)]
<1>1. Assigning(s) = (CHOOSE f : Solves(f))[Len(s)]
  BY DEF Assigning, AssignBase
<1>2. /\ Len(s) \in Nat /\ \A k \in 1..Len(s) : s[k] \in C
      /\ AssignBase \in W
  BY DEF AssignBase, AssignStates, Parts
<1>3. \A acc \in W : \A c \in C : next[<<acc, c>>] = ReadAssignment(acc, c)
  BY DEF AssignSteps
<1>4. next \in [W \X C -> W]
  <2>1. ASSUME NEW x \in W \X C
        PROVE  ReadAssignment(x[1], x[2]) \in W
    <3>1. x[1] \in W /\ x[2] \in C
      OBVIOUS
    <3> QED
      BY <3>1, ReadAssignmentType
  <2> QED
    BY <2>1 DEF AssignSteps
<1> HIDE DEF W, next
<1>5. PICK h : Scans(h, s, W, AssignBase, next)
  BY <1>2, <1>4, ScanExists
<1>6. Solves(h)
  <2>1. ASSUME NEW k \in 0..Len(s)
        PROVE  h[k] = Body(h, k)
    <3>1. CASE k = 0
      BY <3>1, <1>5 DEF Scans
    <3>2. CASE k # 0
      <4>1. k \in 1..Len(s) /\ k - 1 \in 0..Len(s)
        BY <3>2, <1>2
      <4>2. h[k - 1] \in W /\ h[k] = next[<<h[k - 1], s[k]>>]
        BY <4>1, <1>5 DEF Scans
      <4> QED
        BY <4>1, <4>2, <3>2, <1>2, <1>3
    <3> QED
      BY <3>1, <3>2
  <2>2. h = [k \in 0..Len(s) |-> h[k]]
    BY <1>5 DEF Scans
  <2> HIDE DEF Body
  <2> QED
    BY <2>1, <2>2
<1> DEFINE at == CHOOSE f : Solves(f)
<1>7. Solves(at)
  BY <1>6
<1> HIDE DEF at
<1>8. \A k \in 0..Len(s) : at[k] = Body(at, k)
  <2> HIDE DEF Body
  <2> QED
    BY <1>7
<1> HIDE DEF Solves
<1>9. at[0] = AssignBase
  BY <1>8, <1>2
<1>10. ASSUME NEW k \in 1..Len(s), at[k - 1] \in W
       PROVE  at[k] = next[<<at[k - 1], s[k]>>]
  BY <1>8, <1>10, <1>2, <1>3
<1>11. \A k \in 0..Len(s) : at[k] = h[k]
  BY <1>5, <1>9, <1>10, ScanUnique
<1>12. at[Len(s)] = h[Len(s)]
  BY <1>2, <1>11
<1> QED
  BY <1>1, <1>5, <1>12 DEF at, W, next

\* What one more character does.
LEMMA AssigningLaws ==
  ASSUME NEW C, NEW s \in Seq(C), NEW c \in C
  PROVE  /\ Assigning(<<>>) = AssignBase
         /\ Assigning(s) \in AssignStates(C)
         /\ Assigning(Append(s, c)) = ReadAssignment(Assigning(s), c)
<1> DEFINE W == AssignStates(C)
           next == AssignSteps(C)
           t == Append(s, c)
<1>1. <<>> \in Seq(C) /\ Len(<<>>) = 0 /\ t \in Seq(C) /\ Len(s) \in Nat
  OBVIOUS
<1>2. \A acc \in W : next[<<acc, c>>] = ReadAssignment(acc, c)
  BY DEF AssignSteps
<1>3. PICK h : Scans(h, s, W, AssignBase, next) /\ Assigning(s) = h[Len(s)]
  BY AssigningScans
<1>4. PICK g : Scans(g, t, W, AssignBase, next) /\ Assigning(t) = g[Len(t)]
  <2> HIDE DEF t
  <2> QED
    BY <1>1, AssigningScans
<1>5. PICK e : Scans(e, <<>>, W, AssignBase, next) /\ Assigning(<<>>) = e[0]
  BY <1>1, AssigningScans
<1> HIDE DEF W, next
<1>6. g[Len(t)] = next[<<h[Len(s)], c>>]
  BY <1>3, <1>4, ScanAppend
<1>7. h[Len(s)] \in W
  BY <1>1, <1>3 DEF Scans
<1>8. e[0] = AssignBase
  BY <1>5 DEF Scans
<1> QED
  BY <1>2, <1>3, <1>4, <1>5, <1>6, <1>7, <1>8 DEF W

\* One more character of a value in quotes.
LEMMA EscapedAppend ==
  ASSUME NEW C, Escape \in C, NEW v \in Seq(C), NEW c \in C
  PROVE  /\ Escaped(<<>>) = <<>> /\ Escaped(v) \in Seq(C)
         /\ Escaped(Append(v, c)) = Escaped(v) \o WithEscape(c)
<1> DEFINE pieces(s) == [k \in 1..Len(s) |-> WithEscape(s[k])]
           t == Append(v, c)
<1>1. \A x \in C : WithEscape(x) \in Seq(C)
  BY DEF WithEscape
<1>2. /\ t \in Seq(C) /\ Len(v) \in Nat /\ Len(t) = Len(v) + 1
      /\ \A k \in 1..Len(v) : t[k] = v[k]
      /\ t[Len(v) + 1] = c
  BY AppendProperties
<1>3. pieces(v) \in Seq(Seq(C)) /\ Len(pieces(v)) = Len(v)
  BY <1>1
<1> HIDE DEF t
<1>4. pieces(t) = Append(pieces(v), WithEscape(c))
  BY <1>1, <1>2, <1>3
<1>5. pieces(<<>>) = <<>>
  OBVIOUS
<1>6. /\ Escaped(v) = FlattenSeq(pieces(v)) /\ Escaped(t) = FlattenSeq(pieces(t))
      /\ Escaped(<<>>) = FlattenSeq(pieces(<<>>))
  BY DEF Escaped
<1> HIDE DEF pieces
<1>7. WithEscape(c) \in Seq(C)
  BY <1>1
<1> QED
  BY <1>3, <1>4, <1>5, <1>6, <1>7, Flatten DEF t

State(in, key, val, out) == [in |-> in, key |-> key, val |-> val, out |-> out]

\* Between quotes.
LEMMA QuotedText ==
  ASSUME NEW C, Escape \in C, NEW s \in Seq(C), NEW key, NEW out,
         Assigning(s) = State("quoted", key, <<>>, out)
  PROVE  \A v \in Seq(C) : Assigning(s \o Escaped(v)) = State("quoted", key, v, out)
<1> DEFINE S == { v \in Seq(C) : Assigning(s \o Escaped(v)) = State("quoted", key, v, out) }
<1>1. <<>> \in S
  <2>1. Escaped(<<>>) = <<>> /\ s \o <<>> = s /\ <<>> \in Seq(C)
    BY EscapedAppend, ConcatProperties
  <2> QED
    BY <2>1
<1>2. ASSUME NEW v \in Seq(C), v \in S, NEW c \in C
      PROVE  Append(v, c) \in S
  <2> DEFINE x == s \o Escaped(v)
             q == State("quoted", key, v, out)
  <2>1. Escaped(v) \in Seq(C) /\ Escaped(Append(v, c)) = Escaped(v) \o WithEscape(c)
    BY EscapedAppend
  <2>2. x \in Seq(C) /\ WithEscape(c) \in Seq(C) /\ Assigning(x) = q
    BY <2>1, <1>2, ConcatProperties DEF WithEscape
  <2>3. s \o Escaped(Append(v, c)) = x \o WithEscape(c)
    <3> DEFINE e == Escaped(v)
               p == WithEscape(c)
    <3>1. e \in Seq(C) /\ p \in Seq(C)
      BY <2>1, <2>2
    <3> HIDE DEF e, p
    <3>2. (s \o e) \o p = s \o (e \o p)
      BY <3>1, ConcatAssociative, SMTT(60)
    <3> QED
      BY <3>2, <2>1 DEF e, p
  <2> HIDE DEF x
  <2>4. Assigning(Append(x, c)) = ReadAssignment(q, c)
    BY <2>2, AssigningLaws
  <2>7. Append(v, c) \in Seq(C)
    BY AppendProperties
  <2>5. CASE c \in {DoubleQuote, Escape}
    <3>1. x \o WithEscape(c) = Append(Append(x, Escape), c)
      BY <2>2, <2>5, Short DEF WithEscape
    <3>2. Assigning(Append(x, Escape)) = ReadAssignment(q, Escape) /\ Append(x, Escape) \in Seq(C)
      BY <2>2, AssigningLaws, AppendProperties
    <3>3. ReadAssignment(q, Escape) = State("escape", key, v, out)
      BY DEF ReadAssignment, Quoted, InPart, State
    <3>4. Assigning(Append(Append(x, Escape), c)) = ReadAssignment(State("escape", key, v, out), c)
      BY <3>2, <3>3, AssigningLaws
    <3>5. ReadAssignment(State("escape", key, v, out), c) = State("quoted", key, Append(v, c), out)
      BY DEF ReadAssignment, InValue, State
    <3> QED
      BY <2>3, <2>7, <3>1, <3>4, <3>5
  <2>6. CASE c \notin {DoubleQuote, Escape}
    <3>1. x \o WithEscape(c) = Append(x, c)
      BY <2>2, <2>6, Short DEF WithEscape
    <3>2. ReadAssignment(q, c) = State("quoted", key, Append(v, c), out)
      BY <2>6 DEF ReadAssignment, Quoted, InValue, State
    <3> QED
      BY <2>3, <2>4, <2>7, <3>1, <3>2
  <2> QED
    BY <2>5, <2>6
<1> HIDE DEF S
<1>3. \A v \in Seq(C) : v \in S
  BY <1>1, <1>2, SequenceInduction
<1> QED
  BY <1>3 DEF S

\* Without quotes.
LEMMA UnquotedText ==
  ASSUME NEW C, NEW s \in Seq(C), NEW key, NEW out,
         Assigning(s) = State("value", key, <<>>, out)
  PROVE  \A v \in Seq(C) : v # <<>> /\ (\A k \in 1..Len(v) : v[k] \notin {Blank, DoubleQuote}) =>
           Assigning(s \o v) = State("plain", key, v, out)
<1> DEFINE Bare(v) == \A k \in 1..Len(v) : v[k] \notin {Blank, DoubleQuote}
           In(v) == IF v = <<>> THEN "value" ELSE "plain"
           S == { v \in Seq(C) : Bare(v) => Assigning(s \o v) = State(In(v), key, v, out) }
<1>1. <<>> \in S
  <2>1. s \o <<>> = s /\ <<>> \in Seq(C)
    BY ConcatProperties
  <2> QED
    BY <2>1
<1>2. ASSUME NEW v \in Seq(C), v \in S, NEW c \in C
      PROVE  Append(v, c) \in S
  <2>1. /\ Append(v, c) \in Seq(C) /\ Len(v) \in Nat /\ Len(Append(v, c)) = Len(v) + 1
        /\ \A k \in 1..Len(v) : Append(v, c)[k] = v[k]
        /\ Append(v, c)[Len(v) + 1] = c
    BY AppendProperties
  <2>2. SUFFICES ASSUME Bare(Append(v, c))
                 PROVE  Assigning(s \o Append(v, c)) = State(In(Append(v, c)), key, Append(v, c), out)
    BY <2>1
  <2>3. Bare(v) /\ c \notin {Blank, DoubleQuote} /\ Append(v, c) # <<>>
    <3> DEFINE t == Append(v, c)
    <3>1. /\ t \in Seq(C) /\ Len(v) \in Nat /\ Len(t) = Len(v) + 1
          /\ \A k \in 1..Len(v) : t[k] = v[k]
          /\ t[Len(v) + 1] = c
      BY <2>1
    <3>5. Bare(t)
      BY <2>2
    <3> HIDE DEF t
    <3>2. \A k \in 1..Len(v) : k \in 1..Len(t) /\ t[k] = v[k]
      BY <3>1
    <3>3. Len(v) + 1 \in 1..Len(t) /\ Len(t) # 0
      BY <3>1
    <3>4. t # <<>>
      BY <3>3
    <3> QED
      BY <3>1, <3>2, <3>3, <3>4, <3>5 DEF t
  <2>4. s \o v \in Seq(C) /\ s \o Append(v, c) = Append(s \o v, c)
    OBVIOUS
  <2>5. Assigning(s \o Append(v, c)) = ReadAssignment(State(In(v), key, v, out), c)
    BY <2>3, <2>4, <1>2, AssigningLaws
  <2> HIDE DEF Bare
  <2>6. ReadAssignment(State(In(v), key, v, out), c) = State("plain", key, Append(v, c), out)
    BY <2>3 DEF ReadAssignment, Unquoted, InValue, State
  <2> QED
    BY <2>3, <2>5, <2>6
<1> HIDE DEF S
<1>3. \A v \in Seq(C) : v \in S
  BY <1>1, <1>2, SequenceInduction
<1> QED
  BY <1>3 DEF S

Gap(out) == State("gap", <<>>, <<>>, out)

\* The end of the text or a blank completes the last assignment of out.
Complete(acc, out) ==
  \/ acc = Gap(out)
  \/ acc.in \in {"value", "plain"} /\ EndAssignment(acc) = Gap(out)

\* One assignment.
LEMMA PairRead ==
  ASSUME NEW C, {Blank, "=", Escape, DoubleQuote} \subseteq C, NEW x \in C \ {Blank, "="},
         NEW v \in Seq(C), NEW s \in Seq(C), NEW out, Assigning(s) = Gap(out)
  PROVE  /\ RenderedPair(<<<<x>>, v>>) \in Seq(C)
         /\ Complete(Assigning(s \o RenderedPair(<<<<x>>, v>>)), Append(out, <<<<x>>, v>>))
<1> DEFINE s1 == Append(s, x)
           s2 == Append(s1, "=")
           key == <<x>>
           r == RenderedValue(v)
           done == Append(out, <<key, v>>)
<1>1. s1 \in Seq(C) /\ s2 \in Seq(C) /\ key \in Seq(C) /\ key # <<>>
  OBVIOUS
<1>2. Assigning(s1) = State("key", key, <<>>, out)
  <2>1. Assigning(s1) = ReadAssignment(Gap(out), x)
    BY AssigningLaws
  <2>2. Append(<<>>, x) = key
    OBVIOUS
  <2> QED
    BY <2>1, <2>2 DEF ReadAssignment, InKey, Gap, State
<1> HIDE DEF s1
<1>3. Assigning(s2) = State("value", key, <<>>, out)
  <2>1. Assigning(s2) = ReadAssignment(State("key", key, <<>>, out), "=")
    BY <1>1, <1>2, AssigningLaws
  <2> QED
    BY <2>1 DEF ReadAssignment, InPart, State
<1> HIDE DEF s2, key
<1>4. \A in, val : EndAssignment(State(in, key, val, out)) = Gap(Append(out, <<key, val>>))
  BY <1>1 DEF EndAssignment, State, Gap
<1>5. \A in, val : State(in, key, val, out).in = in
  BY DEF State
<1>6. r \in Seq(C) /\ Complete(Assigning(s2 \o r), done)
  <2>1. CASE \E k \in 1..Len(v) : v[k] \in {Blank, DoubleQuote}
    <3> DEFINE a == Append(s2, DoubleQuote)
               e == Escaped(v)
    <3>1. e \in Seq(C) /\ a \in Seq(C)
      BY <1>1, EscapedAppend
    <3>2. Assigning(a) = State("quoted", key, <<>>, out)
      <4>1. Assigning(a) = ReadAssignment(State("value", key, <<>>, out), DoubleQuote)
        BY <1>1, <1>3, AssigningLaws
      <4> QED
        BY <4>1 DEF ReadAssignment, InPart, State
    <3> HIDE DEF a
    <3>3. Assigning(a \o e) = State("quoted", key, v, out) /\ a \o e \in Seq(C)
      BY <3>1, <3>2, QuotedText, ConcatProperties
    <3>4. Assigning(Append(a \o e, DoubleQuote)) = Gap(done)
      <4>1. Assigning(Append(a \o e, DoubleQuote)) =
              ReadAssignment(State("quoted", key, v, out), DoubleQuote)
        BY <3>3, AssigningLaws
      <4>2. ReadAssignment(State("quoted", key, v, out), DoubleQuote) =
              EndAssignment(State("quoted", key, v, out))
        BY DEF ReadAssignment, Quoted, State, DoubleQuote, Escape
      <4> QED
        BY <4>1, <4>2, <1>4
    <3>5. r = <<DoubleQuote>> \o e \o <<DoubleQuote>>
      BY <2>1 DEF RenderedValue
    <3> HIDE DEF e
    <3>6. r \in Seq(C) /\ s2 \o r = Append(a \o e, DoubleQuote)
      <4>1. DoubleQuote \in C
        OBVIOUS
      <4>2. /\ <<DoubleQuote>> \o e \o <<DoubleQuote>> \in Seq(C)
            /\ s2 \o (<<DoubleQuote>> \o e \o <<DoubleQuote>>) =
                 Append(Append(s2, DoubleQuote) \o e, DoubleQuote)
        BY <4>1, <3>1, <1>1, Enclosed, SMTT(40)
      <4> QED
        BY <4>2, <3>5, Zenon DEF a
    <3> QED
      BY <3>4, <3>6 DEF Complete
  <2>2. CASE ~\E k \in 1..Len(v) : v[k] \in {Blank, DoubleQuote}
    <3>1. r = v
      BY <2>2 DEF RenderedValue
    <3>2. CASE v = <<>>
      <4>1. s2 \o r = s2
        BY <3>1, <3>2, <1>1, ConcatProperties
      <4> QED
        BY <4>1, <3>1, <3>2, <1>3, <1>4, <1>5 DEF Complete
    <3>3. CASE v # <<>>
      <4>1. Assigning(s2 \o v) = State("plain", key, v, out)
        BY <3>3, <2>2, <1>1, <1>3, UnquotedText
      <4> QED
        BY <4>1, <3>1, <1>4, <1>5 DEF Complete
    <3> QED
      BY <3>2, <3>3
  <2> QED
    BY <2>1, <2>2
<1> HIDE DEF r
<1>7. RenderedPair(<<key, v>>) = key \o <<"=">> \o r
  BY DEF RenderedPair, r
<1>8. s \o (key \o <<"=">> \o r) = s2 \o r
  BY <1>6, SMTT(40) DEF s2, s1, key
<1>9. key \o <<"=">> \o r \in Seq(C)
  BY <1>1, <1>6
<1> QED
  BY <1>6, <1>7, <1>8, <1>9 DEF key

\* A blank, and the next one can be read.
LEMMA BlankRead ==
  ASSUME NEW C, Blank \in C, NEW s \in Seq(C), NEW out, Complete(Assigning(s), out)
  PROVE  Append(s, Blank) \in Seq(C) /\ Assigning(Append(s, Blank)) = Gap(out)
<1>1. Append(s, Blank) \in Seq(C) /\ Assigning(Append(s, Blank)) = ReadAssignment(Assigning(s), Blank)
  BY AssigningLaws, AppendProperties
<1>2. CASE Assigning(s) = Gap(out)
  BY <1>1, <1>2 DEF ReadAssignment, Gap, State
<1>3. CASE Assigning(s).in \in {"value", "plain"} /\ EndAssignment(Assigning(s)) = Gap(out)
  <2>1. ReadAssignment(Assigning(s), Blank) = EndAssignment(Assigning(s))
    BY <1>3 DEF ReadAssignment, Unquoted, DoubleQuote, Blank
  <2> QED
    BY <1>1, <1>3, <2>1
<1> QED
  BY <1>2, <1>3 DEF Complete

\* The rendering of one more pair.
LEMMA RenderedAppend ==
  ASSUME NEW C, NEW Q, \A q \in Q : RenderedPair(q) \in Seq(C), Blank \in C,
         NEW pairs \in Seq(Q), NEW q \in Q
  PROVE  /\ Rendered(<<>>) = <<>> /\ Rendered(pairs) \in Seq(C)
         /\ Rendered(Append(pairs, q)) =
              Rendered(pairs) \o (IF pairs = <<>> THEN RenderedPair(q)
                                  ELSE <<Blank>> \o RenderedPair(q))
<1> DEFINE piece(k, p) == IF k = 1 THEN RenderedPair(p) ELSE <<Blank>> \o RenderedPair(p)
           pieces(s) == [k \in 1..Len(s) |-> piece(k, s[k])]
           t == Append(pairs, q)
<1>1. ASSUME NEW k, NEW p \in Q
      PROVE  piece(k, p) \in Seq(C)
  <2>1. RenderedPair(p) \in Seq(C) /\ <<Blank>> \in Seq(C)
    OBVIOUS
  <2> QED
    BY <2>1, ConcatProperties
<1>2. /\ t \in Seq(Q) /\ Len(pairs) \in Nat /\ Len(t) = Len(pairs) + 1
      /\ \A k \in 1..Len(pairs) : t[k] = pairs[k]
      /\ t[Len(pairs) + 1] = q
  BY AppendProperties
<1>3. Len(pairs) + 1 = 1 <=> pairs = <<>>
  OBVIOUS
<1>4. piece(Len(pairs) + 1, q) = IF pairs = <<>> THEN RenderedPair(q)
                                 ELSE <<Blank>> \o RenderedPair(q)
  BY <1>3
<1>5. /\ Rendered(pairs) = FlattenSeq(pieces(pairs)) /\ Rendered(t) = FlattenSeq(pieces(t))
      /\ Rendered(<<>>) = FlattenSeq(pieces(<<>>))
  BY DEF Rendered
<1> HIDE DEF piece, t
<1>6. pieces(pairs) \in Seq(Seq(C)) /\ Len(pieces(pairs)) = Len(pairs)
  BY <1>1, <1>2
<1>7. piece(Len(pairs) + 1, q) \in Seq(C)
  BY <1>1
<1>8. pieces(t) = Append(pieces(pairs), piece(Len(pairs) + 1, q))
  BY <1>2, <1>6, <1>7
<1>9. pieces(<<>>) = <<>>
  OBVIOUS
<1> HIDE DEF pieces
<1>10. /\ FlattenSeq(<<>>) = <<>> /\ FlattenSeq(pieces(pairs)) \in Seq(C)
       /\ FlattenSeq(Append(pieces(pairs), piece(Len(pairs) + 1, q))) =
            FlattenSeq(pieces(pairs)) \o piece(Len(pairs) + 1, q)
  BY <1>6, <1>7, Flatten
<1>11. Rendered(t) = Rendered(pairs) \o piece(Len(pairs) + 1, q)
  BY <1>5, <1>8, <1>10
<1>12. Rendered(<<>>) = <<>> /\ Rendered(pairs) \in Seq(C)
  BY <1>5, <1>9, <1>10
<1> QED
  BY <1>4, <1>11, <1>12 DEF t

\* parse_environment reads what Rendered writes.
LEMMA ParseRendered ==
  ASSUME NEW C, {Blank, "=", Escape, DoubleQuote} \subseteq C,
         NEW X, X \subseteq C \ {Blank, "="},
         NEW pairs \in Seq({ <<x>> : x \in X } \X Seq(C))
  PROVE  parse_environment(Rendered(pairs)) = pairs
<1> DEFINE Q == { <<x>> : x \in X } \X Seq(C)
           S == { p \in Seq(Q) : p # <<>> => Complete(Assigning(Rendered(p)), p) }
<1>1. <<>> \in Seq(C) /\ Assigning(<<>>) = Gap(<<>>)
  <2>1. AssignBase = Gap(<<>>)
    BY DEF AssignBase, Gap, State
  <2> QED
    BY <2>1, AssigningLaws
<1>2. ASSUME NEW q \in Q, NEW s \in Seq(C), NEW out, Assigning(s) = Gap(out)
      PROVE  /\ RenderedPair(q) \in Seq(C)
             /\ Complete(Assigning(s \o RenderedPair(q)), Append(out, q))
  <2>1. PICK x \in X : q[1] = <<x>>
    OBVIOUS
  <2>2. q = <<<<x>>, q[2]>> /\ q[2] \in Seq(C)
    BY <2>1
  <2>3. x \in C \ {Blank, "="}
    OBVIOUS
  <2> QED
    BY <2>2, <2>3, <1>2, PairRead
<1>3. \A q \in Q : RenderedPair(q) \in Seq(C)
  BY <1>1, <1>2
<1>4. <<>> \in S
  OBVIOUS
<1>5. ASSUME NEW p \in Seq(Q), p \in S, NEW q \in Q
      PROVE  Append(p, q) \in S
  <2> DEFINE t == Append(p, q)
             r == RenderedPair(q)
             a == Rendered(p)
  <2>1. t \in Seq(Q) /\ r \in Seq(C) /\ a \in Seq(C) /\ Rendered(<<>>) = <<>>
    BY <1>3, RenderedAppend
  <2>2. CASE p = <<>>
    <3>1. Rendered(t) = <<>> \o r
      <4> HIDE DEF Q
      <4> QED
        BY <2>1, <2>2, <1>3, RenderedAppend
    <3>2. Complete(Assigning(<<>> \o r), Append(<<>>, q))
      BY <1>1, <1>2
    <3> QED
      BY <3>1, <3>2, <2>1, <2>2
  <2>3. CASE p # <<>>
    <3>1. Rendered(t) = a \o (<<Blank>> \o r)
      <4>1. Blank \in C
        OBVIOUS
      <4> HIDE DEF Q
      <4>2. Rendered(t) = a \o (IF p = <<>> THEN r ELSE <<Blank>> \o r)
        BY <4>1, <1>3, RenderedAppend, SMTT(40)
      <4> QED
        BY <4>2, <2>3
    <3>2. Append(a, Blank) \in Seq(C) /\ Assigning(Append(a, Blank)) = Gap(p)
      BY <2>1, <2>3, <1>5, BlankRead
    <3>3. Complete(Assigning(Append(a, Blank) \o r), t)
      BY <3>2, <1>2
    <3> HIDE DEF a, r
    <3>4. a \o (<<Blank>> \o r) = Append(a, Blank) \o r
      BY <2>1
    <3> QED
      BY <3>1, <3>3, <3>4, <2>1
  <2> QED
    BY <2>2, <2>3
<1>6. pairs \in Seq(Q)
  OBVIOUS
<1> HIDE DEF Q, S
<1>7. pairs \in S
  BY <1>4, <1>5, <1>6, SequenceInduction
<1>8. CASE pairs = <<>>
  <2>1. Rendered(<<>>) = <<>>
    BY DEF Rendered, FlattenSeq
  <2> QED
    BY <2>1, <1>8, <1>1 DEF parse_environment, Gap, State
<1>9. CASE pairs # <<>>
  <2>1. Complete(Assigning(Rendered(pairs)), pairs)
    BY <1>7, <1>9 DEF S
  <2> QED
    BY <2>1 DEF Complete, parse_environment, Gap, State
<1> QED
  BY <1>8, <1>9

-------------------------------------------------------------------------------
(* Environment= as written                                                 *)

\* The value of a key that stands in one line is that line.
LEMMA OneLine ==
  ASSUME NEW R
  PROVE  JoinedLines(<<R>>) = R
<1> DEFINE lines == <<R>>
           Body(f, k) == IF k = 0 THEN <<>>
                         ELSE IF f[k - 1] = <<>> THEN lines[k]
                         ELSE f[k - 1] \o <<RS>> \o lines[k]
           Solves(f) == f = [k \in 0..Len(lines) |-> Body(f, k)]
           at == CHOOSE f : Solves(f)
           g == [k \in 0..1 |-> IF k = 0 THEN <<>> ELSE R]
<1>1. Len(lines) = 1 /\ lines[1] = R
  OBVIOUS
<1>2. JoinedLines(lines) = at[Len(lines)]
  BY DEF JoinedLines
<1> HIDE DEF lines
<1>3. Solves(g)
  BY <1>1, SMTT(40)
<1>4. Solves(at)
  BY <1>3
<1> HIDE DEF at
<1>5. at[0] = Body(at, 0) /\ at[1] = Body(at, 1)
  <2> HIDE DEF Body
  <2> QED
    BY <1>1, <1>4
<1>6. at[1] = R
  BY <1>1, <1>5
<1> QED
  BY <1>1, <1>2, <1>6 DEF lines

AllFiles == conn_files \cup UNION { files[u] : u \in Service }

\* What is being started comes from a unit file.
FileInv ==
  pc \notin {"bind", "idle"} =>
    \E file \in AllFiles :
      /\ unit = UnitFileOf(file)
      /\ svc # None => argv = ServiceArgv(file.exec_start, SpecifierContext(file.name))

\* Every step keeps the unit file.
LEMMA FileInvStep ==
  ASSUME FileInv, [ServiceNext]_allvars
  PROVE  FileInv'
<1>a. ASSUME UNCHANGED <<unit, argv, svc>>, pc' \in {"bind", "idle"} \/ pc \notin {"bind", "idle"}
      PROVE  FileInv'
  BY <1>a DEF FileInv
<1>1. ASSUME NEW u \in Service, NEW file \in files[u], PrepareService(u, file)
      PROVE  FileInv'
  <2>1. /\ unit' = UnitFileOf(file) /\ file \in AllFiles
        /\ argv' = ServiceArgv(file.exec_start, SpecifierContext(file.name))
    BY <1>1 DEF PrepareService, Ctx!PrepareService, AllFiles
  <2> QED
    BY <2>1 DEF FileInv
<1>2. ASSUME NEW file \in conn_files, PrepareConnection(file)
      PROVE  FileInv'
  <2>1. unit' = UnitFileOf(file) /\ svc' = None /\ file \in AllFiles
    BY <1>2 DEF PrepareConnection, accept_ready, Ctx!PrepareConnection, AllFiles
  <2> QED
    BY <2>1 DEF FileInv
<1>3. CASE Pid1Step
  <2>1. UNCHANGED <<unit, argv, svc>>
    BY <1>3 DEF Pid1Step, context, BindSocketUnit, collect_socket_env, SocketsBound,
                Collected, pid1
  <2>2. pc' \in {"bind", "idle"} \/ pc \notin {"bind", "idle"}
    BY <1>3 DEF Pid1Step, BindSocketUnit, collect_socket_env, SocketsBound, Collected
  <2> QED
    BY <2>1, <2>2, <1>a
<1>4. CASE ForkChild
  BY <1>4, <1>a DEF ForkChild, Fork, Ctx!EnterChild
<1>5. CASE RenumberStep
  BY <1>5, <1>a DEF RenumberStep, Renumber, context, pid1
<1>6. CASE SetUpContext
  <2>1. pc = "shuffle" /\ UNCHANGED <<argv, svc>> /\ Ctx!ContextStep
    BY <1>6 DEF SetUpContext, vars, pid1
  <2>2. UNCHANGED unit
    BY <2>1 DEF Ctx!ContextStep, Ctx!RuntimeDirectory, Ctx!LookupUser, Ctx!ChangeCredentials,
                Ctx!Aborted, Ctx!DirectoryOfUser, Ctx!DirectoryOfRoot,
                Ctx!EnvironmentOfUser, Ctx!EnvironmentOfRoot
  <2> QED
    BY <2>1, <2>2, <1>a
<1>7. CASE ExecChild
  BY <1>7, <1>a DEF ExecChild, Exec, ExecFails, context, pid1
<1>8. CASE BackInPid1
  <2>1. pc' = "idle"
    BY <1>8 DEF BackInPid1, ForkFails, ChildStarted, ReturnFromSpawn
  <2> QED
    BY <2>1 DEF FileInv
<1>9. ASSUME NEW u \in User, SysUsersAdds(u)
      PROVE  FileInv'
  BY <1>9 DEF SysUsersAdds, Ctx!AddUser, vars, pid1, FileInv
<1>10. CASE UNCHANGED allvars
  BY <1>10 DEF allvars, vars, pid1, context, FileInv
<1> QED
  BY <1>1, <1>2, <1>3, <1>4, <1>5, <1>6, <1>7, <1>8, <1>9, <1>10 DEF ServiceNext

\* What is being started comes from a unit file.
LEMMA FileInvariant == ServiceSpec => []FileInv
<1>1. ServiceInit => FileInv
  BY DEF ServiceInit, Init, FileInv
<1>2. FileInv /\ [ServiceNext]_allvars => FileInv'
  BY FileInvStep
<1> QED
  BY <1>1, <1>2, PTL DEF ServiceSpec

\* A service whose Environment= was written with quotes and backslashes where
\* needed finds each variable with the last value written: whatever the
\* values are, however many, and whatever else its environment has.
THEOREM EnvironmentRead == ServiceSpec => []EnvironmentAsWritten
<1>1. (Running => Applied) /\ FileInv => EnvironmentAsWritten
  <2> SUFFICES ASSUME Applied, FileInv, Running, NEW pairs \in written,
                      unit.lines = <<Rendered(pairs)>>,
                      NEW v \in DOMAIN LastAssignments(pairs)
               PROVE  environ[v[1]] = LastAssignments(pairs)[v]
    BY DEF EnvironmentAsWritten
  <2>1. PICK file \in AllFiles : unit = UnitFileOf(file)
    BY DEF FileInv, Running
  <2>2. {"name", "exec_start", "environment"} \subseteq DOMAIN file
    BY FileAssumption DEF AllFiles
  <2>3. unit.lines = file.environment /\ unit.environment = environment(file.environment)
    BY <2>1, <2>2 DEF UnitFileOf
  <2> DEFINE X == {"HOME", "USER"}
             values == { pairs[k][2] : k \in 1..Len(pairs) }
             U == UNION { CharsOf(val) : val \in values }
             marks == {Blank, "=", Escape, DoubleQuote}
             C == U \cup marks \cup X
  <2>4. /\ pairs \in Seq({ <<x>> : x \in X } \X values)
        /\ \A k \in 1..Len(pairs) : IsText(pairs[k][2])
    BY WrittenAssumption
  <2>5. \A val \in values : val \in Seq(C)
    <3>1. SUFFICES ASSUME NEW val \in values PROVE val \in Seq(C)
      OBVIOUS
    <3>2. val \in Seq(CharsOf(val)) /\ CharsOf(val) \subseteq C
      BY <2>4 DEF IsText
    <3> HIDE DEF C
    <3> QED
      BY <3>2
  <2>6. pairs \in Seq({ <<x>> : x \in X } \X Seq(C))
    <3>1. { <<x>> : x \in X } \X values \subseteq { <<x>> : x \in X } \X Seq(C)
      <4> HIDE DEF X, values, C
      <4> QED
        BY <2>5
    <3> HIDE DEF X, values, C
    <3> QED
      BY <2>4, <3>1
  <2>7. X \subseteq C \ {Blank, "="} /\ {Blank, "=", Escape, DoubleQuote} \subseteq C
    <3>1. \A x \in X : x # Blank /\ x # "="
      BY DEF Blank
    <3>2. X \subseteq C /\ {Blank, "=", Escape, DoubleQuote} \subseteq C
      <4> HIDE DEF X, U, marks
      <4>1. X \subseteq C /\ marks \subseteq C
        OBVIOUS
      <4> HIDE DEF C
      <4> QED
        BY <4>1 DEF marks
    <3> QED
      BY <3>1, <3>2, Zenon
  <2>8. parse_environment(Rendered(pairs)) = pairs
    <3> HIDE DEF X, C
    <3> QED
      BY <2>6, <2>7, ParseRendered
  <2>9. unit.environment = LastAssignments(pairs)
    BY <2>3, <2>8, OneLine DEF environment
  <2>10. PICK k \in 1..Len(pairs) : v = pairs[k][1]
    BY DEF LastAssignments
  <2>11. PICK x \in X : v = <<x>>
    <3>1. pairs[k] \in { <<x>> : x \in X } \X values
      BY <2>4, <2>10
    <3> QED
      BY <3>1, <2>10
  <2>12. x \in Ctx!Var /\ <<x>> \in DOMAIN unit.environment /\ v[1] = x
    BY <2>9, <2>11 DEF Ctx!Var
  <2>13. environ[x] = unit.environment[<<x>>]
    BY <2>12 DEF Applied
  <2> QED
    BY <2>9, <2>11, <2>12, <2>13
<1> QED
  BY <1>1, FileInvariant, EnvironmentApplied, PTL

-------------------------------------------------------------------------------
(* Arguments as written                                                    *)

\* One more character.
LEMMA AppendedChars ==
  ASSUME NEW C, NEW e \in Seq(C), NEW c \in C
  PROVE  CharsOf(Append(e, c)) = CharsOf(e) \cup {c}
<1> DEFINE t == Append(e, c)
<1>1. /\ Len(e) \in Nat /\ Len(t) = Len(e) + 1
      /\ \A k \in 1..Len(e) : t[k] = e[k]
      /\ t[Len(e) + 1] = c
  BY AppendProperties
<1> HIDE DEF t
<1>2. \A k \in 1..Len(t) : k \in 1..Len(e) \/ k = Len(e) + 1
  BY <1>1
<1>3. Len(e) + 1 \in 1..Len(t) /\ \A k \in 1..Len(e) : k \in 1..Len(t)
  BY <1>1
<1>4. CharsOf(t) = CharsOf(e) \cup {c}
  BY <1>1, <1>2, <1>3 DEF CharsOf
<1> QED
  BY <1>4 DEF t

\* Text without '%' resolves to itself.
LEMMA ResolvePlain ==
  ASSUME NEW C, NEW ctx, Expands(C, ctx), NEW y \in Seq(C),
         Resolving(y, ctx) = [percent |-> FALSE, result |-> y]
  PROVE  \A e \in Seq(C) : "%" \notin CharsOf(e) =>
           Resolving(y \o e, ctx) = [percent |-> FALSE, result |-> y \o e]
<1> DEFINE S == { e \in Seq(C) : "%" \notin CharsOf(e) =>
                    Resolving(y \o e, ctx) = [percent |-> FALSE, result |-> y \o e] }
<1>1. <<>> \in S
  <2>1. y \o <<>> = y /\ <<>> \in Seq(C)
    BY ConcatProperties
  <2> QED
    BY <2>1
<1>2. ASSUME NEW e \in Seq(C), e \in S, NEW c \in C
      PROVE  Append(e, c) \in S
  <2> SUFFICES ASSUME "%" \notin CharsOf(Append(e, c))
               PROVE  Resolving(y \o Append(e, c), ctx)
                        = [percent |-> FALSE, result |-> y \o Append(e, c)]
    BY AppendProperties
  <2>1. "%" \notin CharsOf(e) /\ c # "%"
    BY AppendedChars
  <2>2. y \o e \in Seq(C) /\ y \o Append(e, c) = Append(y \o e, c)
    OBVIOUS
  <2>3. Resolving(y \o e, ctx) = [percent |-> FALSE, result |-> y \o e]
    BY <1>2, <2>1
  <2>4. Resolving(Append(y \o e, c), ctx) = ReadSpecifier(Resolving(y \o e, ctx), c, ctx)
    BY <2>2, ResolvingLaws
  <2> QED
    BY <2>1, <2>2, <2>3, <2>4 DEF ReadSpecifier
<1> HIDE DEF S
<1>3. \A e \in Seq(C) : e \in S
  BY <1>1, <1>2, SequenceInduction
<1> QED
  BY <1>3 DEF S

Special == {Blank} \cup Quotes

\* Text without blanks and quotes belongs to the word being read.
LEMMA SplitPlain ==
  ASSUME NEW C, C # {}, NEW s \in Seq(C)
  PROVE  \A e \in Seq(C) : CharsOf(e) \cap Special = {} =>
           Splitting(s \o e) = [r |-> Splitting(s).r, t |-> Splitting(s).t \o e,
                                qc |-> Splitting(s).qc]
<1> DEFINE acc == Splitting(s)
           After(e) == [r |-> acc.r, t |-> acc.t \o e, qc |-> acc.qc]
           S == { e \in Seq(C) : CharsOf(e) \cap Special = {} => Splitting(s \o e) = After(e) }
<1>0. acc \in SplitStates(C)
  BY SplittingLaws
<1>3. acc.r \in Seq(Seq(C)) /\ acc.t \in Seq(C) /\ acc.qc \in {NoQuote} \cup Quotes
  BY <1>0 DEF SplitStates
<1>1. <<>> \in S
  <2>1. s \o <<>> = s /\ acc.t \o <<>> = acc.t /\ <<>> \in Seq(C)
    BY <1>3, ConcatProperties
  <2>2. acc = [r |-> acc.r, t |-> acc.t, qc |-> acc.qc]
    BY <1>0 DEF SplitStates
  <2> HIDE DEF acc
  <2> QED
    BY <2>1, <2>2 DEF acc
<1>2. ASSUME NEW e \in Seq(C), e \in S, NEW c \in C
      PROVE  Append(e, c) \in S
  <2> SUFFICES ASSUME CharsOf(Append(e, c)) \cap Special = {}
               PROVE  Splitting(s \o Append(e, c)) = After(Append(e, c))
    BY AppendProperties
  <2>1. CharsOf(e) \cap Special = {} /\ c \notin Special
    BY AppendedChars
  <2>2. s \o e \in Seq(C) /\ s \o Append(e, c) = Append(s \o e, c)
    OBVIOUS
  <2>3. Splitting(s \o e) = After(e)
    BY <1>2, <2>1
  <2>4. Splitting(Append(s \o e, c)) = ReadWord(After(e), c)
    BY <2>2, <2>3, SplittingLaws
  <2> HIDE DEF acc
  <2>5. acc.t \o Append(e, c) = Append(acc.t \o e, c)
    <3> DEFINE u == acc.t
    <3>1. u \in Seq(C)
      BY <1>3
    <3> HIDE DEF u
    <3>2. u \o Append(e, c) = Append(u \o e, c)
      BY <3>1, ConcatAppend
    <3> QED
      BY <3>2 DEF u
  <2>6. ReadWord(After(e), c) = [r |-> acc.r, t |-> Append(acc.t \o e, c), qc |-> acc.qc]
    BY <1>3, <2>1 DEF ReadWord, Special
  <2> QED
    BY <2>2, <2>4, <2>5, <2>6
<1> HIDE DEF S
<1>4. \A e \in Seq(C) : e \in S
  BY <1>1, <1>2, SequenceInduction
<1> QED
  BY <1>4 DEF S

\* A word x before and y after resolving; p tells of a pending '%'.
Same(x, y, p, ctx) ==
  /\ Resolving(x, ctx) = [percent |-> p, result |-> y]
  /\ Resolving(y, ctx) = [percent |-> FALSE, result |-> y]

\* The splitting of a command (A) and of the resolved command (B).
Together(A, B, p, ctx) ==
  /\ B.qc = A.qc
  /\ Len(A.r) = Len(B.r)
  /\ \A k \in 1..Len(A.r) : Same(A.r[k], B.r[k], FALSE, ctx)
  /\ Same(A.t, B.t, p, ctx)
  /\ ~p => (A.t = <<>> <=> B.t = <<>>)

\* The end of a word is the same before and after resolving.
LEMMA EndTogether ==
  ASSUME NEW C, C # {}, NEW ctx, Expands(C, ctx), NEW A \in SplitStates(C),
         NEW B \in SplitStates(C), Together(A, B, FALSE, ctx)
  PROVE  Together(EndWord(A), EndWord(B), FALSE, ctx)
<1>1. /\ A.r \in Seq(Seq(C)) /\ A.t \in Seq(C) /\ B.r \in Seq(Seq(C)) /\ B.t \in Seq(C)
      /\ Len(A.r) = Len(B.r) /\ Len(A.r) \in Nat
  BY DEF SplitStates, Together
<1>2. CASE A.t = <<>>
  BY <1>2 DEF Together, EndWord
<1>3. CASE A.t # <<>>
  <2> DEFINE a == Append(A.r, A.t)
             b == Append(B.r, B.t)
  <2>1. /\ EndWord(A) = [r |-> a, t |-> <<>>, qc |-> A.qc]
        /\ EndWord(B) = [r |-> b, t |-> <<>>, qc |-> B.qc]
    BY <1>3 DEF EndWord, Together
  <2>2. /\ Len(a) = Len(A.r) + 1 /\ Len(b) = Len(B.r) + 1
        /\ \A k \in 1..Len(A.r) : a[k] = A.r[k]
        /\ \A k \in 1..Len(B.r) : b[k] = B.r[k]
        /\ a[Len(A.r) + 1] = A.t /\ b[Len(B.r) + 1] = B.t
    BY <1>1, AppendProperties
  <2> HIDE DEF a, b
  <2>3. Same(<<>>, <<>>, FALSE, ctx)
    <3>1. Resolving(<<>>, ctx) = ResolveBase
      <4>1. <<>> \in Seq(C)
        OBVIOUS
      <4> QED
        BY <4>1, ResolvingLaws, ZenonT(40)
    <3> QED
      BY <3>1 DEF Same, ResolveBase
  <2>4. ASSUME NEW k \in 1..Len(a)
        PROVE  Same(a[k], b[k], FALSE, ctx)
    <3>1. CASE k = Len(A.r) + 1
      BY <3>1, <2>2, <1>1 DEF Together
    <3>2. CASE k # Len(A.r) + 1
      <4>1. k \in 1..Len(A.r)
        BY <3>2, <2>2, <1>1
      <4> QED
        BY <4>1, <2>2, <1>1 DEF Together
    <3> QED
      BY <3>1, <3>2
  <2>5. Len(a) = Len(b)
    BY <2>2, <1>1
  <2>6. Together([r |-> a, t |-> <<>>, qc |-> A.qc], [r |-> b, t |-> <<>>, qc |-> B.qc],
                 FALSE, ctx)
    BY <2>3, <2>4, <2>5 DEF Together
  <2> QED
    BY <2>1, <2>6
<1> QED
  BY <1>2, <1>3

\* A character other than '%' is the same before and after resolving.
LEMMA ReadTogether ==
  ASSUME NEW C, NEW ctx, Expands(C, ctx), NEW A \in SplitStates(C),
         NEW B \in SplitStates(C), Together(A, B, FALSE, ctx), NEW c \in C, c # "%"
  PROVE  Together(ReadWord(A, c), ReadWord(B, c), FALSE, ctx)
<1>1. /\ A.t \in Seq(C) /\ B.t \in Seq(C) /\ B.qc = A.qc
  BY DEF SplitStates, Together
<1>2. CASE A.qc # NoQuote /\ c = A.qc
  BY <1>1, <1>2 DEF ReadWord, Together
<1>3. CASE A.qc = NoQuote /\ c \in Quotes
  BY <1>1, <1>3 DEF ReadWord, Together
<1>4. CASE A.qc = NoQuote /\ c \notin Quotes /\ c = Blank
  <2>1. ReadWord(A, c) = EndWord(A) /\ ReadWord(B, c) = EndWord(B)
    BY <1>1, <1>4 DEF ReadWord
  <2> QED
    BY <2>1, EndTogether
<1>5. CASE /\ ~(A.qc # NoQuote /\ c = A.qc) /\ ~(A.qc = NoQuote /\ c \in Quotes)
           /\ ~(A.qc = NoQuote /\ c = Blank)
  <2> DEFINE a == Append(A.t, c)
             b == Append(B.t, c)
  <2>1. /\ ReadWord(A, c) = [r |-> A.r, t |-> a, qc |-> A.qc]
        /\ ReadWord(B, c) = [r |-> B.r, t |-> b, qc |-> B.qc]
    BY <1>1, <1>5 DEF ReadWord
  <2>2. a # <<>> /\ b # <<>>
    BY <1>1
  <2>3. /\ Resolving(a, ctx) = ReadSpecifier(Resolving(A.t, ctx), c, ctx)
        /\ Resolving(b, ctx) = ReadSpecifier(Resolving(B.t, ctx), c, ctx)
    BY <1>1, ResolvingLaws
  <2>4. /\ Resolving(A.t, ctx) = [percent |-> FALSE, result |-> B.t]
        /\ Resolving(B.t, ctx) = [percent |-> FALSE, result |-> B.t]
    BY DEF Together, Same
  <2>5. ReadSpecifier([percent |-> FALSE, result |-> B.t], c, ctx) = [percent |-> FALSE, result |-> b]
    BY DEF ReadSpecifier
  <2>6. Same(a, b, FALSE, ctx)
    BY <2>3, <2>4, <2>5 DEF Same
  <2> HIDE DEF a, b
  <2>7. Together([r |-> A.r, t |-> a, qc |-> A.qc], [r |-> B.r, t |-> b, qc |-> B.qc], FALSE, ctx)
    BY <2>2, <2>6 DEF Together
  <2> QED
    BY <2>1, <2>7
<1> QED
  BY <1>2, <1>3, <1>4, <1>5

\* A '%' is pending.
LEMMA PercentTogether ==
  ASSUME NEW C, "%" \in C, NEW ctx, Expands(C, ctx), NEW A \in SplitStates(C),
         NEW B \in SplitStates(C), Together(A, B, FALSE, ctx)
  PROVE  Together(ReadWord(A, "%"), B, TRUE, ctx)
<1> DEFINE a == Append(A.t, "%")
<1>1. A.t \in Seq(C) /\ A.qc \in {NoQuote} \cup Quotes
  BY DEF SplitStates
<1>2. ReadWord(A, "%") = [r |-> A.r, t |-> a, qc |-> A.qc]
  BY <1>1 DEF ReadWord, Quotes, NoQuote, Blank
<1>3. Resolving(a, ctx) = ReadSpecifier(Resolving(A.t, ctx), "%", ctx)
  BY <1>1, ResolvingLaws
<1>4. Resolving(A.t, ctx) = [percent |-> FALSE, result |-> B.t]
  BY DEF Together, Same
<1>5. ReadSpecifier([percent |-> FALSE, result |-> B.t], "%", ctx) = [percent |-> TRUE, result |-> B.t]
  BY DEF ReadSpecifier
<1>6. Same(a, B.t, TRUE, ctx)
  BY <1>3, <1>4, <1>5 DEF Same, Together
<1> HIDE DEF a
<1>7. Together([r |-> A.r, t |-> a, qc |-> A.qc], B, TRUE, ctx)
  BY <1>6 DEF Together
<1> QED
  BY <1>2, <1>7

\* What PlainSpecifiers asks of the character after a '%'.
PlainNext(c, ctx) ==
  /\ c \notin {"%"} \cup Special
  /\ c \in DOMAIN resolvers_(ctx) =>
       /\ resolvers_(ctx)[c] # <<>>
       /\ CharsOf(resolvers_(ctx)[c]) \cap ({"%"} \cup Special) = {}

\* What a specifier stands for is not torn apart and not expanded again.
LEMMA PlainExpansion ==
  ASSUME NEW C, "%" \in C, NEW ctx, Expands(C, ctx), NEW c \in C, PlainNext(c, ctx)
  PROVE  /\ Expansion(c, ctx) # <<>> /\ CharsOf(Expansion(c, ctx)) \cap Special = {}
         /\ \A y \in Seq(C) :
              Resolving(y, ctx) = [percent |-> FALSE, result |-> y] =>
                Resolving(y \o Expansion(c, ctx), ctx) =
                  [percent |-> FALSE, result |-> y \o Expansion(c, ctx)]
<1> DEFINE e == Expansion(c, ctx)
<1>0. e \in Seq(C)
  BY DEF Expands
<1>1. CASE c \in DOMAIN resolvers_(ctx)
  <2>1. e # <<>> /\ CharsOf(e) \cap ({"%"} \cup Special) = {}
    BY <1>1 DEF Expansion, PlainNext
  <2> HIDE DEF e
  <2>2. "%" \notin CharsOf(e) /\ CharsOf(e) \cap Special = {}
    BY <2>1
  <2> QED
    BY <1>0, <2>1, <2>2, ResolvePlain DEF e
<1>2. CASE c \notin DOMAIN resolvers_(ctx)
  <2>1. e = <<"%", c>>
    BY <1>2 DEF Expansion
  <2>2. e # <<>> /\ CharsOf(e) = {"%", c}
    BY <2>1 DEF CharsOf
  <2>3. "%" \notin Special /\ c \notin Special
    BY DEF Special, Quotes, Blank, PlainNext
  <2>4. ASSUME NEW y \in Seq(C), Resolving(y, ctx) = [percent |-> FALSE, result |-> y]
        PROVE  Resolving(y \o e, ctx) = [percent |-> FALSE, result |-> y \o e]
    <3> DEFINE y1 == Append(y, "%")
    <3>1. y1 \in Seq(C) /\ y \o e = Append(y1, c)
      BY <2>1, Short, AppendProperties
    <3>2. Resolving(y1, ctx) = ReadSpecifier(Resolving(y, ctx), "%", ctx)
      BY ResolvingLaws
    <3>3. Resolving(y1, ctx) = [percent |-> TRUE, result |-> y]
      BY <3>2, <2>4 DEF ReadSpecifier
    <3> HIDE DEF y1
    <3>4. Resolving(Append(y1, c), ctx) = ReadSpecifier(Resolving(y1, ctx), c, ctx)
      BY <3>1, ResolvingLaws
    <3>5. Resolving(Append(y1, c), ctx) = [percent |-> FALSE, result |-> y \o e]
      BY <3>3, <3>4 DEF ReadSpecifier
    <3> QED
      BY <3>1, <3>5
  <2> HIDE DEF e
  <2> QED
    BY <2>2, <2>3, <2>4 DEF e
<1> QED
  BY <1>1, <1>2

\* The specifier is replaced.
LEMMA ExpandTogether ==
  ASSUME NEW C, "%" \in C, NEW ctx, Expands(C, ctx), NEW A \in SplitStates(C),
         NEW B \in SplitStates(C), Together(A, B, TRUE, ctx),
         NEW c \in C, PlainNext(c, ctx)
  PROVE  Together(ReadWord(A, c),
                  [r |-> B.r, t |-> B.t \o Expansion(c, ctx), qc |-> B.qc], FALSE, ctx)
<1> DEFINE a == Append(A.t, c)
           b == B.t \o Expansion(c, ctx)
<1>1. A.t \in Seq(C) /\ B.t \in Seq(C) /\ A.qc \in {NoQuote} \cup Quotes
  BY DEF SplitStates
<1>2. ReadWord(A, c) = [r |-> A.r, t |-> a, qc |-> A.qc]
  BY <1>1 DEF ReadWord, PlainNext, Special
<1>3. Resolving(a, ctx) = ReadSpecifier(Resolving(A.t, ctx), c, ctx)
  BY <1>1, ResolvingLaws
<1>4. /\ Resolving(A.t, ctx) = [percent |-> TRUE, result |-> B.t]
      /\ Resolving(B.t, ctx) = [percent |-> FALSE, result |-> B.t]
  BY DEF Together, Same
<1>5. Resolving(a, ctx) = [percent |-> FALSE, result |-> b]
  BY <1>3, <1>4 DEF ReadSpecifier
<1>6. Resolving(b, ctx) = [percent |-> FALSE, result |-> b]
  BY <1>1, <1>4, PlainExpansion
<1>7. a # <<>> /\ b # <<>>
  <2>1. Expansion(c, ctx) # <<>> /\ Expansion(c, ctx) \in Seq(C)
    BY PlainExpansion DEF Expands
  <2> DEFINE u == B.t
             e == Expansion(c, ctx)
  <2>2. u \in Seq(C) /\ e \in Seq(C) /\ e # <<>>
    BY <2>1, <1>1
  <2> HIDE DEF u, e
  <2>3. Len(u \o e) # 0 /\ u \o e \in Seq(C)
    BY <2>2
  <2>4. u \o e # <<>>
    BY <2>3
  <2> QED
    BY <2>4, <1>1 DEF u, e
<1>8. Same(a, b, FALSE, ctx)
  BY <1>5, <1>6 DEF Same
<1> HIDE DEF a, b
<1>9. Together([r |-> A.r, t |-> a, qc |-> A.qc], [r |-> B.r, t |-> b, qc |-> B.qc], FALSE, ctx)
  BY <1>7, <1>8 DEF Together
<1> QED
  BY <1>2, <1>9 DEF b

PlainSoFar(s, ctx) ==
  \A k \in 1..Len(s) : k < Len(s) /\ s[k] = "%" => PlainNext(s[k + 1], ctx)

\* Reading a command, and reading what it resolves to.
InStep(s, ctx) ==
  /\ Together(Splitting(s), Splitting(Resolving(s, ctx).result), Resolving(s, ctx).percent, ctx)
  /\ Resolving(s, ctx).percent => s # <<>> /\ s[Len(s)] = "%"

\* A command and what it resolves to stay in step, character by character.
LEMMA CommandInStep ==
  ASSUME NEW C, "%" \in C, NEW ctx, Expands(C, ctx)
  PROVE  \A s \in Seq(C) : PlainSoFar(s, ctx) => InStep(s, ctx)
<1> DEFINE S == { s \in Seq(C) : PlainSoFar(s, ctx) => InStep(s, ctx) }
<1>1. <<>> \in S
  <2>1. /\ <<>> \in Seq(C) /\ Resolving(<<>>, ctx) = ResolveBase
        /\ Splitting(<<>>) = SplitBase
    <3>1. <<>> \in Seq(C)
      OBVIOUS
    <3> QED
      BY <3>1, ResolvingLaws, SplittingLaws
  <2>2. /\ ResolveBase.result = <<>> /\ ~ResolveBase.percent /\ ResolveBase.percent = FALSE
        /\ ResolveBase = [percent |-> FALSE, result |-> <<>>]
    BY DEF ResolveBase
  <2>3. Same(<<>>, <<>>, FALSE, ctx)
    BY <2>1, <2>2 DEF Same
  <2>4. Together(SplitBase, SplitBase, FALSE, ctx)
    <3>1. SplitBase.t = <<>> /\ Len(SplitBase.r) = 0
      BY DEF SplitBase
    <3>2. Same(SplitBase.t, SplitBase.t, FALSE, ctx)
      BY <2>3, <3>1
    <3>3. \A k \in 1..Len(SplitBase.r) : FALSE
      BY <3>1
    <3> QED
      BY <3>2, <3>3 DEF Together
  <2> QED
    BY <2>1, <2>2, <2>4 DEF InStep
<1>2. ASSUME NEW s \in Seq(C), s \in S, NEW c \in C
      PROVE  Append(s, c) \in S
  <2> DEFINE t == Append(s, c)
             R == Resolving(s, ctx)
             A == Splitting(s)
             B == Splitting(R.result)
  <2>1. /\ t \in Seq(C) /\ Len(s) \in Nat /\ Len(t) = Len(s) + 1
        /\ \A k \in 1..Len(s) : t[k] = s[k]
        /\ t[Len(s) + 1] = c
    BY AppendProperties
  <2>2. SUFFICES ASSUME PlainSoFar(t, ctx) PROVE InStep(t, ctx)
    BY <2>1
  <2>3. PlainSoFar(s, ctx)
    <3> HIDE DEF t
    <3>1. SUFFICES ASSUME NEW k \in 1..Len(s), k < Len(s), s[k] = "%"
                   PROVE  PlainNext(s[k + 1], ctx)
      BY DEF PlainSoFar
    <3>2. k \in 1..Len(t) /\ k < Len(t) /\ t[k] = "%" /\ t[k + 1] = s[k + 1]
      BY <3>1, <2>1
    <3> QED
      BY <3>2, <2>2 DEF PlainSoFar
  <2>4. Together(A, B, R.percent, ctx) /\ (R.percent => s # <<>> /\ s[Len(s)] = "%")
    BY <1>2, <2>3 DEF InStep
  <2>5. R \in ResolveStates(C) /\ Resolving(t, ctx) = ReadSpecifier(R, c, ctx)
    BY ResolvingLaws
  <2>6. R.percent \in BOOLEAN /\ R.result \in Seq(C) /\ R = [percent |-> R.percent, result |-> R.result]
    BY <2>5 DEF ResolveStates
  <2>7. A \in SplitStates(C) /\ Splitting(t) = ReadWord(A, c)
    BY SplittingLaws
  <2> HIDE DEF R
  <2>8. B \in SplitStates(C) /\ Splitting(Append(R.result, c)) = ReadWord(B, c)
    BY <2>6, SplittingLaws
  <2>9. t # <<>> /\ t[Len(t)] = c
    <3> HIDE DEF t
    <3>1. Len(t) # 0
      BY <2>1
    <3> QED
      BY <2>1, <3>1
  <2> HIDE DEF A, B, t
  <2>10. CASE R.percent
    <3>1. PlainNext(c, ctx)
      <4>1. s # <<>> /\ s[Len(s)] = "%"
        BY <2>4, <2>10
      <4>2. Len(s) \in 1..Len(t) /\ Len(s) < Len(t) /\ Len(s) \in 1..Len(s)
        BY <4>1, <2>1
      <4>3. t[Len(s)] = "%" /\ t[Len(s) + 1] = c
        BY <4>1, <4>2, <2>1
      <4> QED
        BY <4>2, <4>3, <2>2 DEF PlainSoFar
    <3> DEFINE e == Expansion(c, ctx)
    <3>2. Resolving(t, ctx) = [percent |-> FALSE, result |-> R.result \o e]
      BY <2>5, <2>10 DEF ReadSpecifier
    <3>3. e \in Seq(C) /\ CharsOf(e) \cap Special = {}
      BY <3>1, PlainExpansion DEF Expands
    <3> HIDE DEF e
    <3>4. Splitting(R.result \o e) = [r |-> B.r, t |-> B.t \o e, qc |-> B.qc]
      BY <3>3, <2>6, SplitPlain DEF B
    <3>5. Together(A, B, TRUE, ctx)
      BY <2>4, <2>6, <2>10
    <3>6. Together(ReadWord(A, c), [r |-> B.r, t |-> B.t \o e, qc |-> B.qc], FALSE, ctx)
      BY <3>1, <3>5, <2>7, <2>8, ExpandTogether DEF e
    <3>7. /\ Resolving(t, ctx).result = R.result \o e /\ Resolving(t, ctx).percent = FALSE
      BY <3>2
    <3> QED
      BY <3>4, <3>6, <3>7, <2>7 DEF InStep
  <2>11. CASE ~R.percent /\ c = "%"
    <3>1. Resolving(t, ctx).result = R.result /\ Resolving(t, ctx).percent = TRUE
      BY <2>5, <2>11 DEF ReadSpecifier
    <3>2. Together(A, B, FALSE, ctx)
      BY <2>4, <2>6, <2>11
    <3>3. Together(ReadWord(A, c), B, TRUE, ctx)
      BY <3>2, <2>7, <2>8, <2>11, PercentTogether
    <3> QED
      BY <3>1, <3>3, <2>7, <2>9, <2>11 DEF InStep, B
  <2>12. CASE ~R.percent /\ c # "%"
    <3>1. Resolving(t, ctx).result = Append(R.result, c) /\ Resolving(t, ctx).percent = FALSE
      BY <2>5, <2>12 DEF ReadSpecifier
    <3>2. Together(A, B, FALSE, ctx)
      BY <2>4, <2>6, <2>12
    <3>3. Together(ReadWord(A, c), ReadWord(B, c), FALSE, ctx)
      BY <3>2, <2>7, <2>8, <2>12, ReadTogether
    <3> QED
      BY <3>1, <3>3, <2>7, <2>8 DEF InStep
  <2> QED
    BY <2>10, <2>11, <2>12
<1> HIDE DEF S
<1>3. \A s \in Seq(C) : s \in S
  BY <1>1, <1>2, SequenceInduction
<1> QED
  BY <1>3 DEF S

\* The words of the resolved command are the resolved words of the command,
\* and resolving them again changes nothing.
LEMMA WordsResolved ==
  ASSUME NEW C, "%" \in C, NEW ctx, Expands(C, ctx), NEW d \in Seq(C),
         \A k \in 1..Len(d) : d[k] = "%" => k < Len(d) /\ PlainNext(d[k + 1], ctx)
  PROVE  /\ split_exec(d) \in Seq(Seq(C))
         /\ Len(split_exec(resolve(d, ctx))) = Len(split_exec(d))
         /\ \A k \in 1..Len(split_exec(d)) :
              /\ split_exec(resolve(d, ctx))[k] = resolve(split_exec(d)[k], ctx)
              /\ resolve(split_exec(resolve(d, ctx))[k], ctx) = split_exec(resolve(d, ctx))[k]
<1> DEFINE R == Resolving(d, ctx)
           A == Splitting(d)
           B == Splitting(R.result)
<1>1. InStep(d, ctx)
  <2>1. PlainSoFar(d, ctx)
    BY DEF PlainSoFar
  <2> QED
    BY <2>1, CommandInStep
<1>2. R \in ResolveStates(C)
  BY ResolvingLaws
<1>3. R.percent \in BOOLEAN /\ R.result \in Seq(C)
  BY <1>2 DEF ResolveStates
<1>4. R.percent = FALSE
  <2>1. SUFFICES ASSUME R.percent PROVE FALSE
    BY <1>3
  <2>2. d # <<>> /\ d[Len(d)] = "%"
    BY <2>1, <1>1 DEF InStep
  <2>3. Len(d) \in 1..Len(d)
    BY <2>2
  <2> QED
    BY <2>2, <2>3
<1>5. resolve(d, ctx) = R.result
  BY <1>4 DEF resolve
<1>6. Together(A, B, FALSE, ctx)
  BY <1>1, <1>4 DEF InStep
<1> HIDE DEF R
<1>7. A \in SplitStates(C) /\ B \in SplitStates(C)
  BY <1>3, SplittingLaws
<1> HIDE DEF A, B
<1>8. Together(EndWord(A), EndWord(B), FALSE, ctx)
  BY <1>6, <1>7, EndTogether
<1>9. EndWord(A) \in SplitStates(C)
  BY <1>7, ReadWordType
<1>10. split_exec(d) = EndWord(A).r /\ split_exec(resolve(d, ctx)) = EndWord(B).r
  BY <1>5 DEF split_exec, A, B
<1>11. EndWord(A).r \in Seq(Seq(C))
  BY <1>9 DEF SplitStates
<1>12. \A x, y : Same(x, y, FALSE, ctx) => y = resolve(x, ctx) /\ resolve(y, ctx) = y
  BY DEF Same, resolve
<1>13. /\ Len(EndWord(A).r) = Len(EndWord(B).r)
       /\ \A k \in 1..Len(EndWord(A).r) : Same(EndWord(A).r[k], EndWord(B).r[k], FALSE, ctx)
  BY <1>8 DEF Together
<1> QED
  BY <1>10, <1>11, <1>12, <1>13

\* The '%' that stand right before position k.
RunBefore(s, k) == { j \in 1..(k - 1) : \A h \in j..(k - 1) : s[h] = "%" }

\* One more character: the run of '%' grows by one or is over.
LEMMA NextRun ==
  ASSUME NEW C, NEW s \in Seq(C), NEW n \in 0..(Len(s) - 1), IsFiniteSet(RunBefore(s, n + 1))
  PROVE  /\ s[n + 1] # "%" => RunBefore(s, n + 2) = {}
         /\ s[n + 1] = "%" => Cardinality(RunBefore(s, n + 2)) = Cardinality(RunBefore(s, n + 1)) + 1
         /\ IsFiniteSet(RunBefore(s, n + 2))
<1> DEFINE a == RunBefore(s, n + 1)
           b == RunBefore(s, n + 2)
<1>0. Len(s) \in Nat /\ n \in Nat /\ (n + 1) - 1 = n /\ (n + 2) - 1 = n + 1
  OBVIOUS
<1>1. CASE s[n + 1] # "%"
  <2>1. \A j \in 1..(n + 1) : n + 1 \in j..(n + 1)
    BY <1>0
  <2>2. b = {}
    BY <2>1, <1>1, <1>0 DEF RunBefore
  <2> QED
    BY <2>2, <1>1, FS_EmptySet
<1>2. CASE s[n + 1] = "%"
  <2>1. a = { j \in 1..n : \A h \in j..n : s[h] = "%" }
    BY <1>0 DEF RunBefore
  <2>2. b = { j \in 1..(n + 1) : \A h \in j..(n + 1) : s[h] = "%" }
    BY <1>0 DEF RunBefore
  <2> HIDE DEF a, b
  <2>3. n + 1 \notin a
    BY <2>1, <1>0
  <2>4. ASSUME NEW j \in 1..(n + 1)
        PROVE  j \in b <=> j \in a \/ j = n + 1
    <3>1. CASE j = n + 1
      <4>1. \A h \in j..(n + 1) : h = n + 1
        BY <3>1, <1>0
      <4> QED
        BY <4>1, <3>1, <2>2, <1>2
    <3>2. CASE j # n + 1
      <4>1. j \in 1..n
        BY <3>2, <1>0
      <4>2. \A h : h \in j..(n + 1) <=> h \in j..n \/ h = n + 1
        BY <4>1, <1>0
      <4> QED
        BY <4>1, <4>2, <3>2, <2>1, <2>2, <1>2
    <3> QED
      BY <3>1, <3>2
  <2>5. a \subseteq 1..(n + 1) /\ n + 1 \in 1..(n + 1) /\ b \subseteq 1..(n + 1)
    BY <2>1, <2>2, <1>0
  <2>6. b = a \cup {n + 1}
    BY <2>4, <2>5
  <2>7. IsFiniteSet(a)
    BY DEF a
  <2> QED
    BY <2>3, <2>6, <2>7, <1>2, FS_AddElement DEF a, b
<1> QED
  BY <1>1, <1>2

\* A run is finite.
LEMMA RunFinite ==
  ASSUME NEW s, NEW k \in Nat
  PROVE  IsFiniteSet(RunBefore(s, k)) /\ Cardinality(RunBefore(s, k)) \in Nat
<1>1. IsFiniteSet(1..(k - 1))
  BY FS_Interval
<1>2. RunBefore(s, k) \subseteq 1..(k - 1)
  BY DEF RunBefore
<1>3. IsFiniteSet(RunBefore(s, k))
  BY <1>1, <1>2, FS_Subset
<1> QED
  BY <1>3, FS_CardinalityType

OddRun(s, k) == Cardinality(RunBefore(s, k)) % 2 = 1

\* A '%' ends a run of odd length when it stands after one of even length.
LEMMA RunParity ==
  ASSUME NEW C, NEW s \in Seq(C), NEW n \in 0..(Len(s) - 1)
  PROVE  OddRun(s, n + 2) <=> s[n + 1] = "%" /\ ~OddRun(s, n + 1)
<1>1. /\ IsFiniteSet(RunBefore(s, n + 1)) /\ Cardinality(RunBefore(s, n + 1)) \in Nat
  BY RunFinite
<1>2. CASE s[n + 1] # "%"
  <2>1. RunBefore(s, n + 2) = {}
    BY <1>1, <1>2, NextRun
  <2>2. Cardinality(RunBefore(s, n + 2)) = 0
    BY <2>1, FS_EmptySet
  <2> QED
    BY <2>2, <1>2 DEF OddRun
<1>3. CASE s[n + 1] = "%"
  <2>1. Cardinality(RunBefore(s, n + 2)) = Cardinality(RunBefore(s, n + 1)) + 1
    BY <1>1, <1>3, NextRun
  <2> QED
    BY <2>1, <1>1, <1>3 DEF OddRun
<1> QED
  BY <1>2, <1>3

\* A specifier begins after a run of even length.
LEMMA BeginsParity ==
  ASSUME NEW s, NEW k \in Nat
  PROVE  Begins(s, k) <=> s[k] = "%" /\ k < Len(s) /\ ~OddRun(s, k)
<1>1. Cardinality(RunBefore(s, k)) \in Nat
  BY RunFinite
<1>2. Begins(s, k) <=> s[k] = "%" /\ k < Len(s) /\ Cardinality(RunBefore(s, k)) % 2 = 0
  BY DEF Begins, RunBefore
<1> QED
  BY <1>1, <1>2 DEF OddRun

\* What the scanner of resolve does is what the positions tell.
LEMMA ResolveByPosition ==
  ASSUME NEW C, "%" \in C, NEW ctx, Expands(C, ctx), NEW s \in Seq(C)
  PROVE  resolve(s, ctx) = Substituted(s, ctx)
<1> DEFINE L == Len(s)
           piece(k) == IF Begins(s, k) THEN Expansion(s[k + 1], ctx)
                       ELSE IF k > 1 /\ Begins(s, k - 1) THEN <<>> ELSE <<s[k]>>
           P(n) == [k \in 1..n |-> piece(k)]
           pre(n) == [k \in 1..n |-> s[k]]
           R(n) == Resolving(pre(n), ctx)
           Done(n) == IF ~R(n).percent THEN R(n).result
                      ELSE IF n < L THEN R(n).result \o Expansion(s[n + 1], ctx)
                      ELSE Append(R(n).result, "%")
           S == { n \in Nat : n <= L =>
                    (R(n).percent <=> OddRun(s, n + 1)) /\ FlattenSeq(P(n)) = Done(n) }
<1>1. L \in Nat /\ \A k \in 1..L : s[k] \in C
  OBVIOUS
<1>2. ASSUME NEW k \in 1..L
      PROVE  piece(k) \in Seq(C)
  <2>1. CASE Begins(s, k)
    <3>1. k < Len(s)
      BY <2>1, BeginsParity
    <3>2. s[k + 1] \in C
      BY <3>1, <1>1
    <3> QED
      BY <2>1, <3>2 DEF Expands
  <2>2. CASE ~Begins(s, k)
    <3>1. <<>> \in Seq(C) /\ <<s[k]>> \in Seq(C)
      BY <1>1
    <3> QED
      BY <2>2, <3>1
  <2> QED
    BY <2>1, <2>2
<1> HIDE DEF piece
<1>3. ASSUME NEW n \in Nat, n <= L
      PROVE  P(n) \in Seq(Seq(C)) /\ Len(P(n)) = n /\ pre(n) \in Seq(C) /\ Len(pre(n)) = n
  <2>1. \A k \in 1..n : piece(k) \in Seq(C) /\ s[k] \in C
    BY <1>1, <1>2, <1>3
  <2> QED
    BY <2>1
<1>4. ASSUME NEW n \in Nat, n + 1 <= L
      PROVE  P(n + 1) = Append(P(n), piece(n + 1)) /\ pre(n + 1) = Append(pre(n), s[n + 1])
  <2>1. n <= L /\ n + 1 \in Nat /\ n + 1 \in 1..L
    BY <1>1, <1>4
  <2>2. /\ P(n) \in Seq(Seq(C)) /\ Len(P(n)) = n /\ P(n + 1) \in Seq(Seq(C)) /\ Len(P(n + 1)) = n + 1
        /\ pre(n) \in Seq(C) /\ Len(pre(n)) = n /\ pre(n + 1) \in Seq(C) /\ Len(pre(n + 1)) = n + 1
    BY <2>1, <1>4, <1>3
  <2>3. piece(n + 1) \in Seq(C) /\ s[n + 1] \in C
    BY <2>1, <1>1, <1>2
  <2>4. P(n + 1) = Append(P(n), piece(n + 1))
    BY <2>2, <2>3
  <2>5. pre(n + 1) = Append(pre(n), s[n + 1])
    BY <2>2, <2>3
  <2> QED
    BY <2>4, <2>5
<1>5. 0 \in S
  <2>1. P(0) = <<>> /\ pre(0) = <<>>
    OBVIOUS
  <2>2. R(0) = ResolveBase
    <3>1. <<>> \in Seq(C)
      OBVIOUS
    <3> QED
      BY <2>1, <3>1, ResolvingLaws
  <2>3. R(0).percent = FALSE /\ R(0).result = <<>>
    BY <2>2 DEF ResolveBase
  <2>4. FlattenSeq(P(0)) = <<>>
    <3>1. <<>> \in Seq(Seq(C)) /\ <<>> \in Seq(C)
      OBVIOUS
    <3> QED
      BY <2>1, <3>1, Flatten
  <2>5. ~OddRun(s, 1)
    <3>1. RunBefore(s, 1) = {}
      BY DEF RunBefore
    <3>2. Cardinality(RunBefore(s, 1)) = 0
      BY <3>1, FS_EmptySet
    <3> QED
      BY <3>2 DEF OddRun
  <2> HIDE DEF P, R
  <2>6. Done(0) = <<>> /\ 0 + 1 = 1
    BY <2>3
  <2>7. (R(0).percent <=> OddRun(s, 0 + 1)) /\ FlattenSeq(P(0)) = Done(0)
    BY <2>3, <2>4, <2>5, <2>6
  <2> HIDE DEF Done
  <2> QED
    BY <2>7
<1>6. ASSUME NEW n \in S
      PROVE  n + 1 \in S
  <2>1. SUFFICES ASSUME n + 1 <= L
                 PROVE  /\ R(n + 1).percent <=> OddRun(s, n + 2)
                        /\ FlattenSeq(P(n + 1)) = Done(n + 1)
    <3> HIDE DEF P, R, Done
    <3>1. n + 1 \in Nat /\ (n + 1) + 1 = n + 2
      OBVIOUS
    <3> QED
      BY <3>1
  <2> DEFINE c == s[n + 1]
             r == R(n)
             q == R(n + 1)
  <2>2. n \in Nat /\ n <= L /\ n < L /\ n + 1 \in 1..L /\ n + 1 \in Nat /\ n \in 0..(L - 1)
    BY <2>1, <1>1
  <2>3. (r.percent <=> OddRun(s, n + 1)) /\ FlattenSeq(P(n)) = Done(n)
    <3> HIDE DEF P, R, Done
    <3> QED
      BY <2>2
  <2>4. c \in C /\ pre(n) \in Seq(C) /\ pre(n + 1) = Append(pre(n), c)
    BY <2>1, <2>2, <1>1, <1>3, <1>4
  <2>5. r \in ResolveStates(C) /\ q = ReadSpecifier(r, c, ctx)
    <3> HIDE DEF pre
    <3> QED
      BY <2>4, ResolvingLaws
  <2>6. r.percent \in BOOLEAN /\ r.result \in Seq(C)
    BY <2>5 DEF ResolveStates
  <2>7. FlattenSeq(P(n + 1)) = Done(n) \o piece(n + 1)
    <3>1. P(n) \in Seq(Seq(C)) /\ piece(n + 1) \in Seq(C) /\ P(n + 1) = Append(P(n), piece(n + 1))
      BY <2>1, <2>2, <1>2, <1>3, <1>4
    <3> HIDE DEF P, Done
    <3> QED
      BY <3>1, <2>3, Flatten
  <2>8. OddRun(s, n + 2) <=> c = "%" /\ ~OddRun(s, n + 1)
    BY <2>2, RunParity
  <2>9. Begins(s, n + 1) <=> c = "%" /\ n + 1 < L /\ ~OddRun(s, n + 1)
    BY <2>2, BeginsParity
  <2>10. n + 1 > 1 /\ Begins(s, n) <=> OddRun(s, n + 1)
    <3>1. CASE n = 0
      <4>1. RunBefore(s, 1) = {}
        BY DEF RunBefore
      <4>2. Cardinality(RunBefore(s, 1)) = 0
        BY <4>1, FS_EmptySet
      <4> QED
        BY <4>2, <3>1 DEF OddRun
    <3>2. CASE n # 0
      <4>1. n - 1 \in 0..(L - 1) /\ (n - 1) + 2 = n + 1 /\ (n - 1) + 1 = n /\ n + 1 > 1
        BY <3>2, <2>2
      <4>2. OddRun(s, (n - 1) + 2) <=> s[(n - 1) + 1] = "%" /\ ~OddRun(s, (n - 1) + 1)
        BY <4>1, RunParity
      <4>3. OddRun(s, n + 1) <=> s[n] = "%" /\ ~OddRun(s, n)
        BY <4>1, <4>2
      <4>4. Begins(s, n) <=> s[n] = "%" /\ n < Len(s) /\ ~OddRun(s, n)
        BY <2>2, BeginsParity
      <4> QED
        BY <4>1, <4>3, <4>4, <2>2
    <3> QED
      BY <3>1, <3>2
  <2>11. piece(n + 1) = IF Begins(s, n + 1) THEN Expansion(s[n + 2], ctx)
                        ELSE IF n + 1 > 1 /\ Begins(s, n) THEN <<>> ELSE <<c>>
    <3>1. (n + 1) + 1 = n + 2 /\ (n + 1) - 1 = n
      BY <2>2
    <3> QED
      BY <3>1 DEF piece
  <2>12. Done(n) = IF ~r.percent THEN r.result ELSE r.result \o Expansion(c, ctx)
    <3> HIDE DEF R
    <3> QED
      BY <2>2
  <2>13. Done(n + 1) = IF ~q.percent THEN q.result
                       ELSE IF n + 1 < L THEN q.result \o Expansion(s[n + 2], ctx)
                       ELSE Append(q.result, "%")
    <3>1. (n + 1) + 1 = n + 2
      BY <2>2
    <3> HIDE DEF R
    <3> QED
      BY <3>1
  <2> HIDE DEF r, q, c, Done, P, R
  <2>14. CASE r.percent
    <3>1. q = [percent |-> FALSE, result |-> r.result \o Expansion(c, ctx)]
      BY <2>5, <2>14 DEF ReadSpecifier
    <3>2. q.percent = FALSE /\ q.result = r.result \o Expansion(c, ctx)
      BY <3>1
    <3>3. piece(n + 1) = <<>>
      BY <2>3, <2>9, <2>10, <2>11, <2>14 DEF r
    <3> DEFINE d == Done(n)
    <3>4. d = q.result /\ d \in Seq(C)
      <4>1. Expansion(c, ctx) \in Seq(C)
        BY <2>4 DEF Expands, c
      <4>2. r.result \o Expansion(c, ctx) \in Seq(C)
        BY <4>1, <2>6, ConcatProperties
      <4> QED
        BY <3>2, <4>2, <2>12, <2>14
    <3> HIDE DEF d
    <3>5. d \o <<>> = d
      BY <3>4, ConcatProperties
    <3>6. FlattenSeq(P(n + 1)) = q.result /\ Done(n + 1) = q.result
      BY <3>2, <3>3, <3>4, <3>5, <2>7, <2>13 DEF d
    <3> QED
      BY <3>2, <3>6, <2>3, <2>8, <2>14 DEF q, r
  <2>15. CASE ~r.percent /\ c = "%"
    <3>1. q.percent = TRUE /\ q.result = r.result
      BY <2>5, <2>15 DEF ReadSpecifier
    <3>2. Done(n) = r.result
      BY <2>12, <2>15
    <3>3. CASE n + 1 < L
      <4>1. piece(n + 1) = Expansion(s[n + 2], ctx)
        BY <3>3, <2>3, <2>9, <2>11, <2>15 DEF r
      <4> QED
        BY <4>1, <3>1, <3>2, <3>3, <2>3, <2>7, <2>8, <2>13, <2>15 DEF q, r
    <3>4. CASE ~(n + 1 < L)
      <4>1. piece(n + 1) = <<"%">>
        BY <3>4, <2>3, <2>9, <2>10, <2>11, <2>15 DEF r
      <4>2. r.result \o <<"%">> = Append(r.result, "%")
        BY <2>6, Short
      <4> QED
        BY <4>1, <4>2, <3>1, <3>2, <3>4, <2>3, <2>7, <2>8, <2>13, <2>15 DEF q, r
    <3> QED
      BY <3>3, <3>4
  <2>16. CASE ~r.percent /\ c # "%"
    <3>1. q.percent = FALSE /\ q.result = Append(r.result, c)
      BY <2>5, <2>16 DEF ReadSpecifier
    <3>2. Done(n) = r.result
      BY <2>12, <2>16
    <3>3. piece(n + 1) = <<c>>
      BY <2>3, <2>9, <2>10, <2>11, <2>16 DEF r
    <3>4. r.result \o <<c>> = Append(r.result, c)
      <4>1. c \in C
        BY <2>4 DEF c
      <4> QED
        BY <4>1, <2>6, Short
    <3> QED
      BY <3>1, <3>2, <3>3, <3>4, <2>3, <2>7, <2>8, <2>13, <2>16 DEF q, r
  <2> QED
    BY <2>14, <2>15, <2>16, <2>6
<1>7. L \in S
  <2>1. S \subseteq Nat
    OBVIOUS
  <2> HIDE DEF S
  <2> QED
    BY <1>1, <1>5, <1>6, <2>1, Induction
<1>8. pre(L) = s
  BY <1>1
<1>9. FlattenSeq(P(L)) = Done(L)
  <2>1. L <= L
    BY <1>1
  <2> HIDE DEF P, R, Done, L
  <2> QED
    BY <2>1, <1>7
<1>10. Done(L) = resolve(s, ctx)
  <2>1. R(L) = Resolving(s, ctx)
    BY <1>8
  <2>2. ~(L < L)
    BY <1>1
  <2> HIDE DEF R
  <2> QED
    BY <2>1, <2>2 DEF resolve
<1>11. FlattenSeq(P(L)) = Substituted(s, ctx)
  BY DEF Substituted, piece
<1> QED
  BY <1>9, <1>10, <1>11

\* The parts of a unit's name.
LEMMA NameParts ==
  ASSUME NEW V, NEW name \in Seq(V)
  PROVE  /\ SpecifierContext(name).unit_name \in Seq(V)
         /\ SpecifierContext(name).prefix \in Seq(V)
         /\ SpecifierContext(name).instance \in Seq(V)
<1> DEFINE dot_pos == SelectLastInSeq(name, LAMBDA c : c = ".")
           at_pos == SelectInSeq(name, LAMBDA c : c = "@")
           stem == IF dot_pos = 0 THEN name ELSE SubSeq(name, 1, dot_pos - 1)
<1>1. dot_pos \in 0..Len(name)
  <2> DEFINE I == { k \in 1..Len(name) : name[k] = "." }
  <2>1. dot_pos = IF I # {} THEN Max(I) ELSE 0
    BY DEF SelectLastInSeq
  <2>2. I \subseteq 1..Len(name)
    OBVIOUS
  <2> HIDE DEF I, dot_pos
  <2> QED
    BY <2>1, <2>2, Positions
<1>2. at_pos \in 0..Len(name)
  <2> DEFINE I == { k \in 1..Len(name) : name[k] = "@" }
  <2>1. at_pos = IF I # {} THEN Min(I) ELSE 0
    BY DEF SelectInSeq
  <2>2. I \subseteq 1..Len(name)
    OBVIOUS
  <2> HIDE DEF I, at_pos
  <2> QED
    BY <2>1, <2>2, Positions
<1>3. SpecifierContext(name) =
        IF 0 < at_pos /\ at_pos < dot_pos
        THEN [ unit_name |-> name, prefix |-> SubSeq(name, 1, at_pos - 1),
               instance |-> SubSeq(name, at_pos + 1, dot_pos - 1) ]
        ELSE [ unit_name |-> name, prefix |-> stem, instance |-> <<>> ]
  BY DEF SpecifierContext
<1> HIDE DEF dot_pos, at_pos
<1>4. Len(name) \in Nat /\ <<>> \in Seq(V)
  OBVIOUS
<1>5. stem \in Seq(V)
  <2>1. CASE dot_pos # 0
    <3>1. 1 \in 1..(Len(name) + 1) /\ dot_pos - 1 \in (1 - 1)..Len(name)
      BY <1>1, <1>4, <2>1
    <3> QED
      BY <3>1, <2>1, PartOfText
  <2> QED
    BY <2>1
<1>6. CASE 0 < at_pos /\ at_pos < dot_pos
  <2>1. /\ 1 \in 1..(Len(name) + 1) /\ at_pos - 1 \in (1 - 1)..Len(name)
        /\ at_pos + 1 \in 1..(Len(name) + 1) /\ dot_pos - 1 \in ((at_pos + 1) - 1)..Len(name)
    BY <1>1, <1>2, <1>4, <1>6
  <2>2. SubSeq(name, 1, at_pos - 1) \in Seq(V) /\ SubSeq(name, at_pos + 1, dot_pos - 1) \in Seq(V)
    BY <2>1, PartOfText
  <2> QED
    BY <2>2, <1>3, <1>6
<1>7. CASE ~(0 < at_pos /\ at_pos < dot_pos)
  <2> HIDE DEF stem
  <2> QED
    BY <1>3, <1>4, <1>5, <1>7
<1> QED
  BY <1>6, <1>7

\* What %j stands for is text.
LEMMA FinalPart ==
  ASSUME NEW V, NEW s \in Seq(V)
  PROVE  FinalComponent(s) \in Seq(V)
<1> DEFINE last == SelectLastInSeq(s, LAMBDA c : c = "-")
           I == { k \in 1..Len(s) : s[k] = "-" }
<1>1. last = IF I # {} THEN Max(I) ELSE 0
  BY DEF SelectLastInSeq
<1>2. I \subseteq 1..Len(s)
  OBVIOUS
<1>3. FinalComponent(s) = SubSeq(s, last + 1, Len(s))
  BY DEF FinalComponent
<1> HIDE DEF last, I
<1>4. last \in 0..Len(s)
  BY <1>1, <1>2, Positions
<1>5. last + 1 \in 1..(Len(s) + 1) /\ Len(s) \in ((last + 1) - 1)..Len(s)
  BY <1>4
<1> QED
  BY <1>3, <1>5, PartOfText

\* So is a name without its escapes.
LEMMA UnescapedText ==
  ASSUME NEW V, \A c \in DOMAIN Unescaped : Unescaped[c] \in V, NEW s \in Seq(V)
  PROVE  unit_name_unescape(s) \in Seq(V)
BY DEF unit_name_unescape

\* Specifiers stand for text.
LEMMA ResolversText ==
  ASSUME NEW V, \A c \in DOMAIN Unescaped : Unescaped[c] \in V,
         {"%", "/", "/run", "host"} \subseteq V, NEW ctx, ctx.unit_name \in Seq(V),
         ctx.prefix \in Seq(V), ctx.instance \in Seq(V),
         NEW spec \in DOMAIN resolvers_(ctx)
  PROVE  resolvers_(ctx)[spec] \in Seq(V)
<1> DEFINE f == FinalComponent(ctx.prefix)
           i1 == unit_name_unescape(ctx.instance)
<1>1. /\ f \in Seq(V) /\ i1 \in Seq(V) /\ unit_name_unescape(ctx.unit_name) \in Seq(V)
      /\ unit_name_unescape(ctx.prefix) \in Seq(V)
  BY FinalPart, UnescapedText
<1>2. unit_name_unescape(f) \in Seq(V)
  <2> HIDE DEF f
  <2> QED
    BY <1>1, UnescapedText
<1>3. /\ <<"%">> \in Seq(V) /\ <<"/run">> \in Seq(V) /\ <<"host">> \in Seq(V) /\ <<>> \in Seq(V)
      /\ <<"/">> \in Seq(V)
  OBVIOUS
<1>4. <<"/">> \o i1 \in Seq(V)
  <2> HIDE DEF i1
  <2> QED
    BY <1>1, <1>3, ConcatProperties
<1>5. spec \in {"%", "n", "N", "p", "P", "i", "I", "f", "j", "J", "t", "H", "o"}
  BY DEF resolvers_
<1> HIDE DEF f, i1
<1>6. resolvers_(ctx)[spec] =
      CASE spec = "%" -> <<"%">>
        [] spec = "n" -> ctx.unit_name
        [] spec = "N" -> unit_name_unescape(ctx.unit_name)
        [] spec = "p" -> ctx.prefix
        [] spec = "P" -> unit_name_unescape(ctx.prefix)
        [] spec = "i" -> ctx.instance
        [] spec = "I" -> i1
        [] spec = "f" -> IF ctx.instance = <<>> THEN <<>> ELSE <<"/">> \o i1
        [] spec = "j" -> f
        [] spec = "J" -> unit_name_unescape(f)
        [] spec = "t" -> <<"/run">>
        [] spec = "H" -> <<"host">>
        [] spec = "o" -> <<>>
  BY <1>5, Zenon DEF resolvers_, f, i1
<1> QED
  BY <1>1, <1>2, <1>3, <1>4, <1>5, <1>6

\* start_service's order, and the order of the words.
LEMMA ServiceArguments ==
  ASSUME NEW cmd, IsText(cmd), NEW name, IsText(name),
         PlainSpecifiers(cmd, SpecifierContext(name))
  PROVE  LET ctx == SpecifierContext(name)
             words == split_exec(WithoutDash(cmd))
         IN ServiceArgv(cmd, ctx) = [k \in 1..Len(words) |-> Substituted(words[k], ctx)]
<1> DEFINE ctx == SpecifierContext(name)
           marks == {"%", "/", "/run", "host"}
           V == CharsOf(name) \cup { Unescaped[c] : c \in DOMAIN Unescaped } \cup marks
           C == V \cup CharsOf(cmd)
           d == WithoutDash(cmd)
           words == split_exec(d)
           args == split_exec(resolve(d, ctx))
<1>1. "%" \in C /\ V \subseteq C /\ CharsOf(cmd) \subseteq C
  OBVIOUS
<1>2. Expands(C, ctx)
  <2>1. name \in Seq(V)
    <3>1. CharsOf(name) \subseteq V /\ name \in Seq(CharsOf(name))
      BY DEF IsText
    <3> HIDE DEF V
    <3> QED
      BY <3>1
  <2>2. /\ \A c \in DOMAIN Unescaped : Unescaped[c] \in V
        /\ {"%", "/", "/run", "host"} \subseteq V
    <3>1. marks \subseteq V
      <4> HIDE DEF marks
      <4> QED
        OBVIOUS
    <3> HIDE DEF marks
    <3>2. \A c \in DOMAIN Unescaped : Unescaped[c] \in V
      OBVIOUS
    <3> QED
      BY <3>1, <3>2 DEF marks
  <2> HIDE DEF V
  <2>3. /\ ctx.unit_name \in Seq(V) /\ ctx.prefix \in Seq(V) /\ ctx.instance \in Seq(V)
    BY <2>1, NameParts
  <2> HIDE DEF ctx, C
  <2>4. \A spec \in DOMAIN resolvers_(ctx) : resolvers_(ctx)[spec] \in Seq(V)
    BY <2>2, <2>3, ResolversText
  <2>5. ASSUME NEW c \in C
        PROVE  Expansion(c, ctx) \in Seq(C)
    <3>1. CASE c \in DOMAIN resolvers_(ctx)
      <4> DEFINE e == resolvers_(ctx)[c]
      <4>1. e \in Seq(V)
        BY <2>4, <3>1
      <4> HIDE DEF e
      <4>2. e \in Seq(C)
        BY <4>1, <1>1
      <4> QED
        BY <4>2, <3>1 DEF Expansion, e
    <3>2. CASE c \notin DOMAIN resolvers_(ctx)
      BY <3>2, <1>1 DEF Expansion
    <3> QED
      BY <3>1, <3>2
  <2> QED
    BY <2>5 DEF Expands
<1>3. cmd \in Seq(C)
  <2>1. cmd \in Seq(CharsOf(cmd))
    BY DEF IsText
  <2> HIDE DEF C
  <2> QED
    BY <2>1, <1>1
<1> HIDE DEF C, V
<1>4. \A k \in 1..Len(cmd) : cmd[k] = "%" => k < Len(cmd) /\ PlainNext(cmd[k + 1], ctx)
  <2>1. \A k \in 1..Len(cmd) : cmd[k] = "%" =>
          /\ k < Len(cmd) /\ cmd[k + 1] \notin {"%", Blank} \cup Quotes
          /\ cmd[k + 1] \in DOMAIN resolvers_(ctx) =>
               /\ resolvers_(ctx)[cmd[k + 1]] # <<>>
               /\ CharsOf(resolvers_(ctx)[cmd[k + 1]]) \cap ({Blank, "%"} \cup Quotes) = {}
    BY DEF PlainSpecifiers
  <2>2. {"%", Blank} \cup Quotes = {"%"} \cup Special /\ {Blank, "%"} \cup Quotes = {"%"} \cup Special
    BY DEF Special
  <2> HIDE DEF ctx
  <2> QED
    BY <2>1, <2>2 DEF PlainNext
<1> HIDE DEF ctx
<1>5. d \in Seq(C) /\ \A k \in 1..Len(d) : d[k] = "%" => k < Len(d) /\ PlainNext(d[k + 1], ctx)
  <2>1. CASE cmd # <<>> /\ cmd[1] = "-"
    <3>1. d = Tail(cmd)
      BY <2>1 DEF WithoutDash
    <3>2. /\ d \in Seq(C) /\ Len(cmd) \in Nat /\ Len(d) = Len(cmd) - 1 /\ Len(d) \in Nat
          /\ \A k \in 1..Len(d) : d[k] = cmd[k + 1]
      BY <3>1, <2>1, <1>3
    <3> HIDE DEF d
    <3>3. ASSUME NEW k \in 1..Len(d), d[k] = "%"
          PROVE  k < Len(d) /\ PlainNext(d[k + 1], ctx)
      <4>1. k + 1 \in 1..Len(cmd) /\ cmd[k + 1] = "%"
        BY <3>2, <3>3
      <4>2. k + 1 < Len(cmd) /\ PlainNext(cmd[(k + 1) + 1], ctx)
        BY <4>1, <1>4
      <4>3. k < Len(d) /\ d[k + 1] = cmd[(k + 1) + 1]
        BY <4>2, <3>2
      <4> QED
        BY <4>2, <4>3
    <3> QED
      BY <3>2, <3>3
  <2>2. CASE ~(cmd # <<>> /\ cmd[1] = "-")
    BY <2>2, <1>3, <1>4 DEF WithoutDash
  <2> QED
    BY <2>1, <2>2
<1> HIDE DEF d
<1>6. /\ words \in Seq(Seq(C)) /\ Len(args) = Len(words)
      /\ \A k \in 1..Len(words) : args[k] = resolve(words[k], ctx) /\ resolve(args[k], ctx) = args[k]
  BY <1>1, <1>2, <1>5, WordsResolved
<1> HIDE DEF words, args
<1>7. ASSUME NEW k \in 1..Len(words)
      PROVE  (IF k = 1 THEN args[1] ELSE resolve(args[k], ctx)) = Substituted(words[k], ctx)
  <2>1. words[k] \in Seq(C)
    BY <1>6
  <2>2. resolve(words[k], ctx) = Substituted(words[k], ctx)
    BY <2>1, <1>1, <1>2, ResolveByPosition
  <2>3. args[k] = Substituted(words[k], ctx) /\ resolve(args[k], ctx) = args[k]
    BY <2>2, <1>6
  <2> QED
    BY <2>3
<1>8. ServiceArgv(cmd, ctx) =
        [k \in 1..Len(args) |-> IF k = 1 THEN args[1] ELSE resolve(args[k], ctx)]
  BY DEF ServiceArgv, args, d
<1>9. ServiceArgv(cmd, ctx) = [k \in 1..Len(words) |-> Substituted(words[k], ctx)]
  BY <1>6, <1>7, <1>8
<1> QED
  BY <1>9 DEF ctx, words, d

\* A service gets the words of its command, each with its specifiers replaced
\* once: for every command and every unit name, as long as no specifier
\* stands for nothing, for a blank, a quote or a '%'.
THEOREM ArgumentsRead == ServiceSpec => []ArgumentsAsWritten
<1>1. FileInv => ArgumentsAsWritten
  <2> DEFINE ctx == SpecifierContext(unit.name)
             words == split_exec(WithoutDash(unit.exec_start))
  <2> SUFFICES ASSUME FileInv, Running, svc # None, PlainSpecifiers(unit.exec_start, ctx)
               PROVE  argv = [k \in 1..Len(words) |-> Substituted(words[k], ctx)]
    BY DEF ArgumentsAsWritten
  <2>1. PICK file \in AllFiles :
          /\ unit = UnitFileOf(file)
          /\ argv = ServiceArgv(file.exec_start, SpecifierContext(file.name))
    BY DEF FileInv, Running
  <2>2. /\ {"name", "exec_start", "environment"} \subseteq DOMAIN file
        /\ IsText(file.name) /\ IsText(file.exec_start)
    BY FileAssumption DEF AllFiles
  <2>3. unit.name = file.name /\ unit.exec_start = file.exec_start
    BY <2>1, <2>2 DEF UnitFileOf
  <2>4. ServiceArgv(file.exec_start, ctx) = [k \in 1..Len(words) |-> Substituted(words[k], ctx)]
    BY <2>2, <2>3, ServiceArguments
  <2> QED
    BY <2>1, <2>3, <2>4
<1> QED
  BY <1>1, FileInvariant, PTL
===============================================================================
