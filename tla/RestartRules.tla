----------------------------- MODULE RestartRules -----------------------------
(***************************************************************************)
(* The pure decisions of the restart logic: which exit statuses a Restart= *)
(* policy reacts to, and how long the supervisor waits before it starts    *)
(* the unit again.  Nothing here has state; Supervisor applies these rules *)
(* to the processes it reaps.                                              *)
(*                                                                         *)
(* An exit status is abstracted to the three classes should_restart can    *)
(* tell apart: exit code 0, an exit code above 0, death by a signal.       *)
(***************************************************************************)
EXTENDS Integers

CONSTANTS
  kBaseDelay,   \* TrackedProcess::kBaseDelay (100 ms in the code)
  kMaxDelay     \* TrackedProcess::kMaxDelay  (10 min in the code)

ASSUME DelayAssumption ==
  /\ kBaseDelay \in Nat \ {0}
  /\ kMaxDelay \in Nat
  /\ kBaseDelay <= kMaxDelay

ExitStatus == {"success", "failure", "signal"}

RestartPolicy == {"no", "on-success", "on-failure", "on-abnormal",
                  "on-watchdog", "on-abort", "always"}

\* A directive that names no known policy means RestartPolicy::No.
parse_restart_policy(directive) ==
  IF directive \in RestartPolicy THEN directive ELSE "no"

should_restart(policy, status) ==
  \/ policy = "always"
  \/ policy = "on-success" /\ status = "success"
  \/ policy = "on-failure" /\ status # "success"
  \/ policy = "on-abnormal" /\ status \in {"signal", "failure"}
  \/ policy = "on-abort" /\ status = "signal"

-------------------------------------------------------------------------------
Least(a, b) == IF a <= b THEN a ELSE b

\* 1 << exp for the exponents the code can form, 0 to kMaxExponent.
kMaxExponent == 13
PowerOfTwo ==
  << 1, 2, 4, 8, 16, 32, 64, 128, 256, 512, 1024, 2048, 4096, 8192 >>

\* The wait before the restart that follows restart_count earlier ones.
BackoffDelay(restart_count) ==
  Least(kBaseDelay * PowerOfTwo[Least(restart_count, kMaxExponent) + 1],
        kMaxDelay)
===============================================================================
