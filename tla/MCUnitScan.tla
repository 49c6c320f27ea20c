------------------------------ MODULE MCUnitScan ------------------------------
(***************************************************************************)
(* Instances of UnitScan: a template, an instance of it, and a name that   *)
(* is no unit, in any combination in two directories.                      *)
(***************************************************************************)
EXTENDS UnitScan

MCPaths == <<"/etc/systemd/system", "/usr/lib/systemd/system">>
MCNames == {"getty@.service", "getty@tty1.service", "alias"}
MCSupported == [n \in MCNames |-> n # "alias"]
===============================================================================
