-------------------------- MODULE MCSocketActivation --------------------------
(***************************************************************************)
(* Instances of SocketActivation: x has the sockets of two or three units, *)
(* y those of one.  FirstFd is 5: 0 to 2 are standard, 3 is the signalfd   *)
(* and 4 the epoll descriptor.                                             *)
(***************************************************************************)
EXTENDS SocketActivation

MCSocketUnit == {"x1.socket", "x2.socket", "y.socket"}
MCListen == [s \in MCSocketUnit |-> IF s = "x2.socket" THEN 3 ELSE 2]
MCAccept == [s \in MCSocketUnit |-> s = "x1.socket"]
MCPairs ==
  [s \in MCSocketUnit |-> IF s = "y.socket" THEN {"y.service"}
                          ELSE {"x.service"}]
===============================================================================
