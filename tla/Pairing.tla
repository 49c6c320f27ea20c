-------------------------------- MODULE Pairing --------------------------------
(***************************************************************************)
(* Which services a socket unit belongs to.  Names are sequences of        *)
(* characters (see CommandLine); sock is a record of the unit's name and   *)
(* its Service=.                                                           *)
(***************************************************************************)
EXTENDS CommandLine

Stem(name) ==
  LET dot == SelectLastInSeq(name, LAMBDA c : c = ".")
  IN IF dot = 0 THEN name ELSE SubSeq(name, 1, dot - 1)
ServiceOf(stem)  == stem \o <<".", "service">>
TemplateOf(stem) == stem \o <<"@", ".", "service">>
Override(sock)   == resolve(sock.service, SpecifierContext(sock.name))

\* The service that accept_ready runs for a connection; known are the units
\* that find_unit finds.
ResolvePair(sock, known) ==
  IF sock.service # <<>> THEN Override(sock)
  ELSE IF TemplateOf(Stem(sock.name)) \in known /\ ServiceOf(Stem(sock.name)) \notin known
       THEN TemplateOf(Stem(sock.name))
       ELSE ServiceOf(Stem(sock.name))

\* The services that inherit the sockets of a unit.
PairsWith(sock, svc) ==
  IF sock.service # <<>> THEN svc = Override(sock)
  ELSE svc \in {ServiceOf(Stem(sock.name)), TemplateOf(Stem(sock.name))}
================================================================================
