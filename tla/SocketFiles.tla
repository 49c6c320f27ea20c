------------------------------ MODULE SocketFiles ------------------------------
(***************************************************************************)
(* What socket units leave in the file system: parse_socket_unit with      *)
(* expand_specifiers, bind_socket_unit with create_and_bind and the        *)
(* functions it calls, and close_all_sockets.                              *)
(*                                                                         *)
(* Names and addresses are sequences of characters (see CommandLine).  A   *)
(* socket unit is a record of its name, Service= and the addresses of each *)
(* Listen directive.  Options of the sockets are left out.                 *)
(***************************************************************************)
EXTENDS Integers, Sequences, FiniteSets, CommandLine

CONSTANTS
  Present,      \* addresses at which some file exists from the start
  SunPath       \* how much of a path sun_path has room for: 107 bytes

VARIABLES
  nodes,        \* [addresses -> what is there: "file", "socket" or "fifo"]
  pending,      \* the entries to be bound, in order: records of type, address
  bound,        \* the entries that have a descriptor
  lost,         \* types of entries for which shutdown removed another's file
  leftover      \* where nodes were made that no entry has the name of: it failed
                \* after that, or its path was cut

sockfiles == <<nodes, pending, bound, lost, leftover>>

-------------------------------------------------------------------------------
(* Parsing                                                                 *)

ListenTypes ==
  << "Stream", "Datagram", "SequentialPacket", "FIFO", "Special", "Netlink",
     "MessageQueue" >>

\* sock.listen: type by type, and in the order of the file within each type,
\* with specifiers expanded.
listen(sock) ==
  LET ctx == SpecifierContext(sock.name)
      add_listen(lt) ==
        [k \in 1..Len(sock[lt]) |-> [type |-> lt, address |-> resolve(sock[lt][k], ctx)]]
  IN FlattenSeq([k \in 1..Len(ListenTypes) |-> add_listen(ListenTypes[k])])

-------------------------------------------------------------------------------
(* Binding                                                                 *)

\* A unit whose name is a bare template is passed over.
is_bare_template(name) ==
  SelectInSeq(name, LAMBDA c : c = "@") # 0 /\ SpecifierContext(name).instance = <<>>

\* all_units: the socket units, in the order of the hash map.
SocketsInit(all_units) ==
  /\ nodes = [a \in Present |-> "file"]
  /\ pending = FoldLeft(LAMBDA entries, u : entries \o listen(u), <<>>,
                        SelectSeq(all_units, LAMBDA u : ~is_bare_template(u.name)))
  /\ bound = {} /\ lost = {} /\ leftover = {}

Entry     == Head(pending)
NextEntry == pending' = Tail(pending)

\* An address with an unknown specifier is not bound.
Bindable == pending # <<>> /\ "%" \notin ToSet(Entry.address)

SkipEntry ==
  /\ pending # <<>> /\ ~Bindable
  /\ NextEntry
  /\ UNCHANGED <<nodes, bound, lost, leftover>>

\* bind_unix with a path and create_fifo make a node; bind_inet, bind_unix
\* with '@', bind_netlink, open_special and open_mqueue do not.
IsPath(a) == a # <<>> /\ a[1] = "/"
MakesNode ==
  \/ Entry.type = "FIFO"
  \/ Entry.type \in {"Stream", "Datagram", "SequentialPacket"} /\ IsPath(Entry.address)
Kind == IF Entry.type = "FIFO" THEN "fifo" ELSE "socket"

\* bind takes as much of a path as sun_path holds; unlink, chmod and mkfifo
\* take all of it.
Cut(a) == IF Len(a) > SunPath THEN SubSeq(a, 1, SunPath) ELSE a
Node   == IF Entry.type = "FIFO" THEN Entry.address ELSE Cut(Entry.address)

\* What was at the address is unlinked.
Cleared  == [a \in DOMAIN nodes \ {Entry.address} |-> nodes[a]]
WithNode == [a \in DOMAIN Cleared \cup {Node} |-> IF a = Node THEN Kind ELSE Cleared[a]]

\* A special file must exist, and a node must not once the address is cleared.
Openable ==
  /\ Bindable /\ Entry.address # <<>>
  /\ Entry.type = "Special" => Entry.address \in DOMAIN nodes
  /\ MakesNode => Node \notin DOMAIN Cleared

\* An entry gets its descriptor.
BindEntry ==
  /\ Openable
  /\ nodes' = IF MakesNode THEN WithNode ELSE nodes
  /\ leftover' = leftover \cup (IF MakesNode THEN {Node} \ {Entry.address} ELSE {})
  /\ bound' = bound \cup {Entry}
  /\ NextEntry
  /\ UNCHANGED lost

\* It does not: socket, open, unlink with bind or mkfifo fail, or only bind or
\* mkfifo, and what was at the address has been unlinked for nothing.
BindFails ==
  /\ Bindable
  /\ \/ UNCHANGED nodes
     \/ MakesNode /\ nodes' = Cleared
  /\ NextEntry
  /\ UNCHANGED <<bound, lost, leftover>>

\* The node has been created when listen, or the open of a fifo, fails; a
\* datagram socket does not listen.
BindFailsLate ==
  /\ Openable /\ MakesNode /\ Entry.type # "Datagram"
  /\ nodes' = WithNode
  /\ leftover' = leftover \cup {Node}
  /\ NextEntry
  /\ UNCHANGED <<bound, lost>>

-------------------------------------------------------------------------------
(* close_all_sockets                                                       *)

\* The addresses of open entries that are unlinked.
\* (mutant: those of sockets only)
UnlinkedSocketsOnly ==
  { a \in { e.address : e \in bound } :
      IsPath(a) /\ a \in DOMAIN nodes /\ nodes[a] = "socket" }
Unlinked == { a \in { e.address : e \in bound } : IsPath(a) }

\* Closing reads nothing that unlinking changes, so the loop is one step.
close_all_sockets ==
  /\ nodes' = [a \in DOMAIN nodes \ Unlinked |-> nodes[a]]
  /\ lost' = { e.type : e \in { e \in bound : /\ e.address \in Unlinked \cap DOMAIN nodes
                                            /\ nodes[e.address] = "file" } }
  /\ bound' = {}
  /\ UNCHANGED <<pending, leftover>>
===============================================================================
