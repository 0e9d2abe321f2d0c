----------------------------- MODULE ServerParent -----------------------------
(***************************************************************************)
(* The first process of the server (main of src/src/main_sec_server.c): it *)
(* accepts connections, gives each to a process of its own on the next     *)
(* cores of the mask, and ends when it is told to.  What such a process    *)
(* does is module ServerProcess.                                           *)
(***************************************************************************)
EXTENDS Integers, FiniteSets

CONSTANTS
  Options,     (* values of -n and how many cores -c names, 0 without -c    *)
  MaxClients   (* bound: connections accepted                               *)

ASSUME ParentAssumption == Options \subseteq [threads : Nat, cores : Nat]

VARIABLES
  options,     (* threads and cores                                         *)
  parent,      (* start, accept, fork, wait, exited or halted               *)
  clients,     (* clients_count                                             *)
  held,        (* clients whose socket the parent has open                  *)
  children,    (* numbers of the clients whose process runs                 *)
  served,      (* served[n]: the places in the mask of the cores of n       *)
  signals      (* times_counter of the parent                               *)

parentVars == <<options, parent, clients, held, children, served, signals>>

ParentInit ==
  /\ options \in Options /\ parent = "start"
  /\ clients = 0 /\ held = {} /\ children = {} /\ served = <<>> /\ signals = 0

(* The assertions on the options. *)
RefusedOptions(o) ==
  \/ o.threads # 1 /\ o.threads > o.cores
  \/ o.threads = 0 \/ o.cores % o.threads # 0

Listen ==
  /\ parent = "start"
  /\ parent' = IF RefusedOptions(options) THEN "halted" ELSE "accept"
  /\ UNCHANGED <<options, clients, held, children, served, signals>>

(* core_mask_ptr, for the threads of one process; without a mask there is none. *)
CoresOf(n) ==
  IF options.cores = 0 THEN {}
  ELSE LET first == (n * options.threads) % options.cores
       IN  first .. first + options.threads - 1

(* An error of accept is mmt_halt; otherwise the connection gets its number and
   its cores, whether a process can be made for it or not. *)
Accept ==
  /\ parent = "accept" /\ clients < MaxClients
  /\ \/ /\ parent' = "fork" /\ clients' = clients + 1
        /\ served' = [n \in 0 .. clients |-> IF n = clients THEN CoresOf(n) ELSE served[n]]
        /\ held' = held \cup {clients}
     \/ parent' = "halted" /\ UNCHANGED <<clients, served, held>>
  /\ UNCHANGED <<options, children, signals>>

(* fork, which may fail: the parent closes the connection in both cases. *)
Fork ==
  /\ parent = "fork" /\ parent' = "accept"
  /\ children' \in {children, children \cup {clients - 1}}
  /\ held' = held \ {clients - 1}
  /\ UNCHANGED <<options, clients, served, signals>>

(* A process ends with its connection, or by a signal. *)
ChildEnds(n) ==
  /\ n \in children /\ children' = children \ {n}
  /\ UNCHANGED <<options, parent, clients, held, served, signals>>

(* The handler, which a second signal makes exit at once. *)
ParentInterrupt ==
  /\ parent \in {"accept", "fork", "wait"}
  /\ signals' = signals + 1
  /\ parent' = IF signals = 0 THEN "wait" ELSE "exited"
  /\ UNCHANGED <<options, clients, held, children, served>>

(* Slip: as it is when SIGCHLD is not ignored, wait returns with the first. *)
Wait_First ==
  /\ parent = "wait" /\ parent' = "exited"
  /\ Cardinality(children) < clients
  /\ UNCHANGED <<options, clients, held, children, served, signals>>

(* wait: SIGCHLD is ignored, so it returns only when there is no child. *)
Wait ==
  /\ parent = "wait" /\ children = {} /\ parent' = "exited"
  /\ UNCHANGED <<options, clients, held, children, served, signals>>

ParentNext ==
  Listen \/ Accept \/ Fork \/ (\E n \in children : ChildEnds(n)) \/ ParentInterrupt \/ Wait

ParentSpec == ParentInit /\ [][ParentNext]_parentVars

-----------------------------------------------------------------------------
(* Processes get cores that the mask names, and as many clients in a row as the
   mask has room for share none, whichever forks failed between them. *)
CoresApart ==
  \A n \in children :
    /\ served[n] \subseteq 0 .. options.cores - 1
    /\ \A k \in children : n < k /\ (k - n) * options.threads < options.cores =>
                             served[n] \cap served[k] = {}

(* Told once to end, the server ends after all its processes ("parent waits for
   all children", main_sec_server.c:324). *)
ChildrenFirst == parent = "exited" /\ signals = 1 => children = {}

(* The server keeps the connection of nobody open while it waits for the next: a
   client sees its end when its process ends. *)
SocketsClosed == parent = "accept" => held = {}

(* The parent shares nothing with or between its clients that it should not, and
   leaves nothing of them behind: cores, processes and sockets. *)
ParentSound == CoresApart /\ ChildrenFirst /\ SocketsClosed
=============================================================================
