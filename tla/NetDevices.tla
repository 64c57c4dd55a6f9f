----------------------------- MODULE NetDevices -----------------------------
(***************************************************************************)
(* The table of network interfaces: obtain_netdev_info (sys.c) fills it    *)
(* when the program starts, and event_ethernet_listening                   *)
(* (src/sys_net_event.c) looks for the one it listens on.                  *)
(*                                                                         *)
(* The table has MaxNum entries, and neither loop is bounded by it: the    *)
(* model's names and addresses go on past the end of the table, into what  *)
(* follows it in sys_server.                                               *)
(***************************************************************************)
EXTENDS Integers, Sequences, FiniteSets, Functions

CONSTANTS
  Interfaces,  \* names of interfaces, Lo and Eth among them
  Lo,          \* "lo"
  Eth,         \* ELEXSMRT_ETH_NAME, "eth0"
  Empty,       \* a name or an address that was not written
  BufNum,      \* how many interfaces the buffer for SIOCGIFCONF holds
  MaxNum       \* ELEXSMRT_NETCARD_MAXNUM

ASSUME NetAssumption ==
  /\ {Lo, Eth} \subseteq Interfaces
  /\ Lo # Eth
  /\ Empty \notin Interfaces
  /\ BufNum \in Nat
  /\ MaxNum \in 0..(BufNum + 1)

VARIABLES
  npc,        \* the next thing to do
  buf,        \* the interfaces that the kernel has reported
  up,         \* those that are up
  num,        \* interface_num
  idx,        \* the loop variable of either function
  names,      \* gCintername of each entry
  addresses,  \* gCipaddr, as the interface whose address it is
  listen      \* the listen of entry idx: a socket is "open", or -1

netVars == <<npc, buf, up, num, idx, names, addresses, listen>>

Slots == 0..BufNum

NetInit ==
  /\ npc = "conf"
  /\ buf = <<>>
  /\ up = {}
  /\ num = 0
  /\ idx = 0
  /\ names = [i \in Slots |-> Empty]
  /\ addresses = [i \in Slots |-> Empty]
  /\ listen = 0

-----------------------------------------------------------------------------
(* obtain_netdev_info                                                      *)

\* SIOCGIFCONF reports as many interfaces as there is room for.
GetConf ==
  /\ npc = "conf"
  /\ buf' \in UNION {Injection(1..n, Interfaces) : n \in 0..BufNum}
  /\ up' \in SUBSET Range(buf')
  /\ num' = Len(buf')
  /\ npc' = "card"
  /\ UNCHANGED <<idx, names, addresses, listen>>

\* The interface the loop looks at next.
Card == buf[num]

SkipLo ==
  /\ npc = "card" /\ num > 0
  /\ Card = Lo
  /\ num' = num - 1
  /\ UNCHANGED <<npc, buf, up, idx, names, addresses, listen>>

\* The name is written first.  The flags are asked for and not looked at; then
\* the other fields are asked for and written.
\* Mutant: idx is not incremented for an interface that is not up.
ObtainUp ==
  /\ npc = "card" /\ num > 0
  /\ Card # Lo
  /\ names' = [names EXCEPT ![idx] = Card]
  /\ addresses' = [addresses EXCEPT ![idx] = Card]
  /\ num' = num - 1
  /\ idx' = IF Card \in up THEN idx + 1 ELSE idx
  /\ UNCHANGED <<npc, buf, up, listen>>

Obtain ==
  /\ npc = "card" /\ num > 0
  /\ Card # Lo
  /\ names' = [names EXCEPT ![idx] = Card]
  /\ addresses' = [addresses EXCEPT ![idx] = Card]
  /\ num' = num - 1
  /\ idx' = idx + 1
  /\ UNCHANGED <<npc, buf, up, listen>>

\* One of the five ioctls for an interface fails, or SIOCGIFCONF or socket has
\* failed: obtain_netdev_info returns -1 and system_net_init exits.
ObtainFails ==
  /\ npc = "conf" \/ (npc = "card" /\ num > 0 /\ Card # Lo)
  /\ npc' = "exit"
  /\ IF npc = "conf" THEN UNCHANGED <<names, addresses>>
     ELSE /\ names' = [names EXCEPT ![idx] = Card]
          /\ addresses' \in {addresses, [addresses EXCEPT ![idx] = Card]}
  /\ UNCHANGED <<buf, up, num, idx, listen>>

Obtained ==
  /\ npc = "card" /\ num = 0
  /\ npc' = "table"
  /\ UNCHANGED <<buf, up, num, idx, names, addresses, listen>>

-----------------------------------------------------------------------------
(* event_ethernet_listening                                                *)

Search ==
  /\ npc = "table"
  /\ idx' = 0
  /\ npc' = "search"
  /\ UNCHANGED <<buf, up, num, names, addresses, listen>>

SearchNext ==
  /\ npc = "search" /\ idx < MaxNum
  /\ names[idx] # Eth
  /\ idx' = idx + 1
  /\ UNCHANGED <<npc, buf, up, num, names, addresses, listen>>

\* create_sock_listen: the socket listens at the address of the entry, or one
\* of socket, bind and listen fails and it is closed if it is there.
CreateListen ==
  /\ npc = "search"
  /\ idx = MaxNum \/ names[idx] = Eth
  /\ listen' \in {1, -1}
  /\ npc' = "listening"
  /\ UNCHANGED <<buf, up, num, idx, names, addresses>>

NetNext ==
  \/ GetConf \/ SkipLo \/ Obtain \/ ObtainFails \/ Obtained
  \/ Search \/ SearchNext \/ CreateListen

NetSpec == NetInit /\ [][NetNext]_netVars

-----------------------------------------------------------------------------
(* Properties.                                                             *)

\* The reports that are not of the loopback, and how many of them come after
\* one and so are in the table before it: the loop goes down.
Cards == {k \in DOMAIN buf : buf[k] # Lo}
Behind(k) == Cardinality({c \in Cards : c > k})

\* The table holds every interface but the loopback, the last one reported
\* first, and each address with its name.  It is overrun when there are more
\* than MaxNum of them and in no other case.  The server then listens on eth0
\* when eth0 is in the table, and else, without a word, on the entry that
\* would come after its end.
NetTableExact ==
  /\ npc = "table" =>
       /\ idx = Cardinality(Cards)
       /\ \A k \in Cards : names[Behind(k)] = buf[k]
       /\ \A i \in Slots : names[i] # Empty <=> \E k \in Cards : Behind(k) = i
       /\ (\E i \in Slots : i >= MaxNum /\ names[i] # Empty)
            <=> Cardinality(Cards) > MaxNum
  /\ npc \in {"table", "search", "listening"} => addresses = names
  /\ npc = "listening" =>
       IF \E k \in Cards : Behind(k) < MaxNum /\ buf[k] = Eth
       THEN names[idx] = Eth /\ addresses[idx] = Eth
       ELSE idx = MaxNum

\* sys.c:104: "ignore the interface that not up or not runing".
DownIgnored == \A i \in Slots : names[i] # Empty => names[i] \in up

=============================================================================
