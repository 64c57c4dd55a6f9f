----------------------------- MODULE DeviceList -----------------------------
(***************************************************************************)
(* The list of devices of src/sys_dev_manage.c: system_dev_init makes a    *)
(* list of one dummy device, sys_dev_register and sys_dev_unregister       *)
(* change it under devmlock, which makes each of them one action here.     *)
(* Nothing in the repository calls the two yet: this is the interface as a *)
(* caller would find it.                                                   *)
(*                                                                         *)
(* sys_dev_init leaves the links of a device as they were (line 80 is      *)
(* commented out).  A caller may have initialised them with INIT_LIST_HEAD *)
(* or not; a device with wild links is written through when it is          *)
(* registered, and the program's behaviour is undefined from then on.      *)
(***************************************************************************)
CONSTANTS
  Devices,  \* devices a caller has
  First,    \* the dummy device, the head of the list
  Wild      \* a pointer that was never written

Cells == Devices \cup {First}

VARIABLES
  next, prev,   \* the fields of every sTdev_list
  registered,   \* devices registered with success and not unregistered
  fault         \* a wild pointer has been followed

vars == <<next, prev, registered, fault>>

\* system_dev_init; the callers' devices have not been initialised.
Init ==
  /\ next = [c \in Cells |-> IF c = First THEN First ELSE Wild]
  /\ prev = [c \in Cells |-> IF c = First THEN First ELSE Wild]
  /\ registered = {}
  /\ fault = FALSE

\* A caller that knows applies INIT_LIST_HEAD to a device it has not
\* registered.
InitLinks(d) ==
  /\ d \notin registered
  /\ next' = [next EXCEPT ![d] = d]
  /\ prev' = [prev EXCEPT ![d] = d]
  /\ UNCHANGED <<registered, fault>>

\* list_add(new, head): the stores of __list_add in their order.
ListAdd(new, head) ==
  LET after == next[head]
  IN  IF after = Wild
      THEN fault' = TRUE /\ UNCHANGED <<next, prev>>
      ELSE /\ prev' = [prev EXCEPT ![after] = new, ![new] = head]
           /\ next' = [next EXCEPT ![new] = after, ![head] = new]
           /\ UNCHANGED fault

\* sys_dev_register: the head of the list is given as the new entry, and the
\* device as the head.
Register(d) ==
  /\ d \notin registered
  /\ ListAdd(First, d)
  /\ registered' = IF fault' THEN registered ELSE registered \cup {d}

\* sys_dev_unregister returns success; its list_del is commented out.
Unregister(d) ==
  /\ d \in registered
  /\ registered' = registered \ {d}
  /\ UNCHANGED <<next, prev, fault>>

Next ==
  /\ ~fault
  /\ \E d \in Devices : InitLinks(d) \/ Register(d) \/ Unregister(d)

Spec == Init /\ [][Next]_vars

-----------------------------------------------------------------------------
(* Properties.                                                             *)

\* The devices that a walk from the head along next meets: they are in every
\* set that holds the head and, with an entry, the one after it.
Listed ==
  {d \in Devices :
     \A S \in SUBSET Cells :
       First \in S /\ (\A c \in S : next[c] \in Cells => next[c] \in S) => d \in S}

\* src/sys_dev_manage.c:21: "Register device into devices list".  A device that
\* was registered with success is in the list.
RegisteredAreListed == registered \subseteq Listed

=============================================================================
