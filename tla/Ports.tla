--------------------------------- MODULE Ports ---------------------------------
(***************************************************************************)
(* The virtual ports of a port domain: virt/ports.cpp and                  *)
(* port_virtualizer.h.  The programs of a domain bind to ports of their    *)
(* own numbering, which the host maps to whatever port is free: several    *)
(* simulated servers can run side by side.  The host is external; it may   *)
(* hand out a port again once it is closed.                                *)
(***************************************************************************)
EXTENDS Integers, FiniteSets

CONSTANTS Sockets, Ports, DomainOf   \* the domain of each socket's process

VARIABLES pv, sk

vars == <<pv, sk>>

Domains == {DomainOf[s] : s \in Sockets}
None == -1
Any == 0
Fresh == [st |-> "open", virt |-> None, real |-> None, asks |-> None]

Init ==
  /\ pv = [d \in Domains |-> [realToVirt |-> [r \in Ports |-> None], virtToReal |-> [v \in Ports |-> None],
                              lock |-> None]]
  /\ sk = [s |-> [s \in Sockets |-> Fresh], seen |-> {}]

-----------------------------------------------------------------------------
Bound(s) == sk.s[s].st = "bound"
Taken == {sk.s[s].real : s \in {x \in Sockets : Bound(x)}}
Domain(s) == pv[DomainOf[s]]
LookupReal(d, v) == pv[d].virtToReal[v]
LookupVirt(d, r) == pv[d].realToVirt[r]

RegisterBind(d, v, r) == [pv[d] EXCEPT !.realToVirt[r] = v, !.virtToReal[v] = r]

(* PatchBind() before the call: the lock stays taken until the call is     *)
(* over; the program's port becomes its translation, or any.  First a      *)
(* fault: the lock is not kept.                                            *)
UnlockedAny(d) == TRUE
Unlocked(d) == pv[d].lock = None
PreBind(s, v) ==
  /\ sk.s[s].st = "open" /\ Unlocked(DomainOf[s])
  /\ pv' = [pv EXCEPT ![DomainOf[s]].lock = s]
  /\ LET r == LookupReal(DomainOf[s], v)
     IN sk' = [sk EXCEPT !.s[s] = [@ EXCEPT !.st = "bind", !.virt = v, !.asks = IF r = None THEN Any ELSE r]]

(* The host's bind(), and the patch after it: a failure registers nothing. *)
PostBind(s) ==
  LET d == DomainOf[s]
      asks == sk.s[s].asks
      free == IF asks = Any THEN Ports \ Taken ELSE {asks} \ Taken
  IN /\ sk.s[s].st = "bind"
     /\ \/ /\ free = {}
           /\ pv' = [pv EXCEPT ![d].lock = None]
           /\ sk' = [sk EXCEPT !.s[s] = Fresh]
        \/ \E r \in free :
             /\ pv' = [pv EXCEPT ![d] = [RegisterBind(d, sk.s[s].virt, r) EXCEPT !.lock = None]]
             /\ sk' = [sk EXCEPT !.s[s] = [@ EXCEPT !.st = "bound", !.real = r, !.asks = None]]

(* A program that asks for any port gets the host's: nothing is patched.   *)
BindAny(s) ==
  /\ sk.s[s].st = "open"
  /\ \E r \in Ports \ Taken : sk' = [sk EXCEPT !.s[s] = [Fresh EXCEPT !.st = "bound", !.virt = Any, !.real = r]]
  /\ UNCHANGED pv

Close(s) ==
  /\ Bound(s)
  /\ sk' = [sk EXCEPT !.s[s] = Fresh]
  /\ UNCHANGED pv

(* getsockname() tells the program its own number, where there is one.     *)
(* What does not name the right socket is kept in seen.  First a fault.    *)
NameReal(s) == sk.s[s].real
NameOf(s) == LET v == LookupVirt(DomainOf[s], sk.s[s].real) IN IF v = None THEN sk.s[s].real ELSE v
PatchGetsockname(s) ==
  /\ Bound(s) /\ Unlocked(DomainOf[s])
  /\ sk' = [sk EXCEPT !.seen = IF sk.s[s].virt \notin {Any, NameOf(s)} THEN @ \cup {"name"} ELSE @]
  /\ UNCHANGED pv

(* connect() goes to the translation, or to the port as it is.             *)
Target(d, v) == LET r == LookupReal(d, v) IN IF r = None THEN v ELSE r
PatchConnect(d, v) ==
  /\ Unlocked(d)
  /\ \E s \in Sockets : Bound(s) /\ DomainOf[s] = d /\ sk.s[s].virt = v
  /\ sk' = [sk EXCEPT !.seen = IF \E s \in Sockets : Bound(s) /\ DomainOf[s] = d /\ sk.s[s].virt = v
                                                     /\ sk.s[s].real = Target(d, v) THEN @ ELSE @ \cup {"connect"}]
  /\ UNCHANGED pv

Next ==
  \/ \E s \in Sockets : \E v \in Ports : PreBind(s, v)
  \/ \E s \in Sockets : PostBind(s) \/ BindAny(s) \/ Close(s) \/ PatchGetsockname(s)
  \/ \E d \in Domains, v \in Ports : PatchConnect(d, v)

Spec == Init /\ [][Next]_vars

-----------------------------------------------------------------------------
(* A port is bound once in a domain, as on a host of its own.              *)
OnePerPort ==
  \A s, t \in Sockets :
    s # t /\ Bound(s) /\ Bound(t) /\ DomainOf[s] = DomainOf[t] => sk.s[s].virt # sk.s[t].virt \/ sk.s[s].virt = Any

(* What is bound keeps its name and is found under it, whatever was bound  *)
(* and closed before.                                                      *)
NamesRight == sk.seen = {}

PortsExact == OnePerPort /\ NamesRight

================================================================================
