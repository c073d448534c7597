------------------------------ MODULE Topology ------------------------------
(***************************************************************************)
(* Upstream topology of dnrd (infnode.c): every interface owns a circular  *)
(* list of servers behind a sentinel head and a pointer to its "current"   *)
(* server.  A server is active when its `inactive' stamp is 0.             *)
(*                                                                         *)
(* The operators below are the value-level translation of next_active and *)
(* deactivate_current; the Forwarder module applies them inside its        *)
(* handlers.  The small state machine at the end exercises them on their  *)
(* own: a failed send deactivates the current server, a reply from a      *)
(* server reactivates it (reply_recv).                                     *)
(***************************************************************************)
EXTENDS Naturals, Sequences

CONSTANTS
    Ifaces,     \* interfaces given with -s ip:iface
    Servers,    \* server nodes; the same IP on two interfaces is two nodes
    Ring,       \* Ring[i]: servers of i in the order add_srv appended them
    None        \* the NULL server pointer

ASSUME /\ \A i \in Ifaces : Ring[i] \in Seq(Servers) /\ Len(Ring[i]) > 0
       /\ \A i, j \in Ifaces : \A a \in 1..Len(Ring[i]), b \in 1..Len(Ring[j]) :
              Ring[i][a] = Ring[j][b] => i = j /\ a = b
       /\ None \notin Servers

IsActive(inact, s) == inact[s] = 0

(***************************************************************************)
(* next_active: position 0 is the sentinel head (srvlist), positions      *)
(* 1..n the servers.  The walk starts after `current' (or after the head  *)
(* when current is NULL) and stops at the first active node or back at    *)
(* the start.  The head is treated as inactive: the code never selects it *)
(* as a server (see README, hazard on alloc_srvnode).                      *)
(***************************************************************************)
RECURSIVE WalkFrom(_, _, _, _)
WalkFrom(i, inact, start, p) ==
    IF p = start \/ (p # 0 /\ IsActive(inact, Ring[i][p]))
    THEN p
    ELSE WalkFrom(i, inact, start, (p + 1) % (Len(Ring[i]) + 1))

PosOf(i, s) == CHOOSE p \in 1..Len(Ring[i]) : Ring[i][p] = s

\* mutant: the walk always starts after the list head
next_active_from_head(i, cur, inact) ==
    LET p == WalkFrom(i, inact, 0, 1)
    IN  IF p = 0 \/ ~IsActive(inact, Ring[i][p]) THEN None ELSE Ring[i][p]

next_active(i, cur, inact) ==
    LET start == IF cur[i] # None THEN PosOf(i, cur[i]) ELSE 0
        p     == WalkFrom(i, inact, start, (start + 1) % (Len(Ring[i]) + 1))
    IN  IF p = 0 \/ ~IsActive(inact, Ring[i][p]) THEN None ELSE Ring[i][p]

(***************************************************************************)
(* deactivate_current: stamp the current server inactive (stamp 1 = "just *)
(* now"), then set_current(i, next_active(i)).                             *)
(***************************************************************************)
\* mutant: the next server is chosen before current is stamped inactive
deactivate_current_stale(i, cur, inact) ==
    LET inact2 == IF cur[i] # None THEN [inact EXCEPT ![cur[i]] = 1] ELSE inact
    IN  [cur |-> [cur EXCEPT ![i] = next_active(i, cur, inact)], inact |-> inact2]

deactivate_current(i, cur, inact) ==
    LET inact2 == IF cur[i] # None THEN [inact EXCEPT ![cur[i]] = 1] ELSE inact
    IN  [cur |-> [cur EXCEPT ![i] = next_active(i, cur, inact2)], inact |-> inact2]

(***************************************************************************)
(* Reference for next_active: the active server at the smallest positive *)
(* ring distance after the start, the start itself counting as distance n.*)
(***************************************************************************)
RefNextActive(i, cur, inact) ==
    LET n     == Len(Ring[i])
        start == IF cur[i] # None THEN PosOf(i, cur[i]) ELSE n
        Dist(p) == IF p = start THEN n ELSE (p - start + n) % n
        Cands == {p \in 1..n : IsActive(inact, Ring[i][p])}
    IN  IF Cands = {} THEN None
        ELSE Ring[i][CHOOSE p \in Cands : \A q \in Cands : Dist(p) =< Dist(q)]

-----------------------------------------------------------------------------
(* The topology on its own.                                                *)
VARIABLES current, inactive
tvars == <<current, inactive>>

\* the servers of interface i's ring, as retry_srvlist walks them
ServersOf(i) == {Ring[i][p] : p \in 1..Len(Ring[i])}

\* startup: every server active, current the first server of the ring
\* (the code that sets it first is not in this tree)
TopoInit ==
    /\ current = [i \in Ifaces |-> Ring[i][1]]
    /\ inactive = [s \in Servers |-> 0]

\* send2current: sendto to the current server failed, retry is enabled
SendFails(i) ==
    /\ current[i] # None
    /\ LET r == deactivate_current(i, current, inactive)
       IN  /\ current' = r.cur
           /\ inactive' = r.inact

\* reply_recv: a datagram from s was received, s is reactivated
ReplyFrom(s) ==
    /\ inactive' = [inactive EXCEPT ![s] = 0]
    /\ UNCHANGED current

TopoNext ==
    \/ \E i \in Ifaces : SendFails(i)
    \/ \E s \in Servers : ReplyFrom(s)

TopoSpec == TopoInit /\ [][TopoNext]_tvars

(***************************************************************************)
(* next_active agrees with its reference in every reachable topology and  *)
(* for every interface, whatever servers are down (infnode.c next_active).*)
(***************************************************************************)
NextActiveCorrect ==
    \A i \in Ifaces :
        next_active(i, current, inactive) = RefNextActive(i, current, inactive)

(***************************************************************************)
(* The current pointer of an interface never designates a deactivated     *)
(* server: send2current may rely on sending to current only when it is    *)
(* live (deactivate_current / next_active).                               *)
(***************************************************************************)
CurrentIsActive ==
    \A i \in Ifaces : current[i] # None => IsActive(inactive, current[i])
=============================================================================
