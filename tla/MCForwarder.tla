--------------------------- MODULE MCForwarder ----------------------------
(* Two clients reusing one QID, two questions, interfaces e1 (servers a1, *)
(* a2) and e2 (server b1) as parse_args builds them; the QID space shrunk *)
(* to two values.                                                          *)
EXTENDS Forwarder, Args

CONSTANTS c1, c2, q1, q2, lh, e1, e2, a1, a2, b1

\* an option of the command line on a host with interfaces e1 and e2
Opt(o, arg, inf) ==
    [opt |-> o, arg |-> arg, given |-> arg # None, inf |-> inf,
     ok |-> o \notin {"s", "D", "H"} \/ validate_interface(<<e1, e2>>, inf) = 0]

\* dnrd -s b1:e2 -s a1:e1 -s a2:e1
MCArgs == <<Opt("s", b1, e2), Opt("s", a1, e1), Opt("s", a2, e1)>>

MCClients == {c1, c2}
MCQuestions == {q1, q2}
MCIfaceOrder == <<e1, e2>>
MCServers == {a1, a2, b1}
MCRing == (e1 :> <<a1, a2>>) @@ (e2 :> <<b1>>)
MCSpHosts == {<<q2, e2>>}
MCDefIfaces == {e1}
\* every node has an address of its own, routed through its interface
MCAddr == [s \in MCServers |-> s]
MCRoute == [a \in MCServers |-> IF a \in {a1, a2} THEN e1 ELSE e2]
\* b1 is a1's upstream configured again under e2 (-s a1ip:e1 -s a1ip:e2),
\* and the route to that address leaves through e1
MCAddrShared == [MCAddr EXCEPT ![b1] = a1]
MCRouteShared == [a \in {a1, a2} |-> e1]

\* the run's command line: MCArgs, the filters when the run has them, and
\* the run's -M, -t and -r
MCCommandLine ==
    MCArgs \o (IF SpHosts = {} THEN <<>> ELSE <<Opt("D", e1, e1), Opt("H", q2, e2)>>)
           \o <<Opt("M", MaxSockets, None), Opt("t", ForwardTimeout, None),
                Opt("r", RetryInterval, None)>>

\* the topology, filters and settings of every run are what parse_args
\* builds from its command line (checked by TLC before the run starts)
ASSUME LET p == parse_args(MCCommandLine)
       IN  /\ p.order = IfaceOrder /\ p.ring = Ring
           /\ p.def = DefIfaces /\ p.sp = SpHosts
           /\ p.max_sockets = <<MaxSockets>>
           /\ p.forward_timeout = <<ForwardTimeout>>
           /\ p.reactivate_interval = <<RetryInterval>> /\ p.exit = NoExit

\* no model name is a proper prefix of another
MCQueryPrefix(n, h) == n = h
\* q1 is a proper prefix of q2, as "mail" is of "mail.example.org"
MCQueryPrefixShort(n, h) == n = h \/ (n = q1 /\ h = q2)
=============================================================================
