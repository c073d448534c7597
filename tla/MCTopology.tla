---------------------------- MODULE MCTopology ----------------------------
(* Three interfaces with rings of 3, 2 and 1 servers, built by parse_args  *)
(* from a command line of -s options.                                      *)
EXTENDS Topology, Args, SortInterfaces

CONSTANTS e0, e1, e2, ex, a1, a2, a3, b1, b2, c1, h1

\* the interfaces SIOCGIFCONF lists on the host (ex is not among them)
MCIfconf == <<e0, e1, e2>>

\* an option of the command line on a host whose SIOCGIFCONF list is ifc:
\* the interface of -s, -D and -H must pass validate_interface
OptOn(ifc, o, arg, inf) ==
    [opt |-> o, arg |-> arg, given |-> arg # None, inf |-> inf,
     ok |-> o \notin {"s", "D", "H"} \/ validate_interface(ifc, inf) = 0]

Opt(o, arg, inf) == OptOn(MCIfconf, o, arg, inf)

\* dnrd -s a1:e0 -s b1:e1 -s a2:e0 -s c1:e2 -s b2:e1 -s a3:e0
MCArgs == <<Opt("s", a1, e0), Opt("s", b1, e1), Opt("s", a2, e0),
            Opt("s", c1, e2), Opt("s", b2, e1), Opt("s", a3, e0)>>

MCIfaces == {e0, e1, e2}
MCServers == {a1, a2, a3, b1, b2, c1}
MCRing == (e0 :> <<a1, a2, a3>>) @@ (e1 :> <<b1, b2>>) @@ (e2 :> <<c1>>)

\* the rings above are what parse_args builds from MCArgs
ASSUME parse_args(MCArgs).ring = MCRing

\* the options command lines of the reference check are drawn from
MCOptions == {Opt("s", s, i) : s \in {a1, b1}, i \in {e0, e1}}
             \cup {Opt("D", i, i) : i \in {e0, e1}}
             \cup {Opt("H", h1, i) : i \in {e0, e1}}
             \cup {Opt("s", a1, ex), Opt("H", h1, ex), OptOn(<<>>, "D", e0, e0)}
             \cup {Opt("M", k, None) : k \in {0, 2}}
             \cup {Opt(o, 1, None) : o \in {"t", "x", "S"}}
             \cup {Opt(o, None, None) : o \in {"h", "v", "operand"}}
             \cup {Opt("v", h1, None), [Opt("a", h1, None) EXCEPT !.ok = FALSE]}

(***************************************************************************)
(* parse_args agrees with its reference on every command line of up to    *)
(* three options: interfaces in LIFO order of first mention, servers      *)
(* appended, -D, -H and -x collected, the last -M or -t kept, nothing     *)
(* parsed after an option that exits (-s, -D or -H naming an interface   *)
(* the host does not list, or any of them when the list is unreadable, a  *)
(* bad -a, -h, -v with its argument, -S, which short_options lacks, or a *)
(* last -v without one), and an operand anywhere failing the line.        *)
(* TLC checks this before it explores any state of the topology run.      *)
(***************************************************************************)
ASSUME ParsedAsReference(MCOptions, 3)

\* validate_interface rejects a name the host does not list, and every
\* name when the list could not be read: such a -s exits with status 1
ASSUME /\ parse_args(<<Opt("s", a1, ex)>>).exit = <<1>>
       /\ parse_args(<<OptOn(<<>>, "s", a1, e0)>>).exit = <<1>>
       /\ parse_args(MCArgs).exit = NoExit

\* short_options has "v:": a bare -v at the end is a missing argument
\* (getopt returns '?', exit -1), -v with its word prints the version
ASSUME /\ parse_args(<<Opt("v", None, None)>>).exit = <<-1>>
       /\ parse_args(<<Opt("v", h1, None)>>).exit = <<0>>

\* main's table of sort_interfaces.cpp, e0 standing for eth2, e1 for eth2:1
\* and rows 1..3 for 1.1.1.1, 2.2.2.2 and 3.3.3.3
MCGroup ==
    [r \in 1..NIP |-> [c \in 1..NIF |->
       CASE r \in {1, 2} /\ c = 1 -> <<r, e0>>
         [] r \in {1, 2} /\ c = 2 -> <<r, e1>>
         [] r = 3 /\ c = 1       -> <<r, e0>>
         [] OTHER               -> <<>>]]

(***************************************************************************)
(* sort_interfaces.cpp prints its table as 1.1.1.1:eth2, 2.2.2.2:eth2:1,  *)
(* 1.1.1.1:eth2:1, 2.2.2.2:eth2, 3.3.3.3:eth2, in three passes, and it    *)
(* arranges round-robin every table of three IPs with up to two of three  *)
(* interfaces each, and of five IPs with one of two interfaces each.      *)
(***************************************************************************)
ASSUME /\ sort_interfaces(MCGroup) =
            <<<<<<1, e0>>, <<2, e1>>>>, <<<<1, e1>>, <<2, e0>>>>, <<<<3, e0>>>>>>
       /\ ArrangedRoundRobin(3, 2, {e0, e1, e2})
       /\ ArrangedRoundRobin(NIP, 1, {e0, e1})
=============================================================================
