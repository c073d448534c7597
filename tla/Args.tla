-------------------------------- MODULE Args --------------------------------
(***************************************************************************)
(* parse_args (args.c): the getopt loop over the command line and the     *)
(* state it leaves for the forwarding engine.  -s ip:iface adds an        *)
(* upstream under an interface (and the interface itself the first time   *)
(* it is named), -D iface adds a default interface, -H host:iface pins a  *)
(* host to an interface, -M, -r and -t set max_sockets,                   *)
(* reactivate_interval and forward_timeout, -x adds an excluded source    *)
(* port; -h, -k and -v (which takes an argument, "v:") exit with status *)
(* 0; an option getopt does not know or whose argument is missing exits   *)
(* with -1, and so does a command line with an operand once every option  *)
(* has been processed.                                                     *)
(*                                                                         *)
(* A command line is a sequence of options [opt, arg, given, inf, ok]:   *)
(* opt is the letter typed (or "operand"); arg is the server node add_srv *)
(* creates (-s), the host name (-H) or the value atoi returns (-M, -r,    *)
(* -t, -x); given is FALSE when no word follows the option; inf is the    *)
(* interface; ok is FALSE when the option's own check                     *)
(* fails: no ":iface" part or an interface validate_interface rejects     *)
(* (-s, -D, -H: exit 1), an address inet_aton rejects (-a: exit -1).      *)
(* Every -s server is a valid address, so add_srv does not fail.          *)
(***************************************************************************)
EXTENDS Integers, Sequences, SequencesExt

\* a setting no option changed (it keeps its initialiser, not in this
\* tree); a set one is <<v>>
Unset == <<>>
\* parse_args has not called exit; exit(s) is <<s>>
NoExit == <<>>

\* the state parse_args leaves: inf_list in list order, each interface's
\* server list in list order, def_inf_list and sp_hosts as sets, the
\* exc_port list, the three numeric settings, and the exit status
ParseInit == [order |-> <<>>, ring |-> [x \in {} |-> <<>>],
              def |-> {}, sp |-> {}, exc |-> <<>>,
              max_sockets |-> Unset, reactivate_interval |-> Unset,
              forward_timeout |-> Unset, exit |-> NoExit]

\* the letters of short_options in a Linux build with the master file and
\* the pid file: "a:bc:d:D:hH:ik" "l" "B:m:" "M:r:R:s:t:" "u:" "v:x:"
OptString == {"a", "b", "c", "d", "D", "h", "H", "i", "k", "l", "B", "m",
              "M", "r", "R", "s", "t", "u", "v", "x"}

\* the letters short_options follows with ':', which take an argument
ArgOpts == {"a", "c", "d", "D", "H", "B", "m", "M", "r", "R", "s", "t", "u",
            "v", "x"}

\* what getopt returns for a typed option: "?" for a letter it does not
\* know, and for one whose argument is missing (given FALSE: the option
\* is the last word; short_options has no leading ':', so never ':')
Getopt(a) ==
    IF a.opt \in OptString /\ ~(a.opt \in ArgOpts /\ ~a.given)
    THEN a.opt ELSE "?"

(***************************************************************************)
(* validate_interface: ifc is the list of interfaces SIOCGIFCONF returns; *)
(* when socket() or an ioctl() fails the code only calls perror and goes  *)
(* on with an empty list.  0 when an entry's ifr_name agrees with the     *)
(* name in its first 8 bytes (names here fit in 8 bytes, so equality),    *)
(* -1 otherwise.  An option's `ok' for -s, -D and -H is this being 0.     *)
(***************************************************************************)
validate_interface(ifc, name) == IF Contains(ifc, name) THEN 0 ELSE -1

\* search_infnode: whether interface name is already in the list
search_infnode(order, name) == Contains(order, name)

\* add_interface: a new node, linked by ins_infnode right after the head,
\* so interfaces end up in LIFO order
add_interface(order, name) == <<name>> \o order

(***************************************************************************)
(* case 's': search_infnode, and add_interface when the interface is new; *)
(* then add_srv(last_srvnode(inf->srvlist)) appends the server.           *)
(***************************************************************************)
ParseServer(cfg, a) ==
    IF search_infnode(cfg.order, a.inf)
    THEN [cfg EXCEPT !.ring[a.inf] = Append(@, a.arg)]
    ELSE [cfg EXCEPT !.order = add_interface(@, a.inf),
                     !.ring  = (a.inf :> <<a.arg>>) @@ @]

\* one iteration of parse_args's getopt loop; options that set state no
\* module holds (-a with a good address, -b, -c, -d, -i, -l, -B, -m, -R,
\* -u) and operands, which getopt moves to the end, change nothing here
ParseArg(cfg, a) ==
    CASE cfg.exit # NoExit           -> cfg
      [] a.opt = "operand"           -> cfg
      [] Getopt(a) \in {"h", "v", "k"} -> [cfg EXCEPT !.exit = <<0>>]
      [] Getopt(a) = "?"             -> [cfg EXCEPT !.exit = <<-1>>]
      [] ~a.ok -> [cfg EXCEPT !.exit = <<IF a.opt = "a" THEN -1 ELSE 1>>]
      [] a.opt = "s" -> ParseServer(cfg, a)
      [] a.opt = "D" -> [cfg EXCEPT !.def = @ \cup {a.inf}]
      [] a.opt = "H" -> [cfg EXCEPT !.sp = @ \cup {<<a.arg, a.inf>>}]
      [] a.opt = "M" -> [cfg EXCEPT !.max_sockets = <<a.arg>>]
      [] a.opt = "r" -> [cfg EXCEPT !.reactivate_interval = <<a.arg>>]
      [] a.opt = "t" -> [cfg EXCEPT !.forward_timeout = <<a.arg>>]
      [] a.opt = "x" -> [cfg EXCEPT !.exc = Append(@, a.arg)]
      [] OTHER       -> cfg

\* the loop, then exit(-1) when getopt stopped before the last argument
parse_args(args) ==
    LET cfg == FoldLeft(ParseArg, ParseInit, args)
    IN  IF cfg.exit = NoExit /\ \E k \in 1..Len(args) : args[k].opt = "operand"
        THEN [cfg EXCEPT !.exit = <<-1>>]
        ELSE cfg

(***************************************************************************)
(* Reference: the options before the first that exits count; interfaces  *)
(* are listed latest-first-named first, each with its servers in         *)
(* command-line order; the last -M, -r or -t wins and -x ports are kept   *)
(* in order; the status is the stopping option's, or -1 for an operand.   *)
(***************************************************************************)
RefParse(args) ==
    LET stops(a) == a.opt # "operand" /\
                    (Getopt(a) \in {"h", "v", "k", "?"} \/ ~a.ok)
        bad  == SelectInSeq(args, LAMBDA a : stops(a))
        good == IF bad = 0 THEN args ELSE SubSeq(args, 1, bad - 1)
        of(o) == SelectSeq(good, LAMBDA a : a.opt = o)
        last(o) == IF of(o) = <<>> THEN Unset ELSE <<Last(of(o)).arg>>
        srvs == of("s")
        infs == {srvs[k].inf : k \in 1..Len(srvs)}
        first(i) == SelectInSeq(srvs, LAMBDA a : a.inf = i)
        status(a) == CASE Getopt(a) \in {"h", "v", "k"} -> 0
                       [] Getopt(a) = "?" \/ a.opt = "a" -> -1
                       [] OTHER -> 1
    IN  [order |-> SetToSortSeq(infs, LAMBDA x, y : first(x) > first(y)),
         ring  |-> [i \in infs |->
                      [k \in 1..Len(SelectSeq(srvs, LAMBDA a : a.inf = i)) |->
                         SelectSeq(srvs, LAMBDA a : a.inf = i)[k].arg]],
         def   |-> {a.inf : a \in ToSet(of("D"))},
         sp    |-> {<<a.arg, a.inf>> : a \in ToSet(of("H"))},
         exc   |-> [k \in 1..Len(of("x")) |-> of("x")[k].arg],
         max_sockets |-> last("M"),
         reactivate_interval |-> last("r"),
         forward_timeout |-> last("t"),
         exit  |-> IF bad # 0 THEN <<status(args[bad])>>
                   ELSE IF Contains([k \in 1..Len(args) |-> args[k].opt], "operand")
                        THEN <<-1>> ELSE NoExit]

(***************************************************************************)
(* parse_args leaves the topology, filters, settings and exit status the *)
(* reference describes for every command line of at most n options drawn *)
(* from Opts: the LIFO insertion of interfaces, the appending of servers, *)
(* the last setting winning, the exit at the first option that exits and  *)
(* the exit on an operand only after every option was processed.  Only   *)
(* the last word can lack its argument: -v before another word takes that *)
(* word as its argument.                                                  *)
(***************************************************************************)
ParsedAsReference(Opts, n) ==
    \A args \in BoundedSeq(Opts, n) :
        (\A k \in 1..Len(args) - 1 : args[k].opt \in ArgOpts => args[k].given)
            => parse_args(args) = RefParse(args)

=============================================================================
