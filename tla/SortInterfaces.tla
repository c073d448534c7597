--------------------------- MODULE SortInterfaces ---------------------------
(***************************************************************************)
(* sort_interfaces.cpp: the round-robin arrangement of ip:interface       *)
(* pairs drafted for grouping upstreams by IP.  group[ip][intf] holds the *)
(* pairs of one IP; each pass over the first five IPs takes, from each,   *)
(* the first pair whose interface no earlier IP of the pass took, and     *)
(* empties its slot; passes repeat until one takes nothing.               *)
(*                                                                         *)
(* A slot is <<>> (the empty string, in which strstr finds no "eth") or   *)
(* <<ip, iface>>, iface standing for the text from "eth" on, which is     *)
(* what is_if_duplicate compares; names fit the 8 bytes strncpy keeps.    *)
(***************************************************************************)
EXTENDS Integers, Sequences, FiniteSets, SequencesExt

\* the loop bounds of main: ip < 5, intf < 5
NIP == 5
NIF == 5

\* is_if_duplicate: the interface is among those picked in this pass
is_if_duplicate(used, e) == e[2] \in used

\* one iteration of the ip loop: the first slot of row ip holding a pair
\* whose interface is not a duplicate is picked, copied to sortd_str and
\* emptied, and look_more is set
PickRow(st, ip) ==
    LET k == SelectInSeq(st.g[ip], LAMBDA e : e # <<>> /\ ~is_if_duplicate(st.used, e))
    IN  IF k = 0 THEN st
        ELSE [st EXCEPT !.used = @ \cup {st.g[ip][k][2]},
                        !.out  = Append(@, st.g[ip][k]),
                        !.g[ip][k] = <<>>,
                        !.more = TRUE]

\* one pass: curr_if cleared (if_index = 0), look_more and s reset
OnePass(g) ==
    FoldLeft(PickRow, [g |-> g, used |-> {}, out |-> <<>>, more |-> FALSE],
             [k \in 1..NIP |-> k])

\* the pass loop, which runs while the previous pass picked something;
\* the picks of each pass, in order
RECURSIVE Passes(_, _)
Passes(g, done) ==
    LET p == OnePass(g)
    IN  IF ~p.more THEN done ELSE Passes(p.g, Append(done, p.out))

\* main: sortd_str, the pairs in the order they were picked, by pass
sort_interfaces(g) == Passes(g, <<>>)

(***************************************************************************)
(* Reference: the passes arrange the pairs round-robin.  Every pair of    *)
(* the table is picked exactly once; a pass takes at most one pair per IP *)
(* and per interface, in IP order, and never takes nothing; and it is     *)
(* greedy - an IP that still had pairs and gave none had each of their    *)
(* interfaces taken in that pass by an earlier IP.                        *)
(***************************************************************************)
Cells(g) == {<<r, c>> : r \in 1..NIP, c \in 1..NIF}

RoundRobin(g, P) ==
    LET all  == FlattenSeq(P)
        upto(k) == ToSet(FlattenSeq(SubSeq(P, 1, k - 1)))
        left(k, r) == {g[x[1]][x[2]] : x \in {x \in Cells(g) :
                         x[1] = r /\ g[x[1]][x[2]] # <<>> /\ g[x[1]][x[2]] \notin upto(k)}}
        ifs(k) == {P[k][j][2] : j \in 1..Len(P[k])}
        ips(k) == [j \in 1..Len(P[k]) |-> P[k][j][1]]
    IN  /\ \A x \in Cells(g) : g[x[1]][x[2]] # <<>> =>
               Len(SelectSeq(all, LAMBDA e : e = g[x[1]][x[2]])) = 1
        /\ \A j \in 1..Len(all) : \E x \in Cells(g) : g[x[1]][x[2]] = all[j]
        /\ \A k \in 1..Len(P) :
               /\ P[k] # <<>>
               /\ Cardinality(ifs(k)) = Len(P[k])
               /\ \A j \in 1..Len(P[k]) - 1 : ips(k)[j] < ips(k)[j + 1]
               /\ \A r \in 1..NIP :
                     ~Contains(ips(k), r) =>
                        \A e \in left(k, r) :
                           \E j \in 1..Len(P[k]) : P[k][j][1] < r /\ P[k][j][2] = e[2]

\* every table whose rows 1..R hold C slots with a pair on an interface of
\* Ifs, or nothing, and whose other slots are empty; a row lists distinct
\* interfaces, those its IP was given with -s
Tables(R, C, Ifs) ==
    LET S == Ifs \cup {<<>>} IN
    {[r \in 1..NIP |-> [c \in 1..NIF |->
        IF r =< R /\ c =< C /\ f[<<r, c>>] # <<>> THEN <<r, f[<<r, c>>]>> ELSE <<>>]] :
       f \in {h \in [(1..R) \X (1..C) -> S] :
                \A r \in 1..R, c, d \in 1..C :
                   c # d /\ h[<<r, c>>] = h[<<r, d>>] => h[<<r, c>>] = <<>>}}

\* sort_interfaces arranges every such table round-robin
ArrangedRoundRobin(R, C, Ifs) ==
    \A g \in Tables(R, C, Ifs) : RoundRobin(g, sort_interfaces(g))

=============================================================================
