----------------------------- MODULE Forwarder -----------------------------
(***************************************************************************)
(* The forwarding engine of dnrd: the query list (query.c), the request  *)
(* and reply handlers with their fan-out over interfaces (udp.c), the     *)
(* timeout sweep, and the liveness probes that retry_srvlist (infnode.c)  *)
(* sends through udp_send_dummy.                                          *)
(*                                                                         *)
(* `qlist' is the query list in list order.  A record's three upstream    *)
(* sockets (one for a probe) are named by the record's slot and an index  *)
(* 0..2.  `net' is the bag of upstream exchanges in flight: a request     *)
(* sent on socket `sock' of record `rec' to server `srv' asking question  *)
(* `name'; the upstream's reply, if any, comes back to that socket.       *)
(* Time is abstracted to ages: a record's age counts ticks since its      *)
(* client_time, a server's inactive stamp counts ticks since it was       *)
(* stamped plus one (0 = active).                                         *)
(***************************************************************************)
EXTENDS Naturals, Integers, Sequences, FiniteSets, SequencesExt, BagsExt

CONSTANTS
    Clients,        \* client addresses
    ClientQids,     \* QIDs clients put in their queries (a subset of 0..NQid-1)
    NQid,           \* the 16-bit QID space, shrunk: QIDs wrap modulo NQid
    Questions,      \* question names clients ask
    Localhost,      \* the question of a probe (udp_send_dummy's dnsbuf)
    IfaceOrder,     \* inf_list in list order (ins_infnode inserts at head)
    Servers, Ring, None,
    Addr,           \* Addr[s]: the IP address of server node s (-s ip:iface);
                    \* one upstream may be configured under two interfaces
    Route,          \* Route[a]: the interface the kernel sends a datagram
                    \* to address a through when its socket is not bound
    BindToDevice,   \* whether bind_sock2inf's SO_BINDTODEVICE succeeds
    NoClient,       \* client address of a probe record (never written)
    MaxSockets,     \* max_sockets (-M)
    ForwardTimeout, \* forward_timeout (-t), in ticks
    RetryInterval,  \* reactivate_interval (-r), in ticks; 0 = never deactivate
    SpHosts,        \* -H host:iface pairs, as a set of <<name, iface>>
    QueryPrefix(_, _), \* QueryPrefix(n, h): the query name n, as
                    \* snprintf_cname writes it, is a prefix of host name h
    DefIfaces,      \* -D default interfaces
    SendFailable,   \* servers to which sendto may fail
    SocketFailures, \* whether socket() may fail (EMFILE, ENFILE, ENOBUFS)
    DontknowAnswers,\* possible outcomes of master_dontknow: TRUE = a packet
    Lossy,          \* whether datagrams to or from upstreams may be lost
    MaxRequests,    \* bound on client datagrams over a behaviour
    MaxRetries      \* bound on retry_srvlist passes that probe over a behaviour

Ifaces == {IfaceOrder[k] : k \in 1..Len(IfaceOrder)}

ASSUME /\ ClientQids \subseteq 0..(NQid - 1)
       /\ Localhost \notin Questions
       /\ MaxSockets \in Nat /\ ForwardTimeout \in Nat /\ RetryInterval \in Nat
       /\ SpHosts \subseteq Questions \X Ifaces /\ DefIfaces \subseteq Ifaces
       /\ SendFailable \subseteq Servers /\ DontknowAnswers \subseteq BOOLEAN
       /\ Lossy \in BOOLEAN /\ SocketFailures \in BOOLEAN
       /\ DOMAIN Addr = Servers /\ Route \in [{Addr[s] : s \in Servers} -> Ifaces]
       /\ BindToDevice \in BOOLEAN

\* record slots: a record is created only while fewer than MaxSockets
\* sockets are open and every record holds one, so these always suffice
Ids == 1..MaxSockets
Rcodes == {"ok", "fail"}                  \* check_replycode zero / non-zero
ReplyKinds == Rcodes \cup {"bad", "err"}  \* check_reply fails / recvmsg fails
Names == Questions \cup {Localhost}

VARIABLES
    qlist,            \* the query list
    upstream_sockets, \* the upstream socket counter
    current,          \* the interfaces' current server pointers
    inactive,         \* the servers' inactive stamps, as ages (0 = active)
    net,              \* bag of upstream exchanges in flight
    probeId,          \* the ID word of udp_send_dummy's static dnsbuf
    hung,             \* the daemon spins forever in send2current
    requests,         \* client datagrams received so far (bound only)
    retries,          \* probing retry_srvlist passes so far (bound only)
    asked,            \* history: <<client, qid, name>> sent by clients
    delivered,        \* history: replies sent to clients on isock
    answers,          \* history: rcodes sent to the client, per record slot
    heard,            \* history: rcodes of valid replies processed, per slot
    dispatch          \* history: the record the step's send2current call fanned
                      \* out and how many requests it sent (NoDispatch if none)

T == INSTANCE Topology

vars == <<qlist, upstream_sockets, current, inactive, net, probeId, hung,
          requests, retries, asked, delivered, answers, heard, dispatch>>

NoSrvs == <<None, None, None>>

LiveIds == {qlist[p].id : p \in 1..Len(qlist)}

NoDispatch == [id |-> 0, sent |-> 0]

Init ==
    /\ qlist = <<>>
    /\ upstream_sockets = 0
    /\ current = [i \in Ifaces |-> Ring[i][1]]
    /\ inactive = [s \in Servers |-> 0]
    /\ net = EmptyBag
    /\ probeId = 0
    /\ hung = FALSE
    /\ requests = 0
    /\ retries = 0
    /\ asked = {}
    /\ delivered = {}
    /\ answers = [id \in Ids |-> <<>>]
    /\ heard = [id \in Ids |-> {}]
    /\ dispatch = NoDispatch

-----------------------------------------------------------------------------
(* query.c                                                                 *)

\* query_create's ceiling test: upstream_sockets >= max_sockets fails it
BelowCeiling(socks) == socks < MaxSockets

\* query_create: one socket for a probe (inf == NULL), three otherwise
Socks(r) == IF r.dummy THEN 1 ELSE 3

\* mutant: query_destroy without the is_dummy break
ClosedSocksAlwaysThree(r) == 3

\* query_destroy: the sockets closed and subtracted from upstream_sockets
ClosedSocks(r) == IF r.dummy THEN 1 ELSE 3

\* query_create's socket loop: how many sockets socket() opens before one
\* fails; on a failure the record is freed and the opened ones stay open
SocketOutcomes(n) == IF SocketFailures THEN 0..n ELSE {n}

\* the slot of a new record (the heap address of a fresh query_t)
FreeId(l) ==
    LET used == {l[p].id : p \in 1..Len(l)}
    IN  CHOOSE id \in Ids \ used : \A j \in Ids \ used : id =< j

\* query_create + query_add's initialisation of a new record; bind0 is the
\* interface sock_arr[0] is bound to (None: a fresh socket is unbound)
NewRecord(id, k, c, dummy) ==
    [id |-> id, cqid |-> k, client |-> c, dummy |-> dummy, cnt |-> 0,
     resp |-> FALSE, fail |-> None, age |-> 0, ttl |-> ForwardTimeout,
     srvs |-> NoSrvs, bind0 |-> None]

\* query_add's scan: the first record whose client_qid is the message's
FindQid(l, k) == SelectInSeq(l, LAMBDA r : r.cqid = k)

\* mutant: only records holding a cached failure time out
TimeoutDeletesOnlyFailed(r) == r.age > r.ttl /\ r.fail # None

\* query_timeout's test: client_time < now - ttl
TimeoutDeletes(r) == r.age > r.ttl

\* query_timeout's forwarding of a remembered failure
TimeoutForwards(r) == r.fail # None /\ ~r.resp

Reply(r, n, rc) ==
    [client |-> r.client, cqid |-> r.cqid, name |-> n, rcode |-> rc]

(***************************************************************************)
(* query_timeout's walk, with q->next the record examined.  After         *)
(* deleting q->next the loop still advances q, so the successor of a      *)
(* deleted record is skipped, and when the deleted record was the last    *)
(* the walk starts over from the list head.  Returns the new list, the    *)
(* sockets closed and the remembered failures forwarded.                  *)
(***************************************************************************)
RECURSIVE TimeoutWalk(_, _, _, _)
TimeoutWalk(l, p, freed, out) ==
    IF p >= Len(l) THEN [l |-> l, freed |-> freed, out |-> out]
    ELSE LET r  == l[p + 1]
             l2 == RemoveAt(l, p + 1)
         IN  IF ~TimeoutDeletes(r) THEN TimeoutWalk(l, p + 1, freed, out)
             ELSE TimeoutWalk(l2, IF p < Len(l2) THEN p + 1 ELSE 0,
                              freed + ClosedSocks(r),
                              IF TimeoutForwards(r)
                              THEN out \o <<[id |-> r.id,
                                             rep |-> Reply(r, r.fail, "fail")]>>
                              ELSE out)

-----------------------------------------------------------------------------
(* udp.c: send2current                                                     *)

\* the interface filter: the interfaces of the -H entries whose host name
\* the query name is a prefix of (strncmp over strlen(query_host)) first,
\* else the -D list, else all
Matched(n) == {i \in Ifaces : \E h \in Names : <<h, i>> \in SpHosts /\ QueryPrefix(n, h)}
Candidate(i, n) ==
    IF Matched(n) # {} THEN i \in Matched(n)
    ELSE IF DefIfaces # {} THEN i \in DefIfaces ELSE TRUE

\* the inner while loop on interface i: while current is not NULL and
\* sendto to it fails, deactivate it when retry is on; with retry off the
\* failing send is repeated forever
RECURSIVE SendLoop(_, _, _)
SendLoop(i, st, F) ==
    IF st.cur[i] = None \/ st.cur[i] \notin F THEN st
    ELSE IF RetryInterval = 0 THEN [st EXCEPT !.hung = TRUE]
    ELSE LET d == T!deactivate_current(i, st.cur, st.inact)
         IN  SendLoop(i, [st EXCEPT !.cur = d.cur, !.inact = d.inact], F)

\* the interface a request to server s on a socket bound (by bind_sock2inf,
\* when SO_BINDTODEVICE succeeds) to interface i leaves and is answered
\* through; an unbound socket follows the route to the server's address
Egress(i, s) == IF BindToDevice THEN i ELSE Route[Addr[s]]

\* one round of the outer loop on interface i with socket index st.c:
\* bind_sock2inf binds the socket to i (it was called before the inner
\* loop, which leaves the binding alone), record the server sent to,
\* count the send whether or not one happened
SendOn(i, st, r, n) ==
    LET s == st.cur[i] IN
    [st EXCEPT
       !.srvs = IF s # None THEN [@ EXCEPT ![st.c + 1] = s] ELSE @,
       !.sent = IF s # None
                THEN @ \o <<[rec |-> r.id, sock |-> st.c, srv |-> s, name |-> n,
                              inf |-> Egress(i, s)]>>
                ELSE @,
       !.cnt  = @ + 1,
       !.bind0 = IF st.c = 0 /\ BindToDevice THEN i ELSE @,
       !.c    = IF r.dummy THEN @ ELSE @ + 1]

\* the outer loop from the k-th interface on; st.k is where it stops
RECURSIVE Dispatch(_, _, _, _, _)
Dispatch(st, k, r, n, F) ==
    IF k > Len(IfaceOrder) \/ st.c >= 3 THEN [st EXCEPT !.k = k]
    ELSE LET i == IfaceOrder[k] IN
         IF ~Candidate(i, n) THEN Dispatch(st, k + 1, r, n, F)
         ELSE LET s2 == SendLoop(i, st, F) IN
              IF s2.hung THEN s2
              ELSE IF r.dummy THEN [SendOn(i, s2, r, n) EXCEPT !.k = k + 1]
              ELSE Dispatch(SendOn(i, s2, r, n), k + 1, r, n, F)

\* send2current(q, msg): the fan-out of record r with question n when the
\* sends to the servers in F fail
send2current(r, n, F) ==
    Dispatch([c |-> 0, cur |-> current, inact |-> inactive, cnt |-> r.cnt,
              srvs |-> r.srvs, bind0 |-> r.bind0, sent |-> <<>>, hung |-> FALSE,
              k |-> 1],
             1, r, n, F)

\* its return value, read from the interface the loop stopped at: the list
\* head when every interface was visited, whose current pointer is NULL
SendReportsOk(st) == st.k =< Len(IfaceOrder) /\ st.cur[IfaceOrder[st.k]] # None

SentBag(seq) == FoldSeq(LAMBDA e, b : BagAdd(b, e), EmptyBag, seq)

-----------------------------------------------------------------------------
(* udp.c: udp_handle_reply                                                 *)

\* mutant: forward only the last pending reply
ForwardNowOnlyLast(r, kind) ==
    kind \in Rcodes /\ ~r.dummy /\ ~r.resp /\ r.cnt = 1

\* forward this reply to the client now: success, or the last one pending
ForwardNow(r, kind) ==
    /\ kind \in Rcodes /\ ~r.dummy /\ ~r.resp
    /\ (kind = "ok" \/ r.cnt = 1)

\* remember this failure for the timeout path (only the first one)
RememberNow(r, kind) ==
    /\ kind \in Rcodes /\ ~r.dummy /\ ~r.resp
    /\ ~(kind = "ok" \/ r.cnt = 1)
    /\ r.fail = None

\* search_server: the node of the interface the reply came in on whose
\* address is the reply's source, or None
search_server(ip, inf) ==
    LET k == SelectInSeq(Ring[inf], LAMBDA x : Addr[x] = ip)
    IN  IF k = 0 THEN None ELSE Ring[inf][k]

(***************************************************************************)
(* reply_recv's reactivation: recvmsg failing ("err", which also stands   *)
(* for a datagram larger than the buffer, returned as 0 before this point *)
(* and then failing check_reply) reactivates nothing; otherwise           *)
(* get_interface_name reads the ingress interface from IP_PKTINFO and     *)
(* search_server looks the sender up by that interface and the source    *)
(* address, and clears the inactive stamp of the node it finds.  A reply  *)
(* comes in on the interface its request left through.                    *)
(***************************************************************************)
reply_recv(inact, e, kind) ==
    LET s == search_server(Addr[e.srv], e.inf)
    IN  IF kind = "err" \/ s = None THEN inact ELSE [inact EXCEPT ![s] = 0]

\* the servers of srv_list are reactivated when the record is deleted
ReactivateAll(inact, srvs) ==
    [s \in Servers |-> IF \E a \in 1..3 : srvs[a] = s THEN 0 ELSE inact[s]]

-----------------------------------------------------------------------------
(* infnode.c retry_srvlist and udp.c udp_send_dummy                        *)

(***************************************************************************)
(* udp_send_dummy(s) on the sweep state st: query_add(NULL, s, ...) keyed *)
(* on the ID word of the static dnsbuf, then ttl = reactivate_interval    *)
(* and udp_send on sock_arr[0], without counting the send.  query_add     *)
(* overwrites the ID word with a my_qid (of the matched record, or the    *)
(* new record's in network order) before the ++; qid is that word as the  *)
(* QID allocator left it.  F: servers sendto fails for; SF: servers whose *)
(* probe socket() fails.                                                   *)
(***************************************************************************)
\* the interface the probe to s on sock_arr[0] of the record at position
\* m leaves through: the one bind_sock2inf bound that socket to when the
\* probe was coalesced on a record send2current had sent on, else the
\* route to s's address
ProbeEgress(l, m, s) ==
    IF m # 0 /\ l[m].bind0 # None THEN l[m].bind0 ELSE Route[Addr[s]]

\* the ++ on the 16-bit ID word of dnsbuf
NextProbeId(qid) == (qid + 1) % NQid

udp_send_dummy(st, s, F, SF, qid) ==
    LET m  == FindQid(st.l, st.pid)
        id == IF m # 0 THEN st.l[m].id ELSE FreeId(st.l)
        l1 == IF m # 0 THEN [st.l EXCEPT ![m].age = 0]
              ELSE Append(st.l, NewRecord(id, st.pid, NoClient, TRUE))
        p  == IF m # 0 THEN m ELSE Len(l1)
    IN  IF m = 0 /\ (~BelowCeiling(st.socks) \/ s \in SF) THEN st
        ELSE [st EXCEPT
                !.l     = [l1 EXCEPT ![p].ttl = RetryInterval],
                !.socks = IF m # 0 THEN @ ELSE @ + 1,
                !.fresh = IF m # 0 THEN @ ELSE @ \cup {id},
                !.sent  = IF s \in F THEN @
                          ELSE @ \o <<[rec |-> id, sock |-> 0, srv |-> s,
                                       name |-> Localhost,
                                       inf |-> ProbeEgress(st.l, m, s)]>>,
                !.pid   = NextProbeId(qid)]

\* a server is due when it has been inactive for at least the delay
RetryDue(inact, s) == inact[s] > 0 /\ inact[s] - 1 >= RetryInterval

\* the walk over the ring of interface i from position p; Q[s] is the QID
\* the probe to s is given
RECURSIVE RetryWalk(_, _, _, _, _, _)
RetryWalk(i, p, st, F, SF, Q) ==
    IF p > Len(Ring[i]) THEN st
    ELSE LET s == Ring[i][p] IN
         IF ~RetryDue(st.inact, s) THEN RetryWalk(i, p + 1, st, F, SF, Q)
         ELSE RetryWalk(i, p + 1,
                        udp_send_dummy([st EXCEPT !.inact[s] = 1], s, F, SF, Q[s]),
                        F, SF, Q)

\* the exchanges whose egress socket is still open: query_destroy closes
\* the sockets of a deleted record, and the kernel drops what arrives later
KeepRecs(b, l) ==
    LET ids == {l[p].id : p \in 1..Len(l)}
    IN  [e \in {x \in DOMAIN b : x.rec \in ids} |-> b[e]]

\* the per-slot histories are reset when a slot gets a new record
Fresh(f, ids, v) == [id \in Ids |-> IF id \in ids THEN v ELSE f[id]]

-----------------------------------------------------------------------------
(* Actions                                                                 *)

(***************************************************************************)
(* send2current on the record at position p of l, then the tail of        *)
(* udp_handle_request: when send2current reports failure and             *)
(* master_dontknow produced a packet, query_delete_next(prev) deletes the *)
(* record and the handler returns before the sendto to the client.       *)
(* socks is upstream_sockets after query_add.                             *)
(***************************************************************************)
Dispatched(l, p, n, socks) ==
    \E F \in SUBSET SendFailable, dk \in DontknowAnswers :
        LET st == send2current(l[p], n, F)
            r2 == [l[p] EXCEPT !.cnt = st.cnt, !.srvs = st.srvs,
                               !.bind0 = st.bind0]
            net1 == net (+) SentBag(st.sent)
        IN  IF st.hung
            THEN /\ hung' = TRUE
                 /\ dispatch' = NoDispatch
                 /\ UNCHANGED <<qlist, upstream_sockets, current, inactive, net>>
            ELSE /\ current' = st.cur
                 /\ inactive' = st.inact
                 /\ dispatch' = [id |-> r2.id, sent |-> Len(st.sent)]
                 /\ UNCHANGED hung
                 /\ IF ~SendReportsOk(st) /\ dk
                    THEN /\ qlist' = RemoveAt(l, p)
                         /\ upstream_sockets' = socks - ClosedSocks(r2)
                         /\ net' = KeepRecs(net1, qlist')
                    ELSE /\ qlist' = [l EXCEPT ![p] = r2]
                         /\ upstream_sockets' = socks
                         /\ net' = net1

\* udp_handle_request, fwd == 0: handle_query answered from the cache or
\* the master file and the answer is sent straight back on isock
AnswerLocally(c, k, n) ==
    /\ delivered' = delivered \cup
                    {[client |-> c, cqid |-> k, name |-> n, rcode |-> "ok"]}
    /\ dispatch' = NoDispatch
    /\ UNCHANGED <<qlist, upstream_sockets, current, inactive, net, probeId,
                   hung, answers, heard>>

\* udp_handle_request, fwd > 0: query_add, then send2current
Forward(c, k, n) ==
    LET m == FindQid(qlist, k) IN
    /\ UNCHANGED <<probeId, delivered>>
    /\ \/ /\ m # 0
          /\ Dispatched([qlist EXCEPT ![m].age = 0], m, n, upstream_sockets)
          /\ UNCHANGED <<answers, heard>>
       \/ /\ m = 0
          /\ ~BelowCeiling(upstream_sockets)
          /\ dispatch' = NoDispatch
          /\ UNCHANGED <<qlist, upstream_sockets, current, inactive, net, hung,
                         answers, heard>>
       \/ /\ m = 0
          /\ BelowCeiling(upstream_sockets)
          /\ \E ok \in SocketOutcomes(3) \ {3} :
                /\ upstream_sockets' = upstream_sockets + ok
                /\ dispatch' = NoDispatch
                /\ UNCHANGED <<qlist, current, inactive, net, hung, answers,
                               heard>>
       \/ /\ m = 0
          /\ BelowCeiling(upstream_sockets)
          /\ 3 \in SocketOutcomes(3)
          /\ LET id == FreeId(qlist)
                 l  == Append(qlist, NewRecord(id, k, c, FALSE))
             IN  /\ Dispatched(l, Len(l), n, upstream_sockets + 3)
                 /\ answers' = [answers EXCEPT ![id] = <<>>]
                 /\ heard' = [heard EXCEPT ![id] = {}]

udp_handle_request(c, k, n) ==
    /\ ~hung
    /\ requests < MaxRequests
    /\ requests' = requests + 1
    /\ UNCHANGED retries
    /\ asked' = asked \cup {<<c, k, n>>}
    /\ AnswerLocally(c, k, n) \/ Forward(c, k, n)

(***************************************************************************)
(* udp_handle_reply for exchange e, whose upstream answered with `kind':  *)
(* reply_recv reactivates the sender unless recvmsg failed; a failed      *)
(* receive or check_reply only counts the send down; a valid reply is     *)
(* forwarded or remembered; the last pending reply deletes the record     *)
(* after reactivating the servers of srv_list.                            *)
(***************************************************************************)
udp_handle_reply(e, kind) ==
    /\ ~hung
    /\ LET p  == SelectInSeq(qlist, LAMBDA x : x.id = e.rec)
           r  == qlist[p]
           valid == kind \in Rcodes
           fwd   == ForwardNow(r, kind)
           inact1 == reply_recv(inactive, e, kind)
           r1 == [r EXCEPT !.resp = @ \/ fwd,
                           !.fail = IF RememberNow(r, kind) THEN e.name ELSE @,
                           !.cnt  = @ - 1]
           net1 == BagRemove(net, e)
       IN  /\ heard' = IF valid /\ ~r.dummy
                       THEN [heard EXCEPT ![r.id] = @ \cup {kind}] ELSE heard
           /\ answers' = IF fwd THEN [answers EXCEPT ![r.id] = Append(@, kind)]
                         ELSE answers
           /\ delivered' = IF fwd THEN delivered \cup {Reply(r, e.name, kind)}
                           ELSE delivered
           /\ IF r.cnt = 1
              THEN /\ inactive' = IF valid THEN ReactivateAll(inact1, r.srvs)
                                  ELSE inact1
                   /\ qlist' = RemoveAt(qlist, p)
                   /\ upstream_sockets' = upstream_sockets - ClosedSocks(r)
                   /\ net' = KeepRecs(net1, qlist')
              ELSE /\ inactive' = inact1
                   /\ qlist' = [qlist EXCEPT ![p] = r1]
                   /\ net' = net1
                   /\ UNCHANGED upstream_sockets
    /\ dispatch' = NoDispatch
    /\ UNCHANGED <<current, probeId, hung, requests, retries, asked>>

\* a datagram to or from an upstream is lost
Lose(e) ==
    /\ ~hung /\ Lossy
    /\ net' = BagRemove(net, e)
    /\ dispatch' = NoDispatch
    /\ UNCHANGED <<qlist, upstream_sockets, current, inactive, probeId, hung,
                   requests, retries, asked, delivered, answers, heard>>

\* a second passes: ages grow; an expired record or a due server stays so
Tick ==
    /\ ~hung
    /\ qlist' = [p \in 1..Len(qlist) |->
                   [qlist[p] EXCEPT !.age = IF @ > qlist[p].ttl THEN @ ELSE @ + 1]]
    /\ inactive' = [s \in Servers |->
                      IF inactive[s] = 0 \/ inactive[s] > RetryInterval
                      THEN inactive[s] ELSE inactive[s] + 1]
    /\ dispatch' = NoDispatch
    /\ UNCHANGED <<upstream_sockets, current, net, probeId, hung, requests,
                   retries, asked, delivered, answers, heard>>

\* query_timeout, called from the main loop once an entry has expired
query_timeout ==
    /\ ~hung
    /\ \E p \in 1..Len(qlist) : TimeoutDeletes(qlist[p])
    /\ LET w == TimeoutWalk(qlist, 0, 0, <<>>)
           sentTo == {w.out[j].id : j \in 1..Len(w.out)}
       IN  /\ qlist' = w.l
           /\ upstream_sockets' = upstream_sockets - w.freed
           /\ net' = KeepRecs(net, w.l)
           /\ answers' = [id \in Ids |-> IF id \in sentTo
                                         THEN Append(answers[id], "fail")
                                         ELSE answers[id]]
           /\ delivered' = delivered \cup {w.out[j].rep : j \in 1..Len(w.out)}
           /\ dispatch' = NoDispatch
    /\ UNCHANGED <<current, inactive, probeId, hung, requests, retries, asked,
                   heard>>

\* retry_srvlist(i, reactivate_interval), called from the main loop
retry_srvlist(i) ==
    /\ ~hung
    /\ retries < MaxRetries
    /\ retries' = retries + 1
    /\ \E p \in 1..Len(Ring[i]) : RetryDue(inactive, Ring[i][p])
    /\ \E F \in SUBSET SendFailable,
          SF \in SUBSET (IF SocketFailures THEN T!ServersOf(i) ELSE {}),
          Q \in [T!ServersOf(i) -> 0..(NQid - 1)] :
        LET st == RetryWalk(i, 1, [l |-> qlist, socks |-> upstream_sockets,
                                   inact |-> inactive, fresh |-> {},
                                   sent |-> <<>>, pid |-> probeId], F, SF, Q)
        IN  /\ qlist' = st.l
            /\ upstream_sockets' = st.socks
            /\ inactive' = st.inact
            /\ net' = net (+) SentBag(st.sent)
            /\ probeId' = st.pid
            /\ answers' = Fresh(answers, st.fresh, <<>>)
            /\ heard' = Fresh(heard, st.fresh, {})
            /\ dispatch' = NoDispatch
    /\ UNCHANGED <<current, hung, requests, asked, delivered>>

Next ==
    \/ \E c \in Clients, k \in ClientQids, n \in Questions :
          udp_handle_request(c, k, n)
    \/ \E e \in DOMAIN net, kind \in ReplyKinds : udp_handle_reply(e, kind)
    \/ \E e \in DOMAIN net : Lose(e)
    \/ Tick
    \/ query_timeout
    \/ \E i \in Ifaces : retry_srvlist(i)

\* the main loop's select times out at least once a second, and each pass
\* runs query_timeout when an entry is due
Spec == Init /\ [][Next]_vars /\ WF_vars(Tick) /\ WF_vars(query_timeout)

-----------------------------------------------------------------------------
(* Properties                                                              *)

\* the exchanges in flight for the record in slot id
InFlight(id) == BagCardinality([e \in {x \in DOMAIN net : x.rec = id} |-> net[e]])

(***************************************************************************)
(* The client-facing contract of QueryService, read off the record list  *)
(* and the per-slot histories: a slot is live while its record is in     *)
(* qlist, its answers are what was sent to the record's client on isock, *)
(* and it has heard a success once a valid RCODE-0 reply was processed.  *)
(***************************************************************************)
QS == INSTANCE QueryService
        WITH Slots <- Ids,
             slot  <- [id \in Ids |-> [live |-> id \in LiveIds,
                                       ans  |-> answers[id],
                                       ok   |-> "ok" \in heard[id]]]

(***************************************************************************)
(* The forwarding engine implements QueryService: over its lifetime a     *)
(* record sends its client at most one datagram (resp_sent guards both    *)
(* udp_handle_reply and query_timeout's forwarding of the cached failure, *)
(* spec 5), and a failure only when no success was processed before it   *)
(* ("first success wins", whether by the last-outstanding rule of         *)
(* udp_handle_reply or by query_timeout); records are created and deleted *)
(* only as the contract allows.                                           *)
(***************************************************************************)
ImplementsQueryService == QS!Spec

(***************************************************************************)
(* upstream_sockets equals the sockets held by the records of the list:   *)
(* query_create's increments and query_destroy's decrements balance        *)
(* (spec 8, sum of egress sockets == open_upstream_sockets).               *)
(***************************************************************************)
SocketAccounting ==
    upstream_sockets = FoldSeq(LAMBDA r, a : Socks(r) + a, 0, qlist)

(***************************************************************************)
(* Every reply sent to a client answers a question that client asked     *)
(* with that QID: query_add coalescing and udp_send_dummy must not route  *)
(* another client's question, or a probe, to the client's record.        *)
(***************************************************************************)
AnswerMatchesQuestion ==
    \A d \in delivered : <<d.client, d.cqid, d.name>> \in asked

(***************************************************************************)
(* -M N "Set maximum number of open sockets to N" (the usage text of      *)
(* args.c): the upstream sockets open never outnumber max_sockets.        *)
(* query_create tests upstream_sockets against max_sockets once, before   *)
(* its loop opens three sockets, so a create that starts just below the   *)
(* ceiling passes it.                                                     *)
(***************************************************************************)
SocketsWithinMax == upstream_sockets =< MaxSockets

(***************************************************************************)
(* Spec 4.6's routing rules: a question is pinned to the interfaces of    *)
(* the -H entries that name it exactly; with none, the -D interfaces are  *)
(* the candidates; with neither, all.  Every client request in flight     *)
(* left through an interface these rules allow for its question -        *)
(* send2current's strncmp over strlen(query_host) must pin exact names   *)
(* only.  (A request leaves through the interface its socket was bound    *)
(* to, so this is stated for runs in which bind_sock2inf succeeds.)      *)
(***************************************************************************)
SpecCandidate(i, n) ==
    LET pinned == {j \in Ifaces : <<n, j>> \in SpHosts}
    IN  IF pinned # {} THEN i \in pinned
        ELSE DefIfaces = {} \/ i \in DefIfaces

RoutedAsSpecified ==
    \A e \in DOMAIN net : e.name \in Questions => SpecCandidate(e.inf, e.name)

\* the daemon never spins in send2current's retry loop
NeverHangs == ~hung

(***************************************************************************)
(* A deleted client record whose upstreams answered it validly sent its  *)
(* client a reply (spec 8: exactly one whenever at least one upstream     *)
(* responded before expiry) - udp_handle_reply's error paths and          *)
(* udp_handle_request's master_dontknow path delete records too.          *)
(***************************************************************************)
ClientAnsweredWhenUpstreamAnswered ==
    \A id \in Ids : id \notin LiveIds /\ heard[id] # {} => answers[id] # <<>>

(***************************************************************************)
(* serv_sent_cnt of a client record equals the requests it has in flight *)
(* on a lossless network (spec 8), so the last reply is recognised as     *)
(* last by udp_handle_reply.                                              *)
(***************************************************************************)
FanoutMatchesInFlight ==
    \A p \in 1..Len(qlist) :
        ~qlist[p].dummy => qlist[p].cnt = InFlight(qlist[p].id)

(***************************************************************************)
(* A server from which a datagram is received is active afterwards (spec  *)
(* 4.8: Deactivated to Active on any received datagram): reply_recv must  *)
(* find the node the request or probe was sent to, although it searches   *)
(* by the interface the reply came in on.                                  *)
(***************************************************************************)
ReplyReactivatesSender ==
    [][\A e \in DOMAIN net, kind \in ReplyKinds \ {"err"} :
          udp_handle_reply(e, kind) => inactive'[e.srv] = 0]_vars

(***************************************************************************)
(* The engine implements QueryService with its fairness: every record is *)
(* eventually deleted - a reply or query_timeout reclaims its slot and    *)
(* sockets whatever the upstreams and the network do - and the contract's *)
(* safety part holds throughout.                                          *)
(***************************************************************************)
ImplementsQueryServiceLive == QS!LiveSpec

(***************************************************************************)
(* A record to which send2current sent at least one request stays in the *)
(* list after udp_handle_request (spec 4.6: the query is dispatched if at *)
(* least one upstream send succeeded; only otherwise is it deleted):      *)
(* send2current's return value and the master_dontknow deletion must agree *)
(* with the sends the call made.                                         *)
(***************************************************************************)
DispatchedNotDeleted ==
    [][dispatch'.sent > 0 => dispatch'.id \in LiveIds']_vars

=============================================================================
