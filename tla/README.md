# TLA+ models of dnrd's forwarding engine

This directory holds TLA+ models of the forwarding core of dnrd 2.20.3
(`src/dnrd-2.20.3/src`), which TLC model-checks. dnrd is a single-threaded
DNS proxy. It reads a client query on its listening socket and either answers
it locally (from the cache or master file) or fans it out to up to three
upstream servers, one per network interface. It then forwards the first
successful reply, or the last failure, back to the client. Servers that cannot
be reached are deactivated and probed again later.

## The system

| part | code | state | operations |
|------|------|-------|------------|
| C2 topology | `infnode.c`, `infnode.h` | interface ring; each interface has a ring of servers with a sentinel head and a `current` pointer; each server has an `inactive` time stamp | `next_active`, `deactivate_current`/`set_current`, `retry_srvlist`, reactivation in `reply_recv` and `udp_handle_reply` |
| C4 query table | `query.c`, `query.h` | `qlist` of `query_t`: client address and QID, `serv_sent_cnt`, `srv_list[3]`, `resp_sent`, cached failure, `client_time`, `ttl`, `is_dummy` | `query_add` (coalesce on `client_qid`, or create), `query_delete_next`/`query_destroy`, `query_timeout` |
| C5 egress sockets | `query.c` `query_create` | `upstream_sockets`, three sockets per record (one per probe) | the ceiling check, the socket loop, and `socket()` failing part-way |
| C6 dispatcher | `udp.c` | `matched_intf` | `send2current` (`-H`/`-D` filter, send/deactivate loop, `c<3`, return value), `udp_handle_request` |
| C7 receiver | `udp.c` | — | `reply_recv`, `udp_handle_reply` |
| C8 probes | `infnode.c`, `udp.c` | static `dnsbuf` ID word | `retry_srvlist`, `udp_send_dummy` |
| configuration | `args.c`, `infnode.c` | `inf_list` and the server lists, `def_inf_list`, `sp_hosts`, `exc_port`, `max_sockets`, `forward_timeout`, `reactivate_interval` | `parse_args` (the whole getopt switch); `search_infnode`, `add_interface` |
| round-robin draft | `src/sort_interfaces/sort_interfaces/sort_interfaces.cpp` | `group[ip][intf]`, `curr_if`, `sortd_str` | `main`'s pass loop, `is_if_duplicate` |

How they interact: a client datagram goes to `udp_handle_request`, then
`query_add` (C4/C5), then `send2current` (C6). `send2current` walks the
interfaces and may deactivate servers (C2). A reply on a record's socket goes
to `udp_handle_reply` (C7). That reactivates the sender (C2), forwards or
caches the answer, and deletes the record when `serv_sent_cnt` reaches 1. The
main loop (`relay.c`, not in this tree) calls `query_timeout` and
`retry_srvlist` periodically. `retry_srvlist` creates probe records through
`query_add(NULL, ...)` in C4.

## Modules

- **`Topology.tla`** models C2 on its own. `next_active` and `deactivate_current`
  are value-level operators: a ring is a sequence, and position 0 is the
  sentinel head. `RECURSIVE WalkFrom` is the `for` loop of `next_active`.
  `RefNextActive` is a reference definition (the nearest active server in ring
  distance) that the walk is checked against. The small state machine
  (`SendFails`, `ReplyFrom`) drives the topology with send failures and
  replies. `MCTopology.tla` uses rings of 3, 2 and 1 servers.
- **`Args.tla`** models `parse_args`. `parse_args` is a `FoldLeft` of
  `ParseArg` over the command line, followed by the `optind != argc` test.
  `Getopt` maps a typed letter to what getopt returns: `"?"` for a letter
  that `short_options` lacks (`-S` is one, although the help text lists
  it), and for an option that takes an argument but is the last word
  (`short_options` has no leading `:`). An option is a record
  `[opt, arg, given, inf, ok]`, where `given` says whether a word followed
  it.
  - `-s ip:iface` runs `search_infnode`, then `add_interface` (which links a
    new interface right after the list head), then `add_srv` (which
    appends the server).
  - `-D` and `-H` are collected, and `-x` appends to `exc_port`.
  - `-M`, `-r` and `-t` set their settings. The last one given wins.
  - `-h` and `-k` exit 0. So does `-v`, but `short_options` has `v:`, so
    `-v` takes the next word as its argument, and a bare `-v` at the end
    is a missing argument that exits -1. An unknown letter exits -1. A missing
    interface exits 1. So does one that `validate_interface` rejects: a name
    missing from the host's `SIOCGIFCONF` list, or any name when that list
    could not be read. A bad `-a` address exits -1. The MC modules build
    each option's `ok` from `validate_interface`.
  - Because GNU getopt moves operands to the end, an operand anywhere makes
    `parse_args` exit -1, but only after every option has run.

  `RefParse` is a reference definition. `MCTopology` has TLC check, as an
  `ASSUME`, that the two agree on every command line of up to three options
  drawn from twenty-one, where only the last option may lack its word. It
  also checks that `validate_interface` rejects an unlisted name and any
  name on an unreadable list, and that a bare `-v` exits -1. The MC modules write their topology and settings
  out as constants, for speed. `MCForwarder` has an `ASSUME` that every
  run's `IfaceOrder`, `Ring`, `DefIfaces`, `SpHosts`, `MaxSockets`,
  `ForwardTimeout` and `RetryInterval` are what `parse_args` builds from the
  run's command line (`-s b1:e2 -s a1:e1 -s a2:e1`, plus `-D e1 -H q2:e2`
  when the run has filters, plus `-M`, `-t` and `-r`).
- **`SortInterfaces.tla`** models `sort_interfaces.cpp`, a draft of how to
  spread the upstreams of one IP over interfaces. `PickRow` is one turn of
  the IP loop: the first slot whose interface this pass has not taken yet.
  `OnePass` folds it over the first five rows. The `RECURSIVE Passes`
  repeats passes until one picks nothing. `RoundRobin` is a declarative
  reference:
  - every pair is picked once;
  - a pass takes at most one pair per IP and per interface, in IP order;
  - a pass is greedy.

  `MCTopology`'s `ASSUME` checks `main`'s own table, whose printed order is
  1.1.1.1:eth2, 2.2.2.2:eth2:1, 1.1.1.1:eth2:1, 2.2.2.2:eth2, 3.3.3.3:eth2.
  It also checks every table of three IPs with up to two of three
  interfaces, and of five IPs with one of two interfaces.
- **`QueryService.tla`** is the abstract contract of a record slot towards its
  client. A slot is opened, may hear a success, answers at most once (a
  failure only if no success was heard), and is closed. One step may do
  several of these moves in that order, as one handler call does. `LiveSpec`
  adds that an open slot is eventually closed. `Forwarder` instantiates it
  as `QS` with the mapping `live` = the slot's record is in `qlist`,
  `ans` = `answers[id]`, `ok` = `"ok" \in heard[id]`.
- **`Forwarder.tla`** models C4–C8 and instantiates `Topology` as `T`
  (`current` and `inactive` are shared). Its state is:
  - `qlist`: the list in list order. Each record is a slot id `id`, `cqid`,
    `client`, `dummy`, `cnt` = `serv_sent_cnt`, `resp` = `resp_sent`,
    `fail` = the cached failure (its question), `age`/`ttl`, `srvs` =
    `srv_list`, and `bind0` = the interface `bind_sock2inf` last bound
    `sock_arr[0]` to (None for a fresh socket).
  - `upstream_sockets` and `probeId` (the `dnsbuf` ID word).
  - `net`: a bag of exchanges `[rec, sock, srv, name, inf]`. Each is a
    request sent on socket `sock` of record `rec` to server `srv`. Its
    reply, if any, comes back to that socket through interface `inf`.
    `inf` is the loop's interface when `bind_sock2inf` succeeds
    (`BindToDevice`). Otherwise it is the route to the server's address
    (`Route[Addr[s]]`). A probe goes out on `sock_arr[0]`
    (`ProbeEgress`). On a new probe record that socket is unbound, so the
    probe follows the route. On a client record the probe was coalesced
    onto, the socket keeps the binding `send2current` gave it.
  - `hung`: the daemon is stuck in `send2current`.
  - Histories used by the properties: `asked`, `delivered`,
    `answers`/`heard` per slot, and `dispatch` (the record the
    step's `send2current` call fanned out, and how many requests it sent).

  The actions are one per handler:
  - `udp_handle_request`: the local answer, or `query_add` followed by
    `send2current` and the `master_dontknow` deletion.
  - `udp_handle_reply`: `reply_recv` and the whole reply policy.
  - `query_timeout`: the `RECURSIVE TimeoutWalk` is the `for` loop with its
    `q = q->next` after a deletion.
  - `retry_srvlist(i)`: the `RECURSIVE RetryWalk`, calling `udp_send_dummy`
    for each due server.
  - `Tick`: a second passes.
  - `Lose`: a datagram is lost.

  `reply_recv` is an operator of its own. Unless the receive failed, it
  reactivates the node that `search_server` finds by the ingress interface
  and the source address (`Addr`). One upstream address may be configured
  under two interfaces. The interface filter `Matched` keeps the code's
  prefix test (`strncmp` over `strlen(query_host)`) as the constant operator
  `QueryPrefix`. The MC modules give it two forms. In `MCQueryPrefix` no
  name is a proper prefix of another. In `MCQueryPrefixShort`, `q1` is a
  prefix of `q2`, as `mail` is of `mail.example.org`.

  `send2current` is the `RECURSIVE Dispatch` over `IfaceOrder`, with
  `SendLoop` as the inner deactivation loop. Its return value
  (`SendReportsOk`) is read from the interface where the loop stopped, as the
  code does.

Abstractions:
- Time is ages. A record's `age` counts ticks since `client_time`, and it
  expires when `age > ttl` (`client_time < now - ttl`). A server's stamp is
  0 when it is active, and otherwise the ticks since deactivation plus 1.
- Questions, clients and servers are model values.
- A reply is its outcome: `ok` (RCODE 0), `fail` (nonzero RCODE), `bad`
  (`check_reply` fails) or `err` (`recvmsg` fails).
- `my_qid` is not modelled, because replies are correlated by socket. The ID
  a probe gets is a nondeterministic QID, since `query_add` overwrites the
  `dnsbuf` ID before the `++`.
- When a record is deleted its sockets are closed, so its exchanges leave
  `net`.
- `handle_query` (cache, master) and `master_dontknow` are nondeterministic
  choices.
- `allocate` is assumed to zero memory, so a new record has
  `serv_sent_cnt = 0`, `resp_sent = 0`, no cached failure and an empty
  `srv_list`, and the interface list head has `current = NULL`.

## Runs

| run | cfg | result | shows |
|-----|-----|--------|-------|
| topology | `MCTopology.cfg` | pass (480 states) | `NextActiveCorrect`: the walk equals the reference in every reachable topology. `CurrentIsActive`: `current` is never a deactivated server. The `parse_args` and `sort_interfaces` reference checks run first, as `ASSUME`s. |
| forwarder_safety | `MCForwarder.cfg` | pass (~117k states) | `ImplementsQueryService`: the engine refines the QueryService contract. That means at most one answer per record, a failure only when no success was processed, and records opened and closed as the contract allows. `SocketAccounting`: `upstream_sockets` equals the sockets the listed records hold. Both hold through fan-out, a send failure with deactivation, probes, resends, dontknow deletion, timeouts and every reply outcome. |
| forwarder_liveness | `MCForwarderLive.cfg` | pass (~79k states) | `ImplementsQueryServiceLive`: the same refinement with the contract's liveness, so every record is eventually deleted. The run has lost datagrams, a1's sends failing (so a1 is deactivated and probed), and `-M 4`, so a client record and a probe record can be live together. The interesting cases are reached: a sweep skips an expired record, a probe reply takes a probe record's `serv_sent_cnt` to -1, and a probe coalesced on a client record resets its age. |
| qid_coalescing | `MCForwarderCoalesce.cfg` | violation | `AnswerMatchesQuestion`: c2's question, coalesced on c1's record by QID, is answered to c1. |
| socket_leak | `MCForwarderLeak.cfg` | violation | `SocketAccounting`: sockets opened before a `socket()` failure stay counted. |
| socket_ceiling | `MCForwarderCeiling.cfg` | violation | `SocketsWithinMax`: the usage text says `-M N` sets the maximum number of open sockets to N. With `-M 4`, two queries with different QIDs open 3 + 3 sockets, because `query_create` tests the count once before it opens three. |
| retry_off_hang | `MCForwarderHang.cfg` | violation | `NeverHangs`: with `-r 0`, a failing `sendto` is retried forever. |
| answer_lost | `MCForwarderUnanswered.cfg` | violation | `ClientAnsweredWhenUpstreamAnswered`: a cached failure is dropped when the last reply is invalid. |
| pending_count | `MCForwarderPending.cfg` | violation | `FanoutMatchesInFlight`: `serv_sent_cnt` also counts interfaces whose `current` is NULL. |
| prefix_pinning | `MCForwarderPrefix.cfg` | violation | `RoutedAsSpecified`: with `-D e1 -H q2:e2`, a question `q1` that is a prefix of `q2` is sent through e2. Spec 4.6 pins only exact names, so it should go through the default e1. With exact names (`MCQueryPrefix`) the property holds. |
| dontknow_delete | `MCForwarderDontknow.cfg` | violation | `DispatchedNotDeleted`: the first request, sent to a1 and b1, is deleted. `send2current` reads its result from the list head after visiting every interface, and returns 0. The `master_dontknow` path then deletes the record, and returns before telling the client. |
| probe_reactivation | `MCForwarderProbe.cfg` | violation | `ReplyReactivatesSender`: b1 is a1's upstream configured again under e2, and the route to it leaves through e1. A failed send deactivates b1. Its probe, coalesced on c1's record, goes out on that record's socket 0, which is bound to e1. It is answered through e1, and `search_server` reactivates a1 instead. b1 stays deactivated. |

Each property of a passing run has a mutant in `PROJECT.json`: a plausible
bug in the mapped definition that TLC then catches.

## Bounds

The Forwarder runs use:
- two clients sharing QID 0, so coalescing happens (the liveness run has
  one client with QIDs 0 and 1, so two client records can be live);
- interface e1 with servers a1 and a2, so a failed send moves `current`;
- interface e2 with the single server b1, so fan-out reaches two servers and
  an interface's `current` can become NULL;
- `NQid = 2`, so probe IDs collide with client QIDs;
- `ForwardTimeout = RetryInterval = 1` tick, so records expire and servers
  become due within a few steps;
- `MaxSockets` 4: a first client create passes the ceiling test, and a
  second record (client or probe) can be created beside it, so the drop
  path and the sweep's skip are reached;
- `MaxRequests` 2 client datagrams (a resend needs 2);
- in the prefix run, two questions: `-H q2:e2` pins q2 to e2 and `-D e1`
  sends the rest through e1, and q1 is a prefix of q2
  (`MCQueryPrefixShort`). One client datagram is enough to reach the
  violation;
- every server has an address of its own, routed through its interface.
  The probe run gives b1 a1's address, routed through e1;
- `MaxRetries` probing passes: 2, or 1 in the liveness run. Without this
  bound a probe record's `serv_sent_cnt` goes negative without limit.

The liveness run keeps one client, one question and no `-H`/`-D` filter,
so that its temporal check finishes in about two and a half minutes. The
filters are exercised by the safety model's `ASSUME` on `parse_args` and
by the prefix run.

Every action and every disjunct of `Next` fires in the passing runs. The
exception is the `hung` branch of `Dispatched`, which only the `-r 0` run
reaches.

## Fairness

`Spec` has weak fairness on `Tick` and `query_timeout`. The main loop's
`select` has a timeout, and each pass runs the timeout sweep, so time
advances and expired records get swept. Nothing is assumed of upstreams,
clients, the network or probes. `ImplementsQueryServiceLive` therefore relies on the
timeout path alone.

## Not modelled

- DNS framing (`check.c`, `dns.c`), the QID allocator (`qid.c`), the cache
  and master file, and the main loop: these are not in this tree. They
  appear only as the nondeterministic choices described above.
- What the other options of `parse_args` set (`-a`, `-b`, `-c`, `-d`, `-i`,
  `-l`, `-B`, `-m`, `-R`, `-u`): only the cache, master file, logging or
  privilege code reads it. `-b` sets `load_balance`, which only code under
  `#if 0` reads, so the spec's per-interface round-robin does not exist in
  this tree.
- String handling in `parse_args` and `validate_interface`: copies and
  truncation to 8–10 bytes. Interface names are model values compared by
  equality, so names that agree in their first 8 or 9 bytes are not
  confused, as the code confuses them (hazard at `udp.c:102`).
  `validate_interface` is modelled over the `SIOCGIFCONF` list, which is
  empty when `socket()` or `ioctl()` fails. A `malloc` failure, after which
  the loop reads through a NULL pointer, is not modelled.
- `sort_interfaces_bk.cpp`, an earlier draft that cuts strings with `strtok`.
  It copies `group[c + strlen(tok)]`, another row, over `group[c]`. Its
  result depends on byte layout a model would have to spell out character
  by character.
- The source port's random choice and `is_port_excluded`. They change no
  control state. A `-x` value outside 0..65535 is truncated by `htons` and
  excludes another port. The port loop would spin only with all 64510 ports
  excluded.
- The 5-slot `matched_intf` array (`udp.c:48`, `133`). `Matched` is a
  set with no capacity. It takes six `-H` entries whose host names start
  with the question to write past the array.
- A client resend fanned out again. The run that showed it was replaced by
  `prefix_pinning`. On a resend, `query_add` returns the live record and
  `send2current` runs on it again. This is dnrd's retransmission to the
  upstreams, while spec 8 asks for one fan-out per record. The passing runs
  include resends, and `ImplementsQueryService` holds through them.
- Descriptor numbers. `FD_SET` (`query.c:162`) is not checked against
  `FD_SETSIZE`. The model counts sockets, not the numbers the kernel
  gives them.
- `sort()` in `infnode.c` (server grouping by IP). Nothing calls it, and
  nothing reads what it writes. Its `is_duplicate` loops to `current_index`,
  which is never assigned.
- A violation run for the `query_timeout` skip itself, against spec 4.4.
  The project keeps at most twelve runs. `TimeoutWalk` models the skip,
  and in the liveness run's bounds, where the skip happens, every skipped
  record is deleted by a later sweep.
- Recovery of an interface whose `current` became NULL.
  `deactivate_current` sets it to NULL when no server is active, and
  nothing in this tree sets it again: `reply_recv` and `udp_handle_reply`
  clear `inactive` only, and `reactivate_srvlist` is never called here.
  The main loop, which is not in this tree, may do it. So no property
  claims the interface stays unused.
- The initial `current` of each interface (`TopoInit`, `Init`): the code
  that sets it is not in this tree, and the model takes the first server
  of each ring.
- `get_interface_name` failing (`if_indextoname`): the kernel always
  attaches `IP_PKTINFO` to these sockets, so the model takes the ingress
  interface as known.
- `send_time`, `send_count` and round-robin: they are set but never read
  by the code in this tree.

## Open items

- `handle_query` (not in this tree) chooses `inf_ptr`, and `query_get_new`
  asserts `inf_ptr->current != NULL`. If it can return a stranded interface,
  the daemon aborts. A model of `handle_query`'s choice would let a property
  state this.
