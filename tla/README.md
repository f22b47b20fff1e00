# Verification of tracker-enhanced in TLA+

tracker-enhanced (an extended *aquatic*) is a set of BitTorrent trackers — UDP,
HTTP and WebTorrent — that share a layer of ban lists and request filters. This
directory holds TLA+ models of its concurrent core, TLC configurations that
check them on small instances, and TLAPS proofs of the properties that matter
most. Paths below are relative to `src/crates/`.

## 1. Inventory

### Processes

Every tracker is one process of several threads:

| thread | code | touches |
|---|---|---|
| socket workers | `udp/src/workers/socket`, `http/src/workers/socket`, `ws/src/workers/socket` | ban lists, auto-ban tracker, access list, swarms |
| swarm workers (HTTP, WebTorrent) | `http/src/workers/swarm`, `ws/src/workers/swarm` | their own torrents |
| cleaning thread (UDP) | `udp/src/lib.rs` 223-245 | all torrents |
| auto-ban-flush | `udp/src/lib.rs` 133-190 and its copies in `http`, `ws` | auto-ban tracker, both ban files, IP ban list |
| signals | `udp/src/lib.rs` 281-308 | access list (SIGUSR1), IP and client ban lists (SIGUSR2) |
| statistics (UDP) | `udp/src/workers/statistics` | counters and the count per peer id |

The UDP tracker shares memory behind locks. In HTTP and WebTorrent the socket
workers talk to the swarm workers through channels. Any thread that ends or
panics ends the process, so a panic under a lock is a crash of the tracker.

### Components, state, operations, what makes them correct

| component | state | operations | correct when |
|---|---|---|---|
| auto-ban tracker `common/src/auto_ban.rs` | one `IpRecord` per offender, record limit, two files | `record_violation`, `is_auto_banned`, `persist_ip`, `persist_client_ban`, `flush_to_file`, `remove_ips`, `cleanup`, `load_client_bans`, `cleanup_client_bans` | a ban in force stays in force, is on disk when reported, is never in neither place; the map is bounded |
| IP ban list `common/src/ip_ban.rs` | ArcSwap'd set of addresses and networks | reload, lookup | the list a request sees is never older than what has been handed over to it |
| UDP swarm `udp/src/swarm.rs` | shards of torrents, peer maps in two variants | announce, scrape, clean | counts are exact; peers and torrents disappear when, and only when, they should |
| client statistics `udp/src/workers/statistics` | count per peer id | `PeerAdded`, `PeerRemoved` | the count is the number of stored peers with that id |
| access list `common/src/access_list.rs` | ArcSwap'd set of info hashes | reload, lookup | forbidden torrents are neither served nor kept |
| WebTorrent swarm `ws/src/workers/swarm` | peers owned by connections, offers waiting for answers | announce, scrape, ConnectionClosed, clean | only the owner changes a peer; an answer reaches the peer that made the offer |
| WebTorrent connection `ws/src/workers/socket` | connection handles, announced info hashes, pending scrapes | read, write, clean up, time out | every accepted request is answered; nothing stays after a close |
| HTTP swarm and connection `http/src/workers` | torrents; one request at a time per connection | announce, scrape, keep-alive, time out | as above |
| UDP socket workers `udp/src/workers/socket` | validator clock, resend buffer, io_uring buffers | receive, handle, send, resend | a connection id is accepted while valid, and only then; buffers are neither lost nor shared |
| identity and filters `common/src/client_ban.rs`, `request_filter.rs`, `trusted_proxies.rs` | lists | pure decisions | agree with their documented tables |
| start and end `*/src/lib.rs`, `common/src/privileges.rs` | threads, barrier | check, spawn, bind, drop, join | privileges are dropped after the last bind and before anything is served; any thread that ends, ends the process |

### What is hard here

* Two sources of bans (memory and file list) and a hand-over between them while
  requests consult one after the other.
* File appends from several threads, torn writes, crashes between any two steps.
* Reads followed by stores (list reload, client ban rewrite) without a common lock.
* Arcs of torrents used after the shard lock is released.
* A cached seeder count that has to survive two representations of a map, and a
  sample of two halves of a map that must not overlap or underflow.
* Limits: record map, small peer map, channels, resend buffer, scrape slab, send
  and receive buffers shared with the kernel.
* WebTorrent: two channels between the same workers, so a close may overtake a
  request; ids that are unique per worker only; scrapes whose parts return in any
  order under a recycled id.
* HTTP: a task that sends to several workers before it reads the first answer,
  and may be cancelled at any await.
* UDP: source addresses nobody verified, ids judged by another worker's clock.
* A barrier that counts sockets while threads own several.

`PROJECT.json` lists the hazards at their lines with the properties that cover
them. Three have none, and say why.

## 2. Modules

| module | models |
|---|---|
| `AutoBanPolicy` | the decisions on one `IpRecord`: tiers, durations, jitter, escalation, windows, pruning |
| `AutoBan` | the tracker, its two files, the IP ban list, socket workers, flush thread, signal thread, crashes |
| `PeerMap` | the UDP peer map of one torrent as operators on a record |
| `UdpSwarm` | a shard of torrents, workers that announce, the cleaning thread, access list reloads, client counts |
| `UdpSocket` | socket workers on mio: connection ids, checks, answers, resend buffer |
| `UdpUring` | a socket worker on io_uring and the kernel at the other end of its rings |
| `Swarm` | abstract: who is in a swarm, and what announces and scrapes are told |
| `HttpSwarm` | storage and handlers of an HTTP swarm worker; implements `Swarm` |
| `RequestChecks` | decisions shared by HTTP and WebTorrent: client address behind proxies, filters, client bans, identity checks, access list modes |
| `HttpTracker` | connection tasks, cleaning timer, channels and swarm workers of the HTTP tracker; extends `RequestChecks` |
| `WsConnection` | connection tasks of a WebTorrent socket worker, pending scrapes, messages to swarm workers and back; extends `RequestChecks` |
| `WsSwarm` | the announce path of the WebTorrent tracker: connections, the two channels to the swarm worker, peers, offers and answers of one torrent |
| `Startup` | the run functions, the threads they spawn, sockets, privilege dropping |
| `MC*` | constants for the runs |
| `AutoBanProofs`, `UdpSwarmProofs`, `UdpSocketProofs`, `HttpSwarmProofs`, `HttpTrackerProofs`, `WsSwarmProofs`, `UdpUringProofs`, `WsConnectionProofs` | theorems |

How they fit together: socket workers (`UdpSocket`, `UdpUring`, `HttpTracker`,
`WsConnection`) decide on requests and pass them to storages (`UdpSwarm`,
`HttpSwarm`, `WsSwarm`). `HttpTracker` and `WsConnection` include the swarm
workers as far as waiting and answering goes; `WsSwarm` includes the connections
as far as announces go; `AutoBan` includes the workers of all three trackers as
far as bans go. Each socket module treats the auto-ban tracker as a set of
barred addresses that may grow after an offence; that this set behaves is the
subject of `AutoBan`.

### AutoBan

`records`, `max_records`, `last_capacity_cleanup` and `last_client_cleanup` are
`AutoBanInner`; `write_lock` is the mutex of the same name. `ban_file` is the set
of addresses on complete lines of `auto_ban.ban_list_path` and `tail_newline`
whether the file ends with a newline; `client_file` is the set of
(address, expiry) lines of the client ban file. `ip_ban_list` is the list that
requests consult.

A step is one critical section or one file operation:

* a worker: `Arrive`, `Lookup` twice (the order is `check_order`: HTTP asks the
  tracker first, UDP and WebTorrent the list), then `Serve` or
  `record_violation`, which is one action because it holds the write lock of
  `inner` throughout. A permanent ban continues with `persist_ip`
  (`PersistLock`, `PersistAppend` or `PersistFail`, `PersistMark`, `Return`), a
  temporary client ban with `persist_client_ban` (`ClientExpiry`,
  `ClientAppend` or `ClientAppendFail`);
* the flush thread, one loop iteration: `maybe_cleanup_client_bans` (up to the
  read), `CleanupRename`, `FlushSnapshot`, `FlushLock`, `FlushWrite`,
  `FlushMark`, `ReloadRead`, `ReloadStore`, `remove_ips`, `cleanup`, with
  `CleanupRenameFail`, `FlushFail` and `ReloadFail` for the error returns;
* the signal thread: `SignalRead`, `SignalStore`;
* `Crash`: memory is lost, lines being written may be torn, startup reads both
  files (`load_client_bans`).

Abstractions. Instants and unix time are one clock of seconds. Log-only state is
left out; so is the branch that logs the hard cap, which assigns
`last_capacity_cleanup` only if a minute has passed since it was set, while the
cleanup above has just set it or found it less than a second old. A torn line
counts as no address, and a client line cut short leaves the parsed content as
it was. The files exist and are not edited by hand; both paths are configured, as
`validate_auto_ban_config` demands for permanent bans, and `ip_ban.mode` is on.
The ban file is a set, so a duplicate line is visible only through
`AppendNotStale`. A lookup of the list by network is a lookup by address.
SIGUSR2 also reloads the client ban list, which is not modelled.

### PeerMap and UdpSwarm

A map is `[large, peers, num_seeders, completed_count]`. `announce` composes the
steps of `PeerMap::announce` in their order: count the completed event, remove
the announcing peer, change the representation, insert. `clean` is
`clean_and_get_num_peers` with `try_shrink`.

`shard` maps info hashes to objects (`Arc<TorrentData>`), `data` and
`pending_removal` are the objects' fields. An announce is `Receive` (access list
check), `FindTorrent` or `CreateTorrent` (shard lock), `Announce` (torrent
lock). The cleaning thread is `CleanStart`, `CleanTorrent` per torrent,
`ScanDone`, `Retain`, then `SendRemoval` per `PeerRemoved` message, which those of
the workers may come between, and `CleanDone`.

Abstractions. One shard of one address family: shards are independent. The order
of entries and the choice of response peers are left out (`HttpSwarm` models
them), so scrapes and announce responses appear only through the numbers they
report.
`CreateTorrent` waits while the cleaning thread reads the shard, because the
upgrade of the lock does. Unlinking is one action under the shard's write lock,
and reads the access list once, where the code reads it per torrent. The
statistics channel is unbounded and FIFO, so a message takes effect when it is
sent; `MaxClients` bounds a count, as announces into unlinked torrents let it grow
without end. A worker's clock, which the code refreshes periodically, is exact here.
Peer ids per address are given by `PeerIdsOf`; an address may change its id.

### WsSwarm

`announced` is `announced_info_hashes` of a connection for the torrent,
`sending` the request its reader is about to queue, `in_channel` and
`control_channel` the two channels of a socket worker, `peers` and `num_seeders`
the `TorrentData`. A connection's steps are `Open`, `ReceiveAnnounce` (checks
and bookkeeping up to the `await`), `SendAnnounce` and `Close`, which drops the
reader wherever it is and sends what `after_close` sends. The swarm worker's are
`HandleAnnounce` (the peer is stored, then offers, then the answer),
`HandleConnectionClosed` and `clean`. `out_messages` holds the offers, answers
and errors of the last step, `awaited` the offers passed on and not answered
yet, by connection id and peer id of the offerer; it is a history variable.

Abstractions. One torrent of one address family: torrents do not interact, and
each belongs to one swarm worker. Deadlines are seconds left, so that time never
ends and liveness can be stated. A connection may close at any time, which
covers a client that leaves, a failed or slow write, a second peer id and
`clean_connections`. The choice of the peers that receive offers is arbitrary.
Messages on their way back to a client may be dropped by the code, and nothing
here depends on them, so that way is left out, and with it announce responses;
`WsConnection` models it.

### UdpSocket

`seconds_since_start` is the cached clock of a worker's `ConnectionValidator`,
`resend_buffer` its buffers per socket, `known` the ids that reached an address.
A datagram has a source and a true sender, who are the same only if nobody
spoofs. `Receive` is one datagram through `read_and_handle_requests`,
`handle_request` and `send_response`; `EndIteration` is the end of the loop of
`run`: the clock every `ElapsedUpdatePeriod` iterations, then `resend_failed`.

Abstractions. The keyed hash is injective and cannot be guessed. `MaxLag` is how
far a cached clock may fall behind; it is an assumption, the one the validator
states for its callers ("update_elapsed must be called at least once a minute").
The mio loop keeps it with the default settings; a `poll_timeout_ms` above about
234 (256 iterations of it exceed 60 s) would break it for an idle worker. Parse
failures, the swarm's answer and the ban list are opaque.

### UdpUring

`buffers` and `likely_next_free_index` are `SendBuffers`; `buf_ring`,
`local_tail` and the kernel's `head` are the buffer ring; `sq` and `cq` the two
queues. The worker's steps follow `run_inner`: push what is to be resubmitted,
enqueue responses, submit and wait, reap one completion at a time, reset the
index. A turn of the loop over `sq_space` pops a response and finds it a buffer
(`EnqueueResponse`), pops one that does not fit and discards it
(`SerializationFailed`: the turn is spent and the buffer stays free), or finds no
free buffer and puts the response back (`push_front` in `Submit`). The kernel (external) finishes sends in any order, ends a multishot
receive with any completion, and reports a lack of buffers.

Abstractions. What a request is answered is decided as in `UdpSocket`; whether
the bytes fit into `RESPONSE_BUF_LEN` is a choice per response. The tail wraps at `TailModulus`, 2^16 in the code. The assumption that the ring has room
for every receive and the timeout is needed: with a smaller `ring_size` the first
push panics.

### HttpSwarm and Swarm

`torrents` holds the maps of both families in their two variants, `peer_gauge`
the metric, `peer_valid_until` the deadline that a timer refreshes. An answer is
computed for every order in which a map may hold its keys and every outcome of
the random generator. A cleaning has no await, so no request comes between its
steps, but it loads the access list anew for every torrent of either family, and
the signal thread may store another list in between: `clean` starts it, `retain`
visits one torrent, `update_access_list` comes at any time. The clock is read
once per cleaning, so `Tick` waits for its end. The families are cleaned in any
order here, IPv4 first in the code. Deadlines are seconds left.

`Swarm` knows roles and download counts only. Its `Announce` promises distinct
other peers of the same family, all of them if they fit, and counts without the
announcing peer. The refinement mapping reads the role of a peer from its map
(`RoleOf`).

### RequestChecks, HttpTracker

`phase` is where a connection's task is; `handles`, `valid_until`, `close_sent`
are `ConnectionHandle`. A step runs from one await to the next: `TakeRequest`
reaches from the parsed request to the first send, `Send` to each consumer,
`Receive` per answer, `Written`. `Inactive` is the race in `handle_connection`
that the close channel wins, at any await. A swarm worker's task takes a request
and waits until the connection has connected its end of the response channel, or
has dropped it (glommio's `shared_channel`, external): this is what could make
workers and connections wait for one another.

Abstractions. Requests are classes: kind, torrents, and how their URI, user agent
and peer id fare in the lists; a malformed one cannot be framed. `X-Forwarded-For`
is a sequence of addresses, to which an honest proxy appends.

### WsConnection

A connection is a reader and a writer that race one another and the close
channel; `slab` is `pending_scrape_slab`, `inbox` the local channel that drops
when full, `out` the messages of swarm workers under way, `grace` is
`valid_until_after_tls_update`. `number` in a part is a ghost: the scrape it
belongs to.

`Parts` is the order of the B-tree `info_hashes_by_worker`: swarm workers are
numbers, and a scrape is sent to them in ascending order, to each once.

Abstractions. Swarm workers answer without storing. `PendingScrapeIds` is one
byte in the code, two values in the run and any finite set in the proofs.
Handshakes succeed or fail.

### Startup

`Check`, `Spawn` in the code's order, `Spawned`, `Join` are the main thread.
`CreateSocket*` is the creation of one socket with `after_socket_creation`, whose
barrier is `arrived`; `DropPrivileges` is the leader.

## 3. Runs

Every run finishes within three minutes with two workers.

| run | shows | bounds |
|---|---|---|
| `AutoBanHandover` | persistence and hand-over are safe: `PersistedIsOnDisk`, `AppendNotStale`, `DurableOnReturn`, `NoGap`, `BarredNotServed`, `BanStaysInForce` | two workers, two addresses, permanent bans only, two crashes, two I/O failures; no time passes. Two addresses allow one to be glued to the other's torn line and one to be flushed while the other is persisted |
| `AutoBanPolicy` | `NoOffenderLeftUnbanned`, `BanStaysInForce`, `RecordsBounded` | one worker, two addresses, seconds 0 to 2, windows, bans and decay of one to three seconds so that each boundary is met exactly; record limit one, growing to two; jitter larger than the duration; one crash that restores client bans |
| `AutoBanLiveness` | `EveryBanHandedOver` under `FairSpec` | one worker, two addresses, permanent and client bans, two I/O failures, SIGUSR2 at any time. The property is stated for runs without SIGUSR2 and runs where it keeps coming (`LastReloadNotStale`): after a last, stale reload a ban may be in the file only |
| `UdpSwarmCounts` | `CountsExact`, `SmallMapFits`, `ClientsNeverUndercounted` | one worker and the cleaning thread, three peers with two ids each may use and change, small maps of one peer: small, large, and large that does not shrink are reached; two torrent objects, so that an announce can reach an unlinked one; seconds 0 and 1 with a peer age of 1, so fresh and expired peers mix; counts up to two per id |
| `UdpSwarmCleaning` | `NonEmptyTorrentKept`, `ExpiredPeerDropped`, `EmptyTorrentUnlinked` under `FairSpec` | one worker against the cleaning thread, two torrent objects so that a torrent can be unlinked and created again, one access list change |
| `UdpSocket` | `OnlySendersBlamed`, `StaleIdRefused`, `FreshIdAccepted`, `AnswersWithinRequests` | two workers whose clocks differ, three addresses (IPv4, IPv6, private), ids of age 2, seconds 0 to 3, three datagrams, a resend buffer of one |
| `UdpUring` | `SendsWhatWasQueued`, `BufferIdsConserved`, `EverythingDrained` under `FairSpec` | a ring of two entries, tail modulo 4, three datagrams, responses that fit and that do not: buffers run out, slots are reused and the tail wraps |
| `HttpSwarm` | `EveryAnnounceAnswered`, `PeerGaugeExact`, `LivePeerKept`, `ImplementsSwarm` | four peers of one family and one of the other, small maps of two, limits of one and two: sampled maps of two and of three peers (the announcing one is removed first), so an odd and an even length meet an odd and an even limit. One torrent: sums over several are left to the proof. The view leaves out the last answer, which decides no step |
| `HttpTracker` | `NeverForgedAddress`, `NoStall`, `AnswerComplete`, `HandlesMatchTasks`, `RefusedConnectionEnds` under `FairSpec` | two connections, one direct and one through a proxy, two swarm workers, three torrents (two of one worker), channels of one request, one reload, two configurations |
| `WsSwarm` | `SeedersExact`, `OnePeerPerConnection`, `AnswerOnceToOfferer`, `GhostPeersLeave` under `FairSpec` | two connections of one socket worker, the second may use the first one's peer id or its own; one offer; ages of one second; a channel of one request, so that a reader waits; one access list change. Two connections suffice for a conflict over an id, for an exchange of offer and answer, and for a close that overtakes a request |
| `WsConnection` | `PartsMeetTheirScrape`, `ScrapesAnswered`, `OldCertificateEnds`, `SilentConnectionEnds` under `FairSpec` | one connection, with and without a limit on idleness, two swarm workers, three torrents, two slab ids, two messages, one foreign offer, channels of one, one certificate change; connections share nothing but the channels to swarm workers, which the other messages fill |
| `Startup` | violation of `PrivilegesDropped` | up to two workers, every combination of service, families and options |

`Startup` documents a disagreement of code and documentation (`findings` in
`PROJECT.json`): with `drop_privileges` and both address families, the UDP and
HTTP trackers never get past the barrier, because each worker's thread waits
after its first socket for arrivals that it would have to make itself. With one
family, or in the WebTorrent tracker, the option works. On the same instance
(51,038 states) TLC confirms that no socket is ever bound after the drop
(`NoLateBind`).

### Known divergences

The following were found with TLC as violations of definitions that are kept in
the modules; adding one as an INVARIANT or PROPERTY to the named configuration
shows the behaviour again.

* `BarredNotServed` with `check_order <- ListFirst` (AutoBanHandover): the UDP and
  WebTorrent trackers ask the list before the auto-ban tracker; a request can slip
  through a hand-over between its two lookups. `auto_ban.rs:1212` promises "no gap
  between auto_ban memory and ip_ban_list".
* `HistoryKeptUntilDecay` (AutoBanPolicy): `cleanup` forgets offences as soon as
  ban and window are over, although `auto_ban.rs:240` says they are "kept across
  ban expiry so that a repeat offender can be escalated".
* `ClientBansKeptOnDisk` (AutoBanPolicy): a client ban appended
  between the read and the rename of the rewrite is lost from disk;
  `auto_ban.rs:829` says it survives a restart.
* `GrowsInsteadOfDropping` (AutoBanPolicy): the violation that makes the record
  limit grow is itself dropped, since the limit was copied before;
  `auto_ban.rs:671` says "Auto-grow instead of dropping violations".
* `HeldTorrentStaysLinked` (UdpSwarmCleaning): a torrent created just before a scan
  can be unlinked while an announce holds it, and its first peer is lost until
  the next announce; the comment at `swarm.rs:312` excludes it.
* `PeerLeavesByOwner` (WsSwarm): a connection whose announce was ignored, because
  another one owns the peer id, still removes the owner's peer when it closes.

### What limits the claims

* `NoGap` and `BanStaysInForce` need `reload_signals = FALSE`: a SIGUSR2 reload
  that read the file before a flush may store its list after `remove_ips`, and the
  flushed addresses are then in neither source until the next reload.
* Client counts of the UDP tracker are not exact, and `ClientsNeverUndercounted`
  does not say so. They drift upwards: a torrent that the access list forbids is
  unlinked with its peers and without a message (`swarm.rs:305`), a peer that is
  announced into an unlinked torrent is counted and stored nowhere that lasts, and
  a removal of an id that is not counted is ignored. And they drift between ids,
  since an announce that changes the id under a key sends nothing. What holds is
  that the total never falls below the number of stored peers.
* After the last SIGUSR2 reload `EveryBanHandedOver` may fail: the reload may have
  read the file before a flush, and no later one repairs the list until a ban is
  flushed or a signal comes.
* A response larger than 2048 bytes is logged and discarded by the io_uring worker
  (`uring/mod.rs:303`). `lib.rs:52` means to reject such configurations ("Reject a
  peer/scrape count that cannot fit instead of erroring per request") but compares
  with the 8192 bytes of the mio worker, so up to 450 peers pass, of which 112 fit
  for IPv6. `EverythingDrained` promises only responses that fit.
* The remainder of a torn line could itself be a valid, different address
  (`auto_ban.rs:303`); lines are abstracted to addresses.
* Client bans count as offences although `ban_kind` keeps them out of the ladder
  (`auto_ban.rs:487`); a later heuristic offence starts on a higher step. No line
  promises otherwise.
* `StaleIdRefused` allows the lag of one clock beyond `max_connection_age`: the
  code does not give the strict bound.
* Private addresses can never obtain a connection id over UDP, so `PrivateIp`
  violations are recorded by the other trackers only.
* `local_responses` of the io_uring worker is unbounded in the code; here it is
  bounded by the datagrams.
* A WebTorrent scrape of an empty list is never answered and keeps its slab id;
  `ScrapesAnswered` excludes it. After 256 of them the connection is closed.
* A proxy that was not on the list when it connected is taken for the client, as
  the code logs. `NeverForgedAddress` therefore allows proxies' own addresses. A
  trusted proxy is assumed to append the address of the client it serves.

### Fairness

* `AutoBan`: weak fairness of a worker that is inside `persist_ip` or
  `persist_client_ban` (nothing there waits except for `write_lock`, which is held
  for one file operation) and of the flush loop, which is never left. Failures are
  bounded by `MaxFailures`, so a retry eventually succeeds; nothing is assumed of
  requests, signals, time or crashes.
* `UdpSwarm`: the cleaning loop only.
* `WsSwarm`: the swarm worker's streams (each is a task that only waits for its
  channel), its cleaning timer, and time. Nothing is assumed of connections.
* `HttpTracker`: the cleaning timer, time, and that a task that was told to close
  is polled. Nothing of clients, swarm workers or the network.
* `WsConnection`: the steps of a connection's task that wait for nobody outside,
  the swarm workers, the cleaning timer and time. Nothing of the peer, which may
  stop in the middle of a handshake.
* `UdpUring`: the loop, and a kernel that completes what it was given.
* `Startup`: the main thread, which polls, and socket workers that are not waiting.

## 4. Proofs

TLAPS proves, for every value of the constants that satisfies the named
assumptions (`ConfigAssumption`: what `validate_auto_ban_config` accepts;
`TrackerAssumption`, `PeerMapAssumption`, `SwarmAssumption`,
`RequestAssumption`, `WsAssumption`, `HttpSwarmAssumption`,
`HttpAssumption`, `UdpUringAssumption`, `WsConnectionAssumption`,
`UdpSocketAssumption`: distinct markers, finite sets, types, a ring size that is a
power of two and, for the last one, the bound on the lag of clocks):

`AutoBanProofs`

* `TypeCorrect`. The core is that `client_ban_secs` is never negative and that
  every operation on a record yields a record.
* `PersistedBansOnDisk`, `AppendsNeverStale`, `BansDurableOnReturn` follow from
  the inductive invariant `DiskInv`. `PersistedIsOnDisk` alone is not inductive:
  one has to know that `write_lock` is held between a recheck and its unlock
  (`LockDiscipline`), what a worker inside `persist_ip` knows of its address
  (`WorkerInv`), and that the addresses the flush thread reports stay permanent
  and are all marked before the reload (`FlushInv`).
* `HandoverLeavesNoGap`, `BansStayInForce`, without SIGUSR2, from `ListInv`: the
  list only grows towards the file, the list that has been read contains what
  will be removed, and only what the stored list holds is removed.
* `BarredNeverServed`, without SIGUSR2 and with the tracker asked first, from
  `BarredInv`: a barred address that passed the tracker is in the list.
* `OffendersBanned` and `MapBounded`, each inductive relative to the types.

`UdpSwarmProofs`

* `SwarmTypeCorrect`, `SwarmCountsExact`, `SwarmSmallMapFits` from `SwarmInv`:
  every object holds a valid map (`Valid`: typed, the cached count is the number
  of seeders, a small map fits), which each operator of `PeerMap` preserves
  (`RemoveValid`, `InsertValid`, `ResizeValid`, `AnnounceValid`, `CleanValid`).
* `SwarmCompletedKept` and `SwarmNonEmptyKept` as action properties from the
  same invariant.
* `SwarmClientsCounted` from `ClientInv`, the same inequality over the peers of all
  objects, linked or not: unlinking a torrent then changes nothing, and each other
  step changes the total of the counts by no less than the stored peers and the
  messages under way together (`AnnounceClients`, `CleanClients`, `SendClients`),
  whatever the ids.

`WsSwarmProofs`

* `WsTypeCorrect`, `WsSeedersExact`, together inductive. The lemmas say what
  `insert_or_update_peer` does to the set of seeders (`SeedersUpdated`), that
  offers and answers do not touch it (`ExpectingOnly`), and that receivers are
  stored peers, at most one per offer (`ReceiversType`).
* `WsOnePeerPerConnection` from `OwnerInv`. A stop or a close that is still in a
  channel would have to be reckoned with, so the invariant is about the whole line
  of a connection (`LineOk`): what stores a peer, now or when its request is
  handled, is followed by its removal before any request with another id.
* `WsAnswerOnceToOfferer` as an action property: what a stored peer awaits was
  passed on for it and the id of its connection, and not answered yet (`AwaitOk`).
  A peer that is updated through a connection of equal id keeps its own.

`UdpSocketProofs`

* `SocketTypeCorrect`, `SocketStaleIdRefused`, `SocketFreshIdAccepted`,
  `SocketOnlySendersBlamed`, `SocketAnswersWithinRequests` from one invariant. It
  adds to the last two properties that cached clocks lag by at most `MaxLag` and
  never lead (`ClocksLag`), that an id known to an address was made for it within
  the lag of its creation (`IdsGood`), and that a buffered response carries such
  an id for its own receiver (`BuffersGood`): an id that is delivered late, by a
  resend, must be as good as one delivered at once.

`HttpSwarmProofs`

* `HttpSwarmTypeCorrect`, `HttpSwarmSmallMapFits`, `HttpSwarmPeerGaugeExact` from
  `SwarmInv`: every torrent is valid (typed, filed under its family, the cached
  count exact, a small map fits), the gauge is exact, a torrent that a cleaning has
  yet to visit is stored (`UnvisitedStored`), and the sum so far is the number of
  peers of the torrents visited (`TotalExact`). Cardinalities of the
  stored peers of a family are followed through one inserted or removed pair.
* `HttpSwarmEveryAnnounceAnswered`: the bounds of both halves are not negative for
  every size above the limit, and a set has an order.
* `HttpSwarmLivePeerKept` as an action property.
* `HttpSwarmImplementsSwarm`: `Spec => Abstract!Spec`. Initial states map to
  initial states; an announce maps to `Announce`, where the two halves of a large
  map are shown to be disjoint and in bounds, so that the peers of an answer are
  distinct and as many as promised; scrapes, cleaning and time to theirs.

`HttpTrackerProofs`

* `HttpNeverForgedAddress` from `AddressInv`: a connection trusts headers only of a
  proxy, and the last entry of such a header that is no trusted proxy is the one
  the proxy appended, whatever is left of it.
* `HttpHandlesMatchTasks` from `HandleInv`: a task that does not run has not been
  told to end.
* `HttpAnswerComplete` and `HttpNoStall` from `ExchangeInv`: with each swarm worker
  it concerns, a request is at exactly one place (not sent yet, in the channel,
  being answered, answered, or taken), and a worker it has been sent to has a
  smaller number than those it is still to be sent to. When all answers are taken
  nothing is outstanding. If everything waited, the worker with the greatest number
  among those that hold an answer would wait for a connection that itself waits for
  room at a worker of a greater number, whose channel is full and which therefore
  holds an answer too.
* `HttpTypeCorrect`. The lemmas on finite sets of integers (`GreatestElement`,
  `AscendingEnumeration`) are proved by a least counterexample in place of an
  induction; `ConsumersListed` says what the CHOOSE of `Consumers` yields.

`UdpUringProofs`

* `UringTypeCorrect`.
* `UringSendsWhatWasQueued` from `SendInv`. The property counts; a count is not
  inductive. The invariant says that entries of the submission queue, sends with
  the kernel and completions in the queue name disjoint sets of buffers, each
  buffer once, and that together they name the buffers that are not free
  (`Busy`). The counts follow, as the queues' indices are injective.
* `UringBufferIdsConserved` from `RingInv`, in the same way: positions of the ring
  and completions hold disjoint sets of bids, each bid once, and together all of
  them. `SlotsDiffer` is the arithmetic: positions less than a ring size apart
  have different slots, also across the wrapping of the tail, because the ring
  size divides its modulus.

`WsConnectionProofs`

* `WsConnectionTypes`, where a part or a response of a scrape has an id of the
  slab.
* `WsPartsMeetTheirScrape` from `ScrapeInv`. The property alone is not inductive:
  when the writer takes a part, the entry is counted down, so the parts on their
  way have to become fewer too. Therefore the part that a swarm worker has in a
  scrape is at one place at most (`Once`: with the reader, in the request channel,
  among the responses, or in the local channel), requests and responses are with
  whom they are for (`RightPlace`), and no entry has a number that has not been
  sent, so that a new scrape starts with nothing on its way. Every step but two
  moves or loses parts (`Moved`), which keeps all this (`ScrapeKept`); the two are
  the scrape that fills an entry (`SlabScraped`) and the writer that counts it
  down (`SlabTaken`). A connection that has ended needs no slab.

The strengthened invariants were first checked with TLC on the instances above.

Model-checked only: the liveness properties (`EveryBanHandedOver`,
`ExpiredPeerDropped`, `EmptyTorrentUnlinked`, `GhostPeersLeave`,
`RefusedConnectionEnds`, `ScrapesAnswered`, `OldCertificateEnds`,
`SilentConnectionEnds`, `EverythingDrained`), which need fairness and are out of the prover's reach.
Every safety property that a run shows to hold, invariant or action property, is
also a theorem. `PrivilegesDropped` does not hold (section 3).

No theorem has a hypothesis beside the assumptions, except that the three on the
hand-over of bans are without SIGUSR2 and, for `BarredNeverServed`, with the
tracker asked first.

## 5. Not modelled

* Parsing and writing of the three protocols, list files and configuration; the
  pattern lists of filters and client bans; CIDR matching: data, not control, and
  covered by unit tests of the repository.
* CPU pinning, metrics endpoints, histograms and HTML output: no effect on
  requests.
* Load testers and the bencher: tools around the trackers.
* WebTorrent connections of two socket workers with equal ids
  (`ws/src/workers/swarm/storage.rs:167`) are in the module and in the proofs, not
  in the run.
* A SIGUSR1 that reads the certificate and key files of the WebTorrent tracker
  while they are being replaced: both are read in one call here.

## 6. What could follow

An abstract ban store that `AutoBan` implements; `UdpSwarm` as an implementation
of `Swarm` with a torrent per object; `WsConnection` with `WsSwarm` in the place
of its swarm workers.
