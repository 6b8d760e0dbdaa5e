# Verification of blockchain-vpn

TLA+ models of the VPN's own logic, the TLC configurations that check them on
small instances, and proofs, checked by TLAPS, of the properties that matter
most for every value of the constants. `PROJECT.json` lists the components, the
runs, the mutants (for every property a plausible bug that breaks it), the
source lines behind every definition, the hazards and the theorems.

    tlc -workers 2 -config MCTunServer.cfg MCTunServer.tla
    tlapm TunnelProofs.tla

## 1. Inventory

The system is a VPN whose peers are wallets. A web application keeps users,
devices, their Noise public keys and a hash-linked log of membership events in
postgres. A tunnel server admits the peers whose keys are in that database and
routes inner packets between them and the internet. On each device a control
plane (Linux), a Windows service or an Android service supervises a tunnel
client. An older path of keep-alive messages has a server, a worker and a
one-shot client of its own.

| Component | State | Operations | What is hard | What makes it correct | Modules |
|---|---|---|---|---|---|
| Noise session (`noise/api.go`) | send counter, `recvLast`, 64-bit window | Encrypt, Decrypt | loss, duplication, reordering; a failure after the window was changed | at most once delivery, reordering tolerance | `ReplayWindow` |
| Noise IK (`noise/noise_ik.go`, `api.go`) | symmetric, cipher and handshake state | the four messages | a read that fails half-way advances the message counter all the same | both ends agree on names and keys | `NoiseIK`, `Handshake` |
| Session table (`sessman/manager.go`) | entries, three indexes | Put, BindTunIP, Remove, lookups | entries used outside the lock; fields that outlive the index | the indexes agree, no dead routes | `SessionTable` |
| Tunnel server (`cmd/tun-server`) | the table, the allowlist snapshot, two loops | msg A, transport frame, TUN packet, refresh, restart | two goroutines and a handshake of three critical sections | one session per peer, packets sealed for their owner, replies routed | `TunServer` |
| Tunnel client (`cmd/tun-client`) | its session; routes of the host | one handshake, two loops, exit; set-up and clean-up of routes | late and repeated messages, server restart; kills at every step, a host that moves | heard until it moves, hands over or the server restarts; no loop, nothing left unexplained | `Tunnel`, `ClientRoutes` |
| Allowlist (`peers/pg.go`, `peers/file.go`) | a snapshot | Refresh | staleness | | `TunServer` |
| Server keystore (`keystore/server.go`) | two files | load or create, publish | a crash or an error at each write | the public key that was given out is the server's | `Handshake` |
| Leases (`daemon.js`) | table in a file | allocate, release | text against address, torn writes, several daemons | an address has one holder, but for spellings of it | `Leases` |
| Control plane (`daemon.js`) | `active`, state file, child process | connect, disconnect, status, exit and error events | awaits, late events, restart, pids that others get | one tunnel, known to the daemon, for callers that take turns | `ControlPlane` |
| Noise pairing (`noiseIdentityService.js`) | `users`, `devices`, the chain | bind, unbind | five queries without a transaction, two requests at once | key, row and block tell one story | `Pairings` |
| Devices (`deviceService.js`, `controlPlane.js`) | `devices` rows, leases at the control plane | login session, add, remove | count-then-insert, calls that time out and are carried out later | rows fit the slots, lease and row go together | `Portal`, `Pairings` |
| Partner chain (`blockchainService.js`) | `private_blockchain` | createBlock, verify, init | read-then-insert from concurrent requests and start-ups | one linked chain that only grows | `PartnerChain` |
| Wallet login (`walletAuthService.js`) | nonces, `wallet_address` | issue, verify, register, login | select-then-update, five queries without a transaction | a wallet joins once and keeps its account; a session has a wallet and a block behind it | `Portal` |
| Keep-alive path (`cmd/server`, `cmd/worker`, `cmd/client`) | sessions by endpoint, sequence numbers | hello, data, expiry, restart; ping, reconnect | a goroutine per datagram; acknowledgements that are not compared | a ping counts once, the worker is acknowledged again | `KeepalivePath` |
| Windows tunnel service (`cmd/tun-service`) | child, pid file | start, stop, restart | failed start, stop during back-off, a dead service's child, a file that cannot be written or removed | one child, none after stop | `TunService` |
| App bridge (`cmd/app-bridge*`, the `.ps1` controller) | request and response files | enqueue, drain, time-out, clean-up | a crash between execution and removal, a removal that fails | executed or refused, again only if its file was kept | `Bridge` |
| Android service | thread, socket, TUN descriptor | bring-up, stop, revoke | a stop during bring-up | DOWN after stop | not modelled |
| Noise binding of the daemon (`daemon.js`) | key and configuration files | bindNoise | a crash between two writes | | not modelled |

Interaction: the client and the server exchange UDP datagrams (msg A, msg B,
transport frames); the server's loops share the session table; the web side
writes `users.noise_public_key`, which the server polls; it reads the server's
public key from the file the keystore writes and hands it to clients; the
control plane spawns the client, leases its address and is told of its end by an
event; the web side asks the server's own control plane for leases over HTTP
with a time-out; on Windows an unprivileged program drops requests into a spool
that a service drains through a PowerShell controller, which starts and stops
the tunnel service, which runs the client.

## 2. Modules

| Module | Models | Extends |
|---|---|---|
| `AtMostOnce` | what a channel promises: a frame is delivered only if it was offered, and once | |
| `ReplayWindow` | one direction of a session: counter, window, failed frames; refines `AtMostOnce` | |
| `SessionTable` | the table and its critical sections | |
| `TunServer` | the server's goroutines over the table, the allowlist, restart | `SessionTable` |
| `Tunnel` | client processes and the network around the server; refines `TunServer` | `TunServer` |
| `NoiseIK` | Noise IK on symbolic keys, hashes and sealed texts | |
| `Handshake` | the server's key files, the key clients pin, attempts and sessions, a damaging network | `NoiseIK` |
| `ClientRoutes` | a host's routes under a client that is started, killed and moved, on Linux and Windows | |
| `KeepalivePath` | server, worker and one-shot client of the keep-alive path; refines `AtMostOnce` | |
| `TunService` | the Windows service and its supervisor | |
| `Bridge` | spool, callers, drain loop and controller over the tunnel service | `TunService` |
| `Leases` | the lease tables | |
| `Pairings` | pairing and device requests, query by query, over the leases; refines `Leases` | `Leases` |
| `ControlPlane` | the supervision of the child process | |
| `AppendOnlyChain` | what the partner chain promises its readers: a place in it is never rewritten, and a step adds one new hash at the end | |
| `PartnerChain` | the table of blocks and its queries | |
| `Portal` | the requests that sign in, query by query, over the chain, the accounts, the challenges and the devices; refines `AppendOnlyChain` | `PartnerChain` |
| `MC...` | constants for TLC | the module they are named after |
| `...Proofs` | theorems | their module, TLAPS |

### ReplayWindow

`rx` is `recvAny`, `recvLast` and the set of the set bits of `recvWindow`; the
width `W` (64 in the code) and the largest nonce are constants. `MayAccept`,
`Shifted` and `Marked` together are `replayCheck`: its verdict and the window it
leaves. `Undone` is `replayUndo`. `Encrypt` is the sender's counter. The network
is the freedom of `Decrypt(n)` to be applied to any nonce sent so far, any
number of times; `DecryptFails(n)` is a frame of any nonce that does not
authenticate. `copies` is a history variable: what came out of Decrypt.

The channel `AtMostOnce` is implemented under the mapping *offered* = the nonces
below the counter, *copies* = copies; a failed frame is a stutter.

### SessionTable, TunServer

An entry keeps its fields after it has left every index, since a goroutine may
still hold a pointer to it; so `peerOf`, `addrOf`, `tunOf` are fields of entries
and `byUDP`, `byTun`, `byPeer` are the maps. Each action of the table is one
critical section of `Manager.mu`.

The UDP loop is a program counter with the locals of `handleHandshakeA`: msg A
accepted (`reply`), msg B written (`evict`), prior session removed (`put`),
session put (`idle`). The lookup of the prior session and its removal are one
step because no other goroutine writes the table. The TUN loop has two states:
reading, and holding an entry it looked up. `Restart` is the end of the process,
by a signal or an error of either loop, and systemd's restart of it. The
datagrams are the environment's choice: a handshake of any peer from any
endpoint at any time covers repeated and late ones. `Enroll`/`Unenroll` are the
web side's writes to `users.noise_public_key`; `Refresh` swaps the snapshot.

`Sources[p]` are the addresses that the host of peer p sends from. They may
overlap, since each desktop leases to itself, and they need not be the tunnel's:
the Linux client forwards whatever the kernel routes to it. `seen` (the IPv4
address each session last wrote from), `shared` (the sessions whose address another
live session was bound to as well while they were) and `stale` are history
variables for `ReplyRoute` and `StaleSealedAtMostOnce`. `ReplyRoute` excuses the
sessions in `shared` and no others: of two sessions of one address only one has
the route, and when either writes from another address nobody has it.

### Tunnel

`Tunnel` adds the clients and the handshake datagrams to `TunServer`. A client
process sends msg A once, reads one datagram, and is up or exits. `net` is the
set of all handshake datagrams ever sent, so each may be lost, repeated or late.
msg B is tied to the entry the server made, and it opens only under the attempt
that entry answers (the ephemeral key: what `Handshake` shows). The TUN loop and
the allowlist of `TunServer` take no step here; every client is enrolled. A NAT may
give a running client another endpoint at any time (`Move`); a frame from an
endpoint without the client's entry changes nothing (`Heard`).

### NoiseIK, Handshake

A hash is the sequence of what was mixed into it, a Diffie-Hellman result is the
set of the two keys, and a sealed text names the key, the hash and the counter it
was sealed under and opens under the same only. On these, `NoiseIK` has
`MixHash`, `MixKey`, `Split`, the writing and reading of messages A and B with
what each leaves in the session when a part of the message does not open, and the
session's `mc`, which counts a message that failed.

`Handshake` is the server's start as steps between which it may die (`LoadStatic`
or `CreateStatic`, `RenameKey`, `TruncatePub`, `WritePub`, then the peers file),
`Fetch` for the web side that reads `<keyfile>.pub.hex` and hands it out, a client's
attempt (`Begin`, `ReadAnswer`, `GiveUp`) and the server's `Answer`. The network keeps every
datagram, so each may come late or again, and `Damage` replaces a part of one.
`resp` keeps the sessions of all servers so far, for the properties.

### ClientRoutes

`host` is what the operating system has: the LAN's gateway (or none), the routes
pinned to the server, the default route through the tunnel, the IPv6 blackhole,
the device. `run` is the client: where it is and what it has recorded for
`cleanupTun`. The steps are those of `setupTun`, the handshake, the loops and
`cleanupTun` in the order of each platform (both make the device, then pin the
server, then move the default route; Linux defers the clean-up once the device is
there, Windows only when all of `setupTun` has succeeded). The environment kills the
client at any step, reboots the host and moves it to another LAN, with its link
down in between or not. `orphans` is a history of what clients that were killed
left, `failed` of the route that a Windows client had pinned when a later step of
its `setupTun` failed; `flushed` says that the link went down since the server was
pinned.

### KeepalivePath

The server runs a goroutine per datagram. A handler changes the table in one
critical section and sends after it, so a handler is one step, and the order of
the goroutines is the order in which the network delivers. A session key is
named by what went into it: the client's ephemeral key and the server's. `Client(p)`
is a worker's or one-shot client's process: hello, ping, the deadline of each
read, back-off and reconnection from another port. Losses, copies, datagrams
later than a deadline, expiries and restarts of the server are faults, counted
against `MaxFaults`. Pings under one key implement `AtMostOnce`.

### TunService, Bridge

`sup` is where `supervise` is, `cmd` the child it has in hand, `proc` the
processes as Windows has them: a killed process is there until it exits, and a
child whose service dies runs on (`strays`). Both ready cases of a `select` may be
taken. The code does not look at the error of `os.Remove(PidFile)`, nor at what a
failed `os.WriteFile` leaves: the removal may do nothing, and a failed writing may
leave the old file, a whole one or a `Torn` one. `leftover` is the history of a file
that was there when a service died, or whose removal or writing has failed since.

`Bridge` adds the spool (`file`, `cmdOf`, `resp`), the callers, the drain loop and
the controller's process, whose script is taken apart where it waits for the
service manager. `processRequest` is `ReadFails` (a file that cannot be read is
removed, unexecuted and unanswered), `Refuse` (one that does not parse, or for which
no controller starts, is answered and removed) or `Dispatch`. Each removal may fail
and each response may not get written, since the code looks at neither error. The
loop may take its tick though its context is done. `BridgeDies` is the death of the
bridge's process alone: its controller goes on as one of the `orphan`s, which nobody
kills or waits for, while a bridge that is started again drains the spool; `PowerLoss`
ends every process, leaves the files and boots both services. `reboots`, `deaths` and
`mishaps` count what went wrong, together, up to `MaxFaults`. `begun`, `kept` (how
often a file outlived the pass that was executing or removing it), `refused` and
`ended` are histories.

### Leases, Pairings

A lease is a text: network, last octet, and how the octet is spelled (leading
zeros). The code compares texts and reads the number (`leaseIpHostPart`) only to ask
whether it is in the range; `Address` is what a text denotes. `Plainly` is the
spelling of the daemon's own choices and of the gateway. Handlers read, decide and write without
an await, so each is one step. `TornWrite` is a daemon that dies in
`writeFileSync`: `readJson` then returns its fallback.

`Pairings` is what a signed-in user does to the account's devices, query by query:
`bind` (store the key, find its row, pick a slot, insert, append a block),
`unbind` (read the key, clear it, delete its row, append), `add` and `remove` of a
browser with the lease call at the end. Any query may fail. A call to the control
plane is answered, refused, or given up and carried out later (`calls`). No two
of these records can agree at every moment; `odd` is the history of the devices
about which a request failed half-way or met another, and a request that runs
alone to its end takes its device out of it again. The properties are about all
devices that are not in `odd`: what an unanswered call, a failed insert, a token in
use or an overtaken unbind leaves behind is excused until then. They say that there is no
other way for the records to disagree, and that one request that runs alone, whatever
was left before it, sets them right.

### ControlPlane

`ControlPlane` has the processes as the operating system sees them (`procs`: free,
running, signalled, dead with the exit event pending, or some process that is no
child of the daemon) and the child as the daemon records it (`active` in memory,
`state` in the file). A free process id goes to the next child or to a stranger
(`Other`), so that a pid left in the file may come to be another process's, which
`isPidAlive` cannot tell. `ConnectCheck` is the part of the connect handler before its
await, `Spawn`, `SpawnFails` and `ConnectFails` what follows it; `Status` resets a file
that says connected while nothing lives.

### PartnerChain, Portal

`blocks` is the set of rows of `private_blockchain`; a row's hash is the tuple of
what it is computed from, so equal hashes mean equal contents. Timestamp and
payload are left out. `Insert` is guarded by `UNIQUE (block_index)`.

`Portal` is the sign-in of a wallet. A request is a process: `at` is the query it
does next, `with` its challenge, `user` the account it works for, `block` and
`row` the rows it is about to insert; `tables` is the database. Each action is one
query with what the handler does up to its next `await`; between two queries any
other request may run, in the same instance of the portal or in another, and any
query may fail (`Fail`), which leaves what was committed before it. The
constraints of `schema.sql` are guards: `UNIQUE (wallet_address)` in `LinkWallet`,
`CHECK (id BETWEEN 1 AND 5)`, `PRIMARY KEY (user_id, id)` and
`UNIQUE (device_token)` in `Insertable`. `StartUp` and `InsertGenesis` are an
instance that starts; requests come after a start-up found or made the genesis
block. A correct signature is the choice of a live challenge in `FindChallenge`;
a wrong one changes nothing.

The constraints carry much of the correctness: two requests may verify one
challenge before either marks it (a challenge can be used more than once), both
may find no account, both may count the same devices and read the same latest
block. What remains true is what the properties say. A registration that fails
between `LinkWallet` and `AppendBlock` leaves an account without a JOINED block,
whose owner can log in; `SessionOnRecord` therefore asks for a block of either
kind.

## 3. Runs

Each passing run checks its properties over all reachable states of the instance;
each violation run shows that a sentence in the repository does not hold of the
code.

| Run | Question | Instance | States |
|---|---|---|---|
| `replay_window` | is a late frame accepted, is every frame delivered at most once (the channel), what does a damaged frame cost? | W = 3, nonces 0..7: frames fall out of the window on both sides of a shift longer than the window | 1,004 |
| `tun_server` | do the indexes agree at every interleaving point, are replies routed and sealed for the right host, is a stale entry used once at most? | 2 peers, 2 endpoints, 3 handshakes; both hosts use one inner address, one of them has another IPv4 address and a link-local one | 694,336 |
| `tunnel` | what can cut a connected client off, is its session installed? | 2 clients, 2 endpoints, 2 attempts each, 2 handshakes, fair | 406,399 |
| `handshake` | do both ends agree, does each session answer its peer with keys of its own, does the key that clients pin last, does the server come up? | 2 wallets, 2 endpoints, 2 attempts, 3 sessions, 2 static keys, 1 fault, fair | 251,400 |
| `client_routes` | is the server pinned whenever the tunnel has the default route, does everything left have an explanation, is it swept, does the client connect again? | 3 LANs, 6 faults, both platforms, fair | 15,723 |
| `failed_setup` | **violated**: a client that failed in set-up has left no route | the same | |
| `keepalive` | is a ping counted once, what does "ok" mean to the worker, is it acknowledged again, and does every reconnection have a cause? | a worker and a one-shot client that is not enrolled, 2 endpoints, 4 attempts, 7 server keys, 2 pings a session, 2 faults, fair | 562,627 |
| `bridge` | is there one child at most, does the pid file name it, do stops complete; is a request repeated only if its file was kept, answered truly and served while the bridge runs? | 2 toggles, 2 pids, 1 fault, fair | 603,742 |
| `pairings` | do key, row and block agree after a request that ran alone, does a listed browser have a lease, do two clients have one address only in two spellings? | 1 account, 2 keys, 1 browser, 2 slots, 2 requests at once, 1 late call, a range of 2 addresses with the gateway's among them in 2 spellings, symmetric | 4,829,478 |
| `control_plane` | is there one tunnel, in memory and in the file, for callers that take turns; does disconnect take effect? | 3 process ids, which strangers get too, 2 connects in flight, fair | 3,426 |
| `connect_race` | **violated**: a second connect is refused | 2 process ids, 2 connects in flight | |
| `portal` | is the chain valid and append-only, does a wallet join once and keep its account, is a session on record, do devices fit the slots? | 2 requests at a time, 2 wallets, 3 user ids, 3 device tokens, 2 slots, 4 blocks, one challenge per wallet and purpose, symmetric | 226,873 |

Bounds. `MaxNonce`, `MaxSessions`, `MaxStarts`, `MaxProcessIds`, `MaxAttempts`,
`MaxSalts`, `MaxSeq`, `MaxStatics`, `MaxRequests`, `MaxPids`, `MaxLate` and
`MaxFaults` end a behaviour or cap what happens at once; they are constants with an
assumption, and the proofs hold for all of their values. Where the interesting cases come from:

* Two peers and two endpoints are where all conflicts between peers occur: an
  entry conflicts with one other entry per index. With three handshakes a
  replacement is itself replaced.
* In `handshake` three answers let a message A be answered twice, also by a server
  that was restarted; one fault falls at every step of a start.
* In `client_routes` a client is killed, the host moves, the next client meets what
  is left, and four faults are still to come.
* In `keepalive` a worker needs `MaxFaults` + 1 attempts when every reconnection
  has a cause; with four attempts for two faults one too many would be seen,
  and seven keys are enough for every hello and every copy.
* `MaxWaiting` is the number of connect requests in flight, and of failed spawns whose
  event is pending. Nothing makes callers of `/v1/connect` take turns, so both runs of the
  daemon admit two: `connect_race` shows what becomes of them, and the first two
  properties of `control_plane` are about the behaviours in which at most one is ever
  between its check and its spawn. With three process ids two children may be there
  while a third number is a stranger's or waits in the file to become one.
* In `bridge` two toggles are queued, listed together or apart, given up and repeated;
  two pids let an abandoned child be there while the next is started. A toggle is, by
  the state it finds, the script's `up` or `down`; `restart` is the one after the other
  and `status` changes nothing. One fault is taken at every place where one can be, the
  failures of the supervisor's own file operations not counted.
* Two requests at a time are what the races of `Portal` and `Pairings` are made of:
  every conflict is between two writers of one row, and a third request sees what
  either left. Four blocks are a genesis, two concurrent appends and one that
  builds on the survivor; with two slots a user reaches the limit and two inserts
  meet at the last one. Three users let each wallet register, and one registration
  fail and leave its row behind.
Deadlock is checked except in `bridge`, `handshake` and `keepalive`, where a
behaviour really ends: when every caller has made its calls, or when the attempts
and the faults are used up.

The type invariants are no part of the runs: those of the modules that have proofs
are theorems, and TLC checked them, with the rest of each inductive invariant,
before they were proved.

### Fairness

Nothing is assumed of the network anywhere but in `keepalive`.

* `tunnel`: the server's UDP goroutine, once it has written msg B, runs the rest of
  its handler, which waits for nothing but the table's lock.
* `handshake`: systemd starts the server again (`Restart=`), and a start goes on.
* `client_routes`: a client that runs makes its next step; the read of msg B has a
  deadline. Nobody has to start a client; `Reconnects` says what happens if
  somebody does again and again.
* `keepalive`: a datagram in flight is handled or cannot be delivered, and a client
  makes its next step (the worker's reads have a deadline of 8 s, its back-off is
  bounded). Losses are faults, and those are bounded.
* `bridge`: the drain loop, its controller, the service manager's reports of a start
  and an end, and the supervisor go on; a child that was killed exits. Nobody has to
  start a service, to call, or to finish a call; and no child has to end by itself. What
  waits in the spool of a bridge that was stopped or died waits until somebody starts
  it: `EveryRequestServed` says "while the bridge runs".
* `control_plane`: a signalled child exits (the client handles SIGTERM by closing
  its descriptors), and the event loop delivers a pending exit or error event. A
  stranger that got a signal need not end.

### What the violation runs show

* A Windows client whose default route cannot be set returns from `setupTun` with the
  server's route pinned: `main_windows.go:366-367` records the route before it is added so
  that "a crash in any later step still triggers DeleteRoute", but `defer cleanupTun` comes
  after `setupTun` has returned without an error (101-104). `LeftBehind` says that this, and a
  kill, are the only ways to leave a route.
* Two connects that are both tested before either body has arrived spawn two
  clients; the daemon keeps track of the second only, and the exit of the first
  resets the state while the second runs. `TurnsGiveOneTunnel` and `TurnsKeepTrack`
  say that an overlap is the only way to it.

### What else was met on the way

Differences between the code and its comments, and behaviours that the properties
had to be stated around. No run is about them; where a property states or excuses what
the code does, it is named.

* The server's header (`cmd/tun-server/main.go:19-21`) says that NAT rebinds are absorbed;
  `handleTransport` drops frames of unknown endpoints and `RebindUDP` has no caller.
  A client whose NAT gives it another endpoint is not heard again, although its
  session stays in the table until its peer or its old endpoint gets another. A move
  is one of the ways to be cut off that `LostOnlyToSuccessor` names.
* The comment in `Decrypt` (`noise/api.go:258-261`) says that a failed frame costs one frame
  at worst. replayCheck has assigned `recvLast` already when replayUndo runs, so the
  branch it is about (`n > recvLast`) cannot be taken, and one damaged frame with a high
  nonce costs every frame 64 or more behind it. `FailureCosts` says exactly which.
* The comment at `cmd/tun-server/main.go:368-371` binds a session to the latest IPv4
  source *in our tunnel CIDR*; the code binds any IPv4 source. A Linux host
  that sends a packet with another source through the tunnel gets no replies to its
  tunnel address until it sends from that again. `ReplyRoute` says what the code does.
* Clients need unique tunnel addresses (`protocol/udp/README.md:13`), but each
  desktop leases to itself from a table of its own, so two may have the same one. When
  two sessions have written from one address and the first then writes from another,
  `BindTunIP` (`manager.go:112`) deletes the index entry of the second; later frames of the
  second do not bind it again, because its `TunIP` is unchanged, and `LookupByTunIP`
  returns nil for an address observed at a live session (its comment, 87-88, says
  otherwise). These are the sessions `ReplyRoute` excuses.
* Within one table `10.99.0.2` and `10.99.0.02` are two leases, and so are the gateway's
  address and another spelling of it (`daemon.js:258`); a table that was torn while
  written reads as empty. `SharedOnlyBySpelling` allows the former and no more.
* After a restart of the daemon, or a reboot, the pid in `state.json` may be another
  process's (`daemon.js:81-84`, 100): status then reports a tunnel, connect is answered
  "Already connected", and disconnect sends SIGTERM to the stranger.
* After a handshake `PeerStatic` returns zeros at both ends (`api.go:112-114` says
  otherwise): `Finished` clears the handshake state. The server asks in time.
  A message A has no protection against being replayed: a late one gives another
  session, with keys that nobody can use.
* `<keyfile>.pub.hex` is rewritten in place at every start; while it is torn the web
  side hands out no key.
* Linux: `ip route replace default` removes a LAN default route of metric 0 and
  nothing puts it back, so after a kill or a regular end the host may have no way to the
  server. Windows: the service ends its client with TerminateProcess, so
  each stop leaves the route; one through another LAN's gateway is never removed.
  The two dead ends are `Blocked` in `ClientRoutes`.
* An app-bridge request whose file cannot be removed is executed again by every tick of
  the drain loop (`app-bridge-service/main_windows.go:277`); `RepeatedOnlyIfKept` counts these.
* `tun-service` passes no Noise key to the client, which the current client
  requires; the service then restarts it for ever. `down` while the service is
  being started is answered with "already stopped", and the service then runs.
* The worker's `sendPing` takes any acknowledgement that opens and does not compare
  its number, so its view may be ahead of the server by the number of copied
  answers (`OkMeansHeard`). The one-shot client's reads have no deadline.
* A paired client that is removed in the list of devices keeps its key in `users`
  and is still admitted; a key that another signature replaced leaves its device
  row; with all slots taken a key is stored without a row. Device tokens are four
  digits, drawn without a look at the table (`deviceService.js:35-38`).

## 4. Proofs

All theorems are for every value of the constants, under the assumptions stated
next to them in the modules (bounds are naturals, `None` is none of the other
values, the keys of two accounts differ and so on).

* `ReplayWindowProofs`. The inductive invariant is `IInv`: types, `NoReplay`,
  that the bitmap is exact, and that only sent frames were delivered. NoReplay alone is not
  inductive: that a delivered nonce is refused is what the bitmap says inside the
  window and `recvLast` above it. From it follow at-most-once delivery, that a late
  frame gets through, reordering tolerance, that a link on which every frame
  verifies keeps the receiver in step, and that the session implements `AtMostOnce`.
  `CostOfFailure` is an action property (`FailureCosts`): a frame that does not authenticate makes the
  window refuse the undelivered frames that are W or more behind it, and no others.
* `TunnelProofs`, first part: the server. `IInv` adds to the properties what they
  rest on: entries that are not in the table yet are blank, the handshake in flight
  is for an entry already made and its peer has no session once the prior one was
  evicted, an entry is bound only to addresses its owner uses, an entry that is
  live or unmade has no stale packets, a live entry's address follows the last IPv4 source
  (`FollowsV4`), the route of an address that a live entry is bound to leads to
  it unless it shared the address (`Routed`), and two live entries of one address both
  have (`SharersKnown`). It gives index agreement, one session per
  peer, sealing for the owner, the route of replies, and at most one stale packet.
* `TunnelProofs`, second part: the clients. `TunnelInv` says of every datagram B on the
  network that it is for an entry made and answers an attempt made, of every entry
  whom it was made for, and accounts for every entry: it is live, about to be put,
  of a server before the last restart, or succeeded. It gives
  `LostOnlyToSuccessor`, and that the tunnel
  implements the server's specification, so that all theorems of the first part hold in it.
* `HandshakeProofs`. Lemmas about `NoiseIK` compute what each end has after a
  message that was written for it and show that one that was damaged, or written for
  another key, does not open. `Kept` says that the private key is on the disk
  before anything is derived from it; `OnTheWire` says of every datagram who wrote
  it or why it is dead; `AttemptsInv`, `SessionsInv` and `Paired` tie the ends' records to
  each other. They give `PinLasts`, `AnswersItsPeer`, `FreshSessions` and `Agreement`.
* `ClientRoutesProofs`. `NoLoop` needs that a client on its way past the pin still has it
  unless the link went down (`OnItsWay`); `LeftBehind` and `SweepsAll` need that
  the record exists only after the pin (`Unrecorded`), that Linux keeps one route and
  it is the recorded one (`LinuxOne`), that Windows has no blackhole, and
  that the clean-up has unpinned by its last step (`Unpins`). `SweepsAll` is about
  the kinds of route that the client itself installed: one that failed before its pin
  sweeps no pin.
* `KeepaliveProofs`. A ping is counted once because no key is in the table twice and
  none is put there again (`Table`), every ping counted is at or below the session's
  number (`Table`), every ping counted was sealed (`Counted`), and every ping in
  flight was (`Sealed`). The mapping to `AtMostOnce` is the one the run checks.
  `OkMeansHeard` needs `AnswersInv`, a balance that each step of either end moves on
  both sides: a session's answers in flight and those its worker has taken are no
  more than the pings counted under its key and the answers that were copied.
  `ReconnectNeedsFault` is a count of faults, which says nothing of a worker whose
  next step is an error; `CauseInv` says that a worker that has used up its faults is
  on a smooth connection (`Smooth`: the one datagram that its socket's exchange calls
  for is under way, and the session in the table fits it), and that sockets are not
  shared (`OwnSockets`), so that no other peer, late answer or replaced session can
  disturb it.
* `PairingsProofs`. For the leases: that a text has one holder and is not the gateway's
  (`UniqueInTable`) is inductive with the type invariant; both ways to choose an address
  yield a text that nobody holds. Two holders of one address then have two spellings,
  which is `SharedOnlyBySpelling`; nothing stronger holds. For the requests,
  `PairingInv` says what a request that is alone knows at each query (`NotAlone`,
  `AloneSoFar`, `Overtaken`), what the calls in flight are about (`Late`, `Calling`), and that
  the records of a device that is not in `odd` agree up to where its
  request is (`Leased`, `Paired`, `Told`). `OneStory` and `LeaseForDevice` are its
  instances for devices at rest. `PortalKeepsLeases` shows that `PairingSpec`
  implements `Leases`,
  and so has its properties.
* `SupervisionProofs`, first part: the daemon. The invariant says that every child not
  yet reaped is the active one and the one in the file, that a child whose spawn failed and whose event is
  pending is the active one and the only such child, and that nothing is active while a
  connect waits. The handlers that forget the active child whichever child it was are
  correct only because of this. What keeps it invariant is `OneAtATime`, that one connect at
  most is between its check and its spawn. `TakingTurnsSuffices` assumes it of the
  behaviour, not of a constant: a daemon that would admit any number of connects at once,
  as this one does, is safe with callers that take turns, and `connect_race`
  shows that two callers that do not can start two tunnels. Process ids are used
  again, by children and by strangers. The types need no such assumption.
* `SupervisionProofs`, second part: the tunnel service and the bridge, as composed.
  `ServiceInv` is `OneOwnChild` and `PidFileNamesChild`, which need that a service that
  is stopped or has not reported yet supervises nothing (`OffUntilStarted`); both are
  proved of `TunSpec`, in which anybody starts and stops the service, and
  `BridgeDrivesService` shows that all that the bridge, its controllers and their orphans do
  are steps of it. `SpoolInv` is
  about a request's way through the spool: a listing that the drain loop works
  through names each file once (`ListingSound`), a file is renamed into the spool
  before it can be listed (`WrittenOnce`), a request that is still to be executed
  has been executed no more often than its file was kept (`WaitsForFirst`), which with
  the one execution under way is `RepeatedOnlyIfKept`,
  and the bridge holds an ok only for a request whose command
  has ended (`OkIsEarned`, `OwnAnswer`).
* `PortalProofs`. A request is correct because of what it knows at each query and
  what no other request can take from it: `Placed` (from its challenge on it has
  one, from the creation of its user on the user exists, from the link on the user
  has the request's wallet, from the append on a block stands for it), `Accounts` (a
  wallet has one owner), `Linked` (each block follows the only block before it),
  `Drafted` (a block about to be inserted still follows a block of the chain: it may
  have been overtaken but not orphaned), `Apart` (two registrations have created two
  users) and `Joined`. `Linked` gives `ChainVerifies`, `Accounts` and `Joined` give
  `JoinedOnce`. `WalletStays` is an action property proved from `Placed` and
  `Accounts`. `WithinSlots` is a count: that no two rows of a user share a slot is
  invariant by the table's constraints, whatever was counted before, and the slot is then an
  injection into `1 .. MaxSlots`.
  `ChainIsAppendOnly` shows that the portal implements `AppendOnlyChain`. The mapping puts at place i
  the block that has i - 1 blocks before it; `NoGap` says that a block has as many
  before it as its `block_index` says, so `InOrder` is a list without holes, and a step either leaves it
  or puts one block behind the last. A block that reuses a place or skips one is
  what the unique index and the read of the latest block rule out together. That the hash
  at the end is new follows from the index it is computed from.

Model-checked only: the liveness properties (`ServedEventually`, `ComesUp`,
`Reconnects`, `AcknowledgedAgain`, `StopCompletes`, `EveryRequestServed`,
`DisconnectTakesEffect`), which are out of the prover's reach. Every invariant, action
property and refinement that a passing run checks is also a theorem.

## 5. What is not modelled

* The Android service (a Kotlin thread against the life cycle of `VpnService`, which
  nothing in the repository describes), and the daemon's `bindNoise` and profile store
  (single handlers that write one or two files; a crash between the two
  writes is repaired by the next binding).
* The curve, the AEAD and the derivation of keys from signatures: a hash is what was
  mixed into it and a text opens under its own key. Byte layouts: a frame that
  does not parse is a frame that is dropped. The send counter's refusal at its last
  value is in `Encrypt`, but a session of 2^64 frames is not what the runs are about.
* TUN devices, iptables and netsh beyond the routes of `ClientRoutes`; HTTP routing and
  the token check, rendering, schema creation, installers, the browser
  extensions and the apps' screens.
* In `TunServer`: that a peer that was never enrolled is never admitted is visible in
  the guard of `HandshakeA` and has no property; `LastSeen` is written and read nowhere else.
* In `Bridge`: the Python service of the Linux bridge, which has the same loop.
* In `ControlPlane`: what a process that got a dead child's pid does with a signal.
* In `Portal` and `Pairings`: `last_active`, and reads for display.

## 6. Plan

Done: the tunnel from the key file to the routes, the web side's requests, the
supervision on Linux and Windows, the keep-alive path. What is left, in this order:

1. The daemon's Noise state (`bindNoise`, the profile store) as files written in steps.
2. `AndroidTunnel`: bring-up against stop.
3. Reload of the file allowlist, and the events the keep-alive server posts.
