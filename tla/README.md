# psa-dhcp in TLA+

psa-dhcp is a DHCP server (`psa-dhcpd`) and a DHCP client (`psa-dhcpc`) in Go.
This directory holds a model of both, checked with TLC on small instances and proved with TLAPS for all values of the
constants: the server, the client, the two of them together, and that each reads from a packet what the other has put there.
`PROJECT.json` lists components, runs, findings, hazards and theorems, and maps every
definition to the lines it models.

## The system

| component | source | state | operations |
|---|---|---|---|
| lease table | `lib/server/ipdb/clients` | map from address and DUID keys to client records | `Lookup` (removes expired keys), `Inject`, `InjectPermanent`, `SetLease`, `Expire` |
| address pool | `lib/server/ipdb/ipdb.go` | the table, managed and dynamic range, a mutex | `FindIP`, `UpdateClient`, `AddPermanentClient`, `LookupClientByDuid`, `SetDynamicRange`, `DisableDynamic` |
| server start-up | `lib/server/server.go`, `leaseopts` | configuration, overrides | `New` |
| request handling | `lib/server/run.go`, `netio.go`, `utils.go` | one receive buffer, one goroutine per request | `Run`, `handleMsg`, `handleDiscover`, `handleRequest`, `arpVerify`, `getDuid` |
| client state machine | `lib/client/dclient`, `verify` | state, last reply, deadlines, limiter, context | one function per state, `advanceState`, `ResumeClient` |
| main client | `lib/client/mclient.go`, `lib/ifmon` | the context and its cancel function, a channel of link events | `Run`, `monitor`, `MonitorChanges` |
| interface | `lib/libif` | addresses, default route, MTU (kernel) | `Unconfigure`, `SetIface`, `Up` |
| script and hook | `callback`, `resolvconf` | a child process, a temporary file, `/etc/resolv.conf` | `Cbhandler`, `Run`, `update` |
| messages | `dhcpmsg`, `layer`, `msgtmpl`, `replies`, `leaseopts` | none | encoders, decoders, templates |
| ARP ping | `arpping` | none | `Ping` |
| others | `rsocks`, `oui`, `ylog`, `proto`, `cmd` | none | see `components` in PROJECT.json |

How they interact: the server's goroutines share the pool and call its methods one
critical section at a time; between two of them time passes, other goroutines run, and
the receive loop overwrites the buffer the goroutines' client identifiers live in.
`FindIP` keeps the pool's mutex while it asks the network about each address. The client
is one loop; a monitor goroutine cancels its context when the link comes up and `Run`
resumes it under a new one.

What is hard here, and which properties are about it:

- the two keys of a lease, removed lazily and separately (`LiveIndexed`, `NoDoubleLease`);
- look up, probe, record: three critical sections per request (`NoDoublePromise`,
  `PromiseKept`, `OfferRecordable`), and requests handled out of order (`AckedLeaseKept`);
- the shared receive buffer (`NoDoublePromise`, in the runs `server` and `server_buffer_race`);
- a mutex that is held during network I/O (`SearchEnds`);
- unsigned 32 bit offsets that wrap (`OfferRecordable`, `IPDBTypeOK`);
- a configuration read in random order (`StartedConsistent`);
- cancellation at any moment, stale and foreign replies (`AddressChecked`, `AddressLeased`), system
  calls that fail half way and what an earlier run left on the interface (`NothingLeft`,
  `BoundConfigured`), a limiter that ends the program (`NeverBananas`), deadlines
  (`DeadlinesWithinLease`);
- a link whose state is guessed at the start, and a cancel function read through a pointer that changes
  (`EventInFlight`, `LinkUpRevalidates`), and a channel that is closed under its sender (`ShutdownExits`);
- a hook that is killed between two system calls, or one of them fails (`ConfWhole`, `ConfCurrent`);
- lengths that come from the network (`DecodedExactly`, `DecodeEnds`), carries (`ChecksumsRight`), and two
  programs that must mean the same by a packet (`RequestUnderstood`, `ReplyUnderstood`, `ProbeHeard`,
  `RequestAnswered`);
- one lease counted at both ends from different moments, with an unreliable network, a ping and a script in between
  (`NoConflict`, `AddressKept`).

## Modules

| module | what it is |
|---|---|
| `Clients` | the lease table: its methods as operators on a table, and a specification that calls them in any order |
| `LeaseDB` | abstract: a set of leases that ends each on time and never has one address or DUID twice |
| `IPDB` (extends `Clients`) | the pool; `FindIP` is split into one step per probe; refines `LeaseDB` |
| `ServerNew` (extends `IPDB`) | `server.New`: one step per part of the configuration and per client entry |
| `Server` (extends `ServerNew`) | the receive loop and the goroutines |
| `DClient` | the client's state machine with the verifiers, the limiter and the interface |
| `ResolvConf` | the resolv.conf hook, one step per system call |
| `MClient` (extends `DClient`, `ResolvConf`) | `mclient.Run`, the monitor, ifmon and the callback script; implements `DClient` |
| `Layer` | IPv4, UDP, ARP and checksums, as operators on bytes |
| `DhcpMsg` (extends `Layer`) | messages and options; `Decode` step by step |
| `LeaseOpts` (extends `DhcpMsg`) | the options of the configuration and of client entries, and what is announced of them |
| `Wire` (extends `LeaseOpts`) | requests, replies and ARP packets, sent by one side and decoded by the other |
| `System` (extends `Server`, instance of `DClient`) | a client, the server, other clients, and the network between them |
| `IPDBProofs`, `ServerProofs` | theorems about the table and the pool, and about the server, the second extending the first |
| `DClientProofs`, `MClientProofs` | theorems about the client, the second extending the first |
| `SystemProofs` (extends `ServerProofs`, instance of `DClientProofs`) | theorems about client and server together |
| `LayerProofs`, `DhcpMsgProofs`, `WireProofs` | theorems about bytes and checksums, about the decoder, and about what is sent and read, each module extending the one before |
| `MC*` | instances for TLC |

Definitions keep the source's names. In every module, an operator whose name extends
that of another one (`LookupDropsBoth`, `LoopEndDeaf`, ...) and that nothing uses is a
*mutant*: the original with a plausible mistake, with which TLC finds the property
PROJECT.json names violated.

### How state and actions correspond to the code

*Clients.* `m[k]` is the map; an absent key is `nil`. Records stand for pointers: a new
client is stored under both keys at once, so two keys hold equal records only if the same pointer, and `SetLease` writes through every key that holds it. The methods
are single steps because every caller holds the pool's mutex (`ipdb.go:42`, `74`, `87`, `99`, `122`).

*IPDB.* `dynFrom = dynTo = 0` disables the search. `search` is the `FindIP` that holds the
mutex: `head` the suggested address as an offset in `Mod` (2^32) values, `rest` what is left
of the random permutation; `isFree` answers anything. `found` is the last result of `FindIP`, kept until the pool
changes, so that `OfferRecordable` can speak about the gap before `UpdateClient`. A network
of two addresses is excluded (`HostSizeAssumption`): the managed range is then empty and `server.New` fails.

*ServerNew.* Entries are taken in any order. `SetClientOverrides` is all or nothing and its
error is dropped (`OverrideIP`); the duplicate check compares a hardware address with a set of
DUIDs, as the code does.

*Server.* `proc[h]` is a goroutine: `pc`, its packet, the client identifier `cid` and whether
it uses it. Copies and slices are told apart: before `DecodeOptions` has run all options are slices of the
buffer, afterwards only `cid` is. `Receive` and `ReceiveOther` overwrite the buffer under all
running goroutines: each slice keeps its content, has that of the new packet, or is garbage. An
overwrite between two evaluations of `duid.String()` within one critical section is finer than
this. `promise` and `acked` record what clients were told; no action reads them.

*DClient.* `pc` is where `Run` is: `loop` (about to execute `state`), `reply`, `sleep`, `ping`, `reset`,
`script` (waiting), `end` (limiter and context check), `returned`, `bananas` (the client gave up).
Deadlines are the time left to them. Only waiting takes time, and a deadline ends a wait
before the next tick. An ARP ping is a wait of up to `PingTime` (200 ms) that an answer ends early (`PingAnswered`); its end without
one, a cancelled context and an error all count as a free address (`PingDone`). `iface` is what the kernel has: the lifetime of every address, the default route,
the MTU; it takes the route with the last address, unless the interface has an alias (`Alias`). `SetIfaceFails`
and `UnconfigureFails` are all the interfaces a failing call leaves. `granted` is the time left of what servers acknowledged in answer to a
current request, `dirty` that the last `Unconfigure` failed, `checked` whether the ARP check was completed, `calm` that nothing has disturbed the
client (no NACK, no cancellation); no action reads them. The
random xid of an exchange is assumed not to repeat. `Up` sets a flag no action of `DClient` reads; whether the link is up is `MClient`'s `link`.

*ResolvConf, MClient.* `hook` is where the hook's process is, `tmp` and `conf` its two files: the lease they
were written for, whether all of it is there, and the mode. `Callback` ties it to the client: the script is started when the
state machine enters `script`, and killed when its time is over or the context is done. The context
is replaced in two steps (`RunReturned`, `Resumed`); `target` says which of
the contexts the function the monitor has read belongs to.
Three variables tell the link apart from what ifmon knows of it: `link` is its state ("never": it has not been up since the start), `updates`
are the kernel's reports ifmon has not read, and `oldState` is ifmon's own, which starts as if the link were up whatever it is
(`netlink.go:21`). So the first coming up of an interface without carrier is no event. `stale` records that the link came up when the client had a
reply to validate, and that the state machine has not been resumed since. The first coming up does not count, as no
reply comes in before it. Two things are assumed: ifmon has subscribed by the time the client has a reply, and `LinkSubscribe` does not
fail (its error is ignored, `mclient.go:57`); otherwise there is no event to lose. A send on the channel the monitor has closed is a panic.

*Layer, DhcpMsg, LeaseOpts, Wire.* Packets are sequences of bytes in their real layout. `Decode` is a loop: `c`,
`opt` and `options` are the code's variables, options are slices. A text that should be an address is a record of what
the parser of Go's `net` says of it. `Wire` starts with a packet of one side (or with any bytes) and lets the other side decode it.

*System.* Messages are the records the receiver decodes; `Wire` shows that they are what was meant. A message has the
xid "cur" while its exchange lasts and "old" afterwards. While the client waits its request may arrive any number of times.
`late` are the requests of earlier exchanges, `inbox` the replies; each may be under way for `Transit` more ticks (`Sent`, `Aged`), be read
any number of times, in any order, or never, so a reply may cross a tick. The state machine is that of `DClient` with its script, its ping, its
failing calls and its cancellation (`ClientCancelled`, `ClientResumes`; who cancels is `MClient`'s question).
The two ends start to count a lease at different moments, as in the code: the server before it sends (`netio.go:132`), the client when it sets the
address (`libif.go:125`), after transit and ping. `Delay` is the sum of both, and `NoConflict` says that the client's address outlasts the server's
lease by no more than that.

`smooth` says that nothing has got in the client's way since it was last reset: it was not cancelled, no call failed, no ARP check found another host
(`InUse`), the server made it no offer after it had acknowledged its address (`LateOffer`, the finding `server_late_discover`),
and whenever the clock ticked the client waited for no reply, no goroutine worked on a request of it, and nothing of it was under way.
`cut` is the set of addresses the server has offered the client since it last acknowledged them, which may have cut the lease short.

What `System` leaves out: a client that has used up its tokens, leftovers of an earlier run on the client's interface, and a restart of the server, whose table
is in memory only.

## Runs

Passing:

| run | shows |
|---|---|
| `ipdb` | every sequence of calls of pool and table, with expiry: eight addresses in a space of sixteen, so that offsets wrap; "octets" of four, so that network- and broadcast-like addresses lie inside; two DUIDs and the empty one; refinement of `LeaseDB`; the search ends (liveness) |
| `server` | two goroutines, two clients that compete for one free address, every interleaving with expiry and buffer overwrites |
| `server_kinds` | one goroutine, all kinds of well-formed and ill-formed requests, with and without client identifiers; thirteen configurations: static clients, `static_only`, a client named twice, bad entries and ranges, and every kind of clash between entries, the network and the server, in any order of the entries |
| `client` | timeouts in ticks of 20 s (60 s shortest lease = 3 ticks, 30 s reset = 2, 5 s of a resumed client = 1; the 10 minutes of DISCOVER are cut to 3), a limiter of 6 tokens that is full again after a tick (the code's has 10, so this one is stricter), leftovers of an earlier run, pings of up to a tick, cancelled at any time, stale and foreign replies, two failing system calls |
| `mclient` | kernel, ifmon, monitor, Run and the hook beside each other, on an interface with or without carrier at the start; one lease, with name servers, and NACKs; liveness; the composition implements `DClient` |
| `wire` | requests of the four states, replies with and without router, DNS, domain, overrides and entries that do not parse, ARP packets, broken frames, and all sequences of up to four bytes of codes, lengths and padding behind a header |
| `system` | the smallest network, its one free address contested by the client and another one that discovers and requests it at any time; six ticks: a lease of five, renewed, rebound or lost and taken by the other; replies and late requests under way for up to a tick, a ping and a script of up to a tick each, and one cancelled context or one failing call |

Violations, each of something the repository says (see `findings`): `ipdb_range`,
`server_new_duplicate`, `server_late_discover`,
`server_buffer_race`, `client_script`.

One more thing the model shows without a run of its own: an entry of which any field does not parse loses its
static address too, because the error of `SetClientOverrides` is dropped (`server.go:75`); the
server starts and the address stays dynamic (`OverrideIP`, the entry with `bad` of `StaticConfig`). And reading
the code for `LeaseOpts` showed that the hostname of a client entry ("Hostname to give to client", `config.proto:40`) is parsed but never sent:
`dhcpOptions` has no use of it.

**Bounds.** `MaxTime` stops the server's clock at 2 (1 in the start-up run): with leases of 0 and 1 that is one lease granted, renewed, expired and given to another client.
`OfferTime` 0 and `LeaseTime` 1 keep the order of 15 s and the lease duration. Two goroutines are enough for every pair
of critical sections to interleave, and two clients to compete. `Mod`, `HostSize` and `Octet`
stand for 2^32, the network and 256. `EvCap` 1 stands for 64: the channel is flushed at
each event, so one event beside the one being handled is the case that matters; `MaxUpdates` 1 likewise, as the channel of updates has no
buffer. Pings take no time in `mclient` (they do in `client`), and it has a single lease: a `resolv.conf` of an older, different one does not
occur in the run, but is covered by the theorem `ConfIsCurrent`. The limiter of `mclient` has two tokens: what the
client does with them is `client`'s question. The client has no clock, only time left.
`Burst` and `Refill` 6 are the least `TokensSuffice` needs.
`MaxFaults` is the number of system calls of the client that fail in a run: two, for a `SetIface` and the `Unconfigure` that
should clean up after it. In `system` the times are an offer of 1, a lease of 5, and 1 each for `Transit`, `PingTime` and `ScriptTime`, which `LongLease` just
allows; `NoConflict` is tight: with a tick less than `Delay` TLC finds it violated. At most two different messages are under way, one context is cancelled or
one call fails (from then on one message is under way), the other client sends two kinds of packets, and one goroutine runs at a time: the interleaving of goroutines is `server`'s question, all of
these bounds are lifted by the theorems. `BoundConfigured` and what else is only the client's is checked in `client`. `MCServer` uses a view without `found` (only read in the step that sets it) and `acked` (read by
one violation run, which does without the view), `MCSystem` one without `found`, `acked` and the client's history, of the messages under way only those that still have an effect, each as long as it may
be; goroutines are symmetric.

**Fairness.** `IPDBSpec`: a search takes its next step (each ARP check gives up after three
timeouts of 200 ms, `utils.go:17`). `WireSpec`: the decoder goes on.
`MClientSpec`: weak fairness of the goroutines' own steps, ifmon's as long as its context is not done; nothing is assumed of the network,
the link, time or the hook. A hook, a ping and a read are ended when the context is done.

**Deadlock** checking is off where the system may stop (`New` has failed or succeeded, the context is done and no
goroutine is left, the clock is at its bound, the client has given up).

## Proofs

`IPDBProofs` proves of the lease table, for every `Mod`, `Duid` and `MaxTime`: `ClientsTyped`, `ClientsIndexed`
(`LiveIndexed`), `ClientsExclusive` (`NoDoubleLease`), `ClientsPermanent` (`PermanentForever`).
The inductive invariant is `TableOK`: the table is typed, a record is found only under its own
keys (`Keyed`), and a live one under both (`BothKeys`). `NoDoubleLease` is not inductive: the two checks of
`injectInternal` see one key each, and only `BothKeys` makes them enough. Each method has a lemma
(`LookupOK`, `InjectOK`, `SetLeaseOK`), and `LaterOK` says that time only weakens `BothKeys`.

Of the pool it proves, for every network, octet size, set of lease times and of inputs: `IPDBTyped`,
`FoundIsRecordable` (`OfferRecordable`) and `PoolImplementsLeaseDB` (`ImplementsLeaseDB`). The
inductive invariant `IPDBInv` adds to the above: every record is in the managed range, the
dynamic range is empty or inside it, a search is for a DUID without lease and its offsets lead
back to managed addresses or 0 (`SearchOK`), and whoever has the found address or its DUID has
both (`FoundOK`). Each action has a lemma `...Keeps` that shows the invariant and the step of
`LeaseDB` it maps to.

`MClientProofs` proves, for every set of messages, all times and every capacity of the channel:

- `HookLeavesWhole` (`ConfWhole`). The invariant `HookInv` adds `TmpReady`: the temporary file is the one of the hook's
  lease, whole before its mode is set and readable before it is renamed. `ConfWhole` alone is not kept by `rename`.
- `NoEventLost` (`EventInFlight`). `EventInv` adds `LinkRight`: if the link is down, ifmon knows it or the last update under way says so, and a client that has a reply has had a link; and
  `MonitorRight`: the monitor returns only when the program is told to
  stop, and the cancel function of a context that is not handed over yet belongs to an existing one.
- `ClientImplements` (`ImplementsDClient`): every step maps to one of `DClient` or to none. This needs `ContextInv`: a
  cancelled client is not calm, and its `Run` returns only if it is cancelled. So a second call of a cancel function,
  or one after the return, is a stutter.

- `MainClientSafe` (`AddressLeased`, `NothingLeft`, `BoundConfigured`, `AddressChecked`, `DeadlinesWithinLease`): with
  `ClientImplements`, what `DClientProofs` shows of the state machine holds in the program.
- `ConfIsCurrent` (`ConfCurrent`). `ConfInv` adds to `HookInv` that a hook runs only while the client waits for it and the
  one of a bound client was given its lease (`ScriptRight`), and that one that did not fail has put its lease in place (`HookDone`).

`DClientProofs` proves, for every set of messages, addresses and routers, all times, limits and numbers of failing system calls:

- `DClientTyped` (`DClientTypeOK`). `Typed` adds where the client waits in which state (`WaitsWhere`) and that
  the last message passed `verifyCommon` wherever it is used (`LastVerified`); all other invariants rest on it.
- `AddressesLeased` (`AddressLeased`). `LeaseInv` adds `AckedInTime`: between an acknowledgement and `SetIface` only the time of the ping passes, except in a
  reset, which leads away from `SetIface`.
- `NothingIsLeft` (`NothingLeft`), which is inductive together with `Typed`.
- `BoundIsConfigured` (`BoundConfigured`). `BoundInv` follows the lifetime of the address through the script,
  which runs after `SetIface` and before the deadlines are computed (`BoundLifetime`).
- `AddressIsChecked` (`AddressChecked`). `CheckInv`: a check that was cut short has a cancelled context, and `Run`
  returns before the next state.
- `DeadlinesRight` (`DeadlinesWithinLease`). `DeadlineInv` bounds the deadlines by the lifetime of the address and the time of the script, `LeaseInv` that by the
  lease and the time of the ping; `Disturbed` says that a resumed client is not calm.
- `TokensSuffice` (`NeverBananas`), assuming `AmpleTokens`: six tokens, full again after a tick, and no lease that ends with
  its first tick. The code has ten tokens and one more each second (`dclient.go:55`), no lease below 60 s (`verifyer.go:61`), and ticks stand for ten to thirty seconds.
  `TokenInv` bounds by the state the loops since the limiter was full (`Loops`).

`ServerProofs` proves, for every number of goroutines, every set of packets, configurations and clients, and every network:

- `ServerTyped` (`ServerTypeOK`). `ServerInv` joins `IPDBInv`, what each goroutine knows where (`ProcOK`), and
  `MutexRight`: exactly one goroutine searches while the mutex is held. That part is what makes the pool's lemmas apply, each
  a statement about a pool that nobody else uses.
- `StartIsConsistent` (`StartedConsistent`). `StartInv` follows `New`: the entries taken so far have their reservation (`Taken`), every permanent
  record is the server's own or that of an entry (`Owned`), and the range is what the configuration asks for. It is kept by the goroutines too, so that
  the addresses stay reserved as long as the server runs.

The lemmas `SetLeaseRecords`, `InjectRecords` and `UpdateRecords` say what the pool's methods do to each single record.

`ServerProofs` proves of what the server promises:

- `PromisesHold` (`PromiseKept`) and `PromisesExclusive` (`NoDoublePromise`) for behaviours in which no step overwrites an
  identifier that a goroutine has still to use (`BufferKept`). Without that condition both are false: that is the run `server_buffer_race`.
  `PromiseInv` adds to `PromiseKept` that a goroutine has an identifier of its own client (`CidRight`). Two
  promises of one address would need two live records of it, which `TableOK` excludes.
- `ServerPromises`: the same without that condition on behaviours, if no client sends an identifier or one goroutine runs at a time and no
  foreign packets come in (`BufferSafe`). These are the instances of `server` and `server_kinds`.
- `RepliesAllowed` (`ReplyAllowed`), with any overwriting of the buffer. `AllowedInv` adds that leases that are not permanent are of open
  addresses, and so is the address a goroutine carries from one critical section to the next, unless it is the static one of its client.

`SystemProofs` proves, for any number of goroutines, clients and addresses, where the run `system` has one goroutine and one free address:

- `SystemHasServer`, `SystemHasClient`: every behaviour of the system is one of `Server` and one of `DClient`, so that what is proved above of either
  holds here. `P` is `DClientProofs` for the client of the system; `NetInv` says that only what the two may send is under way, and nothing of the
  current exchange once the client has stopped waiting.
- `AddressesApart`, `SystemExclusive` (`NoConflict`), for all times, `Transit`, `PingTime`, `ScriptTime` and failing calls. `HeldInv` relates the two counts of
  a lease: what the client has configured, less the delay, what it is about to configure after the ping (`Pinged`: how much of it has
  passed) and what it may yet learn from an acknowledgement under way (less the ticks it has been) the server's table holds for it at
  least as long (`HeldFor`). `Lag` is the transit, or nothing while `smooth`. `PromiseInv` says the same of other
  clients, and two records of one address that are both live cannot be (`TableOK`). `ShortInv`: no address has more left than a lease.
  `AddressesApart` needs `BufferKept`, `SystemExclusive` has `BufferSafe` instead (see above), as in the run.
- `RequestsAnswered` (`RequestAnswered`), if there is one goroutine (`OneAtATime`). `AssignedInv`: the client only has addresses the server manages;
  `AnswerInv`: the goroutine has the request the client is sending, and its lease is still the client's or at least nobody
  else's (`Agree`), so that `UpdateClient` takes it. With two goroutines that is false: while one checks the address of a lease that expires, another may
  give it away, and the first sends nothing.
- `AddressIsKept`, `SystemKeeps` (`AddressKept`), under the hypotheses of the two theorems on `NoConflict`. `OneDuid`: all goroutines know the client
  by one DUID, although `getDuid` chooses anew for each packet. `Counted` bounds what is left of the lease in each state (`Remains`), with the time
  the script and the ping take. `Unrefused`: once the client has been
  bound for a tick only renewals of its lease are under way, so no NACK can come. `Uncut`: no offer since the last acknowledgement.
  The property itself has a condition on the times, `LongLease`: at least three ticks, so that the renewal at a half comes before the rebinding at seven eighths,
  and a second half that is longer than script and ping together, because the first half is only counted when the script has ended (`dhcpstates.go:39`). The code
  allows a script of a minute (`callback.go:19`) and leases from 60 s on (`leaseopts.go:36`), for which the condition may not hold: such
  a client may lose its address before it renews. The run `client_script` shows what the same lateness does to the rebinding.

The proof of `AddressIsKept` changed the model's statement. With one free address a request cannot be for an old one; with two, TLC found that a renewal of
an earlier lease which a goroutine holds over a tick is refused later, and the client, which takes a NACK whatever its xid, drops
its present lease. `smooth` therefore asks that requests are handled, and not only answered, within a tick. A reply that crosses a tick is
excluded in the same way: a client that gets it late starts its count late.

Two hypotheses of the theorems on server and system are about identifiers. `DistinctIds`: no two clients send the same one, and none sends a DUID the server makes from a hardware address.
`ForeignIds`: neither does what an overwritten buffer holds look like such a DUID. The server's DUIDs begin with a hardware type that is
reserved (`utils.go:56-60`), so a client that keeps to the standard does not have one; a client identifier is otherwise taken as it is.

`DhcpMsgProofs` proves `DecodeExact` (`DecodedExactly`) for every set of frames, of any length. The invariant `DecodeInv`
says in addition that all options found so far end before `c` (`FoundRight`), and that everything between header and `c` is an option or padding
(`ParsedTo`), which becomes the statement about the whole packet when the end mark is seen (`EndSeen`). The one
step with an argument is an option that is appended (`AppendKeeps`): the old ones keep their places, and the new one covers
the positions `c` moves over.

`WireProofs` proves, for every set of requests, replies and ARP packets, and packets of any length:

- `RequestsUnderstood` (`RequestUnderstood`), `RepliesUnderstood` (`ReplyUnderstood`), `ProbesHeard` (`ProbeHeard`);
- `ChecksumsAreRight` (`ChecksumsRight`), and `WireExact` (`DecodedExactly` of what client and server send, which `DecodeExact` says of what others send).

The argument goes from bytes to messages:

- *Functions defined by their equations.* `WordSum` and `ipv4csum` of `Layer`, and `OptionsBytes` of `DhcpMsg`, use recursive functions,
  which TLA+ CHOOSEs by their equation. That there is such a function, and that every such function has the values
  one expects, is shown by induction over sets of numbers (`LeastNumber`, `AllNumbers`): `SumsOf`, `FoldOf`, `PartsOf`.
- *Checksums.* `WordSumCat` and `WordSumPut`: the sum of a packet is that of its parts, and writing into two bytes that
  were zero adds the word. `FoldRight`: folding the carries changes nothing modulo 65535. So the sum with
  the checksum in place is zero (`ChecksumSet`), whatever the parity of the length and however often a carry carries.
- *Layout.* `AssembleIs`, `DatagramIs`, `UDPIs`, `ArpIs` say at which offset each field lies, `HasAt` and
  `SameSliceSized` what a decoder's slice is then; `OptionsHas` where each option lies.
- *Decoding.* `Reads` is the invariant of the loop: what `Decode` has found are the first options that were sent, each at its place. With
  `DecodeInv` it gives the data of each code (`DataIs`), which for a list is one option per code, or none (`FourList` and others).
- *Meaning.* `MessageRead` says this of a packet in any state of its receiver; `RequestInv`, `ReplyInv` and `ProbeInv` say it
  of what is sent. `RequestOptionsAre` and `ReplyOptionsAre` list the options; `RouterAnnounced`, `ServersAnnounced` and `DomainAnnounced` follow
  configuration and entry through `OverrideIs`.

They assume that addresses and numbers have the width their Go types have (`RequestAssumption`, `ReplyAssumption`, `ProbeAssumption`), that the
configuration parses (`server.New` fails otherwise, `server.go:34`) and that the clients the server replies to have hardware addresses of six bytes. The last is not
checked by the code: the length is taken from the message (`parse.go:34`), but it is six on Ethernet. `NilAssumption` and
`OptionsAssumption` say that `nil` is no value.

Replies also need `ShortOptions`: domains of less than 256 bytes, less than 64 DNS and NTP servers, leases that fit 32 bits. The code checks none of it
(`assemble.go:56` cuts a length to a byte, `assemble.go:158` the seconds), and the hypothesis is as weak as it can be for the servers: with 63 of
them TLC finds `ReplyUnderstood` to hold, with 64 it is violated. The run `wire` evaluates it as an assumption of its instance.

Assumptions on constants are the named `ASSUME`s of the modules, which TLC evaluates on the instances; hypotheses of a single theorem are in its statement.

Only model-checked: liveness (`SearchEnds`, `LinkUpRevalidates`, `ShutdownExits`, `DecodeEnds`), which with fairness and ENABLED is
outside of what the prover does. Every invariant and every action property of a passing run is stated by a theorem.

## Not modelled

- `rsocks`: thin wrappers around system calls. `cmd`: flags and start-up. `ylog`: a log prefix.
- `oui`: `oui.go` is a generated table of 30482 lines, nine tenths of all lines of the repository, without state or control; `config.pb.go` is
  generated as well. Of the lines written by hand, definitions stand for about seven in ten. (`gen-liboui.go:56`
  sorts the keys of the table but not the names, which is right only as long as the list it downloads is sorted.)
- The sockets of `arpping` and the growing delays of the sender: an answer to a ping may come at any time of its wait or not at all, a request may be
  repeated at any time.
- A `LinkSubscribe` that fails (`netlink.go:16`; the error is ignored, and no event ever comes), and link changes before ifmon has subscribed.
- The hostname and the NTP servers of a reply: `dhcpOptions` sends the latter and the client has no use of them; `ReplyUnderstood` is about address,
  mask, router, name servers, domain and times.
- Formats: the environment of the script, the text of `resolv.conf`, log messages, the parsers of Go's `net` and `time`.
- Suspension of the machine. `hackAbsoluteSleep` means to notice it (`dclient.go:131-133`), but compares times with monotonic
  readings; a model needs two clocks for everything that has a lifetime.
- Nothing is checked of lengths and durations that overflow: options of more than 255 bytes (`assemble.go:56`), leases of 2^32 s and more (`assemble.go:158`). The
  operators cut them as the code does, but no instance has them and `ShortOptions` excludes them.
- Finer interleavings than critical sections in the server (`duid.String()` evaluated twice).

## Plan

Done: all parts of client and server with their own logic, their composition, and proofs of the lease table, the pool, the server's start and its
goroutines, the messages and their checksums, the client, the main client, and client and server together.

Next, in this order:

1. `RequestAnswered` with several goroutines, in the weaker form that holds there: an answer, or another client has the address.
2. Suspension: a wall clock beside the monotonic one.
