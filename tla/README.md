# A verification project for mapecd

mapecd is the MAP-E customer-edge daemon of this repository. It learns a delegated
IPv6 prefix and MAP rules by DHCPv6, computes the CE's addresses and port set, and
keeps the kernel configured for them: a /128 on the upstream interface, an ip6tnl
tunnel with an IPv4 address and a default route, two TC BPF programs that translate
ports, nftables tables that masquerade, and two forwarding sysctls.

The TLA+ modules here model that behaviour, TLC checks them on small instances and
TLAPS proves all the invariants for every instance. `PROJECT.json` maps
definitions to source lines, and lists runs, mutants, findings, hazards and theorems.

    tlc -workers 2 -config Lifecycle.cfg MCLifecycle      # one run
    tlapm LifecycleProofs.tla                             # one module of proofs

## 1. Inventory

| Part | State it keeps | Operations | Talks to |
|---|---|---|---|
| `daemon/lifecycle.rs` | none of its own; edits `DaemonState` and the kernel | `apply`, `update` (with `recreate_tunnel_and_apply`), `cleanup` | netlink, nft, BPF manager, /proc |
| `daemon/state.rs` | `pending_map_rules`, `pending_ia_pd`, `params`, `tunnel_ifindex`, saved sysctls, `ebpf` | `try_compute` | `map/` |
| `daemon/runner.rs` | the event loop, the rules cache file, the PID file | `start`, `startup_cleanup`, `handle_ia_pd`, `handle_both`, `apply_if_ready`, `status`, `stop` | two channels (16 and 4 slots), signals, lifecycle |
| `dhcpv6/client.rs` | socket, DUID file, current lease and timers | initial exchange, renewal loop, Release | servers; channel to the loop |
| `dhcpv6/capture.rs` | raw socket | filter and parse each frame | channel to the loop |
| `dhcpv6/lease_watcher.rs` | inotify watch | register, read event, parse lease file | channel to the loop |
| `dhcpv6/parser.rs` | none | `parse_mape_container`, `parse_ia_pd_info`, S46 options | client and capture |
| `map/` | none (and the generated v6plus table) | `compute_mape_params`, `calc_port_ranges` | state, nftables |
| `mapecd-common`, `mapecd-ebpf` | `CONFIG_MAP` (one `PsidConfig`) | `tc_egress`, `tc_ingress` | packets |
| `ebpf/`, `nftables/`, `netlink/` | handles | link and unlink, apply and delete tables, add and delete | kernel |
| `config.rs`, `main.rs`, `cli.rs`, `error.rs` | none | load, validate, check capabilities | |

One task runs the event loop; a handler runs to its end before the next event is
selected, but awaits the kernel a dozen times on the way. The DHCPv6 receiver and the
lease watcher are spawned tasks on a multi-threaded runtime; they are never joined.

What is hard to test, and what therefore has to hold:

- **Half-done configuration.** Each kernel call may fail; some failures end the
  operation, some are logged and passed over; a crash freezes any intermediate state.
  `params` must tell the truth about the kernel, remnants must be explainable, and
  packets must not leave with staging ports.
- **Who owns what.** A tunnel in the kernel that the daemon does not know of blocks
  its name for good.
- **Two readers of one file.** The lease file is read by the main task and by the
  watcher, into one small channel, in an order that nobody fixes.
- **One daemon.** A lock on a file whose name is removed before the lock.
- **An unreliable network.** Replies are lost, late, duplicated; T1, T2 and the
  lifetime come in an order the server chooses; the channel may be full.
- **A bijection on ports.** Two programs, written apart, must be inverse to each other
  for each offset, PSID length and PSID, and stay within the subscriber's ports.
- **A stateless relay.** The border relay computes a CE's address from an IPv4 address
  and a port; prefix extraction, address layout, the table of 690 rules and the two
  programs must together be the inverse of that, bit by bit.
- **Two sources of one lease.** In capture mode the daemon sniffs the host's Replies and
  watches its lease file, through two channels that nothing orders; each source may be
  late, incomplete or dead.

`PROJECT.json` lists each of these under "hazards", with the line where it bites.

## 2. Modules

### Lifecycle (lifecycle.rs, state.rs, runner.rs)

The variables are the fields of `DaemonState`, the kernel objects the daemon edits
(`addrs6`, `tnl`, `routes`, `nft`, `forward`), the rules cache, and `pc`/`job`: where
the handler in progress is and on which parameters. Every awaited kernel call is one
action (`apply_step2_add_ipv6`, `DelRoute`, `cleanup_del_ipv4_addr`, ...), with its failure
as a disjunct: `Abort` where the code uses `?`, a logged warning (`warned`) where it
goes on. `handle_ia_pd` and `handle_both` are the events, `terminate` is SIGTERM,
`crash` is anything else, `start_linux` with `Startup` the next start.

Abstractions. `Derived` is an arbitrary function from rules and prefixes to the
shared address, PSID, border relay and port parameters. Both CE formats put the
prefix, the IPv4 address and the PSID into the CE address, so `ce_ipv6` is that
triple. Because of this a changed IPv4 address or PSID changes the CE address too, and
the last two branches of `update` ("only IPv4", "only nftables") are never reached:
the invariant `JobInv` of the proofs says so. `kept6` is a history variable: addresses
the daemon has lost track of. Port ranges follow from the port parameters; those
without any (`NoPortRanges`) make `apply_ruleset` fail.

### CeService, and LifecycleRefinement

`CeService` is what the daemon promises without the kernel calls. It learns rules and
prefixes one input at a time (`Learn`), works on the parameters they yield, and is ready
again with these parameters in service (`Serve`) or with nothing (`GiveUp`), the latter
only if a call has failed, the daemon has crashed, or the port set is empty. An input
that yields nothing new interrupts nothing. Lifecycle implements it: `ImplementsService`
instantiates it with `Phase` (what `pc` amounts to), `InService` (what the kernel
carries, not what `params` says), and the pending inputs, the cache and the job as they
are.

### PortMap (mapecd-common, egress.rs, ingress.rs, port_set.rs, nftables/manager.rs)

`try_new`, `try_egress`, `try_ingress` and `calc_port_ranges` as operators on numbers
of `2 * ByteBits` bits; `masquerade` (conntrack, external) picks any staging port that
is free, packets leave and answers return. `load` and `store` convert between the bytes
of a packet and the number the program sees, in the byte order of the build.
`update_csum` is the incremental update of a complete checksum, through the kernel's
`l4_csum_replace` (external).

### LeaseWatch (lease_watcher.rs, runner.rs)

`systemd-networkd` replaces the file; inotify merges identical events that are unread.
The watcher's actions are registration, one event, parse, send; the main task's are
initial read, initial send, receive. The two are unordered, as in the code.

### PidFile (runner.rs)

`PidGuard::create` and `drop` at the level of open, flock, ftruncate, write, unlink and
close, any number of processes, each of which may fail or die at each step; `status`
and `stop` through the path. `Overlapping` tells whether a start may begin between the
unlink and the close of another process.

### DhcpClient (client.rs, the timers of parser.rs, the channel of runner.rs)

The client task's position, transaction id, server, lease and lease clock; the set of
datagrams sent by the client and by the servers, which never shrinks (a datagram may be
received again, late or never); the event channel and what the daemon has taken over
from it. A retransmission repeats the same bytes and a datagram that does not match
leaves the state as it was, so neither is an action. Transaction ids are fresh: that
two random 24-bit values coincide is left out. T1 and T2 of 0 are replaced as
`complement_timer` does. A lease with an infinite lifetime ends in `panicked` (section
6). `drop_task` is the runtime's shutdown, which does not wait for the client.

### MapCalc, Bits, V6PlusRules (calc.rs, state.rs, v6plus_rules.rs)

Bits are sequences of 0 and 1, prefixes have their real lengths. `extract_ea_bits`,
`derive_ipv4_and_psid`, `build_ce_ipv6` in both formats, and `try_compute` over the
whole generated table, in a domain of CEs that are delegated prefixes and lose them.
The border relay is external: `RelayAddress` is RFC 7597's inverse mapping, or that of
the layout `rule.rs` documents; either has the PSID at the left end of the last hextet.
Of the second this is known for 8 bits only, which is what `build_ce_ipv6` asserts
(`build_ce_ipv6_asserts`), so `AnswersReturn` speaks of CEs for which the assertion holds
(`AsAsserted`), and `LayoutAsserted`, that it always does, is refuted (section 5). The
model is the release build, which goes on where a debug build panics. A CE's ports go
through PortMap's `try_egress` and `try_ingress` at full width (`INSTANCE`). `ToNum`
takes 16 bits octet by octet, so that no recursion stands between the numbers and the
bits.

Nothing in the code checks its rules, so the assumptions name who answers for them.
`MapConstants`, the rules' author: EA bits are what remains of the IPv4 address and the
PSID, and fit into 64 bits. `RelayConstants`: the IPv4 prefixes of two rules do not
overlap, else no relay could tell them apart, and a PSID comes with an offset.
`TableConstants`: the static table is for /56. TLC evaluates all three on the 690 rules,
and in MCMapCalc also that no two of their IPv6 prefixes overlap. `Overlap` in
`Delegate` is the provider's part: it does not delegate one address to two customers at
a time.

### Parser and Capture (parser.rs, capture.rs, both channels of runner.rs, the cache)

`Parser` reads messages that are sequences of options; an option may be malformed (a
field is `None`) or overrun its payload, and which of these are errors and which are
passed over is as in `iter_opts`, `parse_s46_cont_mape` and `find_iapd`. The options of
a kind are given by the set of their places (`iter_opts` is the set of places a walk
comes to), of which the code takes the first, the last or each in turn: `First`, `Last`
and `Nth`. `Capture` is
capture mode from end to end: the host's client accepts Replies of a server whose
containers may be unusable and which may withdraw prefixes; the link-local address may
change; a stray Reply may go to the host, to another client or to a multicast address,
which `passes_dst_filter` lets through; `run_capture`
opens its socket, attaches the filter, keeps the address it has found, turns frames into
events and waits for a slot; the lease watcher does the same for the lease file; the
loop drains both channels in any order, writes the cache, loses its receiver, stops,
crashes and starts again. `faults` bounds all that does not go by the book. `latest`,
`prefix_gap`, `rules_gap` and `overran` are history variables: whether the newest thing
the capture had to offer was the host's. `CaptureConstants` says what the server sends:
rules whose fields are all there, non-empty lists with one relay each, and messages to
the host's port (`Harmless`) of which each is either not a successful Reply or delegates
no prefix. The parser may still yield the empty list, from a container that overruns.

### Composition

Lifecycle composes state, handlers, operations and kernel. LeaseWatch and DhcpClient
each compose an event source with its channel and the daemon's pending inputs, Capture
composes two sources, two channels, the handlers and the cache; MapCalc composes the
calculation, the table and the data path of PortMap. Lifecycle takes events in any order
and with any content, so it covers what any source can produce. `MCx` modules hold the
instances; `xProofs` and LifecycleRefinement hold the theorems.

## 3. Runs

| Run | Instance | Shows |
|---|---|---|
| `lifecycle` | 2 prefixes, 5 rule lists, 2 faults, 1 crash | `KernelMatchesParams`, `TunnelHasParams`, `ResidueExplained`, `StagingGuarded`; `ImplementsService`: a refinement of CeService |
| `lifecycle_live` | 3 prefixes (one not a /56), static table, 2 faults, 1 crash, fairness | `StaticParams`: nothing of the network's rules or the cache gets in; `Recovers`: the configuration comes back |
| `staging_leak` | as `lifecycle`, no faults needed | violation: see finding |
| `port_map` | 4-bit ports, all parameters with offset > 0 or length 0, 2 flows | the two programs are a bijection between staging range and own ports; `ChecksumsHold` |
| `port_byte_order` | 16-bit ports, v6plus, little-endian build | violation: see finding |
| `lease_watch` | 2 prefixes, 3 writes, 2 slots, fairness | `FreshTail`, `HangNeedsWrites`, `Converges`, `WatcherStops` |
| `pid_file` | 3 processes, 4 inodes, symmetry, no overlap | `AtMostOneDaemon`, `RunningIsFound` |
| `pid_race` | the same with overlap | violation: see finding |
| `dhcp_client` | 2 servers, 3 kinds of Reply, 4 exchanges, 4 answers, 1 slot, fairness | `NoStaleLease`, `DaemonFollowsLease`, `RenewalKeepsRules`, `RenewNamesLessor`, `ExpiredIsGivenUp` |
| `map_calc` | 2 CEs, all 690 rules (and 4 as DHCPv6 may bring them), prefixes at the edges of each | `AnswersReturn`, `OneUserPerPortSet`, `FollowsLease` |
| `v6plus_psid` | the same, static table | violation: see finding |
| `capture` | 2 prefixes, 2 lists, 2 Replies, 1 fault, one slot each, fairness | `PrefixConverges`, `RulesConverge`, `WholeList`, `Settles`, `CaptureEnds` |

Bounds, and why they are enough. In Lifecycle the rule lists drive `apply_if_ready`
into each branch (new relay, new port parameters, no match, no port ranges, empty
list); two faults let a failing operation's cleanup fail too, and a crash may come
before or after either. With the static table the loop always has rules, so that for
`Recovers` every usable prefix is enough to try again; other prefixes come in between
and are ignored. In LeaseWatch three writes are one more than the channel has
slots. In PidFile the race needs three processes: one that leaves, one that holds the
orphaned inode, one that makes a new one. In DhcpClient four exchanges are a lease
with two renewals in a row, with a Renew and a Rebind, or with an expiry and a second
lease; a channel of one slot is full after one event; the second Reply's lifetime ends
before its T1. In PortMap four bits hold all splits into offset, PSID and rest. In
MapCalc the widths are the real ones and so is the table; the prefixes are the first of
a rule, its neighbour and the last of another rule (where an off-by-one shows), and some
that no rule fits, one of them inside another; two CEs are enough for a property of
pairs. In Capture two Replies are an old one and its successor, which race through three
places of one slot each with the two lease events; one fault at a time shows what each
of them alone may do (a stray Reply, a new address, a container that overruns, a
withdrawn prefix, a failed cache write, an error of the socket, a crash); Replies
without a container, with a malformed rule or without a relay cost nothing. A Reply that
withdraws a prefix has no container, and once the daemon is gone for good the host is
not followed further: both only save states.

CHECK_DEADLOCK is off in `lease_watch`, `dhcp_client` and `capture`: their processes end.

Fairness. Lifecycle: weak fairness of the daemon's own steps (one task, and each kernel
call returns), of the delivery of Replies (leases are renewed) and of `start_linux`
(the unit restarts on failure). `Recovers` says nothing of an operator who
stops the daemon. LeaseWatch: weak fairness of each task, which tokio
gives a task that is ready; nobody has to write or stop. DhcpClient: timers fire, the
client's send completes when there is a slot, the loop drains while it runs, and a
cancelled task stops or is dropped; nothing is assumed of network and servers.
Capture: as long as networkd, the watcher, the capture or the loop can go on, one of them
does; that is less than tokio gives, and enough because each step uses something up.
Replies, addresses, faults and signals need not come.

## 4. Theorems

All theorems hold for every value of the constants that satisfies the named ASSUMEs.

**LifecycleProofs.** `TypeCorrect`, `ParamsAreTrue` (`KernelMatchesParams`),
`NoOrphanTunnel` (`TunnelHasParams`). `KernelMatchesParams` speaks of the idle loop
only and is not inductive. The invariant is
`IInv == TypeOK /\ JobInv /\ ParamsInv /\ Progress /\ KernelMatchesParams`:
`JobInv` relates each label to the job (while apply runs, `params` is the job's new
value; cleanup has something to clean), `ParamsInv` says that parameters are well formed
and that a tunnel has them, `Progress` says what apply and update have put into the
kernel when they reach a label. At the last label `Progress` is `Carries(job.new)`, and
`JobInv` makes that `params`. One lemma per group of actions, one step per action.
`StaticTableRules` (`StaticParams`) needs beside the property only that the rules in force
are the table's from `start_linux` on (`StaticInv`).

**LifecycleRefinement.** `DaemonImplementsService`: `Spec => ImplementsService`. That
`Serve` has the goal in service is `ParamsAreTrue`. The hard part is `GiveUp`: without
a fault or crash an apply never meets an address or a tunnel that is already there. The
invariant `SInv` adds to `IInv` where the ifindex is known (`IfindexInv`) and, for as
long as nothing has failed, which addresses the kernel holds at each label
(`CalmKernel`); `ServiceInvariance` proves it action by action. Then each action maps to
a step of CeService or a stutter: inner steps (`InnerStep`) stutter or are `CallFails`,
the last step of an operation is `Serve`, `GiveUp`, `Started` or `Stopped`, and an event
is `Learn`.

In the same module, `NothingLeftBehind` (`ResidueExplained`) and `StagingWindows`
(`StagingGuarded`). Both speak of what a failed or frozen operation leaves, so they need
the kernel at every label, also after failures, where `CalmKernel` says nothing. `RInv`
does that object by object: tables outside of service mean a failed deletion, and BPF
translates until `update` unlinks it (`TablesInv`); a tunnel without ifindex is one that
could not be deleted or brought up (`TunnelInv`); all addresses but the one being worked
on are in `kept6` (`AddressInv`); the administrator's sysctl value is in the kernel or
saved, so that `apply` never saves its own "1" (`SysctlInv`); no default route leads to a
tunnel that is not there (`RouteInv`). It is inductive relative to `IInv` and `SInv`.

**LeaseWatchProofs.** `TypeCorrect`, `NoHeardUpdateLost` (`FreshTail`) and
`StartupHangBound` (`HangNeedsWrites`). Beside the type, the invariant has `Carried` (a
heard write is in an unread event, in the watcher's hands, or newest in the channel) and
`Accounting` (each item in the channel and each event costs a write).

**PidFileProofs.** `TypeCorrect` in any case; `OneDaemon` (`AtMostOneDaemon`) and
`DaemonFound` (`RunningIsFound`) under `~Overlapping`; `pid_race` shows that the
assumption is needed. The invariant: who is past flock holds the lock of its inode
(`Locks`), all open files are the inode of the path (`OneInode`), and a running daemon's
PID is in its inode (`PidWritten`).

**DhcpClientProofs.** `TypeCorrect`, `DaemonHasPrefix` (`DaemonFollowsLease`),
`RenewalServer` (`RenewNamesLessor`), and the action properties `LeasesMoveForward`
(`NoStaleLease`) and `RulesKept` (`RenewalKeepsRules`). The network may deliver any old
datagram again, so the invariant is about all that was ever sent: an id belongs to one
message (`Exchanges`), each answer is to a message that was sent, by the server it names
(`Answered`), the client waits for the answer to its newest message, which is newer than
its lease (`Progress`), and whoever granted the lease is the server it will renew with,
unless it answered a Rebind (`Lessor`). What the daemon has once the channel is drained
is a fact about queues (`LatestAfterSend`, `LatestAfterRecv`).

**PortMapProofs.** `TypeCorrect` and `ChecksumsValid` (`ChecksumsHold`) in either byte
order; `OwnPortsOnly` (`OwnPorts`), `AnswersDelivered` (`AnswersReachFlow`), `PortsApart`
(`NoSharedPort`) and `NoPortWasted` (`AllPortsUsable`) for the build whose loads are in
network byte order. That hypothesis is needed: `port_byte_order` is the violation
without it. `OwnPortsOnly` also leaves out offset 0 with a PSID, which the code passes
untranslated (section 6). The invariant is small (`ConfigInv`: the configuration is that
of the parameters in force; `FlowInv`: each flow has its own staging port, and a peer saw
it translated); the work is in the arithmetic. A port is a number of three digits in the
bases `2^offset`, `2^length` and the rest; the masks and shifts of both programs are
division and remainder by these bases (`Digits`, `Split`), and `RoundTrip` is the
bijection on digits. `IngressUndoesEgress`, `EgressAssigns` and `EgressOnto` follow. The
checksum is arithmetic modulo `2^16 - 1` in which folding changes nothing (`FoldCong`)
and exchanging the bytes is multiplication by `2^8` (`SwapCong`), so that updates on
swapped words are exact. `ByteBits` is any of 1 to 8: the code has 8, and what powers
of two are is shown from a table, not by induction (`PowTable`).

**CaptureProofs.** `TypeCorrect`, `ListsWhole` (`WholeList`), `PrefixAgrees`
(`PrefixConverges`) and `RulesAgree` (`RulesConverge`), for queues of any size and any
number of Replies and faults. First the parser: `ParsePrefix`, `ParseRule`, `ParseList`,
`ParseForm` and `ParseContainer` say what is read of a list of any length in each form
the server can give it; `GrantEvent` and `NoiseEvent`, what event a frame becomes. The
last two properties speak of a settled state only, when everything on its way has
arrived, so the invariant has to say what is on its way. `Chain` says that the newest
news among the frames in the socket, the event held and the events in the channel, if
there is any, is a given value; lemmas about `NewestIs`, `Longer` and `Shorter` carry it
through each move. `LeaseCurrent` says so of the lease channel; `PrefixCurrent` says that
the capture's newest prefix is the one that is in the file or about to be (`Newest`),
and that once both sources are drained the daemon has one of these two; `RulesCurrent`
the same of lists and `latest`; `Unshortened` that no list on its way lacks its end
unless a container overran; `Typed` is `TypeOK` with the contents of the queues.
TLC found the invariant true in all states of the instance of `capture` before the proof.

**MapCalcProofs.** `TypeCorrect`, `LeaseFollowed` (`FollowsLease`), `OneUser`
(`OneUserPerPortSet`), `AnswersComeBack` (`AnswersReturn`) and `EveryPort`, which says
so of all staging ports where the run takes the first and the last: for any rules under
the assumptions of section 2, any number of CEs and any prefixes. The invariant has
three parts: parameters are what `compute_mape_params` makes of a prefix and a rule that
fits it (`Computed`), a lease that some rule fits is in use (`InUse`), and no two leases
overlap (`Apart`). The rest is what the functions do.

1. *Bits.* `Derived`: the rule's IPv6 prefix, the suffix of the IPv4 address and the PSID,
   put together, are the delegated prefix again, for every split of the EA bits. So an
   IPv4 address and a PSID belong to one prefix: `OneUser`. `ComputedRight` collects this
   (`Right`), with the interface identifier behind the prefix.
2. *The search.* `Search`: `try_compute` finds a rule that fits if there is one; the least
   place is found by the library's theorem on well-founded relations.
3. *Numbers.* Octets and hextets are told apart by their bits (`OctetInjective`,
   `HextetsInjective`); `NumberBits`, `LowBit` and `TwoShifts` relate shifts of a number
   to its bits, and `PortBits` makes the PSID the relay reads from a port the one the CE
   computed. `RfcHextets` and `TableHextets` are the two layouts, `Shifted` the
   multiplication by which the relay aligns a PSID.
4. *The way back.* `Relayed`: the relay's address is the CE's. That a port leaves with the
   CE's PSID and returns to its staging port are PortMap's theorems (`EgressAssigns`,
   `IngressUndoesEgress`) through an `INSTANCE` of PortMapProofs at the width of the code,
   whose assumptions `PortConstantsHold` shows. No other CE is there, because it would
   have the same address in its own lease, and leases are apart.

Only model-checked: liveness (`Recovers`, `Converges`, `WatcherStops`,
`ExpiredIsGivenUp`, `Settles`, `CaptureEnds`), which is out of the prover's reach. That the
v6plus table meets MapCalc's assumptions is TLC's evaluation of its 690 constants, which is
complete.

## 5. Findings

`PROJECT.json` quotes the lines. In short: a tunnel re-creation unlinks BPF while
masquerading is on (`staging_leak`); on a little-endian host the programs compare
unswapped ports (`port_byte_order`, while `port_map` shows that the arithmetic is right
for the other byte order); the PID file is unlinked before the lock is released
(`pid_race`); the static table has rules that break an assertion (`v6plus_psid`).

Of the last: `build_ce_ipv6` asserts that V6Plus comes with PSIDs of 8 bits
(`calc.rs:108`), and `apply_if_ready` takes V6Plus for the whole table, of which the 428
/38 rules of 2400:4050::/32 to 2400:4153::/32 have 6 (`v6plus_rules.rs:2899` on,
`v6plus-static-map-rules-plan.md:31`). A debug build panics on the first prefix of such a
rule; a release build puts the PSID at `<< 8`. `ce-ipv6-format-plan.md:82` calls such an
address wrong, `v6plus-static-map-rules-plan.md:94` has `<< 8` with no condition, and RFC
7597's place would be `<< 10`: what the provider's relay expects is not in the repository.
So for these rules `AnswersReturn` says nothing; `OneUserPerPortSet` and `FollowsLease`
hold for them.

## 6. Other disagreements met

No run is devoted to these; the model follows the code in each case, and where a
property has an exception, this is what the exception is for.

- `create_ip6tnl` can fail after RTM_NEWLINK has succeeded (`netlink/tunnel.rs:90`); the
  link stays, nobody owns it, and every later apply fails on its name until a restart.
  `implementation-plan.md:626` says that the next DHCPv6 event rebuilds the configuration
  from `apply`. `Recovers` excepts exactly this (`warned` has "half" or "link").
- `run_lease_watcher` is spawned, not awaited, so the initial read may come before the
  registration, and an update in between is not seen until the next one; the comment at
  `runner.rs:145` says that the order of the two excludes this. `Converges` and
  `FreshTail` speak of writes that come after both.
- The first IAPREFIX is taken whatever its valid lifetime, so a prefix the server
  withdraws in the same Reply may be taken for the delegated one, until the lease event
  (`prefix_gap`). A status is looked for in the IA_PD, not in the IAPREFIX as the comment
  at `parser.rs:106` says. The capture compares neither transaction id nor IAID.
- A prefix that no rule fits, or that is not a /56 with the static table, keeps the old
  parameters in force (`runner.rs:402`); a lease that ends is not told to the daemon.
- An option that overruns its payload ends the list without an error (`iter_opts`); the
  shortened list is saved. `WholeList` excepts it (`overran`), and so does
  `RulesConverge` (`rules_gap`), as well as a restart after a failed write of the cache.
- The S46 parser checks neither `offset + length <= 16` nor `ea_length`; the list is in
  the cache before it is used, so a restart meets it again.

- A failed `update` is followed by `cleanup` of the new parameters only, and the old
  /128 may stay (`runner.rs:361`); `implementation-plan.md:626` says that the whole
  configuration is cleared. `ResidueExplained` counts such an address in `kept6`.
- `startup_cleanup` removes no /128 (`implementation-plan.md:613`), and after a crash
  the sysctls are saved with the daemon's own values, so the next orderly stop does not
  restore the administrator's (`:623`).
- The first Reply of a cycle without an S46 container is sent as `Both` with no rules,
  which empties `pending_map_rules` and the cache, though the client logs "using cached
  rules" (`client.rs:626`). `RenewalKeepsRules` allows this case and no other.
- A lease with an infinite lifetime adds `u64::MAX / 2` seconds to an `Instant`
  (`client.rs:293`, "effectively infinite"), which overflows and panics the task.
- In Renew and Rebind a Reply with a failure status is logged and the message sent
  again at once; `implementation-plan.md:174` says to start over with Solicit.
- A Rebind answered by another server keeps the first one's `server_duid`; `RenewNamesLessor`
  excepts the lease it grants.
- `update_tcp_udp_csum` sets BPF_F_PSEUDO_HDR (`checksum.rs:20`), though a port is not
  part of the pseudo header. For a complete checksum the flag changes nothing, and
  `ChecksumsHold` is about those; in a packet whose checksum is left to the hardware
  (sent by the host itself, or merged on reception) the kernel then changes the seed as
  well. BPF_F_MARK_MANGLED_0 is not set: a UDP packet without checksum gets a wrong one.
  Both depend on the kernel, which is not part of the repository.
- `stop` signals the PID it has read; if the daemon has ended in between, the PID may be
  another process's (`runner.rs:585`). PidFile does not reuse PIDs. Renew and Rebind are
  repeated as fast as refusals come (`client.rs:358`); the model has no rates.
- Offset 0 with a PSID: the programs translate nothing (`mapecd-common/src/lib.rs:53`),
  against `tc-psid-nat-plan.md:140`; `port_map` leaves these parameters out.
- `calc_port_ranges` is not the RFC's port set (`port_set.rs:5`,
  `tc-psid-nat-plan.md:119`); with offset + length = 16 it is empty, and above 16 a
  shift underflows.
- `try_compute` takes the first rule that covers the prefix and fits it, not the longest
  (`state.rs:77`; `implementation-plan.md:577` and `:606`). In the static table no two
  prefixes overlap, so the two agree there; of a list from the network nothing is known.
  Fragments after the first are rewritten too
  (`aya-ebpf-plan.md:656`).

## 7. Not modelled

Configuration file, command line, capability checks and error types: read or raised
once, no state. Header parsing and fragments in BPF, the text of rule sets, netlink
attributes: encoding without control. The DUID file: read or created once, before the
client starts. The generator of the v6plus table (the table itself is in V6PlusRules).
`getifaddrs`: the address is found if there is one; the code gives up at an entry without
an address. Two daemons' captures side by side, and the client together with the watcher:
Lifecycle's handlers take either. Packaging: assumed to start one daemon at a time.

## 8. Plan

Done, in this order: Lifecycle with its proofs, PortMap, LeaseWatch and PidFile with
their proofs, DhcpClient; MapCalc with the rule table, Parser and Capture, CeService and
the proof that Lifecycle implements it; proofs for DhcpClient, the rest of Lifecycle,
PortMap, Capture and MapCalc.

Left: fragments and header parsing of the BPF programs, the DUID file, and shared lemmas
on queues for DhcpClientProofs and CaptureProofs.
