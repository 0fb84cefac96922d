------------------------------ MODULE Capture ------------------------------
(***************************************************************************)
(* Capture mode, the default.  The host's own DHCPv6 client (networkd)     *)
(* keeps the lease; the daemon learns of it twice.  A task sniffs the      *)
(* server's Replies on an AF_PACKET socket, for the prefix and the MAP     *)
(* rules, and the lease watcher reads the prefix out of the lease file.    *)
(* Both feed the main loop through bounded channels that nothing orders,   *)
(* and what is handled last stays in force.                                *)
(*                                                                         *)
(* LeaseWatch has the watcher in detail; here it is two steps, and the     *)
(* gap between its registration and the initial reading is closed.         *)
(* Applying the parameters is Lifecycle's.  The rules come from DHCPv6     *)
(* (use_v6plus_static_rules = false).                                      *)
(***************************************************************************)
EXTENDS Parser

CONSTANTS
    Prefix,         \* delegated prefixes
    Rule,           \* MAP rules as parsed
    Lists,          \* the server's rule lists, sequences of rules with one relay
    Contents,       \* what a Reply says of the rules: nothing, or a list in some form
    Harmless,       \* messages to the host's DHCPv6 port that grant nothing
    SockCap,        \* frames the socket's buffer holds
    DhcpCap,        \* of the event channel (16 in the code)
    LeaseCap,       \* of the lease channel (4 in the code)
    MaxReplies,     \* bound: Replies the host accepts
    MaxFaults       \* bound: everything that does not go by the book

\* What a list can be when it is read: whole, or without its end.
AnyList == Lists \cup UNION {{SubSeq(l, 1, n) : n \in 0 .. Len(l)} : l \in Lists}

\* DhcpV6Event: Both if there is a list, else IaPdReceived.
DhcpV6Event == [rules : {<<>>} \cup {<<l>> : l \in AnyList}, ia_pd : Prefix]

Address == 1 .. MaxFaults + 1
Other == 0          \* the address of another client of the link
Multicast == -1     \* ff00::/8

ASSUME CaptureConstants ==
    /\ {SockCap, DhcpCap, LeaseCap} \subseteq Nat \ {0}
    /\ {MaxReplies, MaxFaults} \subseteq Nat
    /\ \A r \in Rule :
          /\ r = [body |-> r.body, br_address |-> r.br_address, port_params |-> r.port_params]
          /\ None \notin {r.body, r.br_address, r.port_params}
    /\ Lists \subseteq Seq(Rule) \ {<<>>}
    /\ \A l \in Lists : \A i \in 1 .. Len(l) : l[i].br_address = l[1].br_address
    /\ Contents \subseteq
         {<<>>} \cup (Lists \X {"whole", "relayless", "malformed", "overrun"})
    /\ \A m \in Harmless :
          m.msg_type # "Reply" \/ m.status # "Success" \/ parse_ia_pd(m, None) = None
    /\ None \notin Prefix \cup AnyList \cup DhcpV6Event \cup Address \cup {Other, Multicast}

VARIABLES
    address,            \* the host's link-local address, numbered: None at first
    file,               \* the prefix in networkd's lease file
    granted,            \* a prefix networkd has accepted and not written yet
    sock,               \* frames in the socket's buffer
    pc,                 \* where run_capture is
    our_ll_addr,        \* the address it has found
    held,               \* the event it waits to send
    chan,               \* dhcpv6_tx .. dhcpv6_rx
    dhcp_rx,            \* dhcpv6_rx_opt is Some
    changed,            \* an inotify event is unread
    found,              \* the prefix the watcher waits to send
    lease_chan,         \* lease_tx .. lease_rx
    main,               \* where start_linux is
    pending_ia_pd,
    pending_map_rules,
    cache,              \* the rules cache file
    replies, faults,    \* so far
    latest,             \* the newest whole list of a Reply the host accepted
    prefix_gap,         \* the capture's newest prefix may not be the host's
    rules_gap,          \* the capture's newest list may not be the host's
    overran             \* a container with an option that overruns it was sent

host == <<address, file, granted>>
capture == <<sock, pc, our_ll_addr, held>>
channels == <<chan, dhcp_rx, lease_chan>>
watcher == <<changed, found>>
daemon == <<main, pending_ia_pd, pending_map_rules, cache>>
book == <<replies, faults, latest, prefix_gap, rules_gap, overran>>
vars == <<host, capture, channels, watcher, daemon, book>>

Opened == pc \in {"socket", "loop", "sending"}

-----------------------------------------------------------------------------
(* The server, external *)

RuleOption(r, valid) ==
    [code |-> "RULE", body |-> IF valid THEN r.body ELSE None,
     opts |-> <<[code |-> "PORTPARAMS", params |-> r.port_params]>>]

BR(a) == [code |-> "BR", addr |-> a]
Overrun == [code |-> "overrun"]

\* A list as a container, in every form that is not plainly the list: with the
\* relay last, without a valid relay, with a malformed rule at the front, and with
\* a length that makes its last rule overrun.
Container(list, form) ==
    LET rules == [i \in DOMAIN list |-> RuleOption(list[i], form # "malformed" \/ i > 1)]
        relay == list[1].br_address
    IN  [code |-> "CONT_MAPE",
         opts |-> CASE form = "relayless" -> rules \o <<BR(None)>>
                    [] form = "overrun" -> <<BR(relay)>> \o SubSeq(rules, 1, Len(rules) - 1) \o <<Overrun>>
                    [] OTHER -> <<BR(None)>> \o rules \o <<BR(relay)>>]

IAPD(prefixes, status) ==
    [code |-> "IA_PD", iaid |-> 1,
     opts |-> [i \in DOMAIN prefixes |-> [code |-> "IAPREFIX", prefix |-> prefixes[i]]]
                \o <<[code |-> "STATUS", status |-> status]>>]

Reply(opts) == [msg_type |-> "Reply", status |-> "Success", opts |-> opts]

Options(content) == IF content = <<>> THEN <<>> ELSE <<Container(content[1], content[2])>>
Whole(content) == content # <<>> /\ content[2] = "whole"
Overrunning(content) == content # <<>> /\ content[2] = "overrun"

-----------------------------------------------------------------------------
(* What reaches the socket *)

Frame(dst, payload) == [len |-> 63, dst |-> dst, dport |-> 546, payload |-> payload]

\* A frame of the upstream interface.  Until the filter is attached, all IPv6
\* frames go through; before bind, those of the other interfaces too.
BPF_FILTER(frame) == frame.dport = 546
Taken(frame) ==
    /\ Opened
    /\ pc \in {"loop", "sending"} => BPF_FILTER(frame)
    /\ Len(sock) < SockCap

Deliver(frame) == sock' = IF Taken(frame) THEN Append(sock, frame) ELSE sock

\* Replies that the capture has seen and the daemon has not handled.
Underway == sock # <<>> \/ held # None \/ chan # <<>>

Fault == faults < MaxFaults /\ faults' = faults + 1

\* The host accepts a Reply.  It asks for one IA_PD and takes the prefix with a
\* lifetime; if the server withdraws another one, that stands before it or behind.
\* The Reply may be too much for the socket, may find it closed, or meets a capture
\* that goes by an address the host no longer has.
Exchange(p, withdrawn, content) ==
    LET frame  == Frame(address, Reply(<<IAPD(withdrawn \o <<p>>, "Success")>> \o Options(content)))
        missed == ~Taken(frame) \/ our_ll_addr \notin {None, address}
    IN  /\ address # None /\ granted = None
        /\ replies < MaxReplies /\ replies' = replies + 1
        /\ IF withdrawn # <<>> \/ Overrunning(content) THEN Fault ELSE UNCHANGED faults
        /\ granted' = p
        /\ Deliver(frame)
        /\ latest' = IF Whole(content) THEN content[1] ELSE latest
        /\ prefix_gap' = IF missed THEN prefix_gap \/ Underway ELSE withdrawn # <<>>
        /\ rules_gap' = IF Whole(content) THEN missed ELSE rules_gap \/ Overrunning(content)
        /\ overran' = (overran \/ Overrunning(content))
        /\ UNCHANGED <<address, file, pc, our_ll_addr, held, channels, watcher, daemon>>

\* A Reply that the host does not take: of another client's exchange, to a multicast
\* address, or a late duplicate of its own.  The first kind can do harm only while
\* there is no address.
Stray(dst, p, content) ==
    /\ Fault
    /\ dst # None
    /\ Deliver(Frame(dst, Reply(<<IAPD(<<p>>, "Success")>> \o Options(content))))
    /\ LET heeded == Opened /\ (dst \in {address, Multicast} \/ address = None)
       IN  /\ prefix_gap' = (prefix_gap \/ heeded)
           /\ rules_gap' = (rules_gap \/ (heeded /\ content # <<>>))
    /\ UNCHANGED <<host, pc, our_ll_addr, held, channels, watcher, daemon, replies, latest, overran>>

\* Other traffic to the host: messages that grant nothing, to either port.
Noise(m) ==
    /\ Fault
    /\ address # None
    /\ Deliver([Frame(address, m) EXCEPT !.dport = IF m.msg_type \in {"Reply", "Advertise"} THEN 546 ELSE 547])
    /\ UNCHANGED <<host, pc, our_ll_addr, held, channels, watcher, daemon,
                   replies, latest, prefix_gap, rules_gap, overran>>

\* The interface gets its address, or another one.
SetAddress ==
    /\ IF address = None THEN address' = 1 /\ UNCHANGED faults
                         ELSE address' = address + 1 /\ Fault
    /\ prefix_gap' = (prefix_gap \/ sock # <<>>)
    /\ rules_gap' = (rules_gap \/ sock # <<>>)
    /\ UNCHANGED <<file, granted, capture, channels, watcher, daemon, replies, latest, overran>>

\* networkd writes the lease; inotify tells of it, unless nothing has changed and
\* networkd does not write at all.
networkd_write ==
    /\ granted # None
    /\ file' = granted
    /\ granted' = None
    /\ changed' \in IF file = granted THEN {changed, TRUE} ELSE {TRUE}
    /\ UNCHANGED <<address, capture, channels, found, daemon, book>>

-----------------------------------------------------------------------------
(* run_lease_watcher *)

handle_lease_event ==
    /\ changed /\ found = None
    /\ changed' = FALSE
    /\ found' = file
    /\ UNCHANGED <<host, capture, channels, daemon, book>>

send_lease_event ==
    /\ found # None
    /\ \/ main # "gone" /\ Len(lease_chan) < LeaseCap /\ lease_chan' = Append(lease_chan, found)
       \/ main = "gone" /\ UNCHANGED lease_chan
    /\ found' = None
    /\ UNCHANGED <<host, capture, chan, dhcp_rx, changed, daemon, book>>
-----------------------------------------------------------------------------
(* run_capture *)

\* The way to the loop, at whose head the address is looked up once; each of its
\* steps can fail.
open_socket ==
    /\ pc = "start"
    /\ pc' \in {"socket", "ended"}
    /\ UNCHANGED <<host, sock, our_ll_addr, held, channels, watcher, daemon, book>>

\* The end of the task closes the socket and drops dhcpv6_tx.
CloseSocket ==
    /\ sock' = <<>>
    /\ prefix_gap' = (prefix_gap \/ sock # <<>>)
    /\ rules_gap' = (rules_gap \/ sock # <<>>)

\* getifaddrs finds the address if there is one.
get_link_local_addr == address

\* bind and SO_ATTACH_FILTER; what has been queued before stays queued.
attach_filter ==
    /\ pc = "socket"
    /\ \/ /\ pc' = "loop"
          /\ our_ll_addr' = get_link_local_addr
          /\ UNCHANGED <<sock, prefix_gap, rules_gap>>
       \/ pc' = "ended" /\ CloseSocket /\ UNCHANGED our_ll_addr
    /\ UNCHANGED <<host, held, channels, watcher, daemon, replies, faults, latest, overran>>

\* Another host's unicast is skipped; without an address of our own all is taken.
passes_dst_filter(frame, ll) ==
    frame.len >= 54 /\ (ll = None \/ frame.dst \in {ll, Multicast})

\* Mutant of process_frame: a container that does not parse spoils the Reply.
process_whole_frame(frame, ll) ==
    LET m      == frame.payload
        prefix == parse_ia_pd(m, None)
        rules  == parse_mape_container(m)
    IN  IF \/ frame.len < 63
           \/ ~passes_dst_filter(frame, ll)
           \/ m.msg_type # "Reply"
           \/ m.status # "Success"
           \/ prefix = None
           \/ rules = <<>> /\ \E i \in DOMAIN m.opts : m.opts[i].code = "CONT_MAPE"
        THEN None
        ELSE [rules |-> rules, ia_pd |-> prefix]

\* The event a frame makes, or None.  A container that does not parse leaves the
\* prefix; neither the transaction id nor the IAID is compared with anything.
process_frame(frame, ll) ==
    LET m      == frame.payload
        prefix == parse_ia_pd(m, None)
        rules  == parse_mape_container(m)
    IN  IF \/ frame.len < 63
           \/ ~passes_dst_filter(frame, ll)
           \/ m.msg_type # "Reply"
           \/ m.status # "Success"
           \/ prefix = None
        THEN None
        ELSE [rules |-> rules, ia_pd |-> prefix]

\* Mutant of recv_frame: nothing is received before there is an address.
recv_frame_with_address ==
    /\ pc = "loop" /\ main = "loop" /\ sock # <<>> /\ address # None
    /\ sock' = Tail(sock)
    /\ our_ll_addr' = IF our_ll_addr = None THEN get_link_local_addr ELSE our_ll_addr
    /\ held' = process_frame(Head(sock), our_ll_addr')
    /\ pc' = IF held' = None THEN "loop" ELSE "sending"
    /\ UNCHANGED <<host, channels, watcher, daemon, book>>

recv_frame ==
    /\ pc = "loop" /\ main = "loop" /\ sock # <<>>
    /\ sock' = Tail(sock)
    /\ our_ll_addr' = IF our_ll_addr = None THEN get_link_local_addr ELSE our_ll_addr
    /\ held' = process_frame(Head(sock), our_ll_addr')
    /\ pc' = IF held' = None THEN "loop" ELSE "sending"
    /\ UNCHANGED <<host, channels, watcher, daemon, book>>

\* AsyncFd reports an error: the task is over, the daemon is not.
readable_error ==
    /\ pc = "loop"
    /\ Fault
    /\ pc' = "ended"
    /\ CloseSocket
    /\ UNCHANGED <<host, our_ll_addr, held, channels, watcher, daemon, replies, latest, overran>>

\* Mutant of send_event: the channel is unbounded.
send_unbounded ==
    /\ pc = "sending"
    /\ chan' = Append(chan, held)
    /\ held' = None
    /\ pc' = "loop"
    /\ UNCHANGED <<host, sock, our_ll_addr, dhcp_rx, lease_chan, watcher, daemon, book>>

\* tx.send().await is not raced against the token: it ends when there is room, or
\* when the receiver is gone.
send_event ==
    /\ pc = "sending"
    /\ \/ main # "gone" /\ Len(chan) < DhcpCap /\ chan' = Append(chan, held)
       \/ main = "gone" /\ UNCHANGED chan
    /\ held' = None
    /\ pc' = "loop"
    /\ UNCHANGED <<host, sock, our_ll_addr, dhcp_rx, lease_chan, watcher, daemon, book>>

\* Mutant of capture_cancelled: the token is only looked at when a frame is there.
cancelled_between_frames ==
    /\ pc = "loop" /\ main # "loop" /\ sock # <<>>
    /\ pc' = "ended"
    /\ CloseSocket
    /\ UNCHANGED <<host, our_ll_addr, held, channels, watcher, daemon, replies, faults, latest, overran>>

\* The token is looked at first (biased).
capture_cancelled ==
    /\ pc = "loop" /\ main # "loop"
    /\ pc' = "ended"
    /\ CloseSocket
    /\ UNCHANGED <<host, our_ll_addr, held, channels, watcher, daemon, replies, faults, latest, overran>>

-----------------------------------------------------------------------------
(* start_linux *)

handle_ia_pd(prefix) ==
    /\ pending_ia_pd' = prefix
    /\ UNCHANGED <<pending_map_rules, cache>>

\* A temporary file and a rename: whichever step fails, the old list stays whole.
save_rules_cache(rules, saved) == cache' = IF saved THEN rules ELSE cache

\* None if there is no file.
load_rules_cache == cache

\* The cache is written before the rules are taken over; a failure is only logged.
handle_both(rules, prefix, saved) ==
    /\ save_rules_cache(rules, saved)
    /\ pending_map_rules' = rules
    /\ pending_ia_pd' = prefix

\* Some(DhcpV6Event)
recv_dhcp ==
    /\ main = "loop" /\ dhcp_rx /\ chan # <<>>
    /\ chan' = Tail(chan)
    /\ LET event == Head(chan) IN
         \/ event.rules = <<>> /\ handle_ia_pd(event.ia_pd) /\ UNCHANGED faults
         \/ event.rules # <<>> /\ handle_both(event.rules[1], event.ia_pd, TRUE) /\ UNCHANGED faults
         \/ event.rules # <<>> /\ handle_both(event.rules[1], event.ia_pd, FALSE) /\ Fault
    /\ UNCHANGED <<host, capture, dhcp_rx, lease_chan, watcher, main,
                   replies, latest, prefix_gap, rules_gap, overran>>

\* None: the sender is gone.  The branch is disabled, the loop goes on.
dhcp_closed ==
    /\ main = "loop" /\ dhcp_rx /\ chan = <<>> /\ pc = "ended"
    /\ dhcp_rx' = FALSE
    /\ UNCHANGED <<host, capture, chan, lease_chan, watcher, daemon, book>>

recv_lease ==
    /\ main = "loop" /\ lease_chan # <<>>
    /\ lease_chan' = Tail(lease_chan)
    /\ handle_ia_pd(Head(lease_chan))
    /\ UNCHANGED <<host, capture, chan, dhcp_rx, watcher, main, book>>

\* SIGTERM or SIGINT: the token is cancelled, the receivers live on through the
\* cleanup and are dropped with start_linux.
stop ==
    /\ main = "loop"
    /\ main' = "cleanup"
    /\ UNCHANGED <<host, capture, channels, watcher, pending_ia_pd, pending_map_rules, cache, book>>

cleanup ==
    /\ main = "cleanup"
    /\ main' = "gone"
    /\ UNCHANGED <<host, capture, channels, watcher, pending_ia_pd, pending_map_rules, cache, book>>

\* Mutant of restart: the rules have to come from the next Reply.
restart_without_rules ==
    /\ Fault
    /\ sock' = <<>> /\ pc' = "start" /\ our_ll_addr' = None /\ held' = None
    /\ chan' = <<>> /\ dhcp_rx' = TRUE
    /\ changed' = FALSE /\ found' = None
    /\ lease_chan' = IF file = None THEN <<>> ELSE <<file>>
    /\ main' = "loop"
    /\ pending_ia_pd' = None /\ pending_map_rules' = None
    /\ prefix_gap' = FALSE /\ rules_gap' = (cache # latest)
    /\ UNCHANGED <<host, cache, replies, latest, overran>>

\* A crash, or the end, and a new start: load_rules_cache, the initial reading of
\* the lease file, the receiver.
restart ==
    /\ Fault
    /\ sock' = <<>> /\ pc' = "start" /\ our_ll_addr' = None /\ held' = None
    /\ chan' = <<>> /\ dhcp_rx' = TRUE
    /\ changed' = FALSE /\ found' = None
    /\ lease_chan' = IF file = None THEN <<>> ELSE <<file>>
    /\ main' = "loop"
    /\ pending_ia_pd' = None /\ pending_map_rules' = load_rules_cache
    /\ prefix_gap' = FALSE /\ rules_gap' = (cache # latest)
    /\ UNCHANGED <<host, cache, replies, latest, overran>>

-----------------------------------------------------------------------------

Init ==
    /\ address = None /\ file = None /\ granted = None
    /\ sock = <<>> /\ pc = "start" /\ our_ll_addr = None /\ held = None
    /\ chan = <<>> /\ dhcp_rx = TRUE
    /\ changed = FALSE /\ found = None
    /\ lease_chan = <<>>
    /\ main = "loop" /\ pending_ia_pd = None
    /\ pending_map_rules = None /\ cache = None
    /\ replies = 0 /\ faults = 0
    /\ latest = None /\ prefix_gap = FALSE /\ rules_gap = FALSE /\ overran = FALSE

\* (A daemon that is gone for good is not followed further.)
World ==
    /\ main = "gone" => faults < MaxFaults
    /\ \/ \E p \in Prefix : \E withdrawn \in {<<>>} \cup {<<q>> : q \in Prefix \ {p}}, content \in Contents :
             /\ withdrawn = <<>> \/ content = <<>>
             /\ Exchange(p, withdrawn, content)
       \/ \E p \in Prefix, content \in {c \in Contents : c = <<>> \/ Whole(c)}, dst \in {Other, Multicast, address} :
             Stray(dst, p, content)
       \/ \E m \in Harmless : Noise(m)
       \/ SetAddress

Watcher == handle_lease_event \/ send_lease_event
Setup == open_socket \/ attach_filter
Receive == Setup \/ send_event \/ capture_cancelled \/ recv_frame
Handle == recv_dhcp \/ dhcp_closed \/ recv_lease

Next ==
    \/ World
    \/ networkd_write
    \/ Watcher
    \/ Receive
    \/ Handle
    \/ cleanup
    \/ readable_error
    \/ stop
    \/ restart

\* tokio polls the tasks that are ready, select! picks among the ready branches at
\* random, the cleanup ends and networkd saves what it has accepted: as long as one
\* of them can go on, one of them does.  Each step uses something up, so nothing
\* more is needed.
Progress == networkd_write \/ Watcher \/ Handle \/ cleanup \/ Receive

Spec == Init /\ [][Next]_vars /\ WF_vars(Progress)

-----------------------------------------------------------------------------
(* Properties *)

\* The variables have their types and no queue exceeds its capacity.
TypeOK ==
    /\ address \in Address \cup {None} /\ {file, granted, found, pending_ia_pd} \subseteq Prefix \cup {None}
    /\ Len(sock) <= SockCap /\ Len(chan) <= DhcpCap /\ Len(lease_chan) <= LeaseCap
    /\ pc \in {"start", "socket", "loop", "sending", "ended"}
    /\ pc = "sending" <=> held # None
    /\ our_ll_addr \in Address \cup {None}
    /\ main \in {"loop", "cleanup", "gone"}
    /\ {changed, dhcp_rx, prefix_gap, rules_gap, overran} \subseteq BOOLEAN
    /\ replies \in 0 .. MaxReplies /\ faults \in 0 .. MaxFaults

\* Everything seen has been handled.
Settled ==
    /\ main = "loop" /\ pc \in {"loop", "ended"}
    /\ granted = None /\ ~changed /\ found = None
    /\ ~Underway /\ lease_chan = <<>>

\* The two sources agree in the end: when all is handled, the daemon has the
\* prefix of the host's lease, in whichever order the channels were drained, with
\* the container of a Reply valid or not, the capture alive or not, and with
\* Replies lost.  Only if the newest event the capture had to offer was not the
\* host's (a stray Reply, a withdrawn prefix, or one that overtook its successor's
\* lease event) may it have another.
PrefixConverges == Settled /\ ~prefix_gap /\ file # None => pending_ia_pd = file

\* And it has the newest list the server has sent whole: Replies without rules or
\* with a container that does not parse leave it alone, and it survives a restart
\* through the cache.
RulesConverge == Settled /\ ~rules_gap => pending_map_rules = latest

\* The list in force, and the list on disk, is one of the server's, whole: a
\* malformed rule rejects all of its list.  Only a container whose last option
\* overruns it is silently shortened.
WholeList ==
    \A list \in {pending_map_rules, cache} \ {None} :
        \E l \in Lists : list = l \/ (overran /\ \E n \in 0 .. Len(l) : list = SubSeq(l, 1, n))

\* Everything is handled, however small the channels: nothing waits for ever in
\* the capture, the watcher or a channel of a daemon that runs on.
Settles == <>[](Settled \/ main # "loop")

\* A capture that waits for room in the channel of a stopped loop still ends.
CaptureEnds == main = "gone" ~> pc = "ended" \/ main = "loop"
=============================================================================
