----------------------------- MODULE DhcpClient -----------------------------
(***************************************************************************)
(* The stand-alone DHCPv6 client: Solicit, Advertise, Request, Reply, then *)
(* Renew from T1, Rebind from T2 and Solicit again once the lease is over. *)
(* Every lease becomes an event for the daemon's main task, through a      *)
(* bounded channel.  The network loses, delays, duplicates and reorders:   *)
(* a datagram that was sent may be received any number of times, or never. *)
(* A retransmission repeats the datagram byte for byte, so the set of      *)
(* datagrams does not change; a datagram that does not match makes the     *)
(* client retransmit and wait again, which leaves the state as it was.     *)
(***************************************************************************)
EXTENDS Integers, Sequences, FiniteSets

CONSTANTS
    Server,      \* DHCPv6 servers of the link, known by their DUID
    Offer,       \* what a usable Reply carries: [prefix, rules, t1, t2, valid, unicast]
    NoRules,     \* the empty rule list
    Infinity,    \* valid_lifetime 0xFFFFFFFF
    Capacity,    \* of the event channel (16 in the code)
    MaxXid,      \* bound: exchanges the client starts
    MaxAnswers,  \* bound: datagrams the servers send
    MaxAge,      \* bound: the clock of a lease; no timer is later
    Granted,     \* an Advertise that offers a prefix
    Refused,     \* an answer with a top-level Status Code other than Success
    NoPd,        \* an answer with no usable IA_PD, or no Server Identifier
    Anyone,      \* ff02::1:2
    None

ASSUME ClientConstants ==
    /\ Capacity \in Nat \ {0} /\ MaxXid \in Nat /\ MaxAnswers \in Nat /\ MaxAge \in Nat
    /\ None \notin Server /\ None \notin Offer /\ Anyone \notin Server /\ None # Anyone
    /\ {Granted, Refused, NoPd} \cap Offer = {}
    /\ Cardinality({Granted, Refused, NoPd}) = 3
    /\ \A o \in Offer : /\ o.t1 \in 0 .. MaxAge /\ o.t2 \in 0 .. MaxAge
                        /\ o.valid \in (0 .. MaxAge) \cup {Infinity}
                        /\ o.unicast \in Server \cup {None}

VARIABLES
    pc,          \* where the client task is
    xid,         \* the transaction id of the exchange; new ones are fresh
    server,      \* server_duid: from the Advertise, never replaced by a Reply
    unicast,     \* server_unicast: from the first Reply of the cycle
    lease,       \* the last lease: what was granted, in which exchange and by whom
    age,         \* time since do_renewal_loop took Instant::now()
    sent,        \* datagrams of the client
    answers,     \* datagrams of the servers
    chan,        \* events on their way to the main task
    pending,     \* the daemon's pending_map_rules and pending_ia_pd
    cancelled    \* the CancellationToken

client == <<pc, xid, server, unicast, lease, age>>
vars == <<client, sent, answers, chan, pending, cancelled>>

Waiting == {"bound", "renew", "rebind"}     \* inside do_renewal_loop
Ended == {"stopped", "panicked", "dropped"}

Request(type, id, to, duid) == [type |-> type, xid |-> id, to |-> to, server |-> duid]

Init ==
    /\ pc = "top" /\ xid = 0 /\ server = None /\ unicast = None /\ lease = None /\ age = 0
    /\ sent = {} /\ answers = {} /\ chan = <<>>
    /\ pending = [rules |-> NoRules, prefix |-> None]
    /\ cancelled = FALSE

-----------------------------------------------------------------------------
(* The servers and the clock, external *)

\* A server answers a message that reaches it and names no other server, once
\* or more, with what it likes; an Advertise is told from a Reply by the question.
server_answer(s, body) ==
    /\ Cardinality(answers) < MaxAnswers
    /\ \E q \in sent :
         /\ q.type # "release"
         /\ q.to \in {s, Anyone}
         /\ q.server \in {s, None}
         /\ body \in {Refused, NoPd} \/ (body = Granted <=> q.type = "solicit")
         /\ answers' = answers \cup
              {[type |-> IF q.type = "solicit" THEN "advertise" ELSE "reply",
                xid |-> q.xid, from |-> s, body |-> body]}
    /\ UNCHANGED <<client, sent, chan, pending, cancelled>>

Tick ==
    /\ pc \in Waiting
    /\ age < MaxAge
    /\ age' = age + 1
    /\ UNCHANGED <<pc, xid, server, unicast, lease, sent, answers, chan, pending, cancelled>>

-----------------------------------------------------------------------------
(* do_initial_exchange *)

\* A message opens an exchange of its own, with a new transaction id.
Open(type, to, duid) ==
    /\ xid < MaxXid
    /\ xid' = xid + 1
    /\ sent' = sent \cup {Request(type, xid + 1, to, duid)}

solicit ==
    /\ pc = "top"
    /\ ~cancelled
    /\ Open("solicit", Anyone, None)
    /\ pc' = "solicit"
    /\ UNCHANGED <<server, unicast, lease, age, answers, chan, pending, cancelled>>

\* Type, transaction id and top-level status; who sent it does not matter.
parse_advertise(m) == m.type = "advertise" /\ m.xid = xid /\ m.body # Refused

recv_advertise(m) ==
    /\ pc = "solicit"
    /\ parse_advertise(m)
    /\ IF m.body = Granted
         THEN /\ Open("request", Anyone, m.from)
              /\ server' = m.from
              /\ pc' = "request"
         ELSE /\ pc' = "backoff"
              /\ UNCHANGED <<xid, server, sent>>
    /\ UNCHANGED <<unicast, lease, age, answers, chan, pending, cancelled>>

\* Mutant of parse_reply: any Reply will do.
parse_any_reply(m) == m.type = "reply"

parse_reply(m) == m.type = "reply" /\ m.xid = xid

\* A T1 or T2 of 0 is left to the client: half and four fifths of the lifetime.
complement_timer(timer, valid, num, den) ==
    IF timer # 0 THEN timer ELSE IF valid = Infinity THEN Infinity ELSE (valid * num) \div den

\* process_reply: a LeaseInfo, or the error that a refusal or no IA_PD gives.
Grants(m) == m.body \in Offer
LeaseInfo(m) ==
    [prefix |-> m.body.prefix, rules |-> m.body.rules, valid |-> m.body.valid,
     t1 |-> complement_timer(m.body.t1, m.body.valid, 1, 2),
     t2 |-> complement_timer(m.body.t2, m.body.valid, 4, 5),
     xid |-> m.xid, from |-> m.from]

recv_first_reply(m) ==
    /\ pc = "request"
    /\ parse_reply(m)
    /\ IF Grants(m) THEN /\ lease' = LeaseInfo(m)
                         /\ unicast' = m.body.unicast
                         /\ pc' = "send_first"
                    ELSE /\ pc' = "backoff"
                         /\ UNCHANGED <<lease, unicast>>
    /\ UNCHANGED <<xid, server, age, sent, answers, chan, pending, cancelled>>

\* send_to or recv_from fails: the whole exchange is an error.
io_error ==
    /\ pc \in {"solicit", "request"}
    /\ pc' = "backoff"
    /\ UNCHANGED <<xid, server, unicast, lease, age, sent, answers, chan, pending, cancelled>>

\* The sleep of five seconds after a failed exchange.
retry ==
    /\ pc = "backoff"
    /\ pc' = "top"
    /\ UNCHANGED <<xid, server, unicast, lease, age, sent, answers, chan, pending, cancelled>>

-----------------------------------------------------------------------------
(* do_renewal_loop *)

Both(o) == [rules |-> o.rules, prefix |-> o.prefix]
IaPdReceived(o) == [rules |-> None, prefix |-> o.prefix]

\* Mutant of RenewalEvent: a Reply without the container is an empty rule list.
AlwaysBoth(o) == Both(o)

\* A renewal without rules leaves the daemon the rules it has.
RenewalEvent(o) == IF o.rules # NoRules THEN Both(o) ELSE IaPdReceived(o)

\* Instant + Duration::from_secs(u64::MAX / 2) is out of an Instant's range.
EnterRenewal ==
    /\ age' = 0
    /\ pc' = IF lease.valid = Infinity THEN "panicked" ELSE "bound"

\* tx.send waits for a slot and does not look at the token.
send_first ==
    /\ pc = "send_first"
    /\ Len(chan) < Capacity
    /\ chan' = Append(chan, Both(lease))
    /\ EnterRenewal
    /\ UNCHANGED <<xid, server, unicast, lease, sent, answers, pending, cancelled>>

\* Mutant of send_renewal: try_send, an event that finds no slot is dropped.
try_send_renewal ==
    /\ pc = "send_renewal"
    /\ chan' = IF Len(chan) < Capacity THEN Append(chan, RenewalEvent(lease)) ELSE chan
    /\ EnterRenewal
    /\ UNCHANGED <<xid, server, unicast, lease, sent, answers, pending, cancelled>>

\* Mutant of send_renewal: the channel is unbounded.
send_unbounded ==
    /\ pc = "send_renewal"
    /\ chan' = Append(chan, RenewalEvent(lease))
    /\ EnterRenewal
    /\ UNCHANGED <<xid, server, unicast, lease, sent, answers, pending, cancelled>>

send_renewal ==
    /\ pc = "send_renewal"
    /\ Len(chan) < Capacity
    /\ chan' = Append(chan, RenewalEvent(lease))
    /\ EnterRenewal
    /\ UNCHANGED <<xid, server, unicast, lease, sent, answers, pending, cancelled>>

\* The server_unicast of the first Reply, or multicast.
Destination == IF unicast # None THEN unicast ELSE Anyone

\* Mutant of build_renew: the Server Identifier is left out.
build_renew_anyone == Open("renew", Destination, None)

build_renew == Open("renew", Destination, server)

\* Encoding a message into memory does not fail, so neither does build_renew.
\* The wait for T1 looks at no other timer; the checks come after it.
renew ==
    /\ pc = "bound"
    /\ age >= lease.t1 /\ age < lease.t2 /\ age < lease.valid
    /\ build_renew
    /\ pc' = "renew"
    /\ UNCHANGED <<server, unicast, lease, age, answers, chan, pending, cancelled>>

rebind ==
    /\ pc = "renew" \/ (pc = "bound" /\ age >= lease.t1)
    /\ age >= lease.t2 /\ age < lease.valid
    /\ Open("rebind", Anyone, None)
    /\ pc' = "rebind"
    /\ UNCHANGED <<server, unicast, lease, age, answers, chan, pending, cancelled>>

\* A Reply that grants nothing is logged, and the message is sent again at once.
recv_reply(m) ==
    /\ pc \in {"renew", "rebind"}
    /\ parse_reply(m)
    /\ Grants(m)
    /\ lease' = LeaseInfo(m)
    /\ pc' = "send_renewal"
    /\ UNCHANGED <<xid, server, unicast, age, sent, answers, chan, pending, cancelled>>

\* Mutant of expire: Rebind goes on for good.
expire_renew ==
    /\ pc = "renew" \/ (pc = "bound" /\ age >= lease.t1)
    /\ age >= lease.valid
    /\ pc' = "top"
    /\ UNCHANGED <<xid, server, unicast, lease, age, sent, answers, chan, pending, cancelled>>

\* RenewalResult::Expired: Solicit again, and no event for the daemon.
expire ==
    /\ pc \in {"renew", "rebind"} \/ (pc = "bound" /\ age >= lease.t1)
    /\ age >= lease.valid
    /\ pc' = "top"
    /\ UNCHANGED <<xid, server, unicast, lease, age, sent, answers, chan, pending, cancelled>>

-----------------------------------------------------------------------------
(* The main task, and the end *)

\* handle_ia_pd and handle_both, as far as the client's events go.
recv_event ==
    /\ ~cancelled
    /\ chan # <<>>
    /\ pending' = [rules |-> IF Head(chan).rules = None THEN pending.rules ELSE Head(chan).rules,
                   prefix |-> Head(chan).prefix]
    /\ chan' = Tail(chan)
    /\ UNCHANGED <<client, sent, answers, cancelled>>

\* SIGTERM or SIGINT: the loop is left with events still in the channel.
cancel ==
    /\ ~cancelled
    /\ cancelled' = TRUE
    /\ UNCHANGED <<client, sent, answers, chan, pending>>

\* Every wait but the one for a slot selects on the token.
stop ==
    /\ cancelled
    /\ pc \in {"top", "solicit", "request", "backoff"}
    /\ pc' = "stopped"
    /\ UNCHANGED <<xid, server, unicast, lease, age, sent, answers, chan, pending, cancelled>>

\* The transaction id of a Release is new and never looked at again.
release ==
    /\ cancelled
    /\ pc \in Waiting
    /\ sent' = sent \cup {Request("release", 0, Destination, server)}
    /\ pc' = "stopped"
    /\ UNCHANGED <<xid, server, unicast, lease, age, answers, chan, pending, cancelled>>

\* main returns without joining the task, and the runtime drops it where it waits.
drop_task ==
    /\ cancelled
    /\ pc \notin Ended
    /\ pc' = "dropped"
    /\ UNCHANGED <<xid, server, unicast, lease, age, sent, answers, chan, pending, cancelled>>

-----------------------------------------------------------------------------

Recv(m) == recv_advertise(m) \/ recv_first_reply(m) \/ recv_reply(m)
Timer == retry \/ renew \/ rebind \/ expire
Send == send_first \/ send_renewal
Stop == stop \/ release \/ drop_task

Next ==
    \/ \E s \in Server, body \in Offer \cup {Granted, Refused, NoPd} : server_answer(s, body)
    \/ Tick
    \/ solicit \/ io_error \/ Timer \/ Send
    \/ \E m \in answers : Recv(m)
    \/ recv_event \/ cancel \/ Stop

Spec == Init /\ [][Next]_vars

\* Timers fire, and the main task drains the channel while it runs.  Nothing is
\* assumed of the network or the servers.
FairSpec ==
    /\ Spec
    /\ WF_vars(Tick) /\ WF_vars(Timer) /\ WF_vars(Send) /\ WF_vars(recv_event) /\ WF_vars(Stop)

-----------------------------------------------------------------------------
(* Properties *)

Time == (0 .. MaxAge) \cup {Infinity}
Event == [rules : {o.rules : o \in Offer} \cup {None}, prefix : {o.prefix : o \in Offer}]
Answer == [type : {"advertise", "reply"}, xid : 1 .. MaxXid, from : Server,
           body : Offer \cup {Granted, Refused, NoPd}]

\* Every variable has its type, and the channel never holds more than its capacity.
TypeOK ==
    /\ pc \in {"top", "solicit", "request", "backoff", "send_first", "send_renewal"}
               \cup Waiting \cup Ended
    /\ xid \in 0 .. MaxXid
    /\ server \in Server \cup {None} /\ unicast \in Server \cup {None}
    /\ lease \in [prefix : {o.prefix : o \in Offer}, rules : {o.rules : o \in Offer},
                  t1 : Time, t2 : Time, valid : Time, xid : 1 .. MaxXid, from : Server] \cup {None}
    /\ age \in 0 .. MaxAge
    /\ sent \subseteq [type : {"solicit", "request", "renew", "rebind", "release"},
                       xid : 0 .. MaxXid, to : Server \cup {Anyone},
                       server : Server \cup {None}]
    /\ answers \subseteq Answer
    /\ chan \in Seq(Event) /\ Len(chan) <= Capacity
    /\ pending \in [rules : {o.rules : o \in Offer} \cup {NoRules},
                    prefix : {o.prefix : o \in Offer} \cup {None}]
    /\ cancelled \in BOOLEAN

\* What the main task will hold once it has drained the channel.
Latest ==
    LET withRules == {i \in 1 .. Len(chan) : chan[i].rules # None}
    IN [prefix |-> IF chan = <<>> THEN pending.prefix ELSE chan[Len(chan)].prefix,
        rules  |-> IF withRules = {} THEN pending.rules
                   ELSE chan[CHOOSE i \in withRules : \A j \in withRules : j <= i].rules]

\* A lease never gives way to an older one: a Reply that answers an exchange before
\* the one of the current lease, delayed or duplicated by the network, is not taken.
NoStaleLease ==
    [][(lease' # lease /\ lease # None) => lease'.xid > lease.xid]_vars

\* In do_renewal_loop the daemon has, or is about to receive, exactly the prefix of
\* the lease, with however many renewals and however full a channel.
DaemonFollowsLease ==
    pc \in Waiting => Latest.prefix = lease.prefix

\* Rules the daemon has are emptied by the first Reply of a cycle only: a renewal
\* brings the rules of its Reply or leaves the old ones.
RenewalKeepsRules ==
    [][Latest'.rules # Latest.rules =>
          /\ Latest'.rules = lease.rules
          /\ Latest'.rules = NoRules => pc = "send_first"]_vars

\* The server that Renew and Release name is the one that granted the lease, unless
\* the lease was granted in answer to a Rebind: server_duid is not updated then.
RenewNamesLessor ==
    pc \in Waiting =>
        \/ lease.from = server
        \/ \E q \in sent : q.type = "rebind" /\ q.xid = lease.xid

\* A lease past its valid lifetime is given up, whatever answers keep arriving and
\* whichever of T1, T2 and the lifetime comes first.
ExpiredIsGivenUp ==
    (pc \in Waiting /\ age >= lease.valid) ~> (pc \notin Waiting)
=============================================================================
