-------------------------- MODULE DhcpClientProofs --------------------------
(***************************************************************************)
(* DhcpClient for any servers, offers, capacity and bounds: a late Reply   *)
(* never replaces a newer lease, the daemon follows the lease through the  *)
(* channel, its rules are only emptied by a first Reply, and Renew names   *)
(* the lessor.                                                             *)
(***************************************************************************)
EXTENDS DhcpClient, TLAPS, WellFoundedInduction

Body == Offer \cup {Granted, Refused, NoPd}
Prefixes == {o.prefix : o \in Offer}
RuleSets == {o.rules : o \in Offer}
Lease == [prefix : Prefixes, rules : RuleSets, t1 : Time, t2 : Time, valid : Time,
          xid : 1 .. MaxXid, from : Server]
Message == [type : {"solicit", "request", "renew", "rebind", "release"},
            xid : 0 .. MaxXid, to : Server \cup {Anyone}, server : Server \cup {None}]

Holding == {"send_first", "send_renewal"} \cup Waiting

\* One message per exchange: the id of a message tells it from all the others,
\* and none is ahead of the client.
Exchanges ==
    /\ \A q \in sent : q.xid <= xid /\ (q.type # "release" => q.xid >= 1)
    /\ \A q, r \in sent : q.xid = r.xid /\ q.xid >= 1 => q = r

\* Every answer is to a message that was sent, and a server answers for itself.
Answered ==
    \A m \in answers : \E q \in sent :
        /\ q.xid = m.xid /\ q.xid >= 1
        /\ m.type = "reply" => q.type # "solicit"
        /\ q.server \in {m.from, None}

\* What the client waits for, and from when its lease is.
Progress ==
    /\ pc \in Holding => lease \in Lease
    /\ pc \in {"request"} \cup Holding => server \in Server
    /\ pc \in {"solicit", "request", "renew", "rebind"} => xid >= 1
    /\ lease # None => lease.xid <= xid
    /\ lease # None /\ pc \in {"solicit", "request", "renew", "rebind"} => lease.xid < xid
    /\ pc \in {"request", "renew"} =>
          \E q \in sent : q.type \in {"request", "renew"} /\ q.xid = xid /\ q.server = server
    /\ pc = "rebind" => \E q \in sent : q.type = "rebind" /\ q.xid = xid

\* Who granted the lease, also while the event waits for a slot.
Lessor ==
    pc \in Holding =>
        \/ lease.from = server
        \/ \E q \in sent : q.type = "rebind" /\ q.xid = lease.xid

IInv == TypeOK /\ Exchanges /\ Answered /\ Progress /\ Lessor /\ DaemonFollowsLease

-----------------------------------------------------------------------------
(* Data *)

\* A non-empty set of indices has a largest one: the last event of the channel that
\* carries rules is well defined.
LEMMA LargestElement ==
    ASSUME NEW n \in Nat, NEW S \in SUBSET (1 .. n), S # {}
    PROVE  \E i \in S : \A j \in S : j <= i
<1> DEFINE R == {ss \in Nat \X Nat : ss[1] < ss[2]}
           T == {n - i : i \in S}
<1>1. IsWellFoundedOn(R, Nat)
  BY NatLessThanWellFounded DEF OpToRel
<1>2. T \in SUBSET Nat /\ T # {}
  <2>1. \A i \in S : n - i \in Nat
    OBVIOUS
  <2>2. PICK i \in S : TRUE
    OBVIOUS
  <2>. QED
    BY <2>1, <2>2
<1>3. PICK t \in T : \A u \in T : ~(<<u, t>> \in R)
  <2> HIDE DEF R, T
  <2>. QED
    BY <1>1, <1>2, WFMin
<1>4. PICK i \in S : t = n - i
  BY <1>3
<1>5. ASSUME NEW j \in S PROVE j <= i
  <2>1. n - j \in T /\ n - j \in Nat /\ t \in Nat
    BY <1>4
  <2>2. <<n - j, t>> \notin R
    BY <1>3, <2>1
  <2>3. n - j < t => <<n - j, t>> \in R
    BY <2>1
  <2>. QED
    BY <1>4, <2>1, <2>2, <2>3
<1>. QED
  BY <1>5

\* The positions of the events that carry rules, and what the last of them says.
Carrying(c) == {i \in 1 .. Len(c) : c[i].rules # None}

LastRules(c, rules) ==
    IF Carrying(c) = {} THEN rules
    ELSE c[CHOOSE i \in Carrying(c) : \A j \in Carrying(c) : j <= i].rules

\* Latest in these terms.
LEMMA LatestIs ==
    /\ Latest.rules = LastRules(chan, pending.rules)
    /\ Latest.prefix = IF chan = <<>> THEN pending.prefix ELSE chan[Len(chan)].prefix
  BY DEF Latest, LastRules, Carrying

\* The last position is what the CHOOSE of Latest finds.
LEMMA LastRulesAt ==
    ASSUME NEW c \in Seq(Event), NEW rules, NEW k \in Carrying(c),
           \A j \in Carrying(c) : j <= k
    PROVE  LastRules(c, rules) = c[k].rules
<1>1. Carrying(c) \subseteq Int
  BY DEF Carrying
<1>2. \A i \in Carrying(c) : (\A j \in Carrying(c) : j <= i) => i = k
  BY <1>1
<1>. QED
  BY <1>2 DEF LastRules

\* There is a last position if there is one at all.
LEMMA LastRulesPick ==
    ASSUME NEW c \in Seq(Event), Carrying(c) # {}
    PROVE  \E k \in Carrying(c) : \A j \in Carrying(c) : j <= k
<1>1. Carrying(c) \in SUBSET (1 .. Len(c)) /\ Len(c) \in Nat
  BY DEF Carrying
<1>. QED
  BY <1>1, LargestElement

\* An event put into the channel decides the prefix, and the rules if it has any.
LEMMA LatestAfterSend ==
    ASSUME chan \in Seq(Event), NEW e \in Event, chan' = Append(chan, e),
           UNCHANGED pending
    PROVE  /\ Latest'.prefix = e.prefix
           /\ Latest'.rules = IF e.rules # None THEN e.rules ELSE Latest.rules
<1> DEFINE d == Append(chan, e)
<1>1. /\ d \in Seq(Event) /\ Len(d) = Len(chan) + 1 /\ d # <<>> /\ Len(chan) \in Nat
      /\ d[Len(d)] = e /\ \A i \in 1 .. Len(chan) : d[i] = chan[i]
  OBVIOUS
<1> HIDE DEF d
<1>2. /\ Latest'.prefix = d[Len(d)].prefix
      /\ Latest'.rules = LastRules(d, pending.rules)
  <2>1. chan' = d /\ pending' = pending
    BY DEF d
  <2>2. Latest'.rules = LastRules(chan', pending'.rules)
    BY DEF Latest, LastRules, Carrying
  <2>3. Latest'.prefix = IF chan' = <<>> THEN pending'.prefix ELSE chan'[Len(chan')].prefix
    BY DEF Latest
  <2>. QED
    BY <1>1, <2>1, <2>2, <2>3
<1>3. CASE e.rules # None
  <2>1. Len(d) \in Carrying(d) /\ \A j \in Carrying(d) : j <= Len(d)
    BY <1>1, <1>3 DEF Carrying
  <2>2. LastRules(d, pending.rules) = d[Len(d)].rules
    BY <1>1, <2>1, LastRulesAt
  <2>. QED
    BY <1>1, <1>2, <1>3, <2>2
<1>4. CASE e.rules = None
  <2>1. Carrying(d) = Carrying(chan)
    BY <1>1, <1>4 DEF Carrying
  <2>2. CASE Carrying(chan) = {}
    BY <1>1, <1>2, <1>4, <2>1, <2>2, LatestIs DEF LastRules
  <2>3. CASE Carrying(chan) # {}
    <3>1. PICK k \in Carrying(chan) : \A j \in Carrying(chan) : j <= k
      BY <2>3, LastRulesPick
    <3>2. LastRules(chan, pending.rules) = chan[k].rules
      BY <3>1, LastRulesAt
    <3>3. LastRules(d, pending.rules) = d[k].rules
      BY <1>1, <2>1, <3>1, LastRulesAt
    <3>4. d[k] = chan[k]
      BY <1>1, <3>1 DEF Carrying
    <3>. QED
      BY <1>1, <1>2, <1>4, <3>2, <3>3, <3>4, LatestIs
  <2>. QED
    BY <2>2, <2>3
<1>. QED
  BY <1>3, <1>4

\* The event that the main task takes from the channel changes nothing in what it
\* will hold in the end.
LEMMA LatestAfterRecv ==
    ASSUME chan \in Seq(Event), recv_event
    PROVE  Latest'.prefix = Latest.prefix /\ Latest'.rules = Latest.rules
<1> DEFINE t == Tail(chan)
           h == chan[1]
           kept == IF h.rules = None THEN pending.rules ELSE h.rules
<1>1. /\ t \in Seq(Event) /\ Len(chan) \in Nat \ {0} /\ Len(t) = Len(chan) - 1
      /\ \A i \in 1 .. Len(t) : t[i] = chan[i + 1]
      /\ Head(chan) = h
  BY DEF recv_event
<1> HIDE DEF t
<1>2. chan' = t /\ pending'.rules = kept /\ pending'.prefix = h.prefix
  BY <1>1 DEF recv_event, t
<1>3. /\ Latest'.rules = LastRules(t, kept)
      /\ Latest'.prefix = IF t = <<>> THEN h.prefix ELSE t[Len(t)].prefix
  BY <1>2 DEF Latest, LastRules, Carrying
<1>4. Latest'.prefix = Latest.prefix
  <2>1. chan # <<>> /\ Latest.prefix = chan[Len(chan)].prefix
    BY LatestIs DEF recv_event
  <2>2. CASE t = <<>>
    <3>1. Len(chan) = 1
      BY <1>1, <2>2
    <3>. QED
      BY <1>3, <2>1, <2>2, <3>1
  <2>3. CASE t # <<>>
    <3>1. Len(t) >= 1
      BY <1>1, <2>3
    <3>. QED
      BY <1>1, <1>3, <2>1, <2>3, <3>1
  <2>. QED
    BY <2>2, <2>3
<1>5. \A i \in Int : i \in Carrying(t) <=> (i >= 1 /\ i + 1 \in Carrying(chan))
  BY <1>1 DEF Carrying
<1>6. Latest.rules = LastRules(chan, pending.rules)
  BY LatestIs
<1>7. CASE Carrying(t) # {}
  <2>1. PICK k \in Carrying(t) : \A j \in Carrying(t) : j <= k
    BY <1>1, <1>7, LastRulesPick
  <2>2. LastRules(t, kept) = t[k].rules
    BY <1>1, <2>1, LastRulesAt
  <2>3. k \in 1 .. Len(t) /\ k + 1 \in Carrying(chan)
    BY <1>5, <2>1 DEF Carrying
  <2>4. ASSUME NEW j \in Carrying(chan) PROVE j <= k + 1
    <3>1. j \in 1 .. Len(chan)
      BY DEF Carrying
    <3>2. j > 1 => j - 1 \in Carrying(t)
      BY <1>5, <3>1
    <3>. QED
      BY <1>1, <2>1, <2>3, <3>1, <3>2
  <2>5. LastRules(chan, pending.rules) = chan[k + 1].rules
    BY <2>3, <2>4, LastRulesAt
  <2>. QED
    BY <1>1, <1>3, <1>4, <1>6, <2>2, <2>3, <2>5
<1>8. CASE Carrying(t) = {}
  <2>1. \A j \in Carrying(chan) : j = 1
    <3> SUFFICES ASSUME NEW j \in Carrying(chan), j # 1 PROVE FALSE
      OBVIOUS
    <3>1. j \in 1 .. Len(chan)
      BY DEF Carrying
    <3>2. j - 1 \in Carrying(t)
      BY <1>1, <1>5, <3>1
    <3>. QED
      BY <1>8, <3>2
  <2>2. Latest'.rules = kept
    BY <1>3, <1>8 DEF LastRules
  <2>3. CASE h.rules = None
    <3>1. 1 \notin Carrying(chan)
      BY <2>3 DEF Carrying
    <3>2. Carrying(chan) = {}
      BY <2>1, <3>1
    <3>. QED
      BY <1>4, <1>6, <2>2, <2>3, <3>2 DEF LastRules
  <2>4. CASE h.rules # None
    <3>1. 1 \in Carrying(chan)
      BY <1>1, <2>4 DEF Carrying
    <3>2. LastRules(chan, pending.rules) = chan[1].rules
      BY <2>1, <3>1, LastRulesAt
    <3>. QED
      BY <1>4, <1>6, <2>2, <2>4, <3>2
  <2>. QED
    BY <2>3, <2>4
<1>. QED
  BY <1>4, <1>7, <1>8

-----------------------------------------------------------------------------
(* The invariant *)

\* The types of IInv under their names.
LEMMA TypesNamed ==
    ASSUME TypeOK
    PROVE  /\ lease \in Lease \cup {None} /\ sent \subseteq Message
           /\ answers \subseteq Answer /\ xid \in 0 .. MaxXid /\ chan \in Seq(Event)
           /\ \A q \in sent : q.xid \in 0 .. MaxXid
           /\ \A m \in answers : m.xid \in 1 .. MaxXid /\ m.from \in Server
  BY DEF TypeOK, Lease, Prefixes, RuleSets, Message, Answer

\* A T1 or T2 of 0 becomes a time within the bounds of the model.
LEMMA TimerType ==
    ASSUME NEW o \in Offer
    PROVE  /\ complement_timer(o.t1, o.valid, 1, 2) \in Time
           /\ complement_timer(o.t2, o.valid, 4, 5) \in Time
<1>1. /\ o.t1 \in 0 .. MaxAge /\ o.t2 \in 0 .. MaxAge /\ MaxAge \in Nat
      /\ o.valid \in (0 .. MaxAge) \cup {Infinity}
  BY ClientConstants
<1>2. \A v \in 0 .. MaxAge : (v * 1) \div 2 \in 0 .. MaxAge /\ (v * 4) \div 5 \in 0 .. MaxAge
  BY <1>1
<1>. QED
  BY <1>1, <1>2 DEF complement_timer, Time

\* What process_reply makes of a Reply that grants is a lease.
LEMMA LeaseInfoType ==
    ASSUME NEW m \in Answer, Grants(m)
    PROVE  LeaseInfo(m) \in Lease /\ LeaseInfo(m).xid = m.xid /\ LeaseInfo(m).from = m.from
<1>1. m.body \in Offer /\ m.xid \in 1 .. MaxXid /\ m.from \in Server
  BY DEF Answer, Grants
<1>2. m.body.valid \in Time
  BY <1>1, ClientConstants DEF Time
<1>. QED
  BY <1>1, <1>2, TimerType DEF LeaseInfo, Lease, Prefixes, RuleSets

\* A new exchange keeps the ids apart.
LEMMA OpenExchanges ==
    ASSUME TypeOK, Exchanges, Answered, NEW type \in {"solicit", "request", "renew", "rebind"},
           NEW to \in Server \cup {Anyone}, NEW duid \in Server \cup {None},
           Open(type, to, duid), UNCHANGED answers
    PROVE  /\ xid' \in 1 .. MaxXid /\ xid' = xid + 1
           /\ Request(type, xid', to, duid) \in sent'
           /\ sent \subseteq sent' /\ sent' \subseteq Message
           /\ Exchanges' /\ Answered'
<1> DEFINE new == Request(type, xid + 1, to, duid)
<1>1. xid' = xid + 1 /\ xid' \in 1 .. MaxXid /\ xid \in Nat /\ sent' = sent \cup {new}
  BY ClientConstants DEF Open, TypeOK
<1>2. new.type = type /\ new.xid = xid + 1 /\ new \in Message
  BY <1>1 DEF Request, Message
<1>3. \A q \in sent : q.xid \in Nat /\ q.xid <= xid
  BY TypesNamed DEF Exchanges
<1> HIDE DEF new
<1>4. Exchanges'
  <2>1. \A q \in sent' : q.xid <= xid' /\ (q.type # "release" => q.xid >= 1)
    BY <1>1, <1>2, <1>3 DEF Exchanges
  <2>2. \A q, r \in sent' : q.xid = r.xid /\ q.xid >= 1 => q = r
    BY <1>1, <1>2, <1>3 DEF Exchanges
  <2>. QED
    BY <2>1, <2>2 DEF Exchanges
<1>5. Answered'
  BY <1>1 DEF Answered
<1>6. new = Request(type, xid', to, duid)
  BY <1>1 DEF new
<1>. QED
  BY <1>1, <1>2, <1>4, <1>5, <1>6, TypesNamed

\* The message that a reply of the current exchange answers, and hence who sent it:
\* the server that the message named, or anyone if it named none.
LEMMA ReplyFrom ==
    ASSUME IInv, NEW m \in answers, parse_reply(m), pc \in {"request", "renew", "rebind"}
    PROVE  \/ m.from = server
           \/ \E q \in sent : q.type = "rebind" /\ q.xid = m.xid
<1>1. m.xid = xid /\ xid >= 1
  BY DEF parse_reply, IInv, Progress
<1>2. PICK q \in sent : q.xid = m.xid /\ q.xid >= 1 /\ q.server \in {m.from, None}
  BY DEF IInv, Answered
<1>3. CASE pc = "rebind"
  BY <1>1, <1>3 DEF IInv, Progress
<1>4. CASE pc \in {"request", "renew"}
  <2>1. PICK r \in sent : r.xid = xid /\ r.server = server
    BY <1>4 DEF IInv, Progress
  <2>2. q = r
    BY <1>1, <1>2, <2>1 DEF IInv, Exchanges
  <2>3. server \in Server
    BY <1>4 DEF IInv, Progress, Holding, Waiting
  <2>. QED
    BY <1>2, <2>1, <2>2, <2>3, ClientConstants
<1>. QED
  BY <1>3, <1>4

\* Initially the client has nothing and nothing is under way.
LEMMA InitIInv == Init => IInv
<1> SUFFICES ASSUME Init PROVE IInv
  OBVIOUS
<1>1. chan \in Seq(Event) /\ Len(chan) = 0
  BY DEF Init
<1>2. cancelled \in BOOLEAN
  BY Zenon DEF Init
<1>3. TypeOK
  BY <1>1, <1>2, ClientConstants DEF Init, TypeOK
<1>4. Exchanges /\ Answered /\ Progress /\ Lessor /\ DaemonFollowsLease
  BY DEF Init, Exchanges, Answered, Progress, Lessor, DaemonFollowsLease, Holding, Waiting
<1>. QED
  BY <1>3, <1>4 DEF IInv

\* Latest looks at the channel and at what the main task holds, and at nothing else.
LEMMA LatestSame ==
    ASSUME UNCHANGED <<chan, pending>>
    PROVE  Latest' = Latest
  BY DEF Latest

\* A step that leaves the exchange, for whatever reason, asks nothing of the rest.
LEMMA LeaveIInv ==
    ASSUME IInv, pc' \in {"backoff", "top", "stopped", "dropped"},
           UNCHANGED <<xid, server, unicast, lease, age, sent, answers, chan, pending, cancelled>>
    PROVE  IInv'
<1>1. TypeOK'
  BY DEF IInv, TypeOK, Ended, Waiting
<1>2. Exchanges' /\ Answered'
  BY DEF IInv, Exchanges, Answered
<1>3. Progress' /\ Lessor' /\ DaemonFollowsLease'
  BY DEF IInv, Progress, Lessor, DaemonFollowsLease, Holding, Waiting
<1>. QED
  BY <1>1, <1>2, <1>3 DEF IInv

\* A message of an exchange of its own: Solicit, Request, Renew, Rebind.
LEMMA OpenIInv ==
    ASSUME IInv, NEW type \in {"solicit", "request", "renew", "rebind"},
           NEW to \in Server \cup {Anyone}, NEW duid \in Server \cup {None},
           Open(type, to, duid), pc' = type, server' \in Server \cup {None},
           type # "solicit" => server' \in Server,
           type \in {"request", "renew"} => duid = server',
           type \in {"renew", "rebind"} => pc \in Waiting /\ server' = server,
           UNCHANGED <<unicast, lease, age, answers, chan, pending, cancelled>>
    PROVE  IInv'
<1>1. TypeOK /\ Exchanges /\ Answered
  BY DEF IInv
<1>2. /\ xid' \in 1 .. MaxXid /\ xid' = xid + 1
      /\ Request(type, xid', to, duid) \in sent'
      /\ sent \subseteq sent' /\ sent' \subseteq Message
      /\ Exchanges' /\ Answered'
  BY <1>1, OpenExchanges
<1>3. TypeOK'
  BY <1>1, <1>2 DEF TypeOK, Message, Waiting
<1>4. lease # None => lease.xid \in Nat /\ lease.xid <= xid /\ xid \in Nat
  BY <1>1, TypesNamed DEF IInv, Progress, Lease
<1>5. Progress'
  <2> DEFINE r == Request(type, xid', to, duid)
  <2>1. r.type = type /\ r.xid = xid' /\ r.server = duid /\ r \in sent'
    BY <1>2 DEF Request
  <2>2. lease' # None => lease'.xid <= xid' /\ lease'.xid < xid'
    BY <1>2, <1>4
  <2>3. pc' \in Holding => lease' \in Lease
    BY DEF IInv, Progress, Holding, Waiting
  <2>4. pc' \in {"request"} \cup Holding => server' \in Server
    BY DEF Holding, Waiting
  <2> HIDE DEF r
  <2>5. /\ pc' \in {"request", "renew"} =>
             \E q \in sent' : q.type \in {"request", "renew"} /\ q.xid = xid' /\ q.server = server'
        /\ pc' = "rebind" => \E q \in sent' : q.type = "rebind" /\ q.xid = xid'
    BY <2>1
  <2>6. xid' >= 1
    BY <1>2
  <2>. QED
    BY <2>2, <2>3, <2>4, <2>5, <2>6 DEF Progress
<1>6. Lessor'
  BY <1>2 DEF IInv, Lessor, Holding, Waiting
<1>7. DaemonFollowsLease'
  BY LatestSame DEF IInv, DaemonFollowsLease, Waiting
<1>. QED
  BY <1>2, <1>3, <1>5, <1>6, <1>7 DEF IInv

\* A Reply of the exchange that grants a lease.
LEMMA GrantIInv ==
    ASSUME IInv, NEW m \in answers, parse_reply(m), Grants(m),
           pc \in {"request", "renew", "rebind"}, pc' \in {"send_first", "send_renewal"},
           lease' = LeaseInfo(m), unicast' \in Server \cup {None},
           UNCHANGED <<xid, server, age, sent, answers, chan, pending, cancelled>>
    PROVE  IInv'
<1>1. m \in Answer /\ TypeOK
  BY TypesNamed DEF IInv
<1>2. lease' \in Lease /\ lease'.xid = xid /\ lease'.from = m.from /\ m.xid = xid
  BY <1>1, LeaseInfoType DEF parse_reply
<1>3. TypeOK'
  <2>1. lease' \in [prefix : {o.prefix : o \in Offer}, rules : {o.rules : o \in Offer},
                    t1 : Time, t2 : Time, valid : Time, xid : 1 .. MaxXid, from : Server]
    BY <1>2 DEF Lease, Prefixes, RuleSets
  <2>. QED
    BY <1>1, <2>1 DEF TypeOK
<1>4. Exchanges' /\ Answered'
  BY DEF IInv, Exchanges, Answered
<1>5. Progress'
  <2>1. server \in Server
    BY DEF IInv, Progress, Holding, Waiting
  <2>2. lease'.xid <= xid'
    BY <1>1, <1>2 DEF TypeOK
  <2>. QED
    BY <1>2, <2>1, <2>2 DEF Progress
<1>6. Lessor'
  BY <1>2, ReplyFrom DEF Lessor
<1>7. DaemonFollowsLease'
  BY DEF DaemonFollowsLease, Waiting
<1>. QED
  BY <1>3, <1>4, <1>5, <1>6, <1>7 DEF IInv

\* The event of a lease goes into the channel, and the client waits for T1.
LEMMA SendIInv ==
    ASSUME IInv, pc \in {"send_first", "send_renewal"}, NEW e \in Event,
           e.prefix = lease.prefix, Len(chan) < Capacity, chan' = Append(chan, e),
           EnterRenewal, UNCHANGED <<xid, server, unicast, lease, sent, answers, pending, cancelled>>
    PROVE  IInv'
<1>1. chan' \in Seq(Event) /\ Len(chan') = Len(chan) + 1 /\ Len(chan) \in Nat
  BY TypesNamed DEF IInv
<1>2. pc' \in {"panicked", "bound"} /\ age' = 0
  BY DEF EnterRenewal
<1>3. TypeOK'
  BY <1>1, <1>2, ClientConstants DEF IInv, TypeOK, Waiting, Ended
<1>4. Exchanges' /\ Answered'
  BY DEF IInv, Exchanges, Answered
<1>5. Progress' /\ Lessor'
  BY <1>2 DEF IInv, Progress, Lessor, Holding, Waiting
<1>6. DaemonFollowsLease'
  <2>1. Latest'.prefix = e.prefix
    BY TypesNamed, LatestAfterSend DEF IInv
  <2>. QED
    BY <2>1 DEF DaemonFollowsLease
<1>. QED
  BY <1>3, <1>4, <1>5, <1>6 DEF IInv

\* The events that a lease can become.
LEMMA EventType ==
    ASSUME NEW l \in Lease
    PROVE  /\ Both(l) \in Event /\ RenewalEvent(l) \in Event
           /\ Both(l).prefix = l.prefix /\ RenewalEvent(l).prefix = l.prefix
  BY DEF Lease, Prefixes, RuleSets, Both, RenewalEvent, IaPdReceived, Event

\* Every step of the client, of the servers and of the main task keeps the invariant.
LEMMA StepIInv == IInv /\ [Next]_vars => IInv'
<1> SUFFICES ASSUME IInv, [Next]_vars PROVE IInv'
  OBVIOUS
<1> USE ClientConstants
<1>t. TypeOK
  BY DEF IInv
<1>1. ASSUME NEW s \in Server, NEW body \in Body, server_answer(s, body) PROVE IInv'
  <2>1. PICK q \in sent :
           /\ q.type # "release" /\ q.server \in {s, None}
           /\ answers' = answers \cup
                {[type |-> IF q.type = "solicit" THEN "advertise" ELSE "reply",
                  xid |-> q.xid, from |-> s, body |-> body]}
    BY <1>1 DEF server_answer
  <2>2. q.xid \in 1 .. MaxXid
    BY <1>t, <2>1, TypesNamed DEF IInv, Exchanges
  <2> DEFINE new == [type |-> IF q.type = "solicit" THEN "advertise" ELSE "reply",
                     xid |-> q.xid, from |-> s, body |-> body]
  <2>3. /\ new \in Answer /\ new.xid = q.xid /\ new.from = s
        /\ new.type = "reply" => q.type # "solicit"
    BY <2>2 DEF Answer, Body
  <2>4. answers' = answers \cup {new} /\ UNCHANGED <<client, sent, chan, pending, cancelled>>
    BY <1>1, <2>1 DEF server_answer
  <2> HIDE DEF new
  <2>5. TypeOK'
    BY <1>t, <2>3, <2>4 DEF TypeOK, client
  <2>6. Answered'
    BY <2>1, <2>2, <2>3, <2>4 DEF IInv, Answered
  <2>7. Exchanges' /\ Progress' /\ Lessor'
    BY <2>4 DEF IInv, Exchanges, Progress, Lessor, client
  <2>8. DaemonFollowsLease'
    BY <2>4, LatestSame DEF IInv, DaemonFollowsLease, client
  <2>. QED
    BY <2>5, <2>6, <2>7, <2>8 DEF IInv
<1>2. CASE Tick
  <2>1. TypeOK'
    BY <1>t, <1>2 DEF TypeOK, Tick
  <2>2. DaemonFollowsLease'
    BY <1>2, LatestSame DEF IInv, DaemonFollowsLease, Tick
  <2>. QED
    BY <1>2, <2>1, <2>2 DEF Tick, IInv, Exchanges, Answered, Progress, Lessor
<1>3. CASE solicit
  <2>1. server \in Server \cup {None}
    BY <1>t DEF TypeOK
  <2>. QED
    BY <1>3, <2>1, OpenIInv DEF solicit
<1>4. CASE io_error
  BY <1>4, LeaveIInv DEF io_error
<1>5. CASE retry
  BY <1>5, LeaveIInv DEF retry
<1>6. CASE renew
  <2>1. server \in Server /\ unicast \in Server \cup {None}
    BY <1>t, <1>6 DEF renew, TypeOK, IInv, Progress, Holding, Waiting
  <2>2. Destination \in Server \cup {Anyone}
    BY <2>1 DEF Destination
  <2>3. Open("renew", Destination, server) /\ pc' = "renew" /\ pc \in Waiting
    BY <1>6 DEF renew, build_renew, Waiting
  <2>4. UNCHANGED <<server, unicast, lease, age, answers, chan, pending, cancelled>>
    BY <1>6 DEF renew
  <2>. QED
    BY <2>1, <2>2, <2>3, <2>4, OpenIInv
<1>7. CASE rebind
  <2>1. server \in Server
    BY <1>7 DEF rebind, IInv, Progress, Holding, Waiting
  <2>2. Open("rebind", Anyone, None) /\ pc' = "rebind" /\ pc \in Waiting
    BY <1>7 DEF rebind, Waiting
  <2>3. UNCHANGED <<server, unicast, lease, age, answers, chan, pending, cancelled>>
    BY <1>7 DEF rebind
  <2>. QED
    BY <2>1, <2>2, <2>3, OpenIInv
<1>8. CASE expire
  BY <1>8, LeaveIInv DEF expire
<1>9. CASE send_first
  <2>1. lease \in Lease
    BY <1>9 DEF send_first, IInv, Progress, Holding
  <2>2. Both(lease) \in Event /\ Both(lease).prefix = lease.prefix
    BY <2>1, EventType
  <2>. QED
    BY <1>9, <2>2, SendIInv DEF send_first
<1>10. CASE send_renewal
  <2>1. lease \in Lease
    BY <1>10 DEF send_renewal, IInv, Progress, Holding
  <2>2. RenewalEvent(lease) \in Event /\ RenewalEvent(lease).prefix = lease.prefix
    BY <2>1, EventType
  <2>. QED
    BY <1>10, <2>2, SendIInv DEF send_renewal
<1>11. ASSUME NEW m \in answers, recv_advertise(m) PROVE IInv'
  <2>1. CASE m.body = Granted
    <3>1. m.from \in Server
      BY <1>t, TypesNamed
    <3>. QED
      BY <1>11, <2>1, <3>1, OpenIInv DEF recv_advertise
  <2>2. CASE m.body # Granted
    BY <1>11, <2>2, LeaveIInv DEF recv_advertise
  <2>. QED
    BY <2>1, <2>2
<1>12. ASSUME NEW m \in answers, recv_first_reply(m) PROVE IInv'
  <2>1. CASE Grants(m)
    <3>1. m.body.unicast \in Server \cup {None}
      BY <2>1 DEF Grants
    <3>. QED
      BY <1>12, <2>1, <3>1, GrantIInv DEF recv_first_reply
  <2>2. CASE ~Grants(m)
    BY <1>12, <2>2, LeaveIInv DEF recv_first_reply
  <2>. QED
    BY <2>1, <2>2
<1>13. ASSUME NEW m \in answers, recv_reply(m) PROVE IInv'
  <2>1. unicast \in Server \cup {None}
    BY <1>t DEF TypeOK
  <2>. QED
    BY <1>13, <2>1, GrantIInv DEF recv_reply
<1>14. CASE recv_event
  <2>1. Len(chan) \in Nat /\ Head(chan) \in Event /\ chan' \in Seq(Event)
           /\ Len(chan') = Len(chan) - 1
    BY <1>t, <1>14, TypesNamed DEF recv_event
  <2>2. TypeOK'
    BY <1>t, <1>14, <2>1 DEF recv_event, TypeOK, client, Event
  <2>3. DaemonFollowsLease'
    BY <1>t, <1>14, TypesNamed, LatestAfterRecv DEF recv_event, IInv, DaemonFollowsLease, client
  <2>. QED
    BY <1>14, <2>2, <2>3
    DEF recv_event, IInv, Exchanges, Answered, Progress, Lessor, client
<1>15. CASE cancel
  <2>1. cancelled' \in BOOLEAN
    BY <1>15 DEF cancel
  <2>2. TypeOK'
    BY <1>t, <1>15, <2>1 DEF cancel, TypeOK, client
  <2>3. DaemonFollowsLease'
    BY <1>15, LatestSame DEF IInv, DaemonFollowsLease, cancel, client
  <2>. QED
    BY <1>15, <2>2, <2>3 DEF cancel, IInv, Exchanges, Answered, Progress, Lessor, client
<1>16. CASE stop
  BY <1>16, LeaveIInv DEF stop
<1>17. CASE release
  <2> DEFINE bye == Request("release", 0, Destination, server)
  <2>1. server \in Server /\ Destination \in Server \cup {Anyone}
    BY <1>t, <1>17 DEF release, TypeOK, IInv, Progress, Holding, Destination
  <2>2. bye \in Message /\ bye.xid = 0 /\ bye.type = "release"
    BY <2>1 DEF Message, Request
  <2>3. sent' = sent \cup {bye} /\ pc' = "stopped"
    BY <1>17 DEF release
  <2> HIDE DEF bye
  <2>4. TypeOK'
    BY <1>t, <1>17, <2>2, <2>3 DEF release, TypeOK, Message, Ended
  <2>5. Exchanges' /\ Answered'
    BY <1>t, <1>17, <2>2, <2>3, TypesNamed DEF release, IInv, Exchanges, Answered
  <2>6. Progress' /\ Lessor' /\ DaemonFollowsLease'
    BY <1>17, <2>3 DEF release, IInv, Progress, Lessor, DaemonFollowsLease, Holding, Waiting
  <2>. QED
    BY <2>4, <2>5, <2>6 DEF IInv
<1>18. CASE drop_task
  BY <1>18, LeaveIInv DEF drop_task
<1>19. CASE UNCHANGED vars
  <2>1. TypeOK'
    BY <1>t, <1>19 DEF TypeOK, vars, client
  <2>2. DaemonFollowsLease'
    BY <1>19, LatestSame DEF IInv, DaemonFollowsLease, vars, client
  <2>. QED
    BY <1>19, <2>1, <2>2 DEF IInv, Exchanges, Answered, Progress, Lessor, vars, client
<1>. QED
  BY <1>1, <1>2, <1>3, <1>4, <1>5, <1>6, <1>7, <1>8, <1>9, <1>10, <1>11, <1>12, <1>13,
     <1>14, <1>15, <1>16, <1>17, <1>18, <1>19
  DEF Next, Timer, Send, Recv, Stop, Body

\* The strengthened invariant holds of every behaviour.
LEMMA Invariance == Spec => []IInv
  BY InitIInv, StepIInv, PTL DEF Spec

-----------------------------------------------------------------------------
(* Theorems *)

\* TypeOK for every instance: the client never holds half a lease or a T1, T2 that
\* process_reply did not complete, and the channel never exceeds its capacity.
THEOREM TypeCorrect == Spec => []TypeOK
  BY Invariance, PTL DEF IInv

\* DaemonFollowsLease for every instance: inside do_renewal_loop the daemon has, or
\* will have from the channel, the prefix of the lease, for every capacity, every
\* interleaving with the main task and every loss, repetition or delay of datagrams.
THEOREM DaemonHasPrefix == Spec => []DaemonFollowsLease
  BY Invariance, PTL DEF IInv

\* RenewNamesLessor for every instance: the server that build_renew and the Release
\* name granted the lease, or the lease came from a Rebind.
THEOREM RenewalServer == Spec => []RenewNamesLessor
<1>1. IInv => RenewNamesLessor
  BY DEF IInv, Lessor, RenewNamesLessor, Holding
<1>. QED
  BY <1>1, Invariance, PTL

\* Only a Reply of the exchange under way changes the lease.
LEMMA LeaseChange ==
    ASSUME IInv, [Next]_vars, lease' # lease
    PROVE  \E m \in answers : /\ pc \in {"request", "renew", "rebind"}
                              /\ parse_reply(m) /\ Grants(m) /\ lease' = LeaseInfo(m)
<1>1. \E m \in answers : recv_first_reply(m) \/ recv_reply(m)
  BY DEF Next, Timer, Send, Recv, Stop, server_answer, Tick, solicit, io_error, retry, renew,
         rebind, expire, send_first, send_renewal, recv_advertise, recv_event, cancel, stop,
         release, drop_task, vars, client
<1>. QED
  BY <1>1 DEF recv_first_reply, recv_reply

\* NoStaleLease for every instance: a Reply to an earlier exchange, however late and
\* however often it arrives, never replaces the lease.
THEOREM LeasesMoveForward == Spec => NoStaleLease
<1>1. ASSUME IInv, [Next]_vars, lease' # lease, lease # None PROVE lease'.xid > lease.xid
  <2>1. PICK m \in answers : /\ pc \in {"request", "renew", "rebind"}
                             /\ parse_reply(m) /\ Grants(m) /\ lease' = LeaseInfo(m)
    BY <1>1, LeaseChange
  <2>2. m \in Answer /\ lease \in Lease /\ xid \in Nat
    BY <1>1, TypesNamed DEF IInv
  <2>3. lease'.xid = xid
    BY <2>1, <2>2, LeaseInfoType DEF parse_reply
  <2>4. lease.xid < xid /\ lease.xid \in Nat
    BY <1>1, <2>1, <2>2 DEF IInv, Progress, Lease
  <2>. QED
    BY <2>2, <2>3, <2>4
<1>2. IInv /\ [Next]_vars => [(lease' # lease /\ lease # None) => lease'.xid > lease.xid]_vars
  BY <1>1
<1>. QED
  BY <1>2, Invariance, PTL DEF Spec, NoStaleLease

\* RenewalKeepsRules for every instance: whatever the servers answer and in whatever
\* state the channel is, a renewal never empties the rules the daemon has.
THEOREM RulesKept == Spec => RenewalKeepsRules
<1>1. ASSUME IInv, Next, Latest'.rules # Latest.rules
      PROVE  Latest'.rules = lease.rules /\ (Latest'.rules = NoRules => pc = "send_first")
  <2>1. chan \in Seq(Event)
    BY <1>1, TypesNamed DEF IInv
  <2>2. ~recv_event
    BY <1>1, <2>1, LatestAfterRecv
  <2>3. CASE send_first
    <3>1. lease \in Lease
      BY <1>1, <2>3 DEF send_first, IInv, Progress, Holding
    <3>2. Both(lease) \in Event /\ Both(lease).rules = lease.rules
      BY <3>1, EventType DEF Both
    <3>3. Latest'.rules = IF Both(lease).rules # None THEN Both(lease).rules ELSE Latest.rules
      BY <2>1, <2>3, <3>2, LatestAfterSend DEF send_first
    <3>. QED
      BY <1>1, <2>3, <3>2, <3>3 DEF send_first
  <2>4. CASE send_renewal
    <3>1. lease \in Lease
      BY <1>1, <2>4 DEF send_renewal, IInv, Progress, Holding
    <3> DEFINE e == RenewalEvent(lease)
    <3>2. e \in Event /\ (e.rules # None => e.rules = lease.rules /\ lease.rules # NoRules)
      BY <3>1, EventType DEF RenewalEvent, Both, IaPdReceived
    <3>3. Latest'.rules = IF e.rules # None THEN e.rules ELSE Latest.rules
      BY <2>1, <2>4, <3>2, LatestAfterSend DEF send_renewal
    <3> HIDE DEF e
    <3>. QED
      BY <1>1, <3>2, <3>3
  <2>5. CASE ~send_first /\ ~send_renewal
    <3>1. UNCHANGED <<chan, pending>>
      BY <1>1, <2>2, <2>5
      DEF Next, Timer, Send, Recv, Stop, server_answer, Tick, solicit, io_error, retry, renew,
          rebind, expire, recv_advertise, recv_first_reply, recv_reply, cancel, stop,
          release, drop_task
    <3>. QED
      BY <1>1, <3>1, LatestSame
  <2>. QED
    BY <2>3, <2>4, <2>5
<1>2. IInv /\ [Next]_vars =>
         [Latest'.rules # Latest.rules =>
             /\ Latest'.rules = lease.rules
             /\ Latest'.rules = NoRules => pc = "send_first"]_vars
  BY <1>1
<1>. QED
  BY <1>2, Invariance, PTL DEF Spec, RenewalKeepsRules

=============================================================================
