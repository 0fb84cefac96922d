--------------------------- MODULE CaptureProofs ---------------------------
(***************************************************************************)
(* Proofs about Capture: whatever is lost, malformed, stray or delayed,    *)
(* and for channels, sockets and numbers of Replies of any size, the two   *)
(* sources of the daemon agree in the end.                                 *)
(***************************************************************************)
EXTENDS Capture, FiniteSetTheorems, TLAPS

-----------------------------------------------------------------------------
(* The parser *)

\* The least of some places.
LEMMA FirstIs ==
    ASSUME NEW S \in SUBSET Int, NEW n \in S, \A j \in S : n <= j
    PROVE  First(S) = n
<1>1. \E i \in S : \A j \in S : i <= j
  OBVIOUS
<1>2. First(S) \in S /\ \A j \in S : First(S) <= j
  BY <1>1 DEF First
<1>3. First(S) \in Int /\ n \in Int /\ First(S) <= n /\ n <= First(S)
  BY <1>2
<1> QED BY <1>3

\* The greatest of some places.
LEMMA LastIs ==
    ASSUME NEW S \in SUBSET Int, NEW n \in S, \A j \in S : j <= n
    PROVE  Last(S) = n
<1>1. \E i \in S : \A j \in S : j <= i
  OBVIOUS
<1>2. Last(S) \in S /\ \A j \in S : j <= Last(S)
  BY <1>1 DEF Last
<1>3. Last(S) \in Int /\ n \in Int /\ Last(S) <= n /\ n <= Last(S)
  BY <1>2
<1> QED BY <1>3

\* The n-th of places that follow each other.
LEMMA NthIs ==
    ASSUME NEW a \in Nat, NEW k \in Nat
    PROVE  /\ Cardinality(a .. a + k - 1) = k
           /\ \A n \in 1 .. k : Nth(a .. a + k - 1, n) = a + n - 1
<1> DEFINE S == a .. a + k - 1
<1>1. ASSUME NEW i \in Int, a - 1 <= i PROVE Cardinality(a .. i) = i - a + 1
  BY <1>1, FS_Interval
<1>2. Cardinality(S) = k
  <2>1. a + k - 1 \in Int /\ a - 1 <= a + k - 1 /\ (a + k - 1) - a + 1 = k
    OBVIOUS
  <2> QED BY <1>1, <2>1
<1>3. ASSUME NEW n \in 1 .. k PROVE Nth(S, n) = a + n - 1
  <2>1. \A i \in S : {j \in S : j <= i} = a .. i
    OBVIOUS
  <2>2. \A i \in S : Cardinality({j \in S : j <= i}) = i - a + 1
    <3> SUFFICES ASSUME NEW i \in S PROVE Cardinality(a .. i) = i - a + 1
      BY <2>1
    <3>1. i \in Int /\ a - 1 <= i
      OBVIOUS
    <3> QED BY <1>1, <3>1
  <2>3. a + n - 1 \in S /\ (a + n - 1) - a + 1 = n
    OBVIOUS
  <2>4. \A i \in S : i - a + 1 = n => i = a + n - 1
    OBVIOUS
  <2> HIDE DEF S
  <2> QED BY <2>2, <2>3, <2>4 DEF Nth
<1> QED BY <1>2, <1>3

\* The prefixes a Reply delegates: the one in use, and at most one withdrawn.
Delegation == {<<p>> : p \in Prefix} \cup {<<q, p>> : q \in Prefix, p \in Prefix}

\* A container is a container.
LEMMA ContainerCode ==
    ASSUME NEW l, NEW form
    PROVE  Container(l, form).code = "CONT_MAPE"
BY DEF Container

\* The options of a Reply.
LEMMA ReplyOptions ==
    ASSUME NEW ps, NEW c \in Contents
    PROVE  LET opts == <<IAPD(ps, "Success")>> \o Options(c)
           IN  /\ DOMAIN opts = IF c = <<>> THEN {1} ELSE {1, 2}
               /\ opts[1] = IAPD(ps, "Success")
               /\ c # <<>> => opts[2] = Container(c[1], c[2])
<1> DEFINE o == IAPD(ps, "Success")
<1> HIDE DEF o
<1>1. CASE c = <<>>
  <2>1. <<o>> \o Options(c) = <<o>>
    BY <1>1 DEF Options
  <2> QED BY <1>1, <2>1 DEF o
<1>2. CASE c # <<>>
  <2> DEFINE d == Container(c[1], c[2])
  <2> HIDE DEF d
  <2>1. Options(c) = <<d>>
    BY <1>2 DEF Options, d
  <2> DEFINE both == <<o>> \o <<d>>
  <2>2. DOMAIN both = {1, 2} /\ both[1] = o /\ both[2] = d
    OBVIOUS
  <2> QED BY <1>2, <2>1, <2>2 DEF o, d
<1> QED BY <1>1, <1>2

\* parse_ia_pd takes the first prefix of a Reply.
LEMMA ParsePrefix ==
    ASSUME NEW ps \in Delegation, NEW c \in Contents
    PROVE  parse_ia_pd(Reply(<<IAPD(ps, "Success")>> \o Options(c)), None) = ps[1]
<1> DEFINE opts == <<IAPD(ps, "Success")>> \o Options(c)
           m    == Reply(opts)
           in   == IAPD(ps, "Success").opts
<1>1. /\ DOMAIN opts = IF c = <<>> THEN {1} ELSE {1, 2}
      /\ opts[1] = IAPD(ps, "Success")
      /\ c # <<>> => opts[2] = Container(c[1], c[2])
  BY ReplyOptions
<1> HIDE DEF opts
<1>2. opts[1].code = "IA_PD" /\ (c # <<>> => opts[2].code = "CONT_MAPE")
  <2>1. IAPD(ps, "Success").code = "IA_PD"
    BY DEF IAPD
  <2> QED BY <1>1, <2>1, ContainerCode
<1>3. {i \in DOMAIN opts : opts[i].code = "IA_PD"} = {1}
  BY <1>1, <1>2
<1>4. m.opts = opts
  BY DEF Reply
<1>5. find_iapd(m.opts, None) = 1
  <2>1. First({1}) = 1
    BY FirstIs
  <2> QED BY <1>3, <1>4, <2>1 DEF find_iapd
<1>6. m.opts[find_iapd(m.opts, None)].opts = in
  BY <1>1, <1>4, <1>5
<1>7. /\ 1 \in DOMAIN in /\ DOMAIN in \subseteq Int /\ \A i \in DOMAIN in : 1 <= i
      /\ in[1].code = "IAPREFIX" /\ in[1].prefix = ps[1]
      /\ \A i \in DOMAIN in : in[i].code = "STATUS" => in[i].status = "Success"
  <2> DEFINE st == [code |-> "STATUS", status |-> "Success"]
  <2>1. CASE \E p \in Prefix : ps = <<p>>
    <3>1. PICK p \in Prefix : ps = <<p>>
      BY <2>1
    <3> DEFINE x == [code |-> "IAPREFIX", prefix |-> p]
    <3>2. [i \in DOMAIN ps |-> [code |-> "IAPREFIX", prefix |-> ps[i]]] = <<x>>
      BY <3>1
    <3>3. in = <<x>> \o <<st>>
      BY <3>2 DEF IAPD
    <3>4. in = <<x, st>>
      BY <3>3
    <3>5. x.code = "IAPREFIX" /\ x.prefix = p /\ st.code = "STATUS" /\ st.status = "Success"
      OBVIOUS
    <3> HIDE DEF in, x, st
    <3> QED BY <3>1, <3>4, <3>5
  <2>2. CASE \E q, p \in Prefix : ps = <<q, p>>
    <3>1. PICK q \in Prefix, p \in Prefix : ps = <<q, p>>
      BY <2>2
    <3> DEFINE y == [code |-> "IAPREFIX", prefix |-> q]
               x == [code |-> "IAPREFIX", prefix |-> p]
    <3>2. [i \in DOMAIN ps |-> [code |-> "IAPREFIX", prefix |-> ps[i]]] = <<y, x>>
      BY <3>1
    <3>3. in = <<y, x>> \o <<st>>
      BY <3>2 DEF IAPD
    <3>4. in = <<y, x, st>>
      BY <3>3
    <3>5. /\ y.code = "IAPREFIX" /\ y.prefix = q /\ x.code = "IAPREFIX"
          /\ st.code = "STATUS" /\ st.status = "Success"
      OBVIOUS
    <3> HIDE DEF in, x, y, st
    <3> QED BY <3>1, <3>4, <3>5
  <2> QED BY <2>1, <2>2 DEF Delegation
<1> HIDE DEF in
<1> DEFINE prefixes == {i \in DOMAIN in : in[i].code = "IAPREFIX"}
<1>8. First(prefixes) = 1 /\ prefixes # {}
  BY <1>7, FirstIs
<1> HIDE DEF m, prefixes
<1>9. parse_ia_pd(m, None) = IF \/ ~\E i \in DOMAIN m.opts : m.opts[i].code = "IA_PD"
                                \/ prefixes = {}
                                \/ \E i \in DOMAIN in : in[i].code = "STATUS" /\ in[i].status # "Success"
                             THEN None ELSE in[First(prefixes)].prefix
  BY <1>6 DEF parse_ia_pd, prefixes
<1>10. parse_ia_pd(m, None) = in[1].prefix
  BY <1>3, <1>4, <1>7, <1>8, <1>9
<1> QED BY <1>7, <1>10 DEF m, opts

\* A rule option that the server wrote is read as the rule it was written from.
LEMMA ParseRule ==
    ASSUME NEW r \in Rule
    PROVE  /\ RuleOption(r, TRUE).body # None
           /\ parse_s46_rule(RuleOption(r, TRUE), r.br_address) = r
<1> DEFINE o  == RuleOption(r, TRUE)
           pp == [code |-> "PORTPARAMS", params |-> r.port_params]
           set == {i \in iter_opts(o.opts) : o.opts[i].code = "PORTPARAMS" /\ o.opts[i].params # None}
<1>1. /\ r = [body |-> r.body, br_address |-> r.br_address, port_params |-> r.port_params]
      /\ r.body # None /\ r.port_params # None
  BY CaptureConstants
<1>2. o.body = r.body /\ o.opts = <<pp>>
  BY DEF RuleOption
<1>3. pp.code = "PORTPARAMS" /\ pp.params = r.port_params
  OBVIOUS
<1> HIDE DEF pp, o
<1>4. DOMAIN o.opts = {1} /\ o.opts[1] = pp
  BY <1>2
<1>5. iter_opts(o.opts) = {1}
  BY <1>3, <1>4 DEF iter_opts
<1>6. set = {1}
  BY <1>1, <1>3, <1>4, <1>5
<1>7. Last({1}) = 1
  BY LastIs
<1>8. parse_s46_rule(o, r.br_address) =
         [body |-> o.body, br_address |-> r.br_address,
          port_params |-> IF set = {} THEN PortParamsDefault ELSE o.opts[Last(set)].params]
  BY DEF parse_s46_rule
<1> HIDE DEF set
<1>9. parse_s46_rule(o, r.br_address) =
         [body |-> r.body, br_address |-> r.br_address, port_params |-> r.port_params]
  BY <1>2, <1>3, <1>4, <1>6, <1>7, <1>8
<1> QED BY <1>1, <1>2, <1>9 DEF o

\* A payload with a relay at place b, rules at the places a .. a + k - 1, none of
\* them malformed, and nothing else the walk would look at.
LaidOut(opts, l, k, a, b) ==
    /\ DOMAIN opts \subseteq Int
    /\ iter_opts(opts) \subseteq DOMAIN opts
    /\ {i \in iter_opts(opts) : opts[i].code = "BR" /\ opts[i].addr # None} = {b}
    /\ opts[b].addr = l[1].br_address
    /\ {i \in iter_opts(opts) : opts[i].code = "RULE"} = a .. a + k - 1
    /\ \A n \in 1 .. k : opts[a + n - 1] = RuleOption(l[n], TRUE)

\* It is read as the first k rules of the list.
LEMMA ParseList ==
    ASSUME NEW l \in Lists, NEW a \in Nat, NEW k \in 0 .. Len(l), NEW b \in Int, NEW opts,
           LaidOut(opts, l, k, a, b)
    PROVE  parse_s46_cont_mape(opts) = <<SubSeq(l, 1, k)>>
<1> USE DEF LaidOut
<1> DEFINE brs   == {i \in iter_opts(opts) : opts[i].code = "BR" /\ opts[i].addr # None}
           rules == {i \in iter_opts(opts) : opts[i].code = "RULE"}
           read  == [n \in 1 .. Cardinality(rules) |->
                       parse_s46_rule(opts[Nth(rules, n)], opts[First(brs)].addr)]
<1>1. l \in Seq(Rule) /\ Len(l) \in Nat /\ k \in Nat
      /\ \A i \in 1 .. Len(l) : l[i] \in Rule /\ l[i].br_address = l[1].br_address
  BY CaptureConstants
<1>2. First(brs) = b
  <2>1. {b} \in SUBSET Int /\ b \in {b} /\ \A j \in {b} : b <= j
    OBVIOUS
  <2>2. First({b}) = b
    BY <2>1, FirstIs
  <2> QED BY <2>2
<1>3. Cardinality(rules) = k /\ \A n \in 1 .. k : Nth(rules, n) = a + n - 1
  <2>1. rules = a .. a + k - 1
    OBVIOUS
  <2> HIDE DEF rules
  <2> QED BY <1>1, <2>1, NthIs
<1>4. ASSUME NEW n \in 1 .. k
      PROVE  parse_s46_rule(opts[Nth(rules, n)], opts[First(brs)].addr) = l[n]
  <2>1. n \in 1 .. Len(l)
    BY <1>1
  <2>2. opts[Nth(rules, n)] = RuleOption(l[n], TRUE) /\ opts[First(brs)].addr = l[n].br_address
    <3> HIDE DEF rules, brs
    <3> QED BY <1>1, <1>2, <1>3, <2>1
  <2>3. l[n] \in Rule
    BY <1>1, <2>1
  <2> HIDE DEF rules, brs
  <2> QED BY <2>2, <2>3, ParseRule
<1>5. ~\E i \in rules : opts[i].body = None
  <2> SUFFICES ASSUME NEW i \in rules PROVE opts[i].body # None
    OBVIOUS
  <2>1. i \in a .. a + k - 1
    OBVIOUS
  <2>2. i - a + 1 \in 1 .. k /\ i - a + 1 \in 1 .. Len(l) /\ a + (i - a + 1) - 1 = i
    <3> HIDE DEF rules
    <3> QED BY <1>1, <2>1
  <2>3. opts[i] = RuleOption(l[i - a + 1], TRUE)
    <3> HIDE DEF rules
    <3> QED BY <2>2
  <2>4. l[i - a + 1] \in Rule
    BY <1>1, <2>2
  <2> QED BY <2>3, <2>4, ParseRule
<1>6. parse_s46_cont_mape(opts) = <<read>>
  <2>1. brs # {}
    OBVIOUS
  <2>2. parse_s46_cont_mape(opts) =
           IF brs = {} \/ \E i \in rules : opts[i].body = None THEN <<>> ELSE <<read>>
    BY DEF parse_s46_cont_mape
  <2> HIDE DEF brs, rules, read
  <2> QED BY <1>5, <2>1, <2>2
<1>7. read = [n \in 1 .. k |-> l[n]]
  <2> HIDE DEF brs, rules
  <2> QED BY <1>3, <1>4
<1>8. SubSeq(l, 1, k) = [n \in 1 .. k |-> l[n]]
  <2> HIDE DEF brs, rules, read
  <2> QED BY <1>1
<1> QED BY <1>6, <1>7, <1>8

\* A sequence with an element before and an element behind it.
LEMMA Between ==
    ASSUME NEW S, NEW f \in Seq(S), NEW a \in S, NEW b \in S
    PROVE  LET s == <<a>> \o f \o <<b>>
           IN  /\ DOMAIN s = 1 .. Len(f) + 2
               /\ s[1] = a /\ s[Len(f) + 2] = b
               /\ \A i \in 1 .. Len(f) : s[i + 1] = f[i]
<1> DEFINE t == <<a>> \o f
           s == t \o <<b>>
<1>1. /\ t \in Seq(S) /\ Len(t) = Len(f) + 1
      /\ t[1] = a /\ \A i \in 1 .. Len(f) : t[i + 1] = f[i]
  OBVIOUS
<1>2. Len(f) \in Nat
  OBVIOUS
<1> HIDE DEF t
<1>3. /\ DOMAIN s = 1 .. Len(t) + 1 /\ s[Len(t) + 1] = b
      /\ \A i \in 1 .. Len(t) : s[i] = t[i]
  BY <1>1
<1> HIDE DEF s
<1>4. /\ DOMAIN s = 1 .. Len(f) + 2
      /\ s[1] = a /\ s[Len(f) + 2] = b
      /\ \A i \in 1 .. Len(f) : s[i + 1] = f[i]
  BY <1>1, <1>2, <1>3
<1> QED BY <1>4 DEF s, t

\* A sequence with an element behind it.
LEMMA Behind ==
    ASSUME NEW S, NEW f \in Seq(S), NEW b \in S
    PROVE  LET s == f \o <<b>>
           IN  /\ DOMAIN s = 1 .. Len(f) + 1
               /\ s[Len(f) + 1] = b
               /\ \A i \in 1 .. Len(f) : s[i] = f[i]
OBVIOUS

\* The codes of the options.
LEMMA Codes ==
    /\ \A r, v : RuleOption(r, v).code = "RULE"
    /\ \A r : RuleOption(r, FALSE).body = None
    /\ \A a : BR(a).code = "BR" /\ BR(a).addr = a
    /\ Overrun.code = "overrun"
BY DEF RuleOption, BR, Overrun

\* The rule options of a container, and all options there can be in it.
RulesIn(l, form) == [i \in DOMAIN l |-> RuleOption(l[i], form # "malformed" \/ i > 1)]
OptionsIn(l, form) ==
    {RulesIn(l, form)[i] : i \in DOMAIN l} \cup {BR(None), BR(l[1].br_address), Overrun}

\* There is one for each rule, and they are in order.
LEMMA RuleOptions ==
    ASSUME NEW l \in Lists, NEW form
    PROVE  /\ l \in Seq(Rule) /\ Len(l) \in Nat /\ Len(l) >= 1
           /\ l[1].br_address # None
           /\ RulesIn(l, form) \in Seq(OptionsIn(l, form))
           /\ Len(RulesIn(l, form)) = Len(l)
           /\ \A i \in 1 .. Len(l) :
                 /\ RulesIn(l, form)[i].code = "RULE"
                 /\ form # "malformed" => RulesIn(l, form)[i] = RuleOption(l[i], TRUE)
           /\ form = "malformed" => RulesIn(l, form)[1].body = None
<1>1. l \in Seq(Rule) /\ l # <<>>
  BY CaptureConstants
<1>2. Len(l) \in Nat /\ Len(l) >= 1 /\ DOMAIN l = 1 .. Len(l)
  BY <1>1
<1> DEFINE rules == RulesIn(l, form)
<1>3. /\ DOMAIN rules = 1 .. Len(l)
      /\ \A i \in 1 .. Len(l) : rules[i] = RuleOption(l[i], form # "malformed" \/ i > 1)
  BY <1>2 DEF RulesIn
<1>4. rules = [i \in 1 .. Len(l) |-> rules[i]]
  BY <1>2 DEF RulesIn
<1>5. \A i \in 1 .. Len(l) : rules[i] \in OptionsIn(l, form)
  BY <1>2 DEF OptionsIn
<1> HIDE DEF rules
<1>6. rules \in Seq(OptionsIn(l, form)) /\ Len(rules) = Len(l)
  BY <1>2, <1>3, <1>4, <1>5
<1>7. \A i \in 1 .. Len(l) :
         /\ rules[i].code = "RULE"
         /\ form # "malformed" => rules[i] = RuleOption(l[i], TRUE)
  <2> SUFFICES ASSUME NEW i \in 1 .. Len(l)
               PROVE  /\ rules[i].code = "RULE"
                      /\ form # "malformed" => rules[i] = RuleOption(l[i], TRUE)
    OBVIOUS
  <2> DEFINE valid == form # "malformed" \/ i > 1
  <2>1. form # "malformed" => valid = TRUE
    OBVIOUS
  <2>2. rules[i] = RuleOption(l[i], valid)
    BY <1>3
  <2> HIDE DEF valid
  <2>3. rules[i].code = "RULE"
    BY <2>2, Codes
  <2> QED BY <2>1, <2>2, <2>3
<1>8. form = "malformed" => rules[1].body = None
  <2> SUFFICES ASSUME form = "malformed" PROVE rules[1].body = None
    OBVIOUS
  <2>1. 1 \in 1 .. Len(l) /\ ~(1 > 1)
    BY <1>2
  <2>2. rules[1] = RuleOption(l[1], FALSE)
    BY <1>3, <2>1
  <2> QED BY <2>2, Codes
<1>9. l[1].br_address # None
  <2>1. l[1] \in Rule
    BY <1>1, <1>2
  <2> QED BY <2>1, CaptureConstants
<1> QED BY <1>1, <1>2, <1>6, <1>7, <1>8, <1>9 DEF rules

\* The list that a Reply with such a content makes the daemon read: <<>> if none.
RulesOf(c) ==
    IF c = <<>> \/ c[2] \in {"relayless", "malformed"} THEN <<>>
    ELSE IF c[2] = "overrun" THEN <<SubSeq(c[1], 1, Len(c[1]) - 1)>>
    ELSE <<c[1]>>

\* A list in one of its forms is read whole or not at all, unless an option overruns.
LEMMA ParseForm ==
    ASSUME NEW l \in Lists, NEW form \in {"whole", "relayless", "malformed", "overrun"}
    PROVE  parse_s46_cont_mape(Container(l, form).opts) =
              IF form \in {"relayless", "malformed"} THEN <<>>
              ELSE IF form = "overrun" THEN <<SubSeq(l, 1, Len(l) - 1)>>
              ELSE <<l>>
<1> DEFINE rules == RulesIn(l, form)
           S     == OptionsIn(l, form)
           relay == l[1].br_address
           opts  == Container(l, form).opts
           n     == Len(l)
           brs   == {i \in iter_opts(opts) : opts[i].code = "BR" /\ opts[i].addr # None}
           rs    == {i \in iter_opts(opts) : opts[i].code = "RULE"}
<1>1. /\ l \in Seq(Rule) /\ n \in Nat /\ n >= 1
      /\ relay # None /\ rules \in Seq(S) /\ Len(rules) = n
      /\ \A i \in 1 .. n :
            /\ rules[i].code = "RULE"
            /\ form # "malformed" => rules[i] = RuleOption(l[i], TRUE)
      /\ form = "malformed" => rules[1].body = None
  BY RuleOptions
<1>2. BR(None) \in S /\ BR(relay) \in S /\ Overrun \in S
  BY DEF OptionsIn
<1>3. /\ \A a : BR(a).code = "BR" /\ BR(a).addr = a
      /\ Overrun.code = "overrun"
  BY Codes
<1>4. opts = CASE form = "relayless" -> rules \o <<BR(None)>>
               [] form = "overrun" -> <<BR(relay)>> \o SubSeq(rules, 1, Len(rules) - 1) \o <<Overrun>>
               [] OTHER -> <<BR(None)>> \o rules \o <<BR(relay)>>
  BY DEF Container, RulesIn
<1>5. brs = {} \/ (\E i \in rs : opts[i].body = None) => parse_s46_cont_mape(opts) = <<>>
  BY DEF parse_s46_cont_mape
<1>20. CASE form = "relayless"
  <2> HIDE DEF rules, S, n, relay
  <2>1. opts = rules \o <<BR(None)>>
    BY <1>4, <1>20
  <2> HIDE DEF opts
  <2>2. /\ DOMAIN opts = 1 .. n + 1 /\ opts[n + 1] = BR(None)
        /\ \A i \in 1 .. n : opts[i] = rules[i]
    BY <1>1, <1>2, <2>1, Behind
  <2>3. \A i \in DOMAIN opts : ~(opts[i].code = "BR" /\ opts[i].addr # None)
    <3> SUFFICES ASSUME NEW i \in 1 .. n + 1 PROVE ~(opts[i].code = "BR" /\ opts[i].addr # None)
      BY <2>2
    <3>1. CASE i = n + 1
      BY <1>3, <2>2, <3>1
    <3>2. CASE i \in 1 .. n
      BY <1>1, <2>2, <3>2
    <3> QED BY <1>1, <3>1, <3>2
  <2>4. brs = {}
    BY <2>3 DEF iter_opts
  <2> QED BY <1>5, <1>20, <2>4 DEF opts
<1>21. CASE form \in {"whole", "malformed"}
  <2> HIDE DEF rules, S, n, relay
  <2>1. opts = <<BR(None)>> \o rules \o <<BR(relay)>>
    BY <1>4, <1>21
  <2> HIDE DEF opts
  <2>2. /\ DOMAIN opts = 1 .. n + 2 /\ opts[1] = BR(None) /\ opts[n + 2] = BR(relay)
        /\ \A i \in 1 .. n : opts[i + 1] = rules[i]
    BY <1>1, <1>2, <2>1, Between
  <2>3. \A i \in 2 .. n + 1 : opts[i] = rules[i - 1] /\ opts[i].code = "RULE"
    <3> SUFFICES ASSUME NEW i \in 2 .. n + 1 PROVE opts[i] = rules[i - 1] /\ opts[i].code = "RULE"
      OBVIOUS
    <3>1. i - 1 \in 1 .. n /\ (i - 1) + 1 = i
      BY <1>1
    <3> QED BY <1>1, <2>2, <3>1
  <2>4. \A i \in DOMAIN opts : i = 1 \/ i = n + 2 \/ i \in 2 .. n + 1
    BY <1>1, <2>2
  <2>5. \A i \in DOMAIN opts : opts[i].code # "overrun"
    BY <1>3, <2>2, <2>3, <2>4
  <2>6. iter_opts(opts) = DOMAIN opts
    <3>1. \A i \in DOMAIN opts : \A j \in 1 .. i : j \in DOMAIN opts
      BY <1>1, <2>2
    <3> QED BY <2>5, <3>1 DEF iter_opts
  <2>7. n + 2 \in DOMAIN opts /\ n + 2 # 1 /\ 1 \in DOMAIN opts /\ n + 2 \in Int
    BY <1>1, <2>2
  <2>8. brs = {n + 2}
    <3>1. opts[n + 2].code = "BR" /\ opts[n + 2].addr # None
      BY <1>1, <1>3, <2>2
    <3>2. \A i \in DOMAIN opts : opts[i].code = "BR" /\ opts[i].addr # None => i = n + 2
      BY <1>3, <2>2, <2>3, <2>4
    <3> QED BY <2>6, <2>7, <3>1, <3>2
  <2>9. rs = 2 .. n + 1
    <3>1. \A i \in DOMAIN opts : opts[i].code = "RULE" => i \in 2 .. n + 1
      BY <1>3, <2>2, <2>4
    <3>2. \A i \in 2 .. n + 1 : i \in DOMAIN opts
      BY <1>1, <2>2
    <3> QED BY <2>3, <2>6, <3>1, <3>2
  <2>10. CASE form = "malformed"
    <3>1. 2 \in rs
      <4>1. 2 \in 2 .. n + 1
        BY <1>1
      <4> QED BY <2>9, <4>1
    <3>2. opts[2].body = None
      <4>1. 1 \in 1 .. n /\ 1 + 1 = 2
        BY <1>1
      <4>2. opts[2] = rules[1]
        BY <2>2, <4>1
      <4> QED BY <1>1, <2>10, <4>2
    <3>3. parse_s46_cont_mape(opts) = <<>>
      BY <1>5, <3>1, <3>2
    <3> QED BY <2>10, <3>3 DEF opts
  <2>11. CASE form = "whole"
    <3>1. \A i \in 1 .. n : opts[2 + i - 1] = RuleOption(l[i], TRUE)
      <4> SUFFICES ASSUME NEW i \in 1 .. n PROVE opts[2 + i - 1] = RuleOption(l[i], TRUE)
        OBVIOUS
      <4>1. 2 + i - 1 = i + 1
        OBVIOUS
      <4> QED BY <1>1, <2>2, <2>11, <4>1
    <3>2. rs = 2 .. 2 + n - 1
      <4>1. 2 + n - 1 = n + 1
        BY <1>1
      <4> QED BY <2>9, <4>1
    <3>3. opts[n + 2].addr = l[1].br_address
      BY <1>3, <2>2 DEF relay
    <3>4. n \in 0 .. Len(l) /\ 2 \in Nat
      BY <1>1 DEF n
    <3>5. DOMAIN opts \subseteq Int /\ iter_opts(opts) \subseteq DOMAIN opts
      BY <2>2, <2>6
    <3>6. parse_s46_cont_mape(opts) = <<SubSeq(l, 1, n)>>
      <4>1. LaidOut(opts, l, n, 2, n + 2)
        BY <2>8, <3>1, <3>2, <3>3, <3>5 DEF LaidOut
      <4> QED BY <2>7, <3>4, <4>1, ParseList
    <3>7. SubSeq(l, 1, n) = l
      BY <1>1 DEF n
    <3> QED BY <2>11, <3>6, <3>7 DEF opts
  <2> QED BY <1>21, <2>10, <2>11
<1>22. CASE form = "overrun"
  <2> DEFINE front == SubSeq(rules, 1, Len(rules) - 1)
             k     == n - 1
  <2> HIDE DEF rules, S, n, relay
  <2>1. opts = <<BR(relay)>> \o front \o <<Overrun>>
    BY <1>4, <1>22
  <2>2. front \in Seq(S) /\ Len(front) = k /\ \A i \in 1 .. k : front[i] = rules[i]
    BY <1>1
  <2>3. k \in Nat /\ k <= n /\ n = k + 1
    BY <1>1
  <2> HIDE DEF opts, front, k
  <2>4. /\ DOMAIN opts = 1 .. k + 2 /\ opts[1] = BR(relay) /\ opts[k + 2] = Overrun
        /\ \A i \in 1 .. k : opts[i + 1] = front[i]
    BY <1>1, <1>2, <2>1, <2>2, Between
  <2>5. \A i \in 2 .. k + 1 : opts[i] = rules[i - 1] /\ opts[i].code = "RULE"
    <3> SUFFICES ASSUME NEW i \in 2 .. k + 1 PROVE opts[i] = rules[i - 1] /\ opts[i].code = "RULE"
      OBVIOUS
    <3>1. i - 1 \in 1 .. k /\ (i - 1) + 1 = i /\ i - 1 \in 1 .. n
      BY <2>3
    <3>2. opts[i] = rules[i - 1]
      BY <2>2, <2>4, <3>1
    <3> QED BY <1>1, <3>1, <3>2
  <2>6. iter_opts(opts) = 1 .. k + 1
    <3>1. \A i \in 1 .. k + 1 : i = 1 \/ i \in 2 .. k + 1
      BY <2>3
    <3>2. \A i \in 1 .. k + 1 : opts[i].code # "overrun"
      BY <1>3, <2>4, <2>5, <3>1
    <3>3. opts[k + 2].code = "overrun"
      BY <1>3, <2>4
    <3>4. iter_opts(opts) = {i \in 1 .. k + 2 : \A j \in 1 .. i : opts[j].code # "overrun"}
      BY <2>4 DEF iter_opts
    <3>5. \A i \in iter_opts(opts) : i # k + 2
      BY <2>3, <3>3, <3>4
    <3> QED BY <2>3, <3>2, <3>4, <3>5
  <2>7. brs = {1}
    <3>1. opts[1].code = "BR" /\ opts[1].addr # None /\ 1 \in 1 .. k + 1
      BY <1>1, <1>3, <2>3, <2>4
    <3>2. \A i \in 1 .. k + 1 : i = 1 \/ opts[i].code = "RULE"
      BY <2>3, <2>5
    <3> QED BY <2>6, <3>1, <3>2
  <2>8. rs = 2 .. 2 + k - 1
    <3>1. \A i \in 1 .. k + 1 : opts[i].code = "RULE" => i \in 2 .. k + 1
      BY <1>3, <2>3, <2>4
    <3>2. \A i \in 2 .. k + 1 : i \in 1 .. k + 1
      BY <2>3
    <3>3. 2 + k - 1 = k + 1
      BY <2>3
    <3>4. rs = 2 .. k + 1
      BY <2>5, <2>6, <3>1, <3>2
    <3> QED BY <3>3, <3>4
  <2>9. \A i \in 1 .. k : opts[2 + i - 1] = RuleOption(l[i], TRUE)
    <3> SUFFICES ASSUME NEW i \in 1 .. k PROVE opts[2 + i - 1] = RuleOption(l[i], TRUE)
      OBVIOUS
    <3>1. 2 + i - 1 = i + 1 /\ i \in 1 .. n
      BY <2>3
    <3>2. opts[i + 1] = rules[i]
      BY <2>2, <2>4
    <3> QED BY <1>1, <1>22, <3>1, <3>2
  <2>10. opts[1].addr = l[1].br_address
    BY <1>3, <2>4 DEF relay
  <2>11. k \in 0 .. Len(l) /\ 1 \in Int /\ 2 \in Nat /\ Len(l) - 1 = k
    BY <1>1, <2>3 DEF n
  <2>12. DOMAIN opts \subseteq Int /\ iter_opts(opts) \subseteq DOMAIN opts
    BY <2>3, <2>4, <2>6
  <2>13. parse_s46_cont_mape(opts) = <<SubSeq(l, 1, k)>>
    <3>1. LaidOut(opts, l, k, 2, 1)
      BY <2>7, <2>8, <2>9, <2>10, <2>12 DEF LaidOut
    <3> QED BY <2>11, <3>1, ParseList
  <2> QED BY <1>22, <2>11, <2>13 DEF opts
<1> QED BY <1>20, <1>21, <1>22

\* What the daemon reads of the rules of a Reply.
LEMMA ParseContainer ==
    ASSUME NEW ps, NEW c \in Contents
    PROVE  parse_mape_container(Reply(<<IAPD(ps, "Success")>> \o Options(c))) = RulesOf(c)
<1> DEFINE opts  == <<IAPD(ps, "Success")>> \o Options(c)
           m     == Reply(opts)
           conts == {i \in DOMAIN m.opts : m.opts[i].code = "CONT_MAPE"}
<1>1. /\ DOMAIN opts = IF c = <<>> THEN {1} ELSE {1, 2}
      /\ opts[1] = IAPD(ps, "Success")
      /\ c # <<>> => opts[2] = Container(c[1], c[2])
  BY ReplyOptions
<1>2. IAPD(ps, "Success").code = "IA_PD"
  BY DEF IAPD
<1> HIDE DEF opts
<1>3. m.opts = opts
  BY DEF Reply
<1> HIDE DEF m
<1>4. parse_mape_container(m) = IF conts = {} THEN <<>> ELSE parse_s46_cont_mape(m.opts[First(conts)].opts)
  BY DEF parse_mape_container
<1>5. CASE c = <<>>
  <2>1. conts = {}
    BY <1>1, <1>2, <1>3, <1>5
  <2> QED BY <1>4, <1>5, <2>1 DEF RulesOf, m, opts
<1>6. CASE c # <<>>
  <2>1. conts = {2}
    BY <1>1, <1>2, <1>3, <1>6, ContainerCode
  <2>2. First({2}) = 2
    BY FirstIs
  <2>3. c[1] \in Lists /\ c[2] \in {"whole", "relayless", "malformed", "overrun"}
    BY <1>6, CaptureConstants
  <2>4. parse_mape_container(m) = parse_s46_cont_mape(Container(c[1], c[2]).opts)
    BY <1>1, <1>3, <1>4, <1>6, <2>1, <2>2
  <2> QED BY <1>6, <2>3, <2>4, ParseForm DEF RulesOf, m, opts
<1> QED BY <1>5, <1>6

-----------------------------------------------------------------------------
(* The frames *)

\* Grants whose contents are in C, and frames that grant nothing.
Grant(d, ps, c) == Frame(d, Reply(<<IAPD(ps, "Success")>> \o Options(c)))
Idle(a, m, d) == [Frame(a, m) EXCEPT !.dport = d]
Frames(C) ==
    {Grant(d, ps, c) : d \in Address \cup {Other, Multicast}, ps \in Delegation, c \in C}
      \cup {Idle(a, m, d) : a \in Address, m \in Harmless, d \in {546, 547}}
Uncut == {c \in Contents : ~Overrunning(c)}

\* A content is read as a list that is whole, or short at most of its end.
LEMMA RulesOfType ==
    ASSUME NEW c \in Contents
    PROVE  /\ RulesOf(c) \in {<<>>} \cup {<<l>> : l \in AnyList}
           /\ c \in Uncut => RulesOf(c) \in {<<>>} \cup {<<l>> : l \in Lists}
           /\ Whole(c) => c[1] \in Lists /\ RulesOf(c) = <<c[1]>>
           /\ ~Whole(c) /\ ~Overrunning(c) => RulesOf(c) = <<>>
<1>1. CASE c = <<>>
  BY <1>1 DEF RulesOf, Whole, Uncut
<1>2. CASE c # <<>>
  <2> DEFINE l == c[1]
  <2>1. l \in Lists /\ c[2] \in {"whole", "relayless", "malformed", "overrun"}
    BY <1>2, CaptureConstants
  <2>2. l \in AnyList
    BY <2>1 DEF AnyList
  <2>3. Len(l) - 1 \in 0 .. Len(l)
    <3>1. Len(l) \in Nat /\ Len(l) >= 1
      BY <2>1, RuleOptions
    <3> QED BY <3>1
  <2>4. SubSeq(l, 1, Len(l) - 1) \in AnyList
    BY <2>1, <2>3 DEF AnyList
  <2>5. CASE c[2] = "overrun"
    <3>1. RulesOf(c) = <<SubSeq(l, 1, Len(l) - 1)>>
      BY <1>2, <2>5 DEF RulesOf
    <3>2. ~Whole(c) /\ Overrunning(c) /\ c \notin Uncut
      BY <1>2, <2>5 DEF Whole, Overrunning, Uncut
    <3> QED BY <2>4, <3>1, <3>2
  <2>6. CASE c[2] = "whole"
    <3>1. RulesOf(c) = <<l>>
      BY <1>2, <2>6 DEF RulesOf
    <3>2. Whole(c)
      BY <1>2, <2>6 DEF Whole
    <3> QED BY <2>1, <2>2, <3>1, <3>2
  <2>7. CASE c[2] \in {"relayless", "malformed"}
    <3>1. RulesOf(c) = <<>>
      BY <1>2, <2>7 DEF RulesOf
    <3>2. ~Whole(c)
      BY <2>7 DEF Whole
    <3> QED BY <3>1, <3>2
  <2> QED BY <2>1, <2>5, <2>6, <2>7
<1> QED BY <1>1, <1>2

\* The first of the delegated prefixes.
LEMMA DelegationType ==
    ASSUME NEW ps \in Delegation
    PROVE  ps[1] \in Prefix /\ ps[1] # None
<1>1. ps[1] \in Prefix
  BY DEF Delegation
<1> QED BY <1>1, CaptureConstants

\* What process_frame makes of a grant.
LEMMA GrantEvent ==
    ASSUME NEW d, NEW ps \in Delegation, NEW c \in Contents, NEW ll
    PROVE  process_frame(Grant(d, ps, c), ll) =
              IF ll = None \/ d \in {ll, Multicast} THEN [rules |-> RulesOf(c), ia_pd |-> ps[1]] ELSE None
<1> DEFINE m == Reply(<<IAPD(ps, "Success")>> \o Options(c))
           f == Grant(d, ps, c)
<1>1. parse_ia_pd(m, None) = ps[1] /\ parse_mape_container(m) = RulesOf(c)
  BY ParsePrefix, ParseContainer
<1>2. m.msg_type = "Reply" /\ m.status = "Success"
  BY DEF Reply
<1>3. f.payload = m /\ f.len = 63 /\ f.dst = d
  BY DEF Grant, Frame
<1>4. ps[1] # None
  BY DelegationType
<1> HIDE DEF m, f
<1>5. passes_dst_filter(f, ll) <=> ll = None \/ d \in {ll, Multicast}
  BY <1>3 DEF passes_dst_filter
<1>6. process_frame(f, ll) = IF ll = None \/ d \in {ll, Multicast} THEN [rules |-> RulesOf(c), ia_pd |-> ps[1]] ELSE None
  BY <1>1, <1>2, <1>3, <1>4, <1>5 DEF process_frame
<1> QED BY <1>6 DEF f

\* A frame that grants nothing makes no event.
LEMMA NoiseEvent ==
    ASSUME NEW a, NEW m \in Harmless, NEW d, NEW ll
    PROVE  process_frame(Idle(a, m, d), ll) = None
<1> DEFINE f == Idle(a, m, d)
<1>1. f.payload = m
  BY DEF Idle, Frame
<1>2. m.msg_type # "Reply" \/ m.status # "Success" \/ parse_ia_pd(m, None) = None
  BY CaptureConstants
<1> HIDE DEF f
<1>3. process_frame(f, ll) = None
  BY <1>1, <1>2 DEF process_frame
<1> QED BY <1>3 DEF f

\* The events of frames.
LEMMA FrameEvents ==
    ASSUME NEW C \in SUBSET Contents, NEW f \in Frames(C), NEW ll, process_frame(f, ll) # None
    PROVE  /\ process_frame(f, ll) \in DhcpV6Event
           /\ C \subseteq Uncut => process_frame(f, ll).rules \in {<<>>} \cup {<<l>> : l \in Lists}
<1>1. CASE \E d \in Address \cup {Other, Multicast}, ps \in Delegation, c \in C : f = Grant(d, ps, c)
  <2>1. PICK d \in Address \cup {Other, Multicast}, ps \in Delegation, c \in C : f = Grant(d, ps, c)
    BY <1>1
  <2> DEFINE e == [rules |-> RulesOf(c), ia_pd |-> ps[1]]
  <2>2. c \in Contents
    OBVIOUS
  <2>3. process_frame(f, ll) = e
    BY <2>1, <2>2, GrantEvent
  <2>4. /\ RulesOf(c) \in {<<>>} \cup {<<l>> : l \in AnyList}
        /\ c \in Uncut => RulesOf(c) \in {<<>>} \cup {<<l>> : l \in Lists}
    BY <2>2, RulesOfType
  <2>5. ps[1] \in Prefix
    BY DelegationType
  <2>6. e \in DhcpV6Event /\ e.rules = RulesOf(c)
    BY <2>4, <2>5 DEF DhcpV6Event
  <2> QED BY <2>3, <2>4, <2>6
<1>2. CASE \E a \in Address, m \in Harmless, d \in {546, 547} : f = Idle(a, m, d)
  <2>1. PICK a \in Address, m \in Harmless, d \in {546, 547} : f = Idle(a, m, d)
    BY <1>2
  <2>2. process_frame(Idle(a, m, d), ll) = None
    BY NoiseEvent
  <2> QED BY <2>1, <2>2
<1> QED BY <1>1, <1>2 DEF Frames

-----------------------------------------------------------------------------
(* The way of the news *)

\* A queue of news, in which None tells nothing: the newest news in it is x.
NewestIs(q, x) ==
    \A i \in DOMAIN q :
        q[i] # None /\ (\A j \in DOMAIN q : j > i => q[j] = None) => q[i] = x
Silent(q) == \A i \in DOMAIN q : q[i] = None

\* From the socket, through the hands of the capture, and through the channel: the
\* newest news on the way is x, or nothing is on the way.
Chain(s, h, c, x) ==
    /\ NewestIs(s, x)
    /\ Silent(s) => IF h # None THEN h = x ELSE NewestIs(c, x)
Drained(s, h, c) == Silent(s) /\ h = None /\ Silent(c)

\* q is s with v behind it; q is s without its head.
Longer(q, s, v) ==
    \E n \in Nat : /\ DOMAIN s = 1 .. n /\ DOMAIN q = 1 .. n + 1
                   /\ q[n + 1] = v /\ \A i \in 1 .. n : q[i] = s[i]
Shorter(q, s) ==
    \E n \in Nat : /\ DOMAIN q = 1 .. n /\ DOMAIN s = 1 .. n + 1
                   /\ \A i \in 1 .. n : q[i] = s[i + 1]

\* News put behind.
LEMMA LongerNews ==
    ASSUME NEW q, NEW s, NEW v, Longer(q, s, v)
    PROVE  /\ v # None => NewestIs(q, v) /\ ~Silent(q)
           /\ v = None => (Silent(q) <=> Silent(s)) /\ \A x : NewestIs(s, x) => NewestIs(q, x)
<1>1. PICK n \in Nat : /\ DOMAIN s = 1 .. n /\ DOMAIN q = 1 .. n + 1
                       /\ q[n + 1] = v /\ \A i \in 1 .. n : q[i] = s[i]
  BY DEF Longer
<1>2. n + 1 \in DOMAIN q /\ \A i \in DOMAIN q : i = n + 1 \/ i \in DOMAIN s
  BY <1>1
<1>3. \A i \in DOMAIN s : i \in DOMAIN q /\ q[i] = s[i] /\ n + 1 > i /\ i # n + 1
  BY <1>1
<1>4. CASE v # None
  <2>1. ~Silent(q)
    BY <1>1, <1>2, <1>4 DEF Silent
  <2>2. NewestIs(q, v)
    <3> SUFFICES ASSUME NEW i \in DOMAIN q, \A j \in DOMAIN q : j > i => q[j] = None
                 PROVE  q[i] = v
      BY DEF NewestIs
    <3> QED BY <1>1, <1>2, <1>3, <1>4
  <2> QED BY <1>4, <2>1, <2>2
<1>5. CASE v = None
  <2>1. Silent(q) <=> Silent(s)
    BY <1>1, <1>2, <1>3, <1>5 DEF Silent
  <2>2. ASSUME NEW x, NewestIs(s, x) PROVE NewestIs(q, x)
    <3> SUFFICES ASSUME NEW i \in DOMAIN q, q[i] # None, \A j \in DOMAIN q : j > i => q[j] = None
                 PROVE  q[i] = x
      BY DEF NewestIs
    <3>1. i \in DOMAIN s /\ s[i] # None
      BY <1>1, <1>2, <1>3, <1>5
    <3>2. \A j \in DOMAIN s : j > i => s[j] = None
      BY <1>3
    <3>3. s[i] = x
      BY <2>2, <3>1, <3>2 DEF NewestIs
    <3> QED BY <1>3, <3>1, <3>3
  <2> QED BY <1>5, <2>1, <2>2
<1> QED BY <1>4, <1>5

\* The head taken off.
LEMMA ShorterNews ==
    ASSUME NEW q, NEW s, Shorter(q, s)
    PROVE  /\ Silent(s) <=> Silent(q) /\ s[1] = None
           /\ \A x : NewestIs(s, x) => /\ NewestIs(q, x)
                                       /\ Silent(q) /\ s[1] # None => s[1] = x
<1>1. PICK n \in Nat : /\ DOMAIN q = 1 .. n /\ DOMAIN s = 1 .. n + 1
                       /\ \A i \in 1 .. n : q[i] = s[i + 1]
  BY DEF Shorter
<1>2. 1 \in DOMAIN s /\ \A i \in DOMAIN q : i + 1 \in DOMAIN s /\ q[i] = s[i + 1] /\ i + 1 > 1
  BY <1>1
<1>3. \A j \in DOMAIN s : j = 1 \/ (j - 1 \in DOMAIN q /\ q[j - 1] = s[j])
  <2> SUFFICES ASSUME NEW j \in DOMAIN s, j # 1 PROVE j - 1 \in DOMAIN q /\ q[j - 1] = s[j]
    OBVIOUS
  <2>1. j - 1 \in 1 .. n /\ (j - 1) + 1 = j
    BY <1>1
  <2> QED BY <1>1, <2>1
<1>4. Silent(s) <=> Silent(q) /\ s[1] = None
  BY <1>2, <1>3 DEF Silent
<1>5. ASSUME NEW x, NewestIs(s, x)
      PROVE  NewestIs(q, x) /\ (Silent(q) /\ s[1] # None => s[1] = x)
  <2>1. NewestIs(q, x)
    <3> SUFFICES ASSUME NEW i \in DOMAIN q, q[i] # None, \A j \in DOMAIN q : j > i => q[j] = None
                 PROVE  q[i] = x
      BY DEF NewestIs
    <3>1. \A j \in DOMAIN s : j > i + 1 => s[j] = None
      <4> SUFFICES ASSUME NEW j \in DOMAIN s, j > i + 1 PROVE s[j] = None
        OBVIOUS
      <4>1. j # 1 /\ j - 1 > i
        BY <1>1
      <4> QED BY <1>3, <4>1
    <3> QED BY <1>2, <1>5, <3>1 DEF NewestIs
  <2>2. ASSUME Silent(q), s[1] # None PROVE s[1] = x
    <3>1. \A j \in DOMAIN s : j > 1 => s[j] = None
      BY <1>3, <2>2 DEF Silent
    <3> QED BY <1>2, <1>5, <2>2, <3>1 DEF NewestIs
  <2> QED BY <2>1, <2>2
<1> QED BY <1>4, <1>5

-----------------------------------------------------------------------------
(* The inductive invariants *)

\* The address that the capture goes by, or will once it receives a frame.
Ll == IF our_ll_addr = None THEN address ELSE our_ll_addr

\* The types in full: the queues hold frames and events, the rules are lists, and
\* the address is looked up when the loop begins.
Flags == {changed, dhcp_rx, prefix_gap, rules_gap, overran} \subseteq BOOLEAN
Shapes ==
    /\ address \in Address \cup {None} /\ {file, granted, found, pending_ia_pd} \subseteq Prefix \cup {None}
    /\ address # None => address <= faults + 1
    /\ sock \in Seq(Frames(Contents)) /\ Len(sock) <= SockCap
    /\ chan \in Seq(DhcpV6Event) /\ Len(chan) <= DhcpCap
    /\ lease_chan \in Seq(Prefix) /\ Len(lease_chan) <= LeaseCap
    /\ pc \in {"start", "socket", "loop", "sending", "ended"}
    /\ held \in DhcpV6Event \cup {None} /\ (pc = "sending" <=> held # None)
    /\ our_ll_addr \in Address \cup {None} /\ (pc \in {"start", "socket"} => our_ll_addr = None)
    /\ main \in {"loop", "cleanup", "gone"}
    /\ {pending_map_rules, cache} \subseteq AnyList \cup {None}
    /\ replies \in 0 .. MaxReplies /\ faults \in 0 .. MaxFaults
Typed == Flags /\ Shapes

\* As long as no container has overrun, all lists on their way are whole.
RulesWhole(e) == e.rules \in {<<>>} \cup {<<l>> : l \in Lists}
Unshortened ==
    ~overran => /\ sock \in Seq(Frames(Uncut))
                /\ held # None => RulesWhole(held)
                /\ \A i \in DOMAIN chan : RulesWhole(chan[i])
                /\ {pending_map_rules, cache} \subseteq Lists \cup {None}

\* What an event tells of the prefix, and of the rules; and the queues of that news.
PrefixNews(e) == IF e = None THEN None ELSE e.ia_pd
RulesNews(e) == IF e = None \/ e.rules = <<>> THEN None ELSE e.rules[1]

SockPrefixes == [i \in DOMAIN sock |-> PrefixNews(process_frame(sock[i], Ll))]
ChanPrefixes == [i \in DOMAIN chan |-> PrefixNews(chan[i])]
SockRules == [i \in DOMAIN sock |-> RulesNews(process_frame(sock[i], Ll))]
ChanRules == [i \in DOMAIN chan |-> RulesNews(chan[i])]

Newest == IF granted # None THEN granted ELSE file
LeaseTold == ~changed /\ found = None /\ lease_chan = <<>>

\* The newest the watcher has to tell is what is in the file.
LeaseCurrent ==
    main # "gone" /\ ~changed /\ file # None =>
        /\ found # None => found = file
        /\ found = None /\ lease_chan # <<>> => lease_chan[Len(lease_chan)] = file

\* The newest the capture has to tell is the prefix that is in the file or will be.
PrefixCurrent ==
    main # "gone" /\ ~prefix_gap =>
        /\ Chain(SockPrefixes, PrefixNews(held), ChanPrefixes, Newest)
        /\ Drained(SockPrefixes, PrefixNews(held), ChanPrefixes) /\ LeaseTold /\ file # None =>
              pending_ia_pd \in {file, Newest}

\* The newest list on its way is the newest one the server has sent, or the daemon
\* has that one.
RulesCurrent ==
    main # "gone" /\ ~rules_gap =>
        /\ Chain(SockRules, RulesNews(held), ChanRules, latest)
        /\ Drained(SockRules, RulesNews(held), ChanRules) => pending_map_rules = latest

\* Nothing is left in an empty socket.
LEMMA EmptyNews ==
    ASSUME NEW q, DOMAIN q = {}
    PROVE  Silent(q) /\ \A x : NewestIs(q, x)
BY DEF Silent, NewestIs

\* News comes in.
LEMMA ChainNew ==
    ASSUME NEW q, NEW s, NEW v, Longer(q, s, v), v # None, NEW h, NEW c
    PROVE  Chain(q, h, c, v) /\ ~Drained(q, h, c)
BY LongerNews DEF Chain, Drained

\* Something comes in that tells nothing.
LEMMA ChainQuiet ==
    ASSUME NEW q, NEW s, Longer(q, s, None), NEW h, NEW c, NEW x
    PROVE  /\ Chain(s, h, c, x) => Chain(q, h, c, x)
           /\ Drained(q, h, c) => Drained(s, h, c)
BY LongerNews DEF Chain, Drained

\* The capture takes a frame from the socket.
LEMMA ChainReceive ==
    ASSUME NEW q, NEW s, Shorter(q, s), NEW c, NEW x, Chain(s, None, c, x)
    PROVE  /\ Chain(q, s[1], c, x)
           /\ Drained(q, s[1], c) => Drained(s, None, c)
BY ShorterNews DEF Chain, Drained

\* The capture sends its event.
LEMMA ChainSend ==
    ASSUME NEW s, NEW h, NEW c, NEW d, Longer(d, c, h), NEW x, Chain(s, h, c, x)
    PROVE  /\ Chain(s, None, d, x)
           /\ Drained(s, None, d) => Drained(s, h, c)
BY LongerNews DEF Chain, Drained

\* The loop takes an event from the channel.
LEMMA ChainHandle ==
    ASSUME NEW s, NEW h, NEW c, NEW d, Shorter(d, c), NEW x, Chain(s, h, c, x)
    PROVE  /\ Chain(s, h, d, x)
           /\ Drained(s, h, d) => IF c[1] # None THEN c[1] = x ELSE Drained(s, h, c)
BY ShorterNews DEF Chain, Drained

\* The socket's buffer is given up while it is empty.
LEMMA ChainClose ==
    ASSUME NEW q, NEW s, DOMAIN q = {}, DOMAIN s = {}, NEW h, NEW c, NEW x
    PROVE  /\ Chain(s, h, c, x) => Chain(q, h, c, x)
           /\ Drained(q, h, c) => Drained(s, h, c)
BY EmptyNews DEF Chain, Drained

\* A new start, with nothing on the way.
LEMMA ChainStart ==
    ASSUME NEW s, NEW c, DOMAIN s = {}, DOMAIN c = {}, NEW x
    PROVE  Chain(s, None, c, x)
BY EmptyNews DEF Chain

\* Neither a queue nor the address has changed.
LEMMA Still ==
    ASSUME sock' = sock, chan' = chan, Ll' = Ll \/ sock = <<>>
    PROVE  /\ SockPrefixes' = SockPrefixes /\ ChanPrefixes' = ChanPrefixes
           /\ SockRules' = SockRules /\ ChanRules' = ChanRules
<1>1. ChanPrefixes' = ChanPrefixes /\ ChanRules' = ChanRules
  BY DEF ChanPrefixes, ChanRules
<1>2. CASE Ll' = Ll
  BY <1>1, <1>2 DEF SockPrefixes, SockRules
<1>3. CASE sock = <<>>
  <2>1. DOMAIN sock = {}
    BY <1>3
  <2> QED BY <1>1, <2>1 DEF SockPrefixes, SockRules
<1> QED BY <1>2, <1>3

\* A frame is queued.
LEMMA Queued ==
    ASSUME sock \in Seq(Frames(Contents)), NEW f \in Frames(Contents),
           sock' = Append(sock, f), chan' = chan, Ll' = Ll
    PROVE  /\ Longer(SockPrefixes', SockPrefixes, PrefixNews(process_frame(f, Ll)))
           /\ Longer(SockRules', SockRules, RulesNews(process_frame(f, Ll)))
           /\ ChanPrefixes' = ChanPrefixes /\ ChanRules' = ChanRules
<1> DEFINE n == Len(sock)
<1>1. n \in Nat /\ DOMAIN sock = 1 .. n /\ DOMAIN sock' = 1 .. n + 1
      /\ sock'[n + 1] = f /\ \A i \in 1 .. n : sock'[i] = sock[i]
  OBVIOUS
<1>2. n + 1 \in 1 .. n + 1 /\ \A i \in 1 .. n : i \in 1 .. n + 1
  BY <1>1
<1> HIDE DEF n
<1>3. Longer(SockPrefixes', SockPrefixes, PrefixNews(process_frame(f, Ll)))
  BY <1>1, <1>2 DEF Longer, SockPrefixes
<1>4. Longer(SockRules', SockRules, RulesNews(process_frame(f, Ll)))
  BY <1>1, <1>2 DEF Longer, SockRules
<1>5. ChanPrefixes' = ChanPrefixes /\ ChanRules' = ChanRules
  BY DEF ChanPrefixes, ChanRules
<1> QED BY <1>3, <1>4, <1>5

\* A frame is received.
LEMMA Received ==
    ASSUME sock \in Seq(Frames(Contents)), sock # <<>>,
           sock' = Tail(sock), chan' = chan, Ll' = Ll
    PROVE  /\ Shorter(SockPrefixes', SockPrefixes) /\ Shorter(SockRules', SockRules)
           /\ SockPrefixes[1] = PrefixNews(process_frame(Head(sock), Ll))
           /\ SockRules[1] = RulesNews(process_frame(Head(sock), Ll))
           /\ ChanPrefixes' = ChanPrefixes /\ ChanRules' = ChanRules
<1> DEFINE n == Len(sock) - 1
<1>1. n \in Nat /\ DOMAIN sock = 1 .. n + 1 /\ DOMAIN sock' = 1 .. n
      /\ sock[1] = Head(sock) /\ \A i \in 1 .. n : sock'[i] = sock[i + 1]
  OBVIOUS
<1>2. 1 \in 1 .. n + 1 /\ \A i \in 1 .. n : i + 1 \in 1 .. n + 1
  BY <1>1
<1> HIDE DEF n
<1>3. Shorter(SockPrefixes', SockPrefixes) /\ SockPrefixes[1] = PrefixNews(process_frame(Head(sock), Ll))
  BY <1>1, <1>2 DEF Shorter, SockPrefixes
<1>4. Shorter(SockRules', SockRules) /\ SockRules[1] = RulesNews(process_frame(Head(sock), Ll))
  BY <1>1, <1>2 DEF Shorter, SockRules
<1>5. ChanPrefixes' = ChanPrefixes /\ ChanRules' = ChanRules
  BY DEF ChanPrefixes, ChanRules
<1> QED BY <1>3, <1>4, <1>5

\* An event is sent.
LEMMA Sent ==
    ASSUME chan \in Seq(DhcpV6Event), held \in DhcpV6Event,
           chan' = Append(chan, held), sock' = sock, Ll' = Ll
    PROVE  /\ Longer(ChanPrefixes', ChanPrefixes, PrefixNews(held))
           /\ Longer(ChanRules', ChanRules, RulesNews(held))
           /\ SockPrefixes' = SockPrefixes /\ SockRules' = SockRules
<1> DEFINE n == Len(chan)
<1>1. n \in Nat /\ DOMAIN chan = 1 .. n /\ DOMAIN chan' = 1 .. n + 1
      /\ chan'[n + 1] = held /\ \A i \in 1 .. n : chan'[i] = chan[i]
  OBVIOUS
<1>2. n + 1 \in 1 .. n + 1 /\ \A i \in 1 .. n : i \in 1 .. n + 1
  BY <1>1
<1> HIDE DEF n
<1>3. Longer(ChanPrefixes', ChanPrefixes, PrefixNews(held))
  BY <1>1, <1>2 DEF Longer, ChanPrefixes
<1>4. Longer(ChanRules', ChanRules, RulesNews(held))
  BY <1>1, <1>2 DEF Longer, ChanRules
<1>5. SockPrefixes' = SockPrefixes /\ SockRules' = SockRules
  BY DEF SockPrefixes, SockRules
<1> QED BY <1>3, <1>4, <1>5

\* An event is handled.
LEMMA Handled ==
    ASSUME chan \in Seq(DhcpV6Event), chan # <<>>, chan' = Tail(chan), sock' = sock, Ll' = Ll
    PROVE  /\ Shorter(ChanPrefixes', ChanPrefixes) /\ Shorter(ChanRules', ChanRules)
           /\ ChanPrefixes[1] = PrefixNews(Head(chan))
           /\ ChanRules[1] = RulesNews(Head(chan))
           /\ Head(chan) \in DhcpV6Event
           /\ SockPrefixes' = SockPrefixes /\ SockRules' = SockRules
<1> DEFINE n == Len(chan) - 1
<1>1. n \in Nat /\ DOMAIN chan = 1 .. n + 1 /\ DOMAIN chan' = 1 .. n
      /\ chan[1] = Head(chan) /\ \A i \in 1 .. n : chan'[i] = chan[i + 1]
  OBVIOUS
<1>2. 1 \in 1 .. n + 1 /\ \A i \in 1 .. n : i + 1 \in 1 .. n + 1
  BY <1>1
<1>6. Head(chan) \in DhcpV6Event
  OBVIOUS
<1> HIDE DEF n
<1>3. Shorter(ChanPrefixes', ChanPrefixes) /\ ChanPrefixes[1] = PrefixNews(Head(chan))
  BY <1>1, <1>2 DEF Shorter, ChanPrefixes
<1>4. Shorter(ChanRules', ChanRules) /\ ChanRules[1] = RulesNews(Head(chan))
  BY <1>1, <1>2 DEF Shorter, ChanRules
<1>5. SockPrefixes' = SockPrefixes /\ SockRules' = SockRules
  BY DEF SockPrefixes, SockRules
<1> QED BY <1>3, <1>4, <1>5, <1>6

\* The prefixes of a Reply that the host accepts.
LEMMA Delegated ==
    ASSUME NEW p \in Prefix, NEW withdrawn \in {<<>>} \cup {<<q>> : q \in Prefix \ {p}}
    PROVE  /\ withdrawn \o <<p>> \in Delegation
           /\ withdrawn = <<>> => (withdrawn \o <<p>>)[1] = p
<1>1. CASE withdrawn = <<>>
  <2>1. withdrawn \o <<p>> = <<p>>
    BY <1>1
  <2> QED BY <2>1 DEF Delegation
<1>2. CASE \E q \in Prefix : withdrawn = <<q>>
  <2>1. PICK q \in Prefix : withdrawn = <<q>>
    BY <1>2
  <2> DEFINE both == <<q>> \o <<p>>
  <2>2. both = <<q, p>>
    <3>1. both \in Seq(Prefix) /\ Len(both) = 2 /\ both[1] = q /\ both[2] = p
      OBVIOUS
    <3> HIDE DEF both
    <3> QED BY <3>1
  <2>3. withdrawn # <<>>
    BY <2>1
  <2> QED BY <2>1, <2>2, <2>3 DEF Delegation
<1> QED BY <1>1, <1>2

\* A frame that is delivered is queued if there is room and a socket.
LEMMA Delivered ==
    ASSUME NEW C, NEW f \in Frames(C), sock \in Seq(Frames(C)), Len(sock) <= SockCap, Deliver(f)
    PROVE  /\ sock' \in Seq(Frames(C)) /\ Len(sock') <= SockCap
           /\ Taken(f) => sock' = Append(sock, f) /\ Opened
           /\ ~Taken(f) => sock' = sock
<1>1. SockCap \in Nat /\ Len(sock) \in Nat
  BY CaptureConstants
<1>2. CASE Taken(f)
  <2>1. sock' = Append(sock, f) /\ Len(sock) < SockCap /\ Opened
    BY <1>2 DEF Deliver, Taken
  <2>2. sock' \in Seq(Frames(C)) /\ Len(sock') = Len(sock) + 1
    BY <2>1
  <2> QED BY <1>1, <1>2, <2>1, <2>2
<1>3. CASE ~Taken(f)
  BY <1>3 DEF Deliver
<1> QED BY <1>2, <1>3

\* The frames of the actions of the world.
LEMMA WorldFrames ==
    ASSUME NEW C \in SUBSET Contents, address \in Address \cup {None}
    PROVE  /\ \A ps \in Delegation, c \in C, d \in {address, Other, Multicast} :
                 d # None => Grant(d, ps, c) \in Frames(C)
           /\ \A m \in Harmless, d \in {546, 547} :
                 address # None => Idle(address, m, d) \in Frames(C)
BY DEF Frames

\* The steps of the world, by name.
AnyExchange ==
    \E p \in Prefix : \E withdrawn \in {<<>>} \cup {<<q>> : q \in Prefix \ {p}}, content \in Contents :
        Exchange(p, withdrawn, content)
AnyStray ==
    \E p \in Prefix, content \in {c \in Contents : c = <<>> \/ Whole(c)}, dst \in {Other, Multicast, address} :
        Stray(dst, p, content)
AnyNoise == \E m \in Harmless : Noise(m)

Step ==
    \/ AnyExchange \/ AnyStray \/ AnyNoise \/ SetAddress \/ networkd_write
    \/ handle_lease_event \/ send_lease_event
    \/ open_socket \/ attach_filter \/ send_event \/ capture_cancelled \/ recv_frame
    \/ recv_dhcp \/ dhcp_closed \/ recv_lease
    \/ cleanup \/ readable_error \/ stop \/ restart
    \/ vars' = vars

\* All steps are among them.
LEMMA Steps == [Next]_vars => Step
<1> SUFFICES ASSUME [Next]_vars PROVE Step
  OBVIOUS
<1>1. CASE World
  BY <1>1 DEF World, Step, AnyExchange, AnyStray, AnyNoise
<1>2. CASE ~World
  BY <1>2 DEF Next, Step, Watcher, Receive, Setup, Handle
<1> QED BY <1>1, <1>2

\* What reaches the socket in an exchange.
LEMMA ExchangeFrame ==
    ASSUME Typed, AnyExchange
    PROVE  \E p \in Prefix, ps \in Delegation, content \in Contents,
                 withdrawn \in {<<>>} \cup {<<q>> : q \in Prefix} :
              /\ Exchange(p, withdrawn, content)
              /\ ps = withdrawn \o <<p>> /\ (withdrawn = <<>> => ps[1] = p)
              /\ Deliver(Grant(address, ps, content))
              /\ Grant(address, ps, content) \in Frames(Contents)
              /\ content \in Uncut => Grant(address, ps, content) \in Frames(Uncut)
<1>0. PICK p \in Prefix : \E withdrawn \in {<<>>} \cup {<<q>> : q \in Prefix \ {p}}, content \in Contents :
         Exchange(p, withdrawn, content)
  BY DEF AnyExchange
<1>1. PICK withdrawn \in {<<>>} \cup {<<q>> : q \in Prefix \ {p}}, content \in Contents :
         Exchange(p, withdrawn, content)
  BY <1>0
<1> DEFINE ps == withdrawn \o <<p>>
<1>2. ps \in Delegation /\ (withdrawn = <<>> => ps[1] = p)
  BY Delegated
<1>3. address # None /\ Deliver(Grant(address, ps, content))
  BY <1>1 DEF Exchange, Grant
<1>4. address \in Address \cup {None} /\ Uncut \in SUBSET Contents
  BY DEF Typed, Shapes, Uncut
<1> HIDE DEF ps
<1>5. Grant(address, ps, content) \in Frames(Contents)
  BY <1>2, <1>3, <1>4, WorldFrames
<1>6. content \in Uncut => Grant(address, ps, content) \in Frames(Uncut)
  BY <1>2, <1>3, <1>4, WorldFrames
<1> QED BY <1>1, <1>2, <1>3, <1>5, <1>6 DEF ps

\* What reaches the socket of the traffic of others.
LEMMA StrayFrame ==
    ASSUME Typed, AnyStray
    PROVE  \E p \in Prefix, ps \in Delegation, content \in Uncut, dst \in {Other, Multicast, address} :
              /\ Stray(dst, p, content) /\ dst # None
              /\ content = <<>> \/ Whole(content)
              /\ Deliver(Grant(dst, ps, content))
              /\ Grant(dst, ps, content) \in Frames(Contents) \cap Frames(Uncut)
<1>1. PICK p \in Prefix, content \in {c \in Contents : c = <<>> \/ Whole(c)}, dst \in {Other, Multicast, address} :
         Stray(dst, p, content)
  BY DEF AnyStray
<1>2. <<p>> \in Delegation /\ content \in Uncut
  BY DEF Delegation, Uncut, Whole, Overrunning
<1>3. dst # None /\ Deliver(Grant(dst, <<p>>, content))
  BY <1>1 DEF Stray, Grant
<1>4. address \in Address \cup {None} /\ Uncut \in SUBSET Contents
  BY DEF Typed, Shapes, Uncut
<1>5. Grant(dst, <<p>>, content) \in Frames(Contents) /\ Grant(dst, <<p>>, content) \in Frames(Uncut)
  BY <1>2, <1>3, <1>4, WorldFrames
<1> QED BY <1>1, <1>2, <1>3, <1>5

\* What reaches the socket of the traffic that grants nothing.
LEMMA NoiseFrame ==
    ASSUME Typed, AnyNoise
    PROVE  \E m \in Harmless : \E f \in Frames(Contents) \cap Frames(Uncut) :
              /\ Noise(m) /\ Deliver(f) /\ \A ll : process_frame(f, ll) = None
<1>1. PICK m \in Harmless : Noise(m)
  BY DEF AnyNoise
<1> DEFINE d == IF m.msg_type \in {"Reply", "Advertise"} THEN 546 ELSE 547
           f == Idle(address, m, d)
<1>2. address # None /\ Deliver(f) /\ d \in {546, 547}
  BY <1>1 DEF Noise, Idle
<1>3. address \in Address \cup {None} /\ Uncut \in SUBSET Contents
  BY DEF Typed, Shapes, Uncut
<1> HIDE DEF d
<1>4. f \in Frames(Contents) /\ f \in Frames(Uncut)
  <2>1. ASSUME NEW C \in SUBSET Contents PROVE f \in Frames(C)
    BY <1>2, <1>3, WorldFrames
  <2> HIDE DEF f
  <2> QED BY <1>3, <2>1
<1>5. \A ll : process_frame(f, ll) = None
  BY NoiseEvent
<1> QED BY <1>1, <1>2, <1>4, <1>5

-----------------------------------------------------------------------------
(* The types *)

\* In the beginning all is empty.
LEMMA TypedInit == Init => Typed
<1> SUFFICES ASSUME Init PROVE Typed
  OBVIOUS
<1>1. {SockCap, DhcpCap, LeaseCap} \subseteq Nat /\ {MaxReplies, MaxFaults} \subseteq Nat
  BY CaptureConstants
<1>2. Len(<<>>) = 0 /\ <<>> \in Seq(Frames(Contents)) /\ <<>> \in Seq(DhcpV6Event) /\ <<>> \in Seq(Prefix)
  OBVIOUS
<1>3. Flags
  BY DEF Init, Flags
<1>4. Shapes
  BY <1>1, <1>2 DEF Init, Shapes
<1> QED BY <1>3, <1>4 DEF Typed

\* Every step keeps the flags flags.
LEMMA FlagsStep == Flags /\ Step => Flags'
<1> SUFFICES ASSUME Flags, Step PROVE Flags'
  OBVIOUS
<1> USE DEF host, capture, channels, watcher, daemon, book
<1>2. CASE AnyExchange
  <2>1. PICK p \in Prefix : \E withdrawn \in {<<>>} \cup {<<q>> : q \in Prefix \ {p}}, content \in Contents :
           Exchange(p, withdrawn, content)
    BY <1>2 DEF AnyExchange
  <2>2. PICK withdrawn, content : Exchange(p, withdrawn, content)
    BY <2>1
  <2>3. UNCHANGED <<changed, dhcp_rx>>
    BY <2>2 DEF Exchange
  <2>4. prefix_gap' \in BOOLEAN
    BY <2>2 DEF Exchange, Flags
  <2>5. rules_gap' \in BOOLEAN /\ overran' \in BOOLEAN
    BY <2>2 DEF Exchange, Flags
  <2> QED BY <2>3, <2>4, <2>5 DEF Flags
<1>3. CASE AnyStray
  BY <1>3 DEF Flags, AnyStray, Stray
<1>4. CASE AnyNoise
  BY <1>4 DEF Flags, AnyNoise, Noise
<1>5. CASE SetAddress
  BY <1>5 DEF Flags, SetAddress
<1>6. CASE networkd_write
  BY <1>6 DEF Flags, networkd_write
<1>7. CASE handle_lease_event
  BY <1>7 DEF Flags, handle_lease_event
<1>8. CASE send_lease_event
  BY <1>8 DEF Flags, send_lease_event
<1>9. CASE open_socket
  BY <1>9 DEF Flags, open_socket
<1>10. CASE attach_filter
  BY <1>10 DEF Flags, attach_filter, CloseSocket
<1>11. CASE send_event
  BY <1>11 DEF Flags, send_event
<1>12. CASE capture_cancelled
  BY <1>12 DEF Flags, capture_cancelled, CloseSocket
<1>13. CASE recv_frame
  BY <1>13 DEF Flags, recv_frame
<1>14. CASE recv_dhcp
  BY <1>14 DEF Flags, recv_dhcp
<1>15. CASE dhcp_closed
  BY <1>15 DEF Flags, dhcp_closed
<1>16. CASE recv_lease
  BY <1>16 DEF Flags, recv_lease
<1>17. CASE cleanup
  BY <1>17 DEF Flags, cleanup
<1>18. CASE readable_error
  BY <1>18 DEF Flags, readable_error, CloseSocket
<1>19. CASE stop
  BY <1>19 DEF Flags, stop
<1>20. CASE restart
  BY <1>20 DEF Flags, restart
<1>21. CASE vars' = vars
  BY <1>21 DEF Flags, vars
<1> QED BY <1>2, <1>3, <1>4, <1>5, <1>6, <1>7, <1>8, <1>9, <1>10, <1>11, <1>12, <1>13, <1>14, <1>15, <1>16, <1>17, <1>18, <1>19, <1>20, <1>21 DEF Step

\* Every step keeps the rest.
LEMMA ShapesStep == Typed /\ Step => Shapes'
<1> SUFFICES ASSUME Typed, Step PROVE Shapes'
  OBVIOUS
<1> USE DEF host, capture, channels, watcher, daemon, book
<1>0. Shapes
  BY DEF Typed
<1>1. {SockCap, DhcpCap, LeaseCap} \subseteq Nat \ {0} /\ {MaxReplies, MaxFaults} \subseteq Nat
      /\ None \notin Address /\ None \notin Prefix /\ None \notin DhcpV6Event /\ None \notin AnyList
      /\ \A a \in Address : a \in Nat
  BY CaptureConstants DEF Address
<1>2. CASE AnyExchange
  <2>1. PICK p \in Prefix, ps \in Delegation, content \in Contents,
             withdrawn \in {<<>>} \cup {<<q>> : q \in Prefix} :
               /\ Exchange(p, withdrawn, content)
               /\ Deliver(Grant(address, ps, content))
               /\ Grant(address, ps, content) \in Frames(Contents)
    BY <1>2, ExchangeFrame
  <2>2. sock' \in Seq(Frames(Contents)) /\ Len(sock') <= SockCap
    BY <1>0, <2>1, Delivered DEF Shapes
  <2>3. /\ UNCHANGED <<address, file, pc, our_ll_addr, held, chan, lease_chan, found, pending_ia_pd, main,
                       pending_map_rules, cache>>
        /\ granted' = p /\ replies < MaxReplies /\ replies' = replies + 1
    BY <2>1 DEF Exchange
  <2>4. faults' = faults \/ (faults < MaxFaults /\ faults' = faults + 1)
    BY <2>1 DEF Exchange, Fault
  <2>5. replies' \in 0 .. MaxReplies /\ faults' \in 0 .. MaxFaults /\ faults' >= faults /\ faults \in Nat
    BY <1>0, <1>1, <2>3, <2>4 DEF Shapes
  <2>6. address' # None => address' <= faults' + 1
    <3>1. address' = address /\ (address # None => address \in Nat /\ address <= faults + 1)
      BY <1>0, <1>1, <2>3 DEF Shapes
    <3>2. faults' \in Nat
      BY <1>1, <2>4, <2>5
    <3> QED BY <2>5, <3>1, <3>2, SMTT(30)
  <2> QED BY <1>0, <2>2, <2>3, <2>5, <2>6 DEF Shapes
<1>3. CASE AnyStray
  <2>1. PICK p \in Prefix, ps \in Delegation, content \in Uncut, dst \in {Other, Multicast, address} :
               /\ Stray(dst, p, content)
               /\ Deliver(Grant(dst, ps, content))
               /\ Grant(dst, ps, content) \in Frames(Contents)
    BY <1>3, StrayFrame
  <2>2. sock' \in Seq(Frames(Contents)) /\ Len(sock') <= SockCap
    BY <1>0, <2>1, Delivered DEF Shapes
  <2> QED BY <1>0, <1>1, <2>1, <2>2 DEF Shapes, Stray, Fault
<1>4. CASE AnyNoise
  <2>1. PICK m \in Harmless, f \in Frames(Contents) : Noise(m) /\ Deliver(f)
    BY <1>4, NoiseFrame
  <2>2. sock' \in Seq(Frames(Contents)) /\ Len(sock') <= SockCap
    BY <1>0, <2>1, Delivered DEF Shapes
  <2> QED BY <1>0, <1>1, <2>1, <2>2 DEF Shapes, Noise, Fault
<1>5. CASE SetAddress
  <2>1. faults \in Nat /\ MaxFaults \in Nat /\ faults <= MaxFaults
    BY <1>0, <1>1 DEF Shapes
  <2>2. CASE address = None
    <3>1. address' = 1 /\ faults' = faults
      BY <1>5, <2>2 DEF SetAddress
    <3>2. address' \in Address /\ address' <= faults' + 1 /\ faults' \in 0 .. MaxFaults
      BY <2>1, <3>1 DEF Address
    <3> QED BY <1>0, <1>5, <3>2 DEF Shapes, SetAddress
  <2>3. CASE address # None
    <3>1. address' = address + 1 /\ faults < MaxFaults /\ faults' = faults + 1
      BY <1>5, <2>3 DEF SetAddress, Fault
    <3>2. address \in Address /\ address \in Nat /\ address >= 1 /\ address <= faults + 1
      BY <1>0, <2>3 DEF Shapes, Address
    <3>3. address' \in Address /\ address' <= faults' + 1 /\ faults' \in 0 .. MaxFaults
      BY <2>1, <3>1, <3>2 DEF Address
    <3> QED BY <1>0, <1>5, <3>3 DEF Shapes, SetAddress
  <2> QED BY <2>2, <2>3
<1>6. CASE networkd_write
  BY <1>0, <1>1, <1>6 DEF Shapes, networkd_write
<1>7. CASE handle_lease_event
  BY <1>0, <1>1, <1>7 DEF Shapes, handle_lease_event
<1>8. CASE send_lease_event
  <2>1. found \in Prefix /\ lease_chan \in Seq(Prefix) /\ Len(lease_chan) <= LeaseCap
    BY <1>0, <1>8 DEF Shapes, send_lease_event
  <2>2. lease_chan' \in Seq(Prefix) /\ Len(lease_chan') <= LeaseCap
    <3>1. CASE main = "gone"
      BY <1>8, <2>1, <3>1 DEF send_lease_event
    <3>2. CASE main # "gone"
      <4>1. lease_chan' = Append(lease_chan, found) /\ Len(lease_chan) < LeaseCap
        BY <1>8, <3>2 DEF send_lease_event
      <4>2. Len(lease_chan') = Len(lease_chan) + 1 /\ lease_chan' \in Seq(Prefix)
        BY <2>1, <4>1
      <4> QED BY <1>1, <2>1, <4>1, <4>2
    <3> QED BY <3>1, <3>2
  <2> QED BY <1>0, <1>8, <2>2 DEF Shapes, send_lease_event
<1>9. CASE open_socket
  BY <1>0, <1>1, <1>9 DEF Shapes, open_socket
<1>10. CASE attach_filter
  <2>1. pc = "socket" /\ held = None /\ our_ll_addr = None
    BY <1>0, <1>10 DEF Shapes, attach_filter
  <2>2. pc' \in {"loop", "ended"} /\ our_ll_addr' \in Address \cup {None}
    BY <1>0, <1>10 DEF Shapes, attach_filter, get_link_local_addr
  <2>3. sock' \in Seq(Frames(Contents)) /\ Len(sock') <= SockCap
    <3>1. sock' = sock \/ sock' = <<>>
      BY <1>10 DEF attach_filter, CloseSocket
    <3>2. CASE sock' = sock
      BY <1>0, <3>2 DEF Shapes
    <3>3. CASE sock' = <<>>
      BY <1>1, <3>3
    <3> QED BY <3>1, <3>2, <3>3
  <2> QED BY <1>0, <1>10, <2>1, <2>2, <2>3 DEF Shapes, attach_filter
<1>11. CASE send_event
  <2>1. held \in DhcpV6Event /\ chan \in Seq(DhcpV6Event) /\ Len(chan) <= DhcpCap
    BY <1>0, <1>11 DEF Shapes, send_event
  <2>2. chan' \in Seq(DhcpV6Event) /\ Len(chan') <= DhcpCap
    <3>1. CASE main = "gone"
      BY <1>11, <2>1, <3>1 DEF send_event
    <3>2. CASE main # "gone"
      <4>1. chan' = Append(chan, held) /\ Len(chan) < DhcpCap
        BY <1>11, <3>2 DEF send_event
      <4>2. Len(chan') = Len(chan) + 1 /\ chan' \in Seq(DhcpV6Event)
        BY <2>1, <4>1
      <4> QED BY <1>1, <2>1, <4>1, <4>2
    <3> QED BY <3>1, <3>2
  <2> QED BY <1>0, <1>11, <2>2 DEF Shapes, send_event
<1>12. CASE capture_cancelled
  BY <1>0, <1>1, <1>12 DEF Shapes, capture_cancelled, CloseSocket
<1>13. CASE recv_frame
  <2>1. sock' \in Seq(Frames(Contents)) /\ Len(sock') <= SockCap /\ Head(sock) \in Frames(Contents)
    BY <1>0, <1>1, <1>13 DEF Shapes, recv_frame
  <2>2. held' \in DhcpV6Event \cup {None}
    BY <1>0, <1>13, <2>1, FrameEvents DEF recv_frame
  <2> QED BY <1>0, <1>1, <1>13, <2>1, <2>2 DEF Shapes, recv_frame, get_link_local_addr
<1>14. CASE recv_dhcp
  <2>1. chan' \in Seq(DhcpV6Event) /\ Len(chan') <= DhcpCap /\ Head(chan) \in DhcpV6Event
    BY <1>0, <1>1, <1>14 DEF Shapes, recv_dhcp
  <2>2. /\ Head(chan).ia_pd \in Prefix
        /\ Head(chan).rules # <<>> => Head(chan).rules[1] \in AnyList
    BY <1>0, <2>1 DEF DhcpV6Event
  <2>3. pending_ia_pd' \in Prefix
    BY <1>14, <2>2 DEF recv_dhcp, handle_ia_pd, handle_both
  <2>4. {pending_map_rules', cache'} \subseteq AnyList \cup {None}
    BY <1>0, <1>14, <2>2 DEF Shapes, recv_dhcp, handle_ia_pd, handle_both, save_rules_cache
  <2>5. faults' \in 0 .. MaxFaults /\ faults' >= faults /\ faults \in Nat
    <3>1. faults' = faults \/ (faults < MaxFaults /\ faults' = faults + 1)
      BY <1>14 DEF recv_dhcp, Fault
    <3>2. faults \in 0 .. MaxFaults
      BY <1>0 DEF Shapes
    <3> QED BY <1>1, <3>1, <3>2
  <2>6. UNCHANGED <<address, file, granted, sock, pc, our_ll_addr, held, lease_chan, found, main, replies>>
    BY <1>14 DEF recv_dhcp
  <2>7. address' # None => address' <= faults' + 1
    BY <1>0, <1>1, <2>5, <2>6 DEF Shapes
  <2> QED BY <1>0, <2>1, <2>3, <2>4, <2>5, <2>6, <2>7 DEF Shapes
<1>15. CASE dhcp_closed
  BY <1>0, <1>1, <1>15 DEF Shapes, dhcp_closed
<1>16. CASE recv_lease
  BY <1>0, <1>1, <1>16 DEF Shapes, recv_lease, handle_ia_pd
<1>17. CASE cleanup
  BY <1>0, <1>1, <1>17 DEF Shapes, cleanup
<1>18. CASE readable_error
  BY <1>0, <1>1, <1>18 DEF Shapes, readable_error, CloseSocket, Fault
<1>19. CASE stop
  BY <1>0, <1>1, <1>19 DEF Shapes, stop
<1>20. CASE restart
  <2>1. lease_chan' \in Seq(Prefix) /\ Len(lease_chan') <= LeaseCap
    <3>1. CASE file = None
      BY <1>1, <1>20, <3>1 DEF restart
    <3>2. CASE file # None
      <4>1. lease_chan' = <<file>> /\ file \in Prefix
        BY <1>0, <1>20, <3>2 DEF Shapes, restart
      <4> QED BY <1>1, <4>1
    <3> QED BY <3>1, <3>2
  <2>2. sock' \in Seq(Frames(Contents)) /\ Len(sock') <= SockCap /\ chan' \in Seq(DhcpV6Event) /\ Len(chan') <= DhcpCap
    BY <1>1, <1>20 DEF restart
  <2> QED BY <1>0, <1>1, <1>20, <2>1, <2>2 DEF Shapes, restart, Fault, load_rules_cache
<1>21. CASE vars' = vars
  BY <1>0, <1>21 DEF Shapes, vars
<1> QED BY <1>2, <1>3, <1>4, <1>5, <1>6, <1>7, <1>8, <1>9, <1>10, <1>11, <1>12, <1>13,
           <1>14, <1>15, <1>16, <1>17, <1>18, <1>19, <1>20, <1>21 DEF Step

\* Every step keeps the types.
LEMMA TypedStep == Typed /\ [Next]_vars => Typed'
BY Steps, FlagsStep, ShapesStep DEF Typed

-----------------------------------------------------------------------------
(* Whole lists *)

\* In the beginning there are no lists.
LEMMA UnshortenedInit == Init => Unshortened
<1> SUFFICES ASSUME Init PROVE Unshortened
  OBVIOUS
<1>1. <<>> \in Seq(Frames(Uncut)) /\ DOMAIN <<>> = {}
  OBVIOUS
<1> QED BY <1>1 DEF Init, Unshortened

\* An exchange that overruns says so; the other frames, and the frames in the
\* socket, hold whole lists, and nobody shortens one.
LEMMA UnshortenedStep == Typed /\ Unshortened /\ Step => Unshortened'
<1> SUFFICES ASSUME Typed, Unshortened, Step, ~overran' PROVE Unshortened'
  BY DEF Unshortened
<1> USE DEF host, capture, channels, watcher, daemon, book
<1>0. Uncut \in SUBSET Contents /\ Len(sock) <= SockCap /\ sock \in Seq(Frames(Contents))
      /\ chan \in Seq(DhcpV6Event)
  BY DEF Typed, Shapes, Uncut
<1>1. ~overran
  <2>1. overran \in BOOLEAN
    BY DEF Typed, Flags
  <2> QED BY <2>1 DEF Step, AnyExchange, Exchange, AnyStray, Stray, AnyNoise, Noise, SetAddress,
       networkd_write, handle_lease_event, send_lease_event, open_socket, attach_filter, send_event,
       capture_cancelled, recv_frame, recv_dhcp, dhcp_closed, recv_lease, cleanup,
       readable_error, stop, restart, vars
<1> DEFINE LastUnchanged == UNCHANGED <<held, chan, pending_map_rules, cache>>
<1>22. ASSUME sock' \in Seq(Frames(Uncut)), LastUnchanged PROVE Unshortened'
  BY <1>1, <1>22 DEF Unshortened
<1>23. sock \in Seq(Frames(Uncut)) /\ <<>> \in Seq(Frames(Uncut))
  BY <1>1 DEF Unshortened
<1>2. CASE AnyExchange
  <2>1. PICK p \in Prefix, ps \in Delegation, content \in Contents,
             withdrawn \in {<<>>} \cup {<<q>> : q \in Prefix} :
               /\ Exchange(p, withdrawn, content)
               /\ Deliver(Grant(address, ps, content))
               /\ content \in Uncut => Grant(address, ps, content) \in Frames(Uncut)
    BY <1>2, ExchangeFrame
  <2>2. content \in Uncut
    BY <2>1 DEF Exchange, Uncut
  <2>3. sock' \in Seq(Frames(Uncut))
    BY <1>0, <1>23, <2>1, <2>2, Delivered
  <2>4. LastUnchanged
    BY <2>1 DEF Exchange
  <2> QED BY <1>22, <2>3, <2>4
<1>3. CASE AnyStray
  <2>1. PICK p \in Prefix, ps \in Delegation, content \in Uncut, dst \in {Other, Multicast, address} :
               /\ Stray(dst, p, content)
               /\ Deliver(Grant(dst, ps, content))
               /\ Grant(dst, ps, content) \in Frames(Uncut)
    BY <1>3, StrayFrame
  <2>2. sock' \in Seq(Frames(Uncut))
    BY <1>0, <1>23, <2>1, Delivered
  <2>3. LastUnchanged
    BY <2>1 DEF Stray
  <2> QED BY <1>22, <2>2, <2>3
<1>4. CASE AnyNoise
  <2>1. PICK m \in Harmless, f \in Frames(Uncut) : Noise(m) /\ Deliver(f)
    BY <1>4, NoiseFrame
  <2>2. sock' \in Seq(Frames(Uncut))
    BY <1>0, <1>23, <2>1, Delivered
  <2>3. LastUnchanged
    BY <2>1 DEF Noise
  <2> QED BY <1>22, <2>2, <2>3
<1>5. CASE \/ SetAddress \/ networkd_write \/ handle_lease_event \/ send_lease_event \/ open_socket
           \/ attach_filter \/ capture_cancelled \/ dhcp_closed \/ recv_lease \/ cleanup
           \/ readable_error \/ stop \/ vars' = vars
  <2>1. sock' = sock \/ sock' = <<>>
    BY <1>5 DEF SetAddress, networkd_write, handle_lease_event, send_lease_event, open_socket, attach_filter,
       capture_cancelled, dhcp_closed, recv_lease, cleanup, readable_error, stop, vars, CloseSocket
  <2>2. LastUnchanged
    BY <1>5 DEF SetAddress, networkd_write, handle_lease_event, send_lease_event, open_socket, attach_filter,
       capture_cancelled, dhcp_closed, recv_lease, cleanup, readable_error, stop, vars, handle_ia_pd
  <2> QED BY <1>22, <1>23, <2>1, <2>2
<1>6. CASE send_event
  <2>1. held # None /\ held \in DhcpV6Event /\ RulesWhole(held)
    BY <1>1, <1>6 DEF Typed, Shapes, Unshortened, send_event
  <2>2. \A i \in DOMAIN chan' : RulesWhole(chan'[i])
    <3>1. CASE chan' = chan
      BY <1>1, <3>1 DEF Unshortened
    <3>2. CASE chan' = Append(chan, held)
      <4>1. \A i \in DOMAIN chan' : chan'[i] = held \/ (i \in DOMAIN chan /\ chan'[i] = chan[i])
        BY <1>0, <3>2
      <4> QED BY <1>1, <2>1, <4>1 DEF Unshortened
    <3> QED BY <1>6, <3>1, <3>2 DEF send_event
  <2>3. held' = None /\ sock' = sock /\ pending_map_rules' = pending_map_rules /\ cache' = cache
    BY <1>6 DEF send_event
  <2> QED BY <1>1, <2>2, <2>3 DEF Unshortened
<1>7. CASE recv_frame
  <2>1. Head(sock) \in Frames(Uncut) /\ sock' \in Seq(Frames(Uncut))
    BY <1>7, <1>23 DEF recv_frame
  <2>2. held' # None => RulesWhole(held')
    BY <1>0, <1>7, <2>1, FrameEvents DEF recv_frame, RulesWhole
  <2>3. chan' = chan /\ pending_map_rules' = pending_map_rules /\ cache' = cache
    BY <1>7 DEF recv_frame
  <2> QED BY <1>1, <2>1, <2>2, <2>3 DEF Unshortened
<1>8. CASE recv_dhcp
  <2>1. chan # <<>> /\ chan' = Tail(chan) /\ sock' = sock /\ held' = held
    BY <1>8 DEF recv_dhcp
  <2>2. 1 \in DOMAIN chan /\ Head(chan) = chan[1]
        /\ \A i \in DOMAIN chan' : i + 1 \in DOMAIN chan /\ chan'[i] = chan[i + 1]
    BY <1>0, <2>1
  <2>3. RulesWhole(Head(chan)) /\ \A i \in DOMAIN chan' : RulesWhole(chan'[i])
    BY <1>1, <2>2 DEF Unshortened
  <2>4. Head(chan).rules # <<>> => Head(chan).rules[1] \in Lists
    BY <2>3 DEF RulesWhole
  <2>5. {pending_map_rules', cache'} \subseteq Lists \cup {None}
    BY <1>1, <1>8, <2>4 DEF Unshortened, recv_dhcp, handle_ia_pd, handle_both, save_rules_cache
  <2> QED BY <1>1, <2>1, <2>3, <2>5 DEF Unshortened
<1>9. CASE restart
  <2>1. sock' = <<>> /\ held' = None /\ chan' = <<>> /\ cache' = cache /\ pending_map_rules' = cache
    BY <1>9 DEF restart, load_rules_cache
  <2>2. DOMAIN chan' = {}
    BY <2>1
  <2> QED BY <1>1, <1>23, <2>1, <2>2 DEF Unshortened
<1> QED BY <1>2, <1>3, <1>4, <1>5, <1>6, <1>7, <1>8, <1>9 DEF Step

-----------------------------------------------------------------------------
(* The prefix *)

\* The last of a queue stays the last when the head is taken off, and one put
\* behind is the last.
LEMMA LastOfQueue ==
    ASSUME NEW S, NEW q \in Seq(S), NEW v \in S
    PROVE  /\ Append(q, v) # <<>> /\ Append(q, v)[Len(Append(q, v))] = v
           /\ q # <<>> /\ Tail(q) # <<>> => Tail(q)[Len(Tail(q))] = q[Len(q)]
<1>1. Append(q, v) # <<>> /\ Append(q, v)[Len(Append(q, v))] = v
  OBVIOUS
<1>2. ASSUME q # <<>>, Tail(q) # <<>> PROVE Tail(q)[Len(Tail(q))] = q[Len(q)]
  <2> DEFINE n == Len(Tail(q))
  <2>1. n = Len(q) - 1 /\ n \in Nat /\ Tail(q) \in Seq(S)
    BY <1>2
  <2>2. n >= 1
    BY <1>2, <2>1
  <2>3. \A i \in 1 .. n : Tail(q)[i] = q[i + 1]
    BY <1>2, <2>1
  <2>4. n \in 1 .. n /\ n + 1 = Len(q)
    <3> HIDE DEF n
    <3>1. Len(q) \in Nat
      OBVIOUS
    <3> QED BY <2>1, <2>2, <3>1
  <2> QED BY <2>3, <2>4
<1> QED BY <1>1, <1>2

\* The watcher tells the newest contents of the file last.
LEMMA LeaseCurrentStep == Typed /\ LeaseCurrent /\ Step => LeaseCurrent'
<1> SUFFICES ASSUME Typed, LeaseCurrent, Step PROVE LeaseCurrent'
  OBVIOUS
<1> USE DEF host, capture, channels, watcher, daemon, book
<1>0. lease_chan \in Seq(Prefix) /\ None \notin Prefix
      /\ found \in Prefix \cup {None} /\ file \in Prefix \cup {None} /\ changed \in BOOLEAN
  BY CaptureConstants DEF Typed, Shapes, Flags
<1>1. CASE UNCHANGED <<changed, file, found, lease_chan>> /\ (main' # "gone" => main # "gone")
  BY <1>1 DEF LeaseCurrent
<1>2. CASE networkd_write
  <2> SUFFICES ASSUME ~changed' PROVE LeaseCurrent'
    BY DEF LeaseCurrent
  <2>1. file' = file /\ ~changed /\ UNCHANGED <<found, lease_chan, main>>
    BY <1>2 DEF networkd_write
  <2> QED BY <2>1 DEF LeaseCurrent
<1>3. CASE handle_lease_event
  BY <1>3 DEF handle_lease_event, LeaseCurrent
<1>4. CASE send_lease_event
  <2> SUFFICES ASSUME main' # "gone", ~changed', file' # None PROVE lease_chan'[Len(lease_chan')] = file'
    BY <1>4 DEF send_lease_event, LeaseCurrent
  <2>1. found = file /\ found \in Prefix /\ lease_chan' = Append(lease_chan, found) /\ file' = file
    BY <1>0, <1>4 DEF send_lease_event, LeaseCurrent
  <2> QED BY <1>0, <2>1, LastOfQueue
<1>5. CASE recv_lease
  <2>1. lease_chan # <<>> /\ lease_chan' = Tail(lease_chan) /\ UNCHANGED <<changed, file, found, main>>
    BY <1>5 DEF recv_lease
  <2>2. lease_chan' # <<>> => lease_chan'[Len(lease_chan')] = lease_chan[Len(lease_chan)]
    <3>1. lease_chan[1] \in Prefix
      BY <1>0, <2>1
    <3> QED BY <1>0, <2>1, <3>1, LastOfQueue
  <2> QED BY <2>1, <2>2 DEF LeaseCurrent
<1>6. CASE restart
  <2> SUFFICES ASSUME file' # None PROVE lease_chan'[Len(lease_chan')] = file' /\ found' = None
    BY DEF LeaseCurrent
  <2>1. lease_chan' = <<file>> /\ file' = file /\ found' = None
    BY <1>6 DEF restart
  <2> QED BY <2>1
<1>7. CASE AnyExchange \/ AnyStray \/ AnyNoise
  <2>1. UNCHANGED <<changed, file, found, lease_chan, main>>
    BY <1>7 DEF AnyExchange, Exchange, AnyStray, Stray, AnyNoise, Noise
  <2> QED BY <1>1, <2>1
<1>8. CASE \/ SetAddress \/ open_socket \/ attach_filter \/ send_event \/ capture_cancelled \/ recv_frame
           \/ recv_dhcp \/ dhcp_closed \/ readable_error \/ vars' = vars
  <2>1. UNCHANGED <<changed, file, found, lease_chan, main>>
    BY <1>8 DEF SetAddress, open_socket, attach_filter, send_event, capture_cancelled, recv_frame,
       recv_dhcp, dhcp_closed, readable_error, vars
  <2> QED BY <1>1, <2>1
<1>9. CASE cleanup \/ stop
  BY <1>1, <1>9 DEF cleanup, stop
<1> QED BY <1>2, <1>3, <1>4, <1>5, <1>6, <1>7, <1>8, <1>9 DEF Step

\* The address the capture goes by changes with the host's only.
LEMMA LlKept ==
    ASSUME Typed,
           \/ our_ll_addr' = our_ll_addr /\ address' = address
           \/ attach_filter
           \/ recv_frame
    PROVE  Ll' = Ll
<1>1. pc = "socket" => our_ll_addr = None
  BY DEF Typed, Shapes
<1> QED BY <1>1 DEF Ll, attach_filter, recv_frame, get_link_local_addr, host

\* A Reply that the host accepts and the capture does not miss is news; one that it
\* misses is not even an event.
LEMMA ExchangeNews ==
    ASSUME Typed, AnyExchange
    PROVE  \E p \in Prefix, ps \in Delegation, content \in Contents,
              withdrawn \in {<<>>} \cup {<<q>> : q \in Prefix}, missed \in BOOLEAN :
              /\ Exchange(p, withdrawn, content)
              /\ withdrawn = <<>> => ps[1] = p
              /\ prefix_gap' = IF missed THEN prefix_gap \/ Underway ELSE withdrawn # <<>>
              /\ rules_gap' = IF Whole(content) THEN missed ELSE rules_gap \/ Overrunning(content)
              /\ Ll' = Ll
              /\ \/ missed /\ sock' = sock
                 \/ \E f \in Frames(Contents) :
                       /\ sock' = Append(sock, f)
                       /\ process_frame(f, Ll) = IF missed THEN None ELSE [rules |-> RulesOf(content), ia_pd |-> ps[1]]
<1>1. PICK p \in Prefix, ps \in Delegation, content \in Contents,
           withdrawn \in {<<>>} \cup {<<q>> : q \in Prefix} :
             /\ Exchange(p, withdrawn, content)
             /\ ps = withdrawn \o <<p>> /\ (withdrawn = <<>> => ps[1] = p)
             /\ Deliver(Grant(address, ps, content))
             /\ Grant(address, ps, content) \in Frames(Contents)
  BY ExchangeFrame
<1> DEFINE f      == Grant(address, ps, content)
           missed == ~Taken(f) \/ our_ll_addr \notin {None, address}
<1>5. process_frame(f, Ll) =
         IF Ll = None \/ address \in {Ll, Multicast}
         THEN [rules |-> RulesOf(content), ia_pd |-> ps[1]] ELSE None
  BY GrantEvent
<1>2. f = Frame(address, Reply(<<IAPD(withdrawn \o <<p>>, "Success")>> \o Options(content)))
  BY <1>1 DEF Grant
<1> HIDE DEF f
<1>3. /\ prefix_gap' = IF missed THEN prefix_gap \/ Underway ELSE withdrawn # <<>>
      /\ rules_gap' = IF Whole(content) THEN missed ELSE rules_gap \/ Overrunning(content)
      /\ our_ll_addr' = our_ll_addr /\ address' = address /\ address # None
  BY <1>1, <1>2 DEF Exchange
<1>4. Ll' = Ll
  BY <1>3, LlKept
<1>6. Ll = None \/ address \in {Ll, Multicast} <=> our_ll_addr \in {None, address}
  <2>1. address # Multicast
    BY <1>3, CaptureConstants DEF Typed, Shapes, Address, Multicast
  <2> QED BY <1>3, <2>1 DEF Ll
<1>7. f \in Frames(Contents) /\ (Taken(f) => sock' = Append(sock, f)) /\ (~Taken(f) => sock' = sock)
  <2>1. sock \in Seq(Frames(Contents)) /\ Len(sock) <= SockCap
    BY DEF Typed, Shapes
  <2> QED BY <1>1, <2>1, Delivered DEF f
<1>8. CASE Taken(f)
  <2>1. process_frame(f, Ll) = IF missed THEN None ELSE [rules |-> RulesOf(content), ia_pd |-> ps[1]]
    BY <1>5, <1>6, <1>8
  <2>2. missed \in BOOLEAN
    OBVIOUS
  <2> HIDE DEF missed
  <2> QED BY <1>1, <1>3, <1>4, <1>7, <1>8, <2>1, <2>2
<1>9. CASE ~Taken(f)
  <2>1. missed = TRUE
    BY <1>9
  <2> HIDE DEF missed
  <2> QED BY <1>1, <1>3, <1>4, <1>7, <1>9, <2>1
<1> QED BY <1>8, <1>9

\* A stray Reply that is heeded makes a gap.
LEMMA StrayNews ==
    ASSUME Typed, AnyStray
    PROVE  \E p \in Prefix, ps \in Delegation, content \in Uncut, dst \in {Other, Multicast, address}, heeded \in BOOLEAN :
              /\ Stray(dst, p, content) /\ (content = <<>> \/ Whole(content))
              /\ prefix_gap' = (prefix_gap \/ heeded)
              /\ rules_gap' = (rules_gap \/ (heeded /\ content # <<>>))
              /\ Ll' = Ll
              /\ \/ sock' = sock
                 \/ \E f \in Frames(Contents) :
                       /\ sock' = Append(sock, f)
                       /\ process_frame(f, Ll) \in {None, [rules |-> RulesOf(content), ia_pd |-> ps[1]]}
                       /\ ~heeded => process_frame(f, Ll) = None
<1>1. PICK p \in Prefix, ps \in Delegation, content \in Uncut, dst \in {Other, Multicast, address} :
         /\ Stray(dst, p, content) /\ dst # None
         /\ content = <<>> \/ Whole(content)
         /\ Deliver(Grant(dst, ps, content))
         /\ Grant(dst, ps, content) \in Frames(Contents)
  BY StrayFrame
<1> DEFINE f      == Grant(dst, ps, content)
           heeded == Opened /\ (dst \in {address, Multicast} \/ address = None)
<1>2. /\ prefix_gap' = (prefix_gap \/ heeded)
      /\ rules_gap' = (rules_gap \/ (heeded /\ content # <<>>))
      /\ our_ll_addr' = our_ll_addr /\ address' = address
  BY <1>1 DEF Stray, host
<1>3. Ll' = Ll
  BY <1>2, LlKept
<1>4. process_frame(f, Ll) = IF Ll = None \/ dst \in {Ll, Multicast} THEN [rules |-> RulesOf(content), ia_pd |-> ps[1]] ELSE None
  BY GrantEvent DEF Uncut
<1> HIDE DEF f
<1>5. f \in Frames(Contents) /\ (Taken(f) => sock' = Append(sock, f) /\ Opened) /\ (~Taken(f) => sock' = sock)
  <2>1. sock \in Seq(Frames(Contents)) /\ Len(sock) <= SockCap
    BY DEF Typed, Shapes
  <2> QED BY <1>1, <2>1, Delivered DEF f
<1>6. Taken(f) /\ ~heeded => process_frame(f, Ll) = None
  <2> SUFFICES ASSUME Taken(f), ~heeded PROVE Ll # None /\ dst \notin {Ll, Multicast}
    BY <1>4
  <2>1. address # None /\ dst = Other
    BY <1>1, <1>5
  <2>2. None \notin Address /\ Other \notin Address /\ Other # Multicast
    BY CaptureConstants DEF Address, Other, Multicast
  <2>3. Ll \in Address
    BY <2>1 DEF Typed, Shapes, Ll
  <2> QED BY <2>1, <2>2, <2>3
<1>7. heeded \in BOOLEAN
  OBVIOUS
<1>8. process_frame(f, Ll) \in {None, [rules |-> RulesOf(content), ia_pd |-> ps[1]]}
  BY <1>4
<1> HIDE DEF heeded
<1> QED BY <1>1, <1>2, <1>3, <1>5, <1>6, <1>7, <1>8

\* What events tell.
LEMMA News ==
    /\ PrefixNews(None) = None /\ RulesNews(None) = None
    /\ \A e \in DhcpV6Event :
          /\ PrefixNews(e) = e.ia_pd /\ e.ia_pd \in Prefix /\ e.ia_pd # None
          /\ e.rules = <<>> => RulesNews(e) = None
          /\ e.rules # <<>> => RulesNews(e) = e.rules[1] /\ e.rules[1] # None
<1>1. None \notin Prefix /\ None \notin AnyList /\ None \notin DhcpV6Event
  BY CaptureConstants
<1>2. ASSUME NEW e \in DhcpV6Event
      PROVE  /\ PrefixNews(e) = e.ia_pd /\ e.ia_pd \in Prefix /\ e.ia_pd # None
             /\ e.rules = <<>> => RulesNews(e) = None
             /\ e.rules # <<>> => RulesNews(e) = e.rules[1] /\ e.rules[1] # None
  <2>1. e # None
    BY <1>1
  <2>2. e.ia_pd \in Prefix /\ e.rules \in {<<>>} \cup {<<l>> : l \in AnyList}
    BY DEF DhcpV6Event
  <2>3. e.rules # <<>> => e.rules[1] \in AnyList
    BY <2>2
  <2> HIDE DEF DhcpV6Event
  <2> QED BY <1>1, <2>1, <2>2, <2>3 DEF PrefixNews, RulesNews
<1>3. PrefixNews(None) = None /\ RulesNews(None) = None
  BY DEF PrefixNews, RulesNews
<1> QED BY <1>2, <1>3

\* An event made of a grant.
LEMMA GrantNews ==
    ASSUME NEW ps \in Delegation, NEW c \in Contents
    PROVE  LET e == [rules |-> RulesOf(c), ia_pd |-> ps[1]]
           IN  /\ PrefixNews(e) = ps[1] /\ ps[1] # None
               /\ Whole(c) => RulesNews(e) = c[1] /\ c[1] # None
               /\ ~Whole(c) /\ ~Overrunning(c) => RulesNews(e) = None
<1> DEFINE e == [rules |-> RulesOf(c), ia_pd |-> ps[1]]
<1>1. e.rules = RulesOf(c) /\ e.ia_pd = ps[1]
  OBVIOUS
<1>2. e \in DhcpV6Event
  <2>1. RulesOf(c) \in {<<>>} \cup {<<l>> : l \in AnyList}
    BY RulesOfType
  <2> QED BY <2>1, DelegationType DEF DhcpV6Event
<1>3. Whole(c) => e.rules = <<c[1]>> /\ e.rules # <<>> /\ e.rules[1] = c[1]
  <2>1. Whole(c) => RulesOf(c) = <<c[1]>>
    BY RulesOfType
  <2> QED BY <1>1, <2>1
<1>4. ~Whole(c) /\ ~Overrunning(c) => e.rules = <<>>
  BY <1>1, RulesOfType
<1> HIDE DEF e
<1>5. /\ PrefixNews(e) = ps[1] /\ ps[1] # None
      /\ Whole(c) => RulesNews(e) = c[1] /\ c[1] # None
      /\ ~Whole(c) /\ ~Overrunning(c) => RulesNews(e) = None
  BY <1>1, <1>2, <1>3, <1>4, News
<1> QED BY <1>5 DEF e

\* Empty queues have no places.
LEMMA EmptyQueues ==
    /\ sock = <<>> => DOMAIN SockPrefixes = {} /\ DOMAIN SockRules = {}
    /\ chan = <<>> => DOMAIN ChanPrefixes = {} /\ DOMAIN ChanRules = {}
    /\ sock' = <<>> => DOMAIN SockPrefixes' = {} /\ DOMAIN SockRules' = {}
    /\ chan' = <<>> => DOMAIN ChanPrefixes' = {} /\ DOMAIN ChanRules' = {}
BY DEF SockPrefixes, SockRules, ChanPrefixes, ChanRules

\* The steps after which a socket is closed.
Closing ==
    /\ sock' = <<>> /\ UNCHANGED <<chan, held>>
    /\ prefix_gap' = (prefix_gap \/ sock # <<>>) /\ rules_gap' = (rules_gap \/ sock # <<>>)
    /\ UNCHANGED <<file, granted, changed, found, lease_chan, main, pending_ia_pd, pending_map_rules, latest>>

\* A closed socket, without a gap, has been empty.
LEMMA ClosedNews ==
    ASSUME Typed, Closing
    PROVE  /\ ~prefix_gap' => sock = <<>> /\ ~prefix_gap
           /\ ~rules_gap' => sock = <<>> /\ ~rules_gap
           /\ ChanPrefixes' = ChanPrefixes /\ ChanRules' = ChanRules
<1>1. prefix_gap \in BOOLEAN /\ rules_gap \in BOOLEAN
  BY DEF Typed, Flags
<1>2. ~prefix_gap' => sock = <<>> /\ ~prefix_gap
  BY <1>1 DEF Closing
<1>3. ~rules_gap' => sock = <<>> /\ ~rules_gap
  BY <1>1 DEF Closing
<1>4. ChanPrefixes' = ChanPrefixes /\ ChanRules' = ChanRules
  BY DEF Closing, ChanPrefixes, ChanRules
<1> QED BY <1>2, <1>3, <1>4

\* The actions that close the socket.
LEMMA Closings ==
    capture_cancelled \/ readable_error \/ (attach_filter /\ pc' = "ended") => Closing
BY DEF capture_cancelled, readable_error, attach_filter, CloseSocket, Closing, host, channels, watcher, daemon

\* The newest news of the prefix stays that of the host.
LEMMA PrefixCurrentStep == Typed /\ LeaseCurrent /\ PrefixCurrent /\ Step => PrefixCurrent'
<1> SUFFICES ASSUME Typed, LeaseCurrent, PrefixCurrent, Step, main' # "gone", ~prefix_gap'
             PROVE  /\ Chain(SockPrefixes', PrefixNews(held'), ChanPrefixes', Newest')
                    /\ Drained(SockPrefixes', PrefixNews(held'), ChanPrefixes') /\ LeaseTold' /\ file' # None =>
                          pending_ia_pd' \in {file', Newest'}
  BY DEF PrefixCurrent
<1> USE DEF host, capture, channels, watcher, daemon, book
<1> DEFINE C  == Chain(SockPrefixes, PrefixNews(held), ChanPrefixes, Newest)
           D  == Drained(SockPrefixes, PrefixNews(held), ChanPrefixes)
           C1 == Chain(SockPrefixes', PrefixNews(held'), ChanPrefixes', Newest')
           D1 == Drained(SockPrefixes', PrefixNews(held'), ChanPrefixes')
           Goal == C1 /\ (D1 /\ LeaseTold' /\ file' # None => pending_ia_pd' \in {file', Newest'})
<1>0. /\ sock \in Seq(Frames(Contents)) /\ chan \in Seq(DhcpV6Event) /\ held \in DhcpV6Event \cup {None}
      /\ lease_chan \in Seq(Prefix) /\ prefix_gap \in BOOLEAN /\ changed \in BOOLEAN
      /\ pc = "sending" <=> held # None
  BY DEF Typed, Shapes, Flags
<1>a. main # "gone" /\ ~prefix_gap =>
        C /\ (D /\ LeaseTold /\ file # None => pending_ia_pd \in {file, Newest})
  BY DEF PrefixCurrent
<1>b. ASSUME main # "gone", ~prefix_gap, C => C1, D1 => D,
             UNCHANGED <<granted, file, changed, found, lease_chan, pending_ia_pd>>
      PROVE  Goal
  <2>1. Newest' = Newest /\ LeaseTold' = LeaseTold
    BY <1>b DEF Newest, LeaseTold
  <2> HIDE DEF C, D, C1, D1
  <2> QED BY <1>a, <1>b, <2>1
<1>c. ASSUME sock' = sock, chan' = chan, held' = held, Ll' = Ll \/ sock = <<>>, Newest' = Newest
      PROVE  C1 = C /\ D1 = D
  <2>1. SockPrefixes' = SockPrefixes /\ ChanPrefixes' = ChanPrefixes
    BY <1>c, Still
  <2> QED BY <1>c, <2>1
<1>2. CASE AnyExchange
  <2>1. PICK p \in Prefix, ps \in Delegation, content \in Contents,
             withdrawn \in {<<>>} \cup {<<q>> : q \in Prefix}, missed \in BOOLEAN :
              /\ Exchange(p, withdrawn, content)
              /\ withdrawn = <<>> => ps[1] = p
              /\ prefix_gap' = IF missed THEN prefix_gap \/ Underway ELSE withdrawn # <<>>
              /\ Ll' = Ll
              /\ \/ missed /\ sock' = sock
                 \/ \E f \in Frames(Contents) :
                       /\ sock' = Append(sock, f)
                       /\ process_frame(f, Ll) = IF missed THEN None ELSE [rules |-> RulesOf(content), ia_pd |-> ps[1]]
    BY <1>2, ExchangeNews
  <2>2. /\ granted' = p /\ granted = None /\ main' = main
        /\ UNCHANGED <<held, chan, file, changed, found, lease_chan, pending_ia_pd>>
    BY <2>1 DEF Exchange
  <2>3. p # None /\ Newest' = p /\ Newest = file /\ LeaseTold' = LeaseTold
    BY <2>2, CaptureConstants DEF Newest, LeaseTold
  <2>4. CASE missed
    <3>1. ~prefix_gap /\ ~Underway
      BY <1>0, <2>1, <2>4
    <3>2. sock = <<>> /\ held = None /\ chan = <<>>
      BY <3>1 DEF Underway
    <3>3. Chain(SockPrefixes, PrefixNews(held), ChanPrefixes, p) /\ PrefixNews(held) = None
      BY <3>2, EmptyQueues, ChainStart, News
    <3>4. C1 /\ (D1 => D)
      <4>1. CASE sock' = sock
        <5>1. SockPrefixes' = SockPrefixes /\ ChanPrefixes' = ChanPrefixes
          BY <2>1, <2>2, <4>1, Still
        <5> QED BY <2>2, <2>3, <3>3, <5>1
      <4>2. CASE \E f \in Frames(Contents) : sock' = Append(sock, f) /\ process_frame(f, Ll) = None
        <5>1. PICK f \in Frames(Contents) : sock' = Append(sock, f) /\ process_frame(f, Ll) = None
          BY <4>2
        <5>2. Longer(SockPrefixes', SockPrefixes, None) /\ ChanPrefixes' = ChanPrefixes
          BY <1>0, <2>1, <2>2, <5>1, Queued, News
        <5> QED BY <2>2, <2>3, <3>3, <5>2, ChainQuiet
      <4> QED BY <2>1, <2>4, <4>1, <4>2
    <3> HIDE DEF C, D, C1, D1
    <3> QED BY <1>a, <2>2, <2>3, <3>1, <3>4 DEF C1, D1
  <2>5. CASE ~missed
    <3>1. withdrawn = <<>>
      BY <2>1, <2>5
    <3>2. PICK f \in Frames(Contents) :
             sock' = Append(sock, f) /\ process_frame(f, Ll) = [rules |-> RulesOf(content), ia_pd |-> ps[1]]
      BY <2>1, <2>5
    <3>3. PrefixNews(process_frame(f, Ll)) = p
      BY <2>1, <3>1, <3>2, GrantNews
    <3>4. Longer(SockPrefixes', SockPrefixes, p)
      BY <1>0, <2>1, <2>2, <3>2, <3>3, Queued
    <3>5. C1 /\ ~D1
      BY <2>3, <3>4, ChainNew
    <3> QED BY <3>5
  <2> QED BY <2>4, <2>5
<1>3. CASE AnyStray
  <2>1. PICK p \in Prefix, content \in Uncut, dst \in {Other, Multicast, address}, heeded \in BOOLEAN :
           /\ Stray(dst, p, content)
           /\ prefix_gap' = (prefix_gap \/ heeded)
           /\ Ll' = Ll
           /\ \/ sock' = sock
              \/ \E f \in Frames(Contents) :
                    sock' = Append(sock, f) /\ (~heeded => process_frame(f, Ll) = None)
    BY <1>3, StrayNews
  <2>2. ~prefix_gap /\ ~heeded
    BY <1>0, <2>1
  <2>3. UNCHANGED <<held, chan, granted, file, changed, found, lease_chan, pending_ia_pd, main>>
    BY <2>1 DEF Stray
  <2>4. Newest' = Newest
    BY <2>3 DEF Newest
  <2>5. (C => C1) /\ (D1 => D)
    <3>1. CASE sock' = sock
      BY <1>c, <2>1, <2>3, <2>4, <3>1
    <3>2. CASE \E f \in Frames(Contents) : sock' = Append(sock, f) /\ process_frame(f, Ll) = None
      <4>1. PICK f \in Frames(Contents) : sock' = Append(sock, f) /\ process_frame(f, Ll) = None
        BY <3>2
      <4>2. Longer(SockPrefixes', SockPrefixes, None) /\ ChanPrefixes' = ChanPrefixes
        BY <1>0, <2>1, <2>3, <4>1, Queued, News
      <4> QED BY <2>3, <2>4, <4>2, ChainQuiet
    <3> QED BY <2>1, <2>2, <3>1, <3>2
  <2> QED BY <1>b, <2>2, <2>3, <2>5
<1>4. CASE AnyNoise
  <2>1. PICK m \in Harmless, f \in Frames(Contents) :
           Noise(m) /\ Deliver(f) /\ process_frame(f, Ll) = None
    BY <1>4, NoiseFrame
  <2>2. UNCHANGED <<held, chan, granted, file, changed, found, lease_chan, pending_ia_pd, main,
                    prefix_gap, our_ll_addr, address>>
    BY <2>1 DEF Noise
  <2>3. Newest' = Newest /\ Ll' = Ll
    BY <2>2, LlKept DEF Newest
  <2>4. sock' = sock \/ sock' = Append(sock, f)
    BY <2>1 DEF Deliver
  <2>5. (C => C1) /\ (D1 => D)
    <3>1. CASE sock' = sock
      BY <1>c, <2>2, <2>3, <3>1
    <3>2. CASE sock' = Append(sock, f)
      <4>1. Longer(SockPrefixes', SockPrefixes, None) /\ ChanPrefixes' = ChanPrefixes
        BY <1>0, <2>1, <2>2, <2>3, <3>2, Queued, News
      <4> QED BY <2>2, <2>3, <4>1, ChainQuiet
    <3> QED BY <2>4, <3>1, <3>2
  <2> QED BY <1>b, <2>2, <2>5
<1>5. CASE SetAddress
  <2>1. ~prefix_gap /\ sock = <<>>
    BY <1>0, <1>5 DEF SetAddress
  <2>2. UNCHANGED <<sock, held, chan, granted, file, changed, found, lease_chan, pending_ia_pd, main>>
    BY <1>5 DEF SetAddress
  <2>3. Newest' = Newest
    BY <2>2 DEF Newest
  <2> QED BY <1>b, <1>c, <2>1, <2>2, <2>3
<1>6. CASE networkd_write
  <2>1. /\ UNCHANGED <<sock, held, chan, found, lease_chan, pending_ia_pd, main, prefix_gap, our_ll_addr, address>>
        /\ granted # None /\ file' = granted /\ granted' = None
    BY <1>6 DEF networkd_write
  <2>2. Newest' = Newest /\ Newest = granted /\ Ll' = Ll
    BY <2>1, LlKept DEF Newest
  <2>3. C1 = C /\ D1 = D
    BY <1>c, <2>1, <2>2
  <2>4. LeaseTold' => file = granted /\ LeaseTold
    BY <1>0, <1>6, <2>1 DEF networkd_write, LeaseTold
  <2> HIDE DEF C, D, C1, D1
  <2>5. C1 /\ (D1 /\ LeaseTold' /\ file' # None => pending_ia_pd' \in {file', Newest'})
    BY <1>a, <2>1, <2>2, <2>3, <2>4
  <2> QED BY <2>5 DEF C1, D1
<1>7. CASE handle_lease_event
  <2>1. UNCHANGED <<sock, held, chan, granted, file, lease_chan, pending_ia_pd, main, prefix_gap, our_ll_addr, address>>
    BY <1>7 DEF handle_lease_event
  <2>2. Newest' = Newest /\ Ll' = Ll
    BY <2>1, LlKept DEF Newest
  <2>3. C1 = C
    BY <1>c, <2>1, <2>2
  <2>4. file' # None => ~LeaseTold'
    BY <1>7 DEF handle_lease_event, LeaseTold
  <2> QED BY <1>a, <2>1, <2>3, <2>4
<1>8. CASE send_lease_event
  <2>1. UNCHANGED <<sock, held, chan, granted, file, changed, pending_ia_pd, main, prefix_gap, our_ll_addr, address>>
    BY <1>8 DEF send_lease_event
  <2>2. Newest' = Newest /\ Ll' = Ll
    BY <2>1, LlKept DEF Newest
  <2>3. C1 = C
    BY <1>c, <2>1, <2>2
  <2>4. ~LeaseTold'
    <3>1. found \in Prefix /\ lease_chan' = Append(lease_chan, found)
      BY <1>8, <2>1 DEF send_lease_event, Typed, Shapes
    <3>2. lease_chan' # <<>>
      BY <1>0, <3>1, LastOfQueue
    <3> QED BY <3>2 DEF LeaseTold
  <2> QED BY <1>a, <2>1, <2>3, <2>4
<1>9. CASE open_socket \/ dhcp_closed \/ cleanup \/ stop \/ vars' = vars
  <2>1. /\ UNCHANGED <<sock, held, chan, granted, file, changed, found, lease_chan, pending_ia_pd,
                       prefix_gap, our_ll_addr, address>>
        /\ main # "gone"
    BY <1>9 DEF open_socket, dhcp_closed, cleanup, stop, vars
  <2>2. Newest' = Newest /\ Ll' = Ll
    BY <2>1, LlKept DEF Newest
  <2> QED BY <1>b, <1>c, <2>1, <2>2
<1>10. CASE attach_filter /\ pc' = "loop"
  <2>1. UNCHANGED <<sock, held, chan, granted, file, changed, found, lease_chan, pending_ia_pd, main, prefix_gap>>
    BY <1>10 DEF attach_filter
  <2>2. Newest' = Newest /\ Ll' = Ll
    BY <1>10, <2>1, LlKept DEF Newest
  <2> QED BY <1>b, <1>c, <2>1, <2>2
<1>11. CASE Closing
  <2>1. /\ UNCHANGED <<held, chan, granted, file, changed, found, lease_chan, pending_ia_pd, main>>
        /\ sock' = <<>>
    BY <1>11 DEF Closing
  <2>2. sock = <<>> /\ ~prefix_gap /\ ChanPrefixes' = ChanPrefixes
    BY <1>11, ClosedNews
  <2>3. DOMAIN SockPrefixes = {} /\ DOMAIN SockPrefixes' = {}
    BY <2>1, <2>2, EmptyQueues
  <2>4. Newest' = Newest
    BY <2>1 DEF Newest
  <2>5. (C => C1) /\ (D1 => D)
    BY <2>1, <2>2, <2>3, <2>4, ChainClose
  <2> QED BY <1>b, <2>1, <2>2, <2>5
<1>12. CASE send_event
  <2>1. /\ UNCHANGED <<sock, granted, file, changed, found, lease_chan, pending_ia_pd, main, prefix_gap, our_ll_addr, address>>
        /\ chan' = Append(chan, held) /\ held' = None /\ held \in DhcpV6Event
    BY <1>0, <1>12 DEF send_event
  <2>2. Newest' = Newest /\ Ll' = Ll
    BY <2>1, LlKept DEF Newest
  <2>3. Longer(ChanPrefixes', ChanPrefixes, PrefixNews(held)) /\ SockPrefixes' = SockPrefixes
    BY <1>0, <2>1, <2>2, Sent
  <2>4. C
    BY <1>a, <2>1
  <2>5. C1 /\ (D1 => D)
    <3>1. PrefixNews(held') = None
      BY <2>1, News
    <3>2. /\ Chain(SockPrefixes, None, ChanPrefixes', Newest)
          /\ Drained(SockPrefixes, None, ChanPrefixes') => D
      BY <2>3, <2>4, ChainSend
    <3> QED BY <2>2, <2>3, <3>1, <3>2
  <2> QED BY <1>b, <2>1, <2>5
<1>13. CASE recv_frame
  <2>1. /\ UNCHANGED <<chan, granted, file, changed, found, lease_chan, pending_ia_pd, main, prefix_gap>>
        /\ sock # <<>> /\ sock' = Tail(sock) /\ held = None
        /\ held' = process_frame(Head(sock), Ll)
    BY <1>0, <1>13 DEF recv_frame, Ll, get_link_local_addr
  <2>2. Newest' = Newest /\ Ll' = Ll
    BY <1>13, <2>1, LlKept DEF Newest
  <2>3. /\ Shorter(SockPrefixes', SockPrefixes) /\ SockPrefixes[1] = PrefixNews(held')
        /\ ChanPrefixes' = ChanPrefixes
    BY <1>0, <2>1, <2>2, Received
  <2>4. C /\ PrefixNews(held) = None
    BY <1>a, <2>1, News
  <2>5. C1 /\ (D1 => D)
    BY <2>1, <2>2, <2>3, <2>4, ChainReceive
  <2> QED BY <1>b, <2>1, <2>5
<1>14. CASE recv_dhcp
  <2>1. /\ UNCHANGED <<sock, held, granted, file, changed, found, lease_chan, main, prefix_gap, our_ll_addr, address>>
        /\ chan # <<>> /\ chan' = Tail(chan) /\ pending_ia_pd' = Head(chan).ia_pd
    BY <1>14 DEF recv_dhcp, handle_ia_pd, handle_both
  <2>2. Newest' = Newest /\ Ll' = Ll
    BY <2>1, LlKept DEF Newest
  <2>3. /\ Shorter(ChanPrefixes', ChanPrefixes) /\ ChanPrefixes[1] = PrefixNews(Head(chan))
        /\ Head(chan) \in DhcpV6Event /\ SockPrefixes' = SockPrefixes
    BY <1>0, <2>1, <2>2, Handled
  <2>4. ChanPrefixes[1] = pending_ia_pd' /\ ChanPrefixes[1] # None
    BY <2>1, <2>3, News
  <2>5. C
    BY <1>a, <2>1
  <2>6. C1 /\ (D1 => pending_ia_pd' = Newest')
    <3>1. /\ Chain(SockPrefixes, PrefixNews(held), ChanPrefixes', Newest)
          /\ Drained(SockPrefixes, PrefixNews(held), ChanPrefixes') =>
                IF ChanPrefixes[1] # None THEN ChanPrefixes[1] = Newest ELSE D
      BY <2>3, <2>5, ChainHandle
    <3> QED BY <2>1, <2>2, <2>3, <2>4, <3>1
  <2> QED BY <2>6
<1>15. CASE recv_lease
  <2>1. /\ UNCHANGED <<sock, held, chan, granted, file, changed, found, main, prefix_gap, our_ll_addr, address>>
        /\ lease_chan # <<>> /\ lease_chan' = Tail(lease_chan) /\ pending_ia_pd' = Head(lease_chan)
    BY <1>15 DEF recv_lease, handle_ia_pd
  <2>2. Newest' = Newest /\ Ll' = Ll
    BY <2>1, LlKept DEF Newest
  <2>3. C1 = C
    BY <1>c, <2>1, <2>2
  <2>4. ASSUME LeaseTold', file' # None PROVE pending_ia_pd' = file'
    <3>1. ~changed /\ found = None /\ lease_chan[Len(lease_chan)] = file
      BY <2>1, <2>4 DEF LeaseTold, LeaseCurrent
    <3>2. Len(lease_chan) = 1 /\ Head(lease_chan) = lease_chan[1]
      <4>1. Tail(lease_chan) = <<>>
        BY <2>1, <2>4 DEF LeaseTold
      <4>2. Len(Tail(lease_chan)) = Len(lease_chan) - 1 /\ Len(lease_chan) \in Nat
        BY <1>0, <2>1
      <4>3. Len(Tail(lease_chan)) = 0
        <5>1. Len(<<>>) = 0
          OBVIOUS
        <5> QED BY <4>1, <5>1, Zenon
      <4> QED BY <1>0, <2>1, <4>2, <4>3
    <3> QED BY <2>1, <3>1, <3>2
  <2> QED BY <1>a, <2>1, <2>3, <2>4
<1>16. CASE restart
  <2>1. /\ sock' = <<>> /\ chan' = <<>> /\ held' = None /\ file' = file
        /\ lease_chan' = IF file = None THEN <<>> ELSE <<file>>
    BY <1>16 DEF restart
  <2>2. C1
    BY <2>1, EmptyQueues, ChainStart, News
  <2>3. file' # None => ~LeaseTold'
    BY <2>1 DEF LeaseTold
  <2> QED BY <2>2, <2>3
<1> QED BY <1>2, <1>3, <1>4, <1>5, <1>6, <1>7, <1>8, <1>9, <1>10, <1>11, <1>12, <1>13, <1>14, <1>15,
           <1>16, Closings DEF Step, attach_filter

\* The newest list on its way stays the newest that was sent whole.
LEMMA RulesCurrentStep == Typed /\ RulesCurrent /\ Step => RulesCurrent'
<1> SUFFICES ASSUME Typed, RulesCurrent, Step, main' # "gone", ~rules_gap'
             PROVE  /\ Chain(SockRules', RulesNews(held'), ChanRules', latest')
                    /\ Drained(SockRules', RulesNews(held'), ChanRules') => pending_map_rules' = latest'
  BY DEF RulesCurrent
<1> USE DEF host, capture, channels, watcher, daemon, book
<1> DEFINE C  == Chain(SockRules, RulesNews(held), ChanRules, latest)
           D  == Drained(SockRules, RulesNews(held), ChanRules)
           C1 == Chain(SockRules', RulesNews(held'), ChanRules', latest')
           D1 == Drained(SockRules', RulesNews(held'), ChanRules')
           Goal == C1 /\ (D1 => pending_map_rules' = latest')
<1>0. /\ sock \in Seq(Frames(Contents)) /\ chan \in Seq(DhcpV6Event) /\ held \in DhcpV6Event \cup {None}
      /\ rules_gap \in BOOLEAN
      /\ pc = "sending" <=> held # None
  BY DEF Typed, Shapes, Flags
<1>a. main # "gone" /\ ~rules_gap => C /\ (D => pending_map_rules = latest)
  BY DEF RulesCurrent
<1>b. ASSUME main # "gone", ~rules_gap, C => C1, D1 => D, UNCHANGED <<latest, pending_map_rules>>
      PROVE  Goal
  <2> HIDE DEF C, D, C1, D1
  <2> QED BY <1>a, <1>b
<1>c. ASSUME sock' = sock, chan' = chan, held' = held, Ll' = Ll \/ sock = <<>>, latest' = latest
      PROVE  C1 = C /\ D1 = D
  <2>1. SockRules' = SockRules /\ ChanRules' = ChanRules
    BY <1>c, Still
  <2> QED BY <1>c, <2>1
<1>d. ASSUME NEW f \in Frames(Contents), sock' = sock \/ sock' = Append(sock, f),
             sock' = sock \/ RulesNews(process_frame(f, Ll)) = None,
             Ll' = Ll, UNCHANGED <<chan, held, latest>>
      PROVE  (C => C1) /\ (D1 => D)
  <2>1. CASE sock' = sock
    BY <1>c, <1>d, <2>1
  <2>2. CASE sock' = Append(sock, f) /\ RulesNews(process_frame(f, Ll)) = None
    <3>1. Longer(SockRules', SockRules, None) /\ ChanRules' = ChanRules
      BY <1>0, <1>d, <2>2, Queued
    <3> QED BY <1>d, <3>1, ChainQuiet
  <2> QED BY <1>d, <2>1, <2>2
<1>2. CASE AnyExchange
  <2>1. PICK p \in Prefix, ps \in Delegation, content \in Contents,
             withdrawn \in {<<>>} \cup {<<q>> : q \in Prefix}, missed \in BOOLEAN :
              /\ Exchange(p, withdrawn, content)
              /\ rules_gap' = IF Whole(content) THEN missed ELSE rules_gap \/ Overrunning(content)
              /\ Ll' = Ll
              /\ \/ missed /\ sock' = sock
                 \/ \E f \in Frames(Contents) :
                       /\ sock' = Append(sock, f)
                       /\ process_frame(f, Ll) = IF missed THEN None ELSE [rules |-> RulesOf(content), ia_pd |-> ps[1]]
    BY <1>2, ExchangeNews
  <2>2. /\ latest' = IF Whole(content) THEN content[1] ELSE latest
        /\ UNCHANGED <<held, chan, pending_map_rules, main>>
    BY <2>1 DEF Exchange
  <2>3. CASE Whole(content)
    <3>1. ~missed /\ latest' = content[1]
      BY <2>1, <2>2, <2>3
    <3>2. PICK f \in Frames(Contents) :
             sock' = Append(sock, f) /\ process_frame(f, Ll) = [rules |-> RulesOf(content), ia_pd |-> ps[1]]
      BY <2>1, <3>1
    <3>3. RulesNews(process_frame(f, Ll)) = latest' /\ latest' # None
      BY <2>3, <3>1, <3>2, GrantNews
    <3>4. Longer(SockRules', SockRules, latest')
      BY <1>0, <2>1, <2>2, <3>2, <3>3, Queued
    <3>5. C1 /\ ~D1
      BY <3>3, <3>4, ChainNew
    <3> QED BY <3>5
  <2>4. CASE ~Whole(content)
    <3>1. ~rules_gap /\ ~Overrunning(content) /\ latest' = latest
      BY <1>0, <2>1, <2>2, <2>4
    <3>2. (C => C1) /\ (D1 => D)
      <4>1. CASE sock' = sock
        BY <1>c, <2>1, <2>2, <3>1, <4>1
      <4>2. CASE \E f \in Frames(Contents) :
                    /\ sock' = Append(sock, f)
                    /\ process_frame(f, Ll) \in {None, [rules |-> RulesOf(content), ia_pd |-> ps[1]]}
        <5>1. PICK f \in Frames(Contents) :
                 /\ sock' = Append(sock, f)
                 /\ process_frame(f, Ll) \in {None, [rules |-> RulesOf(content), ia_pd |-> ps[1]]}
          BY <4>2
        <5>2. RulesNews(process_frame(f, Ll)) = None
          BY <2>4, <3>1, <5>1, GrantNews, News
        <5> QED BY <1>d, <2>1, <2>2, <3>1, <5>1, <5>2
      <4> QED BY <2>1, <4>1, <4>2
    <3> QED BY <1>b, <2>2, <3>1, <3>2
  <2> QED BY <2>3, <2>4
<1>3. CASE AnyStray
  <2>1. PICK p \in Prefix, ps \in Delegation, content \in Uncut, dst \in {Other, Multicast, address}, heeded \in BOOLEAN :
           /\ Stray(dst, p, content) /\ (content = <<>> \/ Whole(content))
           /\ rules_gap' = (rules_gap \/ (heeded /\ content # <<>>))
           /\ Ll' = Ll
           /\ \/ sock' = sock
              \/ \E f \in Frames(Contents) :
                    /\ sock' = Append(sock, f)
                    /\ process_frame(f, Ll) \in {None, [rules |-> RulesOf(content), ia_pd |-> ps[1]]}
                    /\ ~heeded => process_frame(f, Ll) = None
    BY <1>3, StrayNews
  <2>2. ~rules_gap /\ (~heeded \/ content = <<>>)
    BY <1>0, <2>1
  <2>3. UNCHANGED <<held, chan, pending_map_rules, latest, main>>
    BY <2>1 DEF Stray
  <2>4. (C => C1) /\ (D1 => D)
    <3>1. CASE sock' = sock
      BY <1>c, <2>1, <2>3, <3>1
    <3>2. CASE sock' # sock
      <4>1. PICK f \in Frames(Contents) :
               /\ sock' = Append(sock, f)
               /\ process_frame(f, Ll) \in {None, [rules |-> RulesOf(content), ia_pd |-> ps[1]]}
               /\ ~heeded => process_frame(f, Ll) = None
        BY <2>1, <3>2
      <4>2. RulesNews(process_frame(f, Ll)) = None
        <5>1. content \in Contents /\ ~Overrunning(content)
          BY DEF Uncut
        <5>2. content = <<>> => ~Whole(content)
          BY DEF Whole
        <5> QED BY <2>2, <4>1, <5>1, <5>2, GrantNews, News
      <4> QED BY <1>d, <2>1, <2>3, <4>1, <4>2
    <3> QED BY <3>1, <3>2
  <2> QED BY <1>b, <2>2, <2>3, <2>4
<1>4. CASE AnyNoise
  <2>1. PICK m \in Harmless, f \in Frames(Contents) :
           Noise(m) /\ Deliver(f) /\ process_frame(f, Ll) = None
    BY <1>4, NoiseFrame
  <2>2. UNCHANGED <<held, chan, pending_map_rules, latest, main, rules_gap, our_ll_addr, address>>
    BY <2>1 DEF Noise
  <2>3. Ll' = Ll
    BY <2>2, LlKept
  <2>4. sock' = sock \/ sock' = Append(sock, f)
    BY <2>1 DEF Deliver
  <2>5. RulesNews(process_frame(f, Ll)) = None
    BY <2>1, News
  <2> QED BY <1>b, <1>d, <2>2, <2>3, <2>4, <2>5
<1>5. CASE SetAddress
  <2>1. ~rules_gap /\ sock = <<>>
    BY <1>0, <1>5 DEF SetAddress
  <2>2. UNCHANGED <<sock, held, chan, pending_map_rules, latest, main>>
    BY <1>5 DEF SetAddress
  <2> QED BY <1>b, <1>c, <2>1, <2>2
<1>6. CASE \/ networkd_write \/ handle_lease_event \/ send_lease_event \/ open_socket \/ dhcp_closed
           \/ recv_lease \/ cleanup \/ stop \/ vars' = vars
  <2>1. UNCHANGED <<sock, held, chan, pending_map_rules, latest, rules_gap, our_ll_addr, address>> /\ main # "gone"
    BY <1>6 DEF networkd_write, handle_lease_event, send_lease_event, open_socket, dhcp_closed, recv_lease,
       handle_ia_pd, cleanup, stop, vars
  <2>2. Ll' = Ll
    BY <2>1, LlKept
  <2> QED BY <1>b, <1>c, <2>1, <2>2
<1>7. CASE attach_filter /\ pc' = "loop"
  <2>1. UNCHANGED <<sock, held, chan, pending_map_rules, latest, main, rules_gap>>
    BY <1>7 DEF attach_filter
  <2>2. Ll' = Ll
    BY <1>7, LlKept
  <2> QED BY <1>b, <1>c, <2>1, <2>2
<1>8. CASE Closing
  <2>1. UNCHANGED <<held, chan, pending_map_rules, latest, main>> /\ sock' = <<>>
    BY <1>8 DEF Closing
  <2>2. sock = <<>> /\ ~rules_gap /\ ChanRules' = ChanRules
    BY <1>8, ClosedNews
  <2>3. DOMAIN SockRules = {} /\ DOMAIN SockRules' = {}
    BY <2>1, <2>2, EmptyQueues
  <2>4. (C => C1) /\ (D1 => D)
    BY <2>1, <2>2, <2>3, ChainClose
  <2> QED BY <1>b, <2>1, <2>2, <2>4
<1>9. CASE send_event
  <2>1. /\ UNCHANGED <<sock, pending_map_rules, latest, main, rules_gap, our_ll_addr, address>>
        /\ chan' = Append(chan, held) /\ held' = None /\ held \in DhcpV6Event
    BY <1>0, <1>9 DEF send_event
  <2>2. Ll' = Ll
    BY <2>1, LlKept
  <2>3. Longer(ChanRules', ChanRules, RulesNews(held)) /\ SockRules' = SockRules
    BY <1>0, <2>1, <2>2, Sent
  <2>4. C
    BY <1>a, <2>1
  <2>5. C1 /\ (D1 => D)
    <3>1. RulesNews(held') = None
      BY <2>1, News
    <3>2. /\ Chain(SockRules, None, ChanRules', latest)
          /\ Drained(SockRules, None, ChanRules') => D
      BY <2>3, <2>4, ChainSend
    <3> QED BY <2>1, <2>3, <3>1, <3>2
  <2> QED BY <1>b, <2>1, <2>5
<1>10. CASE recv_frame
  <2>1. /\ UNCHANGED <<chan, pending_map_rules, latest, main, rules_gap>>
        /\ sock # <<>> /\ sock' = Tail(sock) /\ held = None
        /\ held' = process_frame(Head(sock), Ll)
    BY <1>0, <1>10 DEF recv_frame, Ll, get_link_local_addr
  <2>2. Ll' = Ll
    BY <1>10, LlKept
  <2>3. /\ Shorter(SockRules', SockRules) /\ SockRules[1] = RulesNews(held')
        /\ ChanRules' = ChanRules
    BY <1>0, <2>1, <2>2, Received
  <2>4. C /\ RulesNews(held) = None
    BY <1>a, <2>1, News
  <2>5. C1 /\ (D1 => D)
    BY <2>1, <2>3, <2>4, ChainReceive
  <2> QED BY <1>b, <2>1, <2>5
<1>11. CASE recv_dhcp
  <2>1. /\ UNCHANGED <<sock, held, latest, main, rules_gap, our_ll_addr, address>>
        /\ chan # <<>> /\ chan' = Tail(chan)
        /\ Head(chan).rules = <<>> => pending_map_rules' = pending_map_rules
        /\ Head(chan).rules # <<>> => pending_map_rules' = Head(chan).rules[1]
    BY <1>11 DEF recv_dhcp, handle_ia_pd, handle_both
  <2>2. Ll' = Ll
    BY <2>1, LlKept
  <2>3. /\ Shorter(ChanRules', ChanRules) /\ ChanRules[1] = RulesNews(Head(chan))
        /\ Head(chan) \in DhcpV6Event /\ SockRules' = SockRules
    BY <1>0, <2>1, <2>2, Handled
  <2>4. C /\ (D => pending_map_rules = latest)
    BY <1>a, <2>1
  <2>5. C1 /\ (D1 => IF ChanRules[1] # None THEN ChanRules[1] = latest ELSE D)
    BY <2>1, <2>3, <2>4, ChainHandle
  <2>6. CASE Head(chan).rules = <<>>
    <3>1. ChanRules[1] = None
      BY <2>3, <2>6, News
    <3> QED BY <2>1, <2>4, <2>5, <2>6, <3>1
  <2>7. CASE Head(chan).rules # <<>>
    <3>1. ChanRules[1] = pending_map_rules' /\ ChanRules[1] # None
      BY <2>1, <2>3, <2>7, News
    <3> QED BY <2>1, <2>5, <3>1
  <2> QED BY <2>6, <2>7
<1>12. CASE restart
  <2>1. /\ sock' = <<>> /\ chan' = <<>> /\ held' = None
        /\ pending_map_rules' = cache /\ latest' = latest /\ rules_gap' = (cache # latest)
    BY <1>12 DEF restart, load_rules_cache
  <2>2. C1
    BY <2>1, EmptyQueues, ChainStart, News
  <2>3. pending_map_rules' = latest'
    BY <2>1
  <2> QED BY <2>2, <2>3
<1> QED BY <1>2, <1>3, <1>4, <1>5, <1>6, <1>7, <1>8, <1>9, <1>10, <1>11, <1>12, Closings
        DEF Step, attach_filter

-----------------------------------------------------------------------------
(* Theorems *)

\* All of it together.
Inductive == Typed /\ Unshortened /\ LeaseCurrent /\ PrefixCurrent /\ RulesCurrent

\* Nothing is on the way in the beginning.
LEMMA InductiveInit == Init => Inductive
<1> SUFFICES ASSUME Init PROVE Inductive
  OBVIOUS
<1>1. LeaseCurrent
  BY DEF Init, LeaseCurrent
<1>2. sock = <<>> /\ chan = <<>> /\ held = None /\ file = None /\ pending_map_rules = latest
  BY DEF Init
<1>3. PrefixCurrent
  BY <1>2, EmptyQueues, ChainStart, News DEF PrefixCurrent
<1>4. RulesCurrent
  BY <1>2, EmptyQueues, ChainStart, News DEF RulesCurrent
<1> QED BY <1>1, <1>3, <1>4, TypedInit, UnshortenedInit DEF Inductive

\* And every step keeps it so.
LEMMA InductiveStep == Inductive /\ [Next]_vars => Inductive'
BY Steps, TypedStep, UnshortenedStep, LeaseCurrentStep, PrefixCurrentStep, RulesCurrentStep DEF Inductive

\* The inductive invariant holds throughout.
LEMMA AlwaysInductive == Spec => []Inductive
BY InductiveInit, InductiveStep, PTL DEF Spec

\* No queue of the capture, the watcher or the event loop exceeds its capacity and
\* every variable keeps its type, for capacities and numbers of Replies and faults
\* of any size.
THEOREM TypeCorrect == Spec => []TypeOK
<1>1. Inductive => TypeOK
  <2>1. Flags /\ Shapes => TypeOK
    BY DEF Flags, Shapes, TypeOK
  <2> QED BY <2>1 DEF Inductive, Typed
<1> QED BY <1>1, AlwaysInductive, PTL

\* The rules in force and the rules on disk are a list the server has sent, whole
\* unless one of its containers overran.
THEOREM ListsWhole == Spec => []WholeList
<1>1. Inductive => WholeList
  <2> SUFFICES ASSUME Inductive, NEW list \in {pending_map_rules, cache} \ {None}
               PROVE  \E l \in Lists : list = l \/ (overran /\ \E n \in 0 .. Len(l) : list = SubSeq(l, 1, n))
    BY DEF WholeList
  <2>1. overran \in BOOLEAN /\ list \in AnyList
    BY DEF Inductive, Typed, Flags, Shapes
  <2>2. CASE ~overran
    <3>1. list \in Lists
      BY <2>2 DEF Inductive, Unshortened
    <3> QED BY <3>1
  <2>3. CASE overran
    BY <2>1, <2>3 DEF AnyList
  <2> QED BY <2>2, <2>3
<1> QED BY <1>1, AlwaysInductive, PTL

\* When nothing is on the way any more, all is silent.
LEMMA SettledDrained ==
    ASSUME Settled
    PROVE  /\ Drained(SockPrefixes, PrefixNews(held), ChanPrefixes)
           /\ Drained(SockRules, RulesNews(held), ChanRules)
           /\ LeaseTold /\ Newest = file /\ main # "gone"
<1>1. sock = <<>> /\ held = None /\ chan = <<>>
  BY DEF Settled, Underway
<1>2. Silent(SockPrefixes) /\ Silent(ChanPrefixes) /\ Silent(SockRules) /\ Silent(ChanRules)
  BY <1>1, EmptyQueues, EmptyNews
<1>3. LeaseTold /\ Newest = file /\ main # "gone"
  BY DEF Settled, LeaseTold, Newest
<1> QED BY <1>1, <1>2, <1>3, News DEF Drained

\* The two sources of the prefix agree in the end.  In whatever order the capture and
\* the lease watcher are heard, and whatever was lost, malformed or meant for
\* others, a daemon that has handled everything has the prefix of the host's lease,
\* unless the newest event of the capture was not the host's.
THEOREM PrefixAgrees == Spec => []PrefixConverges
<1>1. Inductive => PrefixConverges
  BY SettledDrained DEF Inductive, PrefixCurrent, PrefixConverges
<1> QED BY <1>1, AlwaysInductive, PTL

\* And it has the newest list of rules the server has sent whole, across Replies
\* without rules, containers that do not parse, and restarts.
THEOREM RulesAgree == Spec => []RulesConverge
<1>1. Inductive => RulesConverge
  BY SettledDrained DEF Inductive, RulesCurrent, RulesConverge
<1> QED BY <1>1, AlwaysInductive, PTL
=============================================================================
