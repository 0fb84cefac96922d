------------------------------- MODULE Parser -------------------------------
(***************************************************************************)
(* dhcpv6/parser.rs: what the daemon reads out of a DHCPv6 message.  An    *)
(* option is a record whose code says which it is, a payload of options a  *)
(* sequence of them; the option "overrun" is one whose length field goes   *)
(* past the end of its payload.  A field that is too short, or out of      *)
(* range, is None.                                                         *)
(***************************************************************************)
EXTENDS Integers, Sequences, FiniteSets

CONSTANT None

\* Options of a kind are given by their places: the first place (find_map), the
\* last and the n-th.
First(places)  == CHOOSE i \in places : \A j \in places : i <= j
Last(places)   == CHOOSE i \in places : \A j \in places : j <= i
Nth(places, n) == CHOOSE i \in places : Cardinality({j \in places : j <= i}) = n

-----------------------------------------------------------------------------
(* OPTION_S46_CONT_MAPE *)

\* The places a walk over a payload comes to: it stops, without an error, at an
\* option that overruns it.
iter_opts(opts) == {i \in DOMAIN opts : \A j \in 1 .. i : opts[j].code # "overrun"}

PortParamsDefault == [psid_offset |-> 0, psid_length |-> 0]

\* The last PORTPARAMS that is long enough counts.  A body of None stands for the
\* errors: a payload that ends early, a prefix4-len above 32, a prefix6-len above
\* 128.  Neither ea-len nor the port parameters are checked against anything.
parse_s46_rule(o, br) ==
    LET set == {i \in iter_opts(o.opts) : o.opts[i].code = "PORTPARAMS" /\ o.opts[i].params # None}
    IN  [body |-> o.body, br_address |-> br,
         port_params |-> IF set = {} THEN PortParamsDefault ELSE o.opts[Last(set)].params]

\* Mutant of parse_s46_cont_mape: a malformed rule is left out of the list.
parse_what_is_valid(opts) ==
    LET brs   == {i \in iter_opts(opts) : opts[i].code = "BR" /\ opts[i].addr # None}
        rules == {i \in iter_opts(opts) : opts[i].code = "RULE" /\ opts[i].body # None}
    IN  IF brs = {} THEN <<>>
        ELSE <<[n \in 1 .. Cardinality(rules) |->
                   parse_s46_rule(opts[Nth(rules, n)], opts[First(brs)].addr)]>>

\* One border relay, the first valid one, for all the rules wherever it stands;
\* without one, or with one malformed rule, there is no list at all.  <<>> is Err,
\* <<list>> Ok(list).
parse_s46_cont_mape(opts) ==
    LET brs   == {i \in iter_opts(opts) : opts[i].code = "BR" /\ opts[i].addr # None}
        rules == {i \in iter_opts(opts) : opts[i].code = "RULE"}
    IN  IF brs = {} \/ \E i \in rules : opts[i].body = None THEN <<>>
        ELSE <<[n \in 1 .. Cardinality(rules) |->
                   parse_s46_rule(opts[Nth(rules, n)], opts[First(brs)].addr)]>>

\* Only the first container counts.  <<>> is Ok(None) or Err, <<list>> Ok(Some(list)).
parse_mape_container(m) ==
    LET conts == {i \in DOMAIN m.opts : m.opts[i].code = "CONT_MAPE"}
    IN  IF conts = {} THEN <<>> ELSE parse_s46_cont_mape(m.opts[First(conts)].opts)

-----------------------------------------------------------------------------
(* OPTION_IA_PD *)

\* The place of the IA_PD with the IAID asked for, else of the first one.
find_iapd(opts, iaid) ==
    LET all  == {i \in DOMAIN opts : opts[i].code = "IA_PD"}
        mine == {i \in all : opts[i].iaid = iaid}
    IN  First(IF mine # {} THEN mine ELSE all)

\* The first IAPREFIX of that IA_PD, whatever its lifetime, provided that no
\* status in the IA_PD itself is other than Success; a status inside the IAPREFIX
\* is not looked at.  The timers that parse_ia_pd_info also returns are DhcpClient's.
parse_ia_pd(m, iaid) ==
    LET opts     == m.opts[find_iapd(m.opts, iaid)].opts
        prefixes == {i \in DOMAIN opts : opts[i].code = "IAPREFIX"}
    IN  IF \/ ~\E i \in DOMAIN m.opts : m.opts[i].code = "IA_PD"
           \/ prefixes = {}
           \/ \E i \in DOMAIN opts : opts[i].code = "STATUS" /\ opts[i].status # "Success"
        THEN None
        ELSE opts[First(prefixes)].prefix
=============================================================================
