------------------------------ MODULE MapCalc ------------------------------
(***************************************************************************)
(* From a delegated prefix to an IPv4 address, a PSID and an IPv6 address  *)
(* (map/calc.rs, DaemonState::try_compute), in a domain of CEs that share  *)
(* the rules and the border relay.  The relay is stateless: it computes    *)
(* the CE of an answer from the IPv4 address and the port alone, so the    *)
(* service works only if every CE is where the relay's inverse mapping     *)
(* says it is.  Ports are translated as PortMap says.                      *)
(*                                                                         *)
(* Kernel state and failures are Lifecycle's; here an apply succeeds.      *)
(***************************************************************************)
EXTENDS Bits, FiniteSetsExt

CONSTANTS
    CE,         \* subscribers
    Mode,       \* ways to run the domain, "static" or "dhcp"
    Rules,      \* per mode the rules of the domain, a sequence
    Pools,      \* per mode a sequence of sets of prefixes the provider delegates from
    None

Bit    == {0, 1}
Rule   == UNION {Range(Rules[m]) : m \in Mode}
Prefix == UNION UNION {Range(Pools[m]) : m \in Mode}

MapeParams == [ce_ipv6 : [1..128 -> Bit], ipv4 : [1..32 -> Bit], psid : Seq(Bit), rule : Rule,
               ce_prefix : Prefix]

\* Prefixes with a common address.
Overlap(p, q) == \A i \in DOMAIN p : i \in DOMAIN q => p[i] = q[i]

\* calc.rs and the parser check none of this: the rules' author answers for it.
ASSUME MapConstants ==
    /\ Mode \subseteq {"static", "dhcp"}
    /\ \A m \in Mode : Rules[m] \in Seq(Rule)
    /\ \A r \in Rule :
          /\ {r.ipv6_prefix, r.ipv4_prefix} \subseteq Seq(Bit) /\ Len(r.ipv4_prefix) <= 32
          /\ {r.offset, r.length} \subseteq Nat
          /\ r.ea_length = 32 - Len(r.ipv4_prefix) + r.length
          /\ Len(r.ipv6_prefix) + r.ea_length <= 64
          /\ r.offset + r.length < 16
    /\ Prefix \subseteq Seq(Bit)
    /\ None \notin MapeParams /\ None \notin Seq(Bit) /\ None \notin Nat

\* A relay can tell the rules apart by their IPv4 prefixes, and PSIDs are used with an
\* offset.
ASSUME RelayConstants ==
    \A m \in Mode :
        /\ \A i, j \in DOMAIN Rules[m] :
              i # j => ~Overlap(Rules[m][i].ipv4_prefix, Rules[m][j].ipv4_prefix)
        /\ \A i \in DOMAIN Rules[m] : Rules[m][i].offset = 0 => Rules[m][i].length = 0

\* The generated table: all its rules are for a /56.
ASSUME TableConstants ==
    "static" \in Mode =>
        \A i \in DOMAIN Rules["static"] :
            Len(Rules["static"][i].ipv6_prefix) + Rules["static"][i].ea_length = 56

VARIABLES
    mode,       \* config.use_v6plus_static_rules: "static" if set
    pool,       \* which of them the CEs get their prefixes from
    lease,      \* per CE the prefix delegated to it, or None
    params      \* per CE its DaemonState::params, or None

vars == <<mode, pool, lease, params>>

\* The data path of ebpf/manager.rs and mapecd-ebpf, at full width.
PM == INSTANCE PortMap WITH ByteBits <- 8, Params <- {}, LittleEndian <- FALSE, Flow <- CE,
          params <- None, cfg <- None, flows <- None, outside <- None, lands <- None

-----------------------------------------------------------------------------
(* map/calc.rs *)

\* Ipv6Net::contains for a prefix that is at least as long; one that is shorter
\* fails in extract_ea_bits if it does not fail here.
contains(prefix, p) ==
    Len(prefix) <= Len(p) /\ SubSeq(p, 1, Len(prefix)) = prefix

\* Mutant of extract_ea_bits: the shift is one too large.
extract_shifted(p, rule) ==
    IF Len(p) # Len(rule.ipv6_prefix) + rule.ea_length THEN None
    ELSE SubSeq(p, Len(rule.ipv6_prefix), Len(p) - 1)

\* None stands for Err(InvalidCePrefix).
extract_ea_bits(p, rule) ==
    IF Len(p) # Len(rule.ipv6_prefix) + rule.ea_length THEN None
    ELSE SubSeq(p, Len(rule.ipv6_prefix) + 1, Len(p))

\* Mutant of derive_ipv4_and_psid: the PSID is not masked to k bits.
derive_unmasked(ea, rule) ==
    [psid |-> Fit(ea, 16),
     ipv4 |-> Or(Pad(rule.ipv4_prefix, 32), Fit(SubSeq(ea, 1, Len(ea) - rule.length), 32))]

derive_ipv4_and_psid(ea, rule) ==
    [psid |-> Fit(ea, rule.length),
     ipv4 |-> Or(Pad(rule.ipv4_prefix, 32), Fit(SubSeq(ea, 1, Len(ea) - rule.length), 32))]

\* CeFormat: apply_if_ready takes V6Plus for the static table, else Rfc7597.
format(m) == IF m = "static" THEN "V6Plus" ELSE "Rfc7597"

\* Mutant of interface_id: the address is laid out as in RFC 7597 for both.
interface_id_rfc(d, fmt) == Zeros(16) \o d.ipv4 \o d.psid \o Zeros(16 - Len(d.psid))

\* Bits 64..127 of the CE's address.  V6Plus always shifts the PSID by 8.
interface_id(d, fmt) ==
    IF fmt = "Rfc7597"
    THEN Zeros(16) \o d.ipv4 \o d.psid \o Zeros(16 - Len(d.psid))
    ELSE Zeros(8) \o d.ipv4 \o Fit(d.psid \o Zeros(8), 24)

\* What build_ce_ipv6 asserts of a rule.  A debug build panics where it does not hold;
\* the release build, which is modelled here, does not look.
build_ce_ipv6_asserts(rule, fmt) ==
    fmt = "V6Plus" => Len(rule.ipv6_prefix) + rule.ea_length <= 64 /\ rule.length = 8

build_ce_ipv6(p, rule, ea, fmt) ==
    Or(Pad(p, 128), Zeros(64) \o interface_id(derive_ipv4_and_psid(ea, rule), fmt))

\* port_ranges is a function of rule and psid, PortMap's calc_port_ranges.
compute_mape_params(p, rule, fmt) ==
    LET ea == extract_ea_bits(p, rule)
        d  == derive_ipv4_and_psid(ea, rule)
    IN  IF ea = None THEN None
        ELSE [ce_ipv6 |-> build_ce_ipv6(p, rule, ea, fmt), ipv4 |-> d.ipv4, psid |-> d.psid,
              rule |-> rule, ce_prefix |-> p]

-----------------------------------------------------------------------------
(* daemon/state.rs, daemon/runner.rs *)

\* Mutant of try_compute: a rule that covers the prefix and fails ends the search.
try_compute_first_cover(m, p) ==
    LET fit == {i \in DOMAIN Rules[m] : contains(Rules[m][i].ipv6_prefix, p)}
    IN  IF fit = {} THEN None ELSE compute_mape_params(p, Rules[m][Min(fit)], format(m))

\* The first rule that covers the prefix and fits its length.  None stands for
\* Err(NoPrefixMatch).
try_compute(m, p) ==
    LET fit == {i \in DOMAIN Rules[m] : /\ contains(Rules[m][i].ipv6_prefix, p)
                                       /\ extract_ea_bits(p, Rules[m][i]) # None}
    IN  IF fit = {} THEN None ELSE compute_mape_params(p, Rules[m][Min(fit)], format(m))

is_valid_ia_pd_for_static_rules(p) == Len(p) = 56

\* handle_ia_pd and, with the same rules again, handle_both.  When nothing can be
\* computed the parameters in force stay.
handle_ia_pd(c, p) ==
    LET new == IF mode = "static" /\ ~is_valid_ia_pd_for_static_rules(p)
               THEN None ELSE try_compute(mode, p)
    IN  params' = [params EXCEPT ![c] = IF new = None THEN @ ELSE new]

\* The provider delegates a prefix of which no other CE holds a part, instead of the
\* one before.
Delegate(c, p) ==
    /\ lease[c] # p
    /\ \A d \in CE \ {c} : lease[d] # None => ~Overlap(lease[d], p)
    /\ lease' = [lease EXCEPT ![c] = p]
    /\ handle_ia_pd(c, p)
    /\ UNCHANGED <<mode, pool>>

\* The lease ends.  The client starts over and tells the daemon nothing.
Expire(c) ==
    /\ lease[c] # None
    /\ lease' = [lease EXCEPT ![c] = None]
    /\ UNCHANGED <<mode, pool, params>>

Init ==
    /\ mode \in Mode
    /\ pool \in DOMAIN Pools[mode]
    /\ lease = [c \in CE |-> None]
    /\ params = [c \in CE |-> None]

Next == \E c \in CE : (\E p \in Pools[mode][pool] : Delegate(c, p)) \/ Expire(c)

Spec == Init /\ [][Next]_vars

-----------------------------------------------------------------------------
(* The border relay and a CE's data path *)

PortParams(c) ==
    [offset |-> params[c].rule.offset, length |-> params[c].rule.length,
     psid |-> ToNum(params[c].psid)]

Hextets(b) == [i \in 1 .. Len(b) \div 16 |-> ToNum(SubSeq(b, 16 * i - 15, 16 * i))]

\* External: the relay's rule for an IPv4 address.
RelayRule(m, ipv4) ==
    Rules[m][Min({i \in DOMAIN Rules[m] : contains(Rules[m][i].ipv4_prefix, ipv4)})]

\* External: where the relay sends a packet for an IPv4 address and port, as the
\* eight hextets of RFC 7597, 5.2, or of the non-RFC layout rule.rs documents.  Either
\* has the PSID at the left end of the last hextet: of the non-RFC layout this is known
\* for 8 bits only.
RelayAddress(rule, fmt, ipv4, port) ==
    LET psid == SubSeq(ToBits(port, 16), rule.offset + 1, rule.offset + rule.length)
        o    == [j \in 1..4 |-> ToNum(SubSeq(ipv4, 8 * j - 7, 8 * j))]
        high == rule.ipv6_prefix \o SubSeq(ipv4, Len(rule.ipv4_prefix) + 1, 32) \o psid
        last == ToNum(psid) * 2^(16 - rule.length)
    IN  Hextets(Pad(high, 64)) \o
        IF fmt = "Rfc7597"
        THEN <<0, o[1] * 256 + o[2], o[3] * 256 + o[4], last>>
        ELSE <<o[1], o[2] * 256 + o[3], o[4] * 256, last>>

\* Where the answer to a flow of c with staging port v ends: the network routes
\* by delegated prefix, the CE's tunnel takes what has its own address, and
\* try_ingress restores the port.
Answer(c, v, rule) ==
    LET port == PM!try_egress(PM!try_new(PortParams(c)), v)
        addr == RelayAddress(rule, format(mode), params[c].ipv4, port)
        at   == {d \in CE : /\ lease[d] # None /\ params[d] # None
                            /\ contains(lease[d], params[d].ce_ipv6)
                            /\ Hextets(params[d].ce_ipv6) = addr}
    IN  {<<d, PM!try_ingress(PM!try_new(PortParams(d)), port)>> : d \in at}

Staging(c) == {PM!try_new(PortParams(c)).staging_min, PM!try_new(PortParams(c)).staging_max}

-----------------------------------------------------------------------------
(* Properties *)

\* Leases and parameters are what the types of IA_PD and MapeParams hold.
TypeOK ==
    /\ mode \in Mode /\ pool \in DOMAIN Pools[mode]
    /\ \A c \in CE :
          /\ lease[c] \in Pools[mode][pool] \cup {None}
          /\ params[c] # None =>
                /\ params[c] \in MapeParams
                /\ Len(params[c].psid) = params[c].rule.length
                /\ params[c].ce_prefix \in Pools[mode][pool]

\* The CE's parameters come from the prefix it holds.
Current(c) == lease[c] # None /\ params[c] # None /\ params[c].ce_prefix = lease[c]

\* The CE's address was built from a rule its layout is made for.
AsAsserted(c) == build_ce_ipv6_asserts(params[c].rule, format(mode))

\* The relay finds the CE: the answer to any flow of a CE whose parameters are
\* current comes back to that CE, with the staging port of that flow, and to no
\* other.  It takes extract_ea_bits, derive_ipv4_and_psid, build_ce_ipv6, the rule
\* table, try_new, try_egress and try_ingress to be each other's inverses.  (Of the
\* static table this says nothing for the rules with 6 bits of PSID: see LayoutAsserted.)
AnswersReturn ==
    \A c \in CE : Current(c) /\ AsAsserted(c) =>
        LET rule == RelayRule(mode, params[c].ipv4)
        IN  \A v \in Staging(c) : Answer(c, v, rule) = {<<c, v>>}

\* Two CEs with current parameters never share an IPv4 address and a port set,
\* whichever prefixes, even neighbouring ones, they were delegated.
OneUserPerPortSet ==
    \A c, d \in CE :
        c # d /\ Current(c) /\ Current(d) /\ params[c].ipv4 = params[d].ipv4 =>
            /\ params[c].rule = params[d].rule
            /\ params[c].psid # params[d].psid

\* A delegated prefix that some rule fits is put to use, whatever stands before
\* that rule in the list and whatever the CE used before.
FollowsLease ==
    \A c \in CE :
        lease[c] # None /\ ~Current(c) =>
            ~\E i \in DOMAIN Rules[mode] : LET r == Rules[mode][i] IN
                /\ contains(r.ipv6_prefix, lease[c])
                /\ Len(lease[c]) = Len(r.ipv6_prefix) + r.ea_length

-----------------------------------------------------------------------------
(* What an assertion of the code says, and the table does not keep to *)

\* "V6Plus: psid_length == 8": the debug_assert of build_ce_ipv6 holds whenever
\* try_compute has come to parameters.
LayoutAsserted == \A c \in CE : params[c] # None => AsAsserted(c)

=============================================================================
