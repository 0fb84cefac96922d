------------------------------ MODULE PortMap ------------------------------
(***************************************************************************)
(* How a flow gets its port.  nftables masquerades every flow that leaves  *)
(* through the tunnel to a port of one contiguous "staging" range; the TC  *)
(* programs rewrite staging ports to the ports of the CE's PSID on the way *)
(* out (tc_egress) and back on the way in (tc_ingress), statelessly, from  *)
(* the PsidConfig in CONFIG_MAP.  The ICMP echo identifier is treated as a *)
(* port.                                                                   *)
(*                                                                         *)
(* Ports have two bytes of ByteBits bits (8 in the code; fewer make an     *)
(* exhaustive check of all parameters small).                              *)
(***************************************************************************)
EXTENDS Integers, FiniteSets

CONSTANTS
    ByteBits,       \* bits of a byte: a u16 has 2 * ByteBits
    Params,         \* (psid_offset, psid_length, psid) the rules may lead to
    LittleEndian,   \* byte order the programs are built for (that of the host)
    Flow,           \* concurrent flows to one remote endpoint, the worst case
    None

Width == 2 * ByteBits
U16   == 0 .. 2^Width - 1
Kind  == {"port", "echo"}     \* TCP and UDP, or ICMP echo

ASSUME PortConstants ==
    /\ ByteBits \in 1..8
    /\ Params \subseteq [offset : 0..Width, length : 0..Width, psid : U16]
    /\ \A p \in Params : p.psid < 2^p.length
    /\ LittleEndian \in BOOLEAN
    /\ None \notin U16

VARIABLES
    params,     \* MapeParams in force, or None
    cfg,        \* CONFIG_MAP[0]
    flows,      \* conntrack: per flow [kind, port] with its staging port, or None
    outside,    \* per flow the source port its peer has seen, or None
    lands       \* per flow the flow its last answer was delivered to, or None

vars == <<params, cfg, flows, outside, lands>>

-----------------------------------------------------------------------------
(* mapecd-common, ebpf/manager.rs *)

\* Mutant of try_new: one block too many, and no narrowing to u16.
try_new_all_blocks(p) ==
    IF p.offset + p.length > Width THEN None
    ELSE LET shift == Width - p.offset - p.length
         IN  [offset |-> p.offset, length |-> p.length, psid |-> p.psid, block_shift |-> shift,
              staging_min |-> 2^(Width - p.offset),
              staging_max |-> 2^(Width - p.offset) + 2^p.offset * 2^shift - 1]

\* Mutant of try_new: the last port of the range is lost.
try_new_short(p) ==
    IF p.offset + p.length > Width THEN None
    ELSE LET shift == Width - p.offset - p.length
             min   == 2^(Width - p.offset) % 2^Width
         IN  [offset |-> p.offset, length |-> p.length, psid |-> p.psid, block_shift |-> shift,
              staging_min |-> min,
              staging_max |-> IF p.offset = 0 THEN 0 ELSE min + (2^p.offset - 1) * 2^shift - 2]

\* PsidConfig::try_new.  Offset 0 has no blocks to enumerate: the programs pass
\* every packet, and the staging range is every port.
try_new(p) ==
    IF p.offset + p.length > Width THEN None
    ELSE IF p.offset = 0
    THEN [offset |-> 0, length |-> p.length, psid |-> p.psid, block_shift |-> 0,
          staging_min |-> 1, staging_max |-> 2^Width - 1]
    ELSE LET shift == Width - p.offset - p.length
             min   == 2^(Width - p.offset) % 2^Width
         IN  [offset |-> p.offset, length |-> p.length, psid |-> p.psid, block_shift |-> shift,
              staging_min |-> min,
              staging_max |-> (min + (2^p.offset - 1) * 2^shift - 1) % 2^Width]

\* calc_port_ranges, as the set of its ports.
calc_port_ranges(p) ==
    {(r * 2^(p.offset + p.length) + j * 2^p.length + p.psid) % 2^Width :
        r \in 1 .. 2^(Width - p.offset - p.length) - 1, j \in 0 .. 2^p.offset - 1}

-----------------------------------------------------------------------------
(* mapecd-ebpf *)

\* ctx.load and ctx.store copy bytes: on a little-endian machine the u16 is the
\* field with its two bytes exchanged.
SwapBytes(v) == (v % 2^ByteBits) * 2^ByteBits + v \div 2^ByteBits
load(field)  == IF LittleEndian THEN SwapBytes(field) ELSE field
store(v)     == IF LittleEndian THEN SwapBytes(v) ELSE v

\* Mutants of psid_val: blocks are counted from 0; the low bits lose one bit.
psid_val_from_block_0(c, v) ==
    LET idx == v - c.staging_min
    IN  ((idx \div 2^c.block_shift) * 2^(Width - c.offset)
            + c.psid * 2^c.block_shift + (idx % 2^c.block_shift)) % 2^Width
psid_val_short_mask(c, v) ==
    LET idx == v - c.staging_min
        j   == IF c.block_shift = 0 THEN 0 ELSE idx % 2^(c.block_shift - 1)
    IN  ((idx \div 2^c.block_shift + 1) * 2^(Width - c.offset)
            + c.psid * 2^c.block_shift + j) % 2^Width

\* try_egress's arithmetic, in u16.
psid_val(c, v) ==
    LET idx == v - c.staging_min
        r   == idx \div 2^c.block_shift + 1
        j   == idx % 2^c.block_shift
    IN  (r * 2^(Width - c.offset) + c.psid * 2^c.block_shift + j) % 2^Width

EgressPasses(c, v) == c.offset = 0 \/ v < c.staging_min \/ v > c.staging_max

try_egress(c, field) ==
    LET v == load(field)
    IN  IF EgressPasses(c, v) THEN field ELSE store(psid_val(c, v))

\* Mutant of staging_val: the block number is not made zero-based.
staging_val_from_block_1(c, v) ==
    (c.staging_min + (v \div 2^(Width - c.offset)) * 2^c.block_shift
        + (v % 2^c.block_shift)) % 2^Width

\* try_ingress's arithmetic.  The | of disjoint bits is a sum.
staging_val(c, v) ==
    LET r == v \div 2^(Width - c.offset)
        j == v % 2^c.block_shift
    IN  (c.staging_min + (r - 1) * 2^c.block_shift + j) % 2^Width

IngressPasses(c, v) ==
    \/ c.offset = 0
    \/ v \div 2^(Width - c.offset) = 0
    \/ (v \div 2^c.block_shift) % 2^c.length # c.psid

try_ingress(c, field) ==
    LET v == load(field)
    IN  IF IngressPasses(c, v) THEN field ELSE store(staging_val(c, v))

\* Arithmetic of the Internet checksum.
Fold(x) == IF x = 0 THEN 0 ELSE ((x - 1) % (2^Width - 1)) + 1
Not(x)  == 2^Width - 1 - x

\* External: the kernel's incremental update (RFC 1624) of a checksum that is
\* complete.  It reads the field as the machine does.
l4_csum_replace(csum, from, to) == store(Not(Fold(Not(load(csum)) + Not(from) + to)))

\* Mutant of update_csum: old and new are exchanged.
update_csum_backwards(csum, old_val, new_val) == l4_csum_replace(csum, new_val, old_val)

\* update_tcp_udp_csum and update_icmp_csum.  BPF_F_PSEUDO_HDR, which sets the two
\* apart, changes nothing here: it matters for checksums left to the hardware.
update_csum(csum, old_val, new_val) == l4_csum_replace(csum, old_val, new_val)

egress_csum(c, field, csum) ==
    LET v == load(field) IN IF EgressPasses(c, v) THEN csum ELSE update_csum(csum, v, psid_val(c, v))
ingress_csum(c, field, csum) ==
    LET v == load(field) IN IF IngressPasses(c, v) THEN csum ELSE update_csum(csum, v, staging_val(c, v))

-----------------------------------------------------------------------------
(* The system *)

Idle == [f \in Flow |-> None]

\* A full apply of changed parameters.  apply_ruleset refuses an empty port set
\* (offset + length = 16) and everything is undone; else CONFIG_MAP and the
\* staging range come from one PsidConfig.  The tunnel is new, so no flow has a
\* NAT binding.
apply(p) ==
    /\ p # params
    /\ p.offset + p.length <= Width
    /\ IF calc_port_ranges(p) = {}
       THEN params' = None /\ cfg' = None
       ELSE params' = p /\ cfg' = try_new(p)
    /\ flows' = Idle /\ outside' = Idle /\ lands' = Idle

\* External: nftables' masquerade gives a new flow a free port of the range.
masquerade(f, kind) ==
    /\ cfg # None
    /\ flows[f] = None
    /\ \E v \in cfg.staging_min .. cfg.staging_max :
          /\ \A g \in Flow : flows[g] # [kind |-> kind, port |-> v]
          /\ flows' = [flows EXCEPT ![f] = [kind |-> kind, port |-> v]]
    /\ UNCHANGED <<params, cfg, outside, lands>>

\* A TCP or UDP packet, or an echo request, of the flow leaves.
tc_egress(f) ==
    /\ flows[f] # None
    /\ outside' = [outside EXCEPT ![f] = try_egress(cfg, flows[f].port)]
    /\ UNCHANGED <<params, cfg, flows, lands>>

\* The peer answers to the port it saw.  Conntrack takes the answer to the flow
\* with that kind and port; an answer no flow claims goes to nobody.
tc_ingress(f) ==
    /\ outside[f] # None
    /\ LET v     == try_ingress(cfg, outside[f])
           claim == {g \in Flow : flows[g] = [kind |-> flows[f].kind, port |-> v]}
       IN  lands' = [lands EXCEPT ![f] =
                        IF claim = {} THEN "nobody" ELSE CHOOSE g \in claim : TRUE]
    /\ UNCHANGED <<params, cfg, flows, outside>>

Init ==
    /\ params = None /\ cfg = None
    /\ flows = Idle /\ outside = Idle /\ lands = Idle

Next ==
    \/ \E p \in Params : apply(p)
    \/ \E f \in Flow, kind \in Kind : masquerade(f, kind)
    \/ \E f \in Flow : tc_egress(f) \/ tc_ingress(f)

Spec == Init /\ [][Next]_vars

-----------------------------------------------------------------------------
(* Properties *)

\* PsidConfig and the ports are what their u8 and u16 fields can hold.
TypeOK ==
    /\ params \in Params \cup {None}
    /\ cfg \in [offset : 0..Width, length : 0..Width, psid : U16, block_shift : 0..Width,
                staging_min : U16, staging_max : U16] \cup {None}
    /\ \A f \in Flow :
          /\ flows[f] # None => flows[f].kind \in Kind /\ flows[f].port \in U16
          /\ outside[f] \in U16 \cup {None}
          /\ lands[f] \in Flow \cup {"nobody", None}

\* RFC 7597, 5.1: the port has a bits that are not all zero (if a > 0), then the
\* PSID, then any bits.  Port 0 is nobody's.
Assigned(p, v) ==
    /\ v # 0
    /\ p.offset > 0 => v \div 2^(Width - p.offset) # 0
    /\ (v \div 2^(Width - p.offset - p.length)) % 2^p.length = p.psid
AssignedPorts(p) == {v \in U16 : Assigned(p, v)}

\* No packet leaves with a port of another subscriber: whatever staging port
\* nftables picks, try_egress turns it into a port of the CE's own PSID.
OwnPorts ==
    \A f \in Flow : outside[f] # None => Assigned(params, outside[f])

\* An answer comes back to the flow it answers: try_ingress undoes try_egress for
\* every staging port in use, and never confuses two flows.
AnswersReachFlow ==
    \A f \in Flow : lands[f] \in {f, None}

\* Two flows of one kind never appear outside with the same port.
NoSharedPort ==
    \A f, g \in Flow :
        f # g /\ outside[f] # None /\ outside[f] = outside[g] => flows[f].kind # flows[g].kind

\* The staging range and the CE's ports are in bijection: the range is not
\* smaller than the port set, so no port of the subscriber goes to waste.
AllPortsUsable ==
    cfg # None /\ cfg.offset > 0 =>
        {try_egress(cfg, v) : v \in cfg.staging_min .. cfg.staging_max} = AssignedPorts(params)

\* The receiver's test: the port, the rest of the packet and the checksum add up
\* to all ones.
Valid(field, rest, csum) == Fold(field + rest + csum) = 2^Width - 1

\* A packet that was valid is valid when it leaves a program, in either direction
\* and whichever of the two zeros its checksum was.  (Before the first flow: flows
\* do not change the configuration.)
ChecksumsHold ==
    cfg # None /\ flows = Idle =>
        \A field \in U16, rest \in U16 \ {0} :
            \A csum \in {c \in U16 : Valid(field, rest, c)} :
                /\ Valid(try_egress(cfg, field), rest, egress_csum(cfg, field, csum))
                /\ Valid(try_ingress(cfg, field), rest, ingress_csum(cfg, field, csum))

=============================================================================
