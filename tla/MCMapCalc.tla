----------------------------- MODULE MCMapCalc -----------------------------
(* The domain of the v6plus table, and one as a DHCPv6 server may describe it. *)
EXTENDS MapCalc, V6PlusRules, TLC

\* A rule without PSID, and two that cover the same prefixes but fit different lengths.
DhcpRules == <<
    MapRule(<<\h2001, \h0db8, 0>>, 32, <<192, 0, 2>>, 24, 16, 4, 8, "2001:db8:ff::1"),
    MapRule(<<\h2001, \h0db8, 0>>, 40, <<198, 51, 100>>, 24, 16, 6, 8, "2001:db8:ff::1"),
    MapRule(<<\h2001, \h0db9, 0>>, 32, <<203, 0, 113>>, 24, 8, 0, 0, "2001:db8:ff::2"),
    MapRule(<<\h2001, \h0dba, 0>>, 40, <<203, 0, 0>>, 20, 16, 6, 4, "2001:db8:ff::2")>>

MCMode  == {"static", "dhcp"}
MCStaticOnly == {"static"}
MCRules == [static |-> V6PLUS_MAP_RULES, dhcp |-> DhcpRules]

Ones(n) == [i \in 1..n |-> 1]

\* The first prefix of the rule r and its neighbour, whose PSID is the next, and the
\* last prefix of the rule s.
Lowest(r)  == Pad(r.ipv6_prefix, Len(r.ipv6_prefix) + r.ea_length)
NextTo(p)  == SubSeq(p, 1, Len(p) - 1) \o <<1>>
Highest(r) == r.ipv6_prefix \o Ones(r.ea_length)
PoolOf(r, s) == {Lowest(r), NextTo(Lowest(r)), Highest(s)}

\* A pool for every two rules, and one that also has prefixes no rule fits: one that a
\* rule covers but that is too long, and one that no rule covers.  (The \o makes a
\* tuple of it, which TLC computes only once.)
PoolsOf(rules) ==
    <<{Lowest(rules[1]), Highest(rules[2]), Lowest(rules[1]) \o <<0>>, Zeros(56)}>>
    \o [i \in 1 .. Len(rules) \div 2 |-> PoolOf(rules[2 * i - 1], rules[2 * i])]
MCPools == [static |-> PoolsOf(V6PLUS_MAP_RULES), dhcp |-> PoolsOf(DhcpRules)]

Symmetry == Permutations(CE)

ASSUME Len(V6PLUS_MAP_RULES) = RULE_COUNT

\* try_compute takes the first rule where the design asks for the longest: in the
\* generated table no two prefixes overlap, so its order makes no difference.
ASSUME \A i, j \in 1..RULE_COUNT :
    i < j => ~Overlap(V6PLUS_MAP_RULES[i].ipv6_prefix, V6PLUS_MAP_RULES[j].ipv6_prefix)
=============================================================================
