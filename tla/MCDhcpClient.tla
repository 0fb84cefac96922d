---------------------------- MODULE MCDhcpClient ----------------------------
(***************************************************************************)
(* DhcpClient with two servers and three kinds of Reply: a full one that   *)
(* leaves T1 and T2 to the client, one without rules that asks for unicast *)
(* and whose lease ends before its T1, and one that is granted for ever.   *)
(***************************************************************************)
EXTENDS DhcpClient

CONSTANTS s1, s2, p1, p2, r1

MCServer == {s1, s2}

MCOffer ==
    {[prefix |-> p1, rules |-> r1, t1 |-> 0, t2 |-> 0, valid |-> 3, unicast |-> None],
     [prefix |-> p2, rules |-> NoRules, t1 |-> 2, t2 |-> 2, valid |-> 1, unicast |-> s1],
     [prefix |-> p2, rules |-> r1, t1 |-> 0, t2 |-> 0, valid |-> Infinity, unicast |-> None]}
=============================================================================
