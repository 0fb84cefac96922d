---------------------------- MODULE MCLifecycle ----------------------------
(***************************************************************************)
(* Instances of Lifecycle for TLC.  The rules are chosen so that a change  *)
(* of the rule list or the prefix drives apply_if_ready into each of its   *)
(* branches: br2rule differs from base in the border relay only (tunnel    *)
(* re-creation), wide in the port parameters and covers one prefix only    *)
(* (full reset; the list falls through to its second rule), and empty has  *)
(* no port ranges, so that each apply of it fails at its last step.        *)
(***************************************************************************)
EXTENDS Lifecycle

MCPrefix == {"p56a", "p56b", "p60"}
MCPrefix2 == {"p56a", "p56b"}
MCRule == {"base", "br2rule", "wide", "empty"}
MCRuleLists == {<<>>, <<"base">>, <<"br2rule">>, <<"wide", "base">>, <<"empty">>}
MCPortParams == {"a4k8", "a6k8", "a8k8"}

MCDerived ==
    [r \in MCRule |-> [p \in MCPrefix |->
        IF r = "wide" /\ p # "p56a" THEN None
        ELSE [ipv4        |-> IF p = "p56b" THEN "ipv4b" ELSE "ipv4a",
              psid        |-> IF p = "p60" THEN 2 ELSE 1,
              br_address  |-> IF r = "br2rule" THEN "br2" ELSE "br1",
              port_params |-> CASE r = "wide"  -> "a6k8"
                                [] r = "empty" -> "a8k8"
                                [] OTHER       -> "a4k8"]]]

\* The same over the smaller prefix set.
MCDerived2 == [r \in MCRule |-> [p \in MCPrefix2 |-> MCDerived[r][p]]]

MCIpv4 == {"ipv4a", "ipv4b"}
MCAdminForward == [v4 |-> "0", v6 |-> "0"]

MCStatic == <<"base">>

=============================================================================
