----------------------------- MODULE MCCapture -----------------------------
(***************************************************************************)
(* Capture with two prefixes, one list of two rules and one of a single    *)
(* rule, channels of one slot and a socket that holds one frame.            *)
(***************************************************************************)
EXTENDS Capture

CONSTANTS p1, p2, b1, b2, b3, relay1

MCPrefix == {p1, p2}

MCRule(body, k) ==
    [body |-> body, br_address |-> relay1, port_params |-> [psid_offset |-> 4, psid_length |-> k]]

MCList1 == <<MCRule(b1, 8), MCRule(b2, 6)>>
MCList2 == <<MCRule(b3, 8)>>
MCRules == {MCRule(b1, 8), MCRule(b2, 6), MCRule(b3, 8)}
MCLists == {MCList1, MCList2}

MCContents ==
    {<<>>, <<MCList1, "whole">>, <<MCList2, "whole">>,
     <<MCList1, "malformed">>, <<MCList1, "overrun">>, <<MCList2, "relayless">>}

MCHarmless ==
    LET usual == Reply(<<IAPD(<<p1>>, "Success")>>)
    IN  {[usual EXCEPT !.msg_type = "Request"], [usual EXCEPT !.msg_type = "Advertise"],
         [usual EXCEPT !.status = "NoBinding"],
         Reply(<<IAPD(<<p1>>, "NoPrefixAvail")>>), Reply(<<IAPD(<<>>, "Success")>>), Reply(<<>>)}
=============================================================================
