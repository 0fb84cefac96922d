----------------------------- MODULE MCPortMap -----------------------------
(* Instances of PortMap: all parameters at a small width, v6plus at full width. *)
EXTENDS PortMap

\* Every (a, k, psid) that is translated, and the default without PSID.
AllParams ==
    {p \in [offset : 0..Width, length : 0..Width, psid : 0 .. 2^Width - 1] :
        /\ p.offset + p.length <= Width
        /\ p.offset = 0 => p.length = 0
        /\ p.psid < 2^p.length}

\* The v6plus parameters of mapecd-common's tests.
V6Plus == {[offset |-> 4, length |-> 8, psid |-> 5]}
=============================================================================
