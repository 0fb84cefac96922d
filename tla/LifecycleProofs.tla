-------------------------- MODULE LifecycleProofs --------------------------
(***************************************************************************)
(* Theorems of Lifecycle, for every set of prefixes, rules and parameters, *)
(* any number of failing calls and any number of crashes.                  *)
(***************************************************************************)
EXTENDS Lifecycle, TLAPS, WellFoundedInduction

-----------------------------------------------------------------------------
(* Data *)

\* A non-empty set of naturals has a least element: the loop of try_compute over
\* the rule list stops at a definite rule.
LEMMA LeastElement ==
    ASSUME NEW S \in SUBSET Nat, S # {}
    PROVE  \E i \in S : \A j \in S : i <= j
<1> DEFINE R == {ss \in Nat \X Nat : ss[1] < ss[2]}
<1>1. IsWellFoundedOn(R, Nat)
  BY NatLessThanWellFounded DEF OpToRel
<1> HIDE DEF R
<1>2. \E i \in S : \A j \in S : ~(<<j, i>> \in R)
  BY <1>1, WFMin
<1>3. PICK i \in S : \A j \in S : ~(<<j, i>> \in R)
  BY <1>2
<1>4. ASSUME NEW j \in S PROVE i <= j
  <2>1. i \in Nat /\ j \in Nat
    OBVIOUS
  <2>2. <<j, i>> \notin R
    BY <1>3
  <2>3. j < i => <<j, i>> \in R
    BY <2>1 DEF R
  <2>4. QED BY <2>1, <2>2, <2>3
<1>5. QED BY <1>4

\* The address determines the shared IPv4 address and the PSID.
WellFormed(p) == p.ce_ipv6[2] = p.ipv4 /\ p.ce_ipv6[3] = p.psid

\* compute_mape_params yields well-formed parameters.
LEMMA ComputeType ==
    ASSUME NEW r \in Rule, NEW prefix \in Prefix, Derived[r][prefix] # None
    PROVE  /\ compute_mape_params(r, prefix) \in MapeParams
           /\ WellFormed(compute_mape_params(r, prefix))
<1>1. Derived[r][prefix] \in Derivation
  BY ConstantsTyped
<1>2. QED
  BY <1>1 DEF compute_mape_params, build_ce_ipv6, MapeParams, Derivation, CeIpv6, WellFormed

\* try_compute yields well-formed parameters or nothing.
LEMMA TryComputeType ==
    ASSUME NEW rules \in RuleLists \cup {None}, NEW prefix \in Prefix \cup {None},
           try_compute(rules, prefix) # None
    PROVE  /\ try_compute(rules, prefix) \in MapeParams
           /\ WellFormed(try_compute(rules, prefix))
<1> DEFINE usable == {i \in 1..Len(rules) : Derived[rules[i]][prefix] # None}
           least  == CHOOSE i \in usable : \A j \in usable : i <= j
<1>1. rules # None /\ prefix # None /\ usable # {}
  BY DEF try_compute
<1>2. rules \in Seq(Rule) /\ prefix \in Prefix
  BY <1>1, ConstantsTyped
<1>3. usable \in SUBSET Nat
  BY <1>2
<1>4. \E i \in usable : \A j \in usable : i <= j
  BY <1>1, <1>3, LeastElement
<1>5. least \in usable
  BY <1>4
<1>6. rules[least] \in Rule /\ Derived[rules[least]][prefix] # None
  <2>1. \A i \in usable : rules[i] \in Rule /\ Derived[rules[i]][prefix] # None
    BY <1>2
  <2> HIDE DEF usable, least
  <2>2. QED BY <1>5, <2>1
<1>7. try_compute(rules, prefix) = compute_mape_params(rules[least], prefix)
  BY <1>1 DEF try_compute
<1>8. QED
  BY <1>2, <1>6, <1>7, ComputeType

-----------------------------------------------------------------------------
(* The inductive invariant *)

ApplyLabels == {"sysctl4", "sysctl6", "ipv6", "tunnel", "ipv4", "route", "ebpf", "nft",
                "u_del", "r_unlink", "r_route", "r_link", "config"}

CleanupLabels == {"c_nft", "c_ebpf", "c_route", "c_link", "c_ipv4", "c_ipv6", "c_sysctl6",
                  "c_sysctl4"}

\* What a handler in progress works on.  The branches of update for a change of
\* the IPv4 address or of the ports alone ("v4", "nft") never run.
JobInv ==
    /\ pc \in ApplyLabels => /\ job.op \in {"apply", "ce", "br"}
                             /\ job.new \in MapeParams
                             /\ params = job.new
    /\ pc = "u_del" => job.op = "ce" /\ job.old \in MapeParams
    /\ pc \in CleanupLabels => /\ job.clean \in MapeParams
                               /\ params # None
                               /\ job.after \in {"apply", "drop", "exit"}
    /\ pc \in CleanupLabels /\ job.after = "apply" =>
          job.op = "apply" /\ job.new \in MapeParams /\ params = job.new

ParamsInv ==
    /\ params # None => WellFormed(params)
    /\ TunnelHasParams
    /\ pc \in {"c_ipv4", "c_ipv6", "c_sysctl6", "c_sysctl4"} => tunnel_ifindex = None
    /\ pc \in {"down", "crashed", "s_nft", "s_link"} => params = None

\* What apply and update have already put into the kernel when they get to a
\* step.  "apply" and a changed address come through "ipv6"; an update of the
\* border relay alone starts at "r_unlink" with the address in place.
Progress ==
    /\ pc \in {"r_unlink", "r_route", "r_link", "tunnel", "ipv4", "route", "ebpf", "nft",
               "config"} => job.new.ce_ipv6 \in addrs6
    /\ pc \in {"ipv4", "route", "ebpf", "nft", "config"} =>
          tnl # None /\ tnl.local = job.new.ce_ipv6 /\ tnl.remote = job.new.br_address
    /\ pc = "ipv4" => tnl.v4 = {}
    /\ pc \in {"route", "ebpf", "nft", "config"} => tnl.v4 = {job.new.ipv4}
    /\ pc \in {"ebpf", "nft", "config"} => "tunnel" \in routes
    /\ pc \in {"nft", "config"} => tnl.bpf = psid_config(job.new)
    /\ pc = "config" => nft = ruleset(job.new)

IInv == TypeOK /\ JobInv /\ ParamsInv /\ Progress /\ KernelMatchesParams

-----------------------------------------------------------------------------
(* Proofs *)

\* A step that fails hands the new parameters to cleanup and nothing else.
LEMMA AbortJob ==
    ASSUME job \in Jobs, job.new \in MapeParams, Abort
    PROVE  /\ pc' = "c_nft"
           /\ job' \in Jobs
           /\ job'.clean = job.new
           /\ job'.after = "drop"
  BY DEF Abort, Jobs

\* Editing the IPv4 addresses or the program of a tunnel leaves the rest alone.
LEMMA TunnelEdit ==
    ASSUME NEW t \in Tunnels, NEW v \in SUBSET Ipv4, NEW b \in (PortParams \X Psid) \cup {None}
    PROVE  /\ [t EXCEPT !.v4 = v] \in Tunnels
           /\ [t EXCEPT !.v4 = v].v4 = v
           /\ [t EXCEPT !.v4 = v].local = t.local
           /\ [t EXCEPT !.v4 = v].remote = t.remote
           /\ [t EXCEPT !.v4 = v].bpf = t.bpf
           /\ [t EXCEPT !.bpf = b] \in Tunnels
           /\ [t EXCEPT !.bpf = b].v4 = t.v4
           /\ [t EXCEPT !.bpf = b].local = t.local
           /\ [t EXCEPT !.bpf = b].remote = t.remote
           /\ [t EXCEPT !.bpf = b].bpf = b
  BY DEF Tunnels

\* The tunnel gets its first IPv4 address.
LEMMA AddV4 ==
    ASSUME tnl \in Tunnels, tnl.v4 = {}, NEW a \in Ipv4, tnl' = [tnl EXCEPT !.v4 = @ \cup {a}]
    PROVE  /\ tnl' \in Tunnels /\ tnl'.v4 = {a}
           /\ tnl'.local = tnl.local /\ tnl'.remote = tnl.remote
  BY DEF Tunnels

\* The tunnel gets its BPF programs.
LEMMA SetBpf ==
    ASSUME tnl \in Tunnels, NEW b \in PortParams \X Psid, tnl' = [tnl EXCEPT !.bpf = b]
    PROVE  /\ tnl' \in Tunnels /\ tnl'.bpf = b /\ tnl'.v4 = tnl.v4
           /\ tnl'.local = tnl.local /\ tnl'.remote = tnl.remote
  BY DEF Tunnels

\* The configuration for the BPF programs is a pair of port parameters and PSID.
LEMMA PsidConfigType == ASSUME NEW p \in MapeParams PROVE psid_config(p) \in PortParams \X Psid
  BY DEF psid_config, MapeParams

\* The daemon starts in the invariant.
LEMMA InitIInv == Init => IInv
  BY ConstantsTyped, NoneIsNoValue
  DEF Init, IInv, TypeOK, JobInv, ParamsInv, Progress, KernelMatchesParams, TunnelHasParams,
      NoJob, Ifindex, Manager, Jobs, Labels, Family, ApplyLabels, CleanupLabels

\* The steps of Apply keep the invariant.
LEMMA ApplyIInv == IInv /\ Apply => IInv'
<1> SUFFICES ASSUME IInv, Apply PROVE IInv'
  OBVIOUS
<1> USE ConstantsTyped, NoneIsNoValue DEF daemon, history
<1>1. CASE apply_sysctl("v4", "sysctl4", "sysctl6")
  <2> USE <1>1 DEF apply_sysctl, Goto, Fault, NoFault
  <2>1. job \in Jobs /\ job.new \in MapeParams
    BY DEF IInv, TypeOK, JobInv, ApplyLabels
  <2>2. pc' \in Labels /\ job' \in Jobs
    BY <2>1, AbortJob DEF Labels
  <2>3. job' = job \/ (pc' = "c_nft" /\ job'.clean = job.new /\ job'.after = "drop")
    BY <2>1, AbortJob
  <2>4. original_forward' \in [Family -> {"0", "1", None}]
    BY <2>1, AbortJob DEF IInv, TypeOK, Family
  <2>5. forward' \in [Family -> {"0", "1"}]
    BY <2>1, AbortJob DEF IInv, TypeOK, Family
  <2>6. faults' \in 0..MaxFaults
    BY <2>1, AbortJob DEF IInv, TypeOK
  <2>7. TypeOK'
    BY <2>2, <2>4, <2>5, <2>6, Zenon DEF IInv, TypeOK
  <2>8. JobInv'
    BY <2>1, <2>2, <2>3, AbortJob DEF IInv, TypeOK, JobInv, Jobs, ApplyLabels, CleanupLabels
  <2>9. ParamsInv'
    BY <2>1, <2>2, <2>3, AbortJob DEF IInv, ParamsInv, TunnelHasParams, JobInv, ApplyLabels, CleanupLabels
  <2>10. Progress'
    BY <2>1, <2>2, <2>3, AbortJob DEF IInv, TypeOK, Progress, JobInv, ApplyLabels, CleanupLabels, Tunnels, MapeParams, psid_config, ruleset
  <2>11. KernelMatchesParams'
    BY <2>1, <2>2, <2>3, AbortJob DEF IInv, TypeOK, KernelMatchesParams, Carries, Progress, ParamsInv, JobInv, ApplyLabels, CleanupLabels, Tunnels, psid_config, ruleset, Labels
  <2>12. QED BY <2>7, <2>8, <2>9, <2>10, <2>11 DEF IInv
<1>2. CASE apply_sysctl("v6", "sysctl6", "ipv6")
  <2> USE <1>2 DEF apply_sysctl, Goto, Fault, NoFault
  <2>1. job \in Jobs /\ job.new \in MapeParams
    BY DEF IInv, TypeOK, JobInv, ApplyLabels
  <2>2. pc' \in Labels /\ job' \in Jobs
    BY <2>1, AbortJob DEF Labels
  <2>3. job' = job \/ (pc' = "c_nft" /\ job'.clean = job.new /\ job'.after = "drop")
    BY <2>1, AbortJob
  <2>4. original_forward' \in [Family -> {"0", "1", None}]
    BY <2>1, AbortJob DEF IInv, TypeOK, Family
  <2>5. forward' \in [Family -> {"0", "1"}]
    BY <2>1, AbortJob DEF IInv, TypeOK, Family
  <2>6. faults' \in 0..MaxFaults
    BY <2>1, AbortJob DEF IInv, TypeOK
  <2>7. TypeOK'
    BY <2>2, <2>4, <2>5, <2>6, Zenon DEF IInv, TypeOK
  <2>8. JobInv'
    BY <2>1, <2>2, <2>3, AbortJob DEF IInv, TypeOK, JobInv, Jobs, ApplyLabels, CleanupLabels
  <2>9. ParamsInv'
    BY <2>1, <2>2, <2>3, AbortJob DEF IInv, ParamsInv, TunnelHasParams, JobInv, ApplyLabels, CleanupLabels
  <2>10. Progress'
    BY <2>1, <2>2, <2>3, AbortJob DEF IInv, TypeOK, Progress, JobInv, ApplyLabels, CleanupLabels, Tunnels, MapeParams, psid_config, ruleset
  <2>11. KernelMatchesParams'
    BY <2>1, <2>2, <2>3, AbortJob DEF IInv, TypeOK, KernelMatchesParams, Carries, Progress, ParamsInv, JobInv, ApplyLabels, CleanupLabels, Tunnels, psid_config, ruleset, Labels
  <2>12. QED BY <2>7, <2>8, <2>9, <2>10, <2>11 DEF IInv
<1>3. CASE apply_step2_add_ipv6
  <2> USE <1>3 DEF apply_step2_add_ipv6, Goto, Fault, NoFault
  <2>1. job \in Jobs /\ job.new \in MapeParams
    BY DEF IInv, TypeOK, JobInv, ApplyLabels
  <2>2. pc' \in Labels /\ job' \in Jobs
    BY <2>1, AbortJob DEF Labels
  <2>3. job' = job \/ (pc' = "c_nft" /\ job'.clean = job.new /\ job'.after = "drop")
    BY <2>1, AbortJob
  <2>4. addrs6' \in SUBSET CeIpv6
    BY <2>1, AbortJob DEF IInv, TypeOK, JobInv, ApplyLabels, CleanupLabels, MapeParams
  <2>5. faults' \in 0..MaxFaults
    BY <2>1, AbortJob DEF IInv, TypeOK
  <2>6. TypeOK'
    BY <2>2, <2>4, <2>5, Zenon DEF IInv, TypeOK
  <2>7. JobInv'
    BY <2>1, <2>2, <2>3, AbortJob DEF IInv, TypeOK, JobInv, Jobs, ApplyLabels, CleanupLabels
  <2>8. ParamsInv'
    BY <2>1, <2>2, <2>3, AbortJob DEF IInv, ParamsInv, TunnelHasParams, JobInv, ApplyLabels, CleanupLabels
  <2>9. Progress'
    BY <2>1, <2>2, <2>3, AbortJob DEF IInv, TypeOK, Progress, JobInv, ApplyLabels, CleanupLabels, Tunnels, MapeParams, psid_config, ruleset
  <2>10. KernelMatchesParams'
    BY <2>1, <2>2, <2>3, AbortJob DEF IInv, TypeOK, KernelMatchesParams, Carries, Progress, ParamsInv, JobInv, ApplyLabels, CleanupLabels, Tunnels, psid_config, ruleset, Labels
  <2>11. QED BY <2>6, <2>7, <2>8, <2>9, <2>10 DEF IInv
<1>4. CASE apply_step3_create_tunnel
  <2> USE <1>4 DEF apply_step3_create_tunnel, Goto, Fault, NoFault
  <2>1. job \in Jobs /\ job.new \in MapeParams
    BY DEF IInv, TypeOK, JobInv, ApplyLabels
  <2>2. pc' \in Labels /\ job' \in Jobs
    BY <2>1, AbortJob DEF Labels
  <2>3. job' = job \/ (pc' = "c_nft" /\ job'.clean = job.new /\ job'.after = "drop")
    BY <2>1, AbortJob
  <2>4. tnl' \in Tunnels \cup {None}
    BY <2>1, AbortJob DEF IInv, TypeOK, JobInv, Progress, ApplyLabels, CleanupLabels, MapeParams, Tunnels, psid_config
  <2>5. tunnel_ifindex' \in {Ifindex, None}
    BY <2>1, AbortJob DEF IInv, TypeOK
  <2>6. warned' \in SUBSET {"nft", "link", "half", "ipv6", "v4", "v6"}
    BY <2>1, AbortJob DEF IInv, TypeOK
  <2>7. faults' \in 0..MaxFaults
    BY <2>1, AbortJob DEF IInv, TypeOK
  <2>8. TypeOK'
    BY <2>2, <2>4, <2>5, <2>6, <2>7, Zenon DEF IInv, TypeOK
  <2>9. JobInv'
    BY <2>1, <2>2, <2>3, AbortJob DEF IInv, TypeOK, JobInv, Jobs, ApplyLabels, CleanupLabels
  <2>10. ParamsInv'
    BY <2>1, <2>2, <2>3, AbortJob DEF IInv, ParamsInv, TunnelHasParams, JobInv, ApplyLabels, CleanupLabels
  <2>11. Progress'
    BY <2>1, <2>2, <2>3, AbortJob, TunnelEdit, PsidConfigType DEF IInv, TypeOK, Progress, JobInv, ApplyLabels, CleanupLabels, Tunnels, MapeParams, psid_config, ruleset
  <2>12. KernelMatchesParams'
    BY <2>1, <2>2, <2>3, AbortJob, TunnelEdit, PsidConfigType DEF IInv, TypeOK, KernelMatchesParams, Carries, Progress, ParamsInv, JobInv, ApplyLabels, CleanupLabels, Tunnels, psid_config, ruleset, Labels
  <2>13. QED BY <2>8, <2>9, <2>10, <2>11, <2>12 DEF IInv
<1>5. CASE add_ipv4_addr
  <2> USE <1>5 DEF add_ipv4_addr, Goto, Fault, NoFault
  <2>1. job \in Jobs /\ job.new \in MapeParams
    BY DEF IInv, TypeOK, JobInv, ApplyLabels
  <2>2. pc' \in Labels /\ job' \in Jobs
    BY <2>1, AbortJob DEF Labels
  <2>3. job' = job \/ (pc' = "c_nft" /\ job'.clean = job.new /\ job'.after = "drop")
    BY <2>1, AbortJob
  <2>4. tnl \in Tunnels /\ tnl.v4 = {} /\ job.new.ipv4 \in Ipv4
    BY <2>1 DEF IInv, TypeOK, Progress, MapeParams
  <2>5. tnl' = tnl \/ tnl' = [tnl EXCEPT !.v4 = @ \cup {job.new.ipv4}]
    OBVIOUS
  <2>6. tnl' = tnl \/ (/\ tnl' \in Tunnels /\ tnl'.v4 = {job.new.ipv4}
                      /\ tnl'.local = tnl.local /\ tnl'.remote = tnl.remote)
    BY <2>4, <2>5, AddV4
  <2>7. pc' = "route" => tnl'.v4 = {job.new.ipv4}
    BY <2>1, <2>4, <2>6, AbortJob, AddV4
  <2>8. tnl' \in Tunnels \cup {None}
    BY <2>4, <2>5, <2>6, <2>7 DEF IInv, TypeOK
  <2>9. faults' \in 0..MaxFaults
    BY <2>1, AbortJob DEF IInv, TypeOK
  <2>10. TypeOK'
    BY <2>2, <2>8, <2>9, Zenon DEF IInv, TypeOK
  <2>11. JobInv'
    BY <2>1, <2>2, <2>3, AbortJob DEF IInv, TypeOK, JobInv, Jobs, ApplyLabels, CleanupLabels
  <2>12. ParamsInv'
    BY <2>1, <2>2, <2>3, AbortJob DEF IInv, ParamsInv, TunnelHasParams, JobInv, ApplyLabels, CleanupLabels
  <2>13. Progress'
    <3>1. pc' \in {"c_nft", "route"}
      BY <2>1, AbortJob
    <3>2. CASE pc' = "c_nft"
      BY <3>2 DEF Progress
    <3>3. CASE pc' = "route"
      <4>1. job' = job /\ addrs6' = addrs6
        BY <2>3, <3>3
      <4>2. tnl' \in Tunnels /\ tnl'.local = tnl.local /\ tnl'.remote = tnl.remote
        BY <2>4, <2>6
      <4>3. QED BY <2>7, <3>3, <4>1, <4>2 DEF IInv, Progress, Tunnels
    <3>4. QED BY <3>1, <3>2, <3>3
  <2>14. KernelMatchesParams'
    BY <2>1, <2>2, <2>3, AbortJob, <2>4, <2>5, <2>6, <2>7 DEF IInv, TypeOK, KernelMatchesParams, Carries, Progress, ParamsInv, JobInv, ApplyLabels, CleanupLabels, psid_config, ruleset, Labels
  <2>15. QED BY <2>10, <2>11, <2>12, <2>13, <2>14 DEF IInv
<1>6. CASE add_ipv4_default_route
  <2> USE <1>6 DEF add_ipv4_default_route, Goto, Fault, NoFault
  <2>1. job \in Jobs /\ job.new \in MapeParams
    BY DEF IInv, TypeOK, JobInv, ApplyLabels
  <2>2. pc' \in Labels /\ job' \in Jobs
    BY <2>1, AbortJob DEF Labels
  <2>3. job' = job \/ (pc' = "c_nft" /\ job'.clean = job.new /\ job'.after = "drop")
    BY <2>1, AbortJob
  <2>4. routes' \in SUBSET {"wan", "tunnel"}
    BY <2>1, AbortJob DEF IInv, TypeOK
  <2>5. faults' \in 0..MaxFaults
    BY <2>1, AbortJob DEF IInv, TypeOK
  <2>6. TypeOK'
    BY <2>2, <2>4, <2>5, Zenon DEF IInv, TypeOK
  <2>7. JobInv'
    BY <2>1, <2>2, <2>3, AbortJob DEF IInv, TypeOK, JobInv, Jobs, ApplyLabels, CleanupLabels
  <2>8. ParamsInv'
    BY <2>1, <2>2, <2>3, AbortJob DEF IInv, ParamsInv, TunnelHasParams, JobInv, ApplyLabels, CleanupLabels
  <2>9. Progress'
    BY <2>1, <2>2, <2>3, AbortJob DEF IInv, TypeOK, Progress, JobInv, ApplyLabels, CleanupLabels, Tunnels, MapeParams, psid_config, ruleset
  <2>10. KernelMatchesParams'
    BY <2>1, <2>2, <2>3, AbortJob DEF IInv, TypeOK, KernelMatchesParams, Carries, Progress, ParamsInv, JobInv, ApplyLabels, CleanupLabels, Tunnels, psid_config, ruleset, Labels
  <2>11. QED BY <2>6, <2>7, <2>8, <2>9, <2>10 DEF IInv
<1>7. CASE apply_step5_5_ebpf
  <2> USE <1>7 DEF apply_step5_5_ebpf, Goto, Fault, NoFault
  <2>1. job \in Jobs /\ job.new \in MapeParams
    BY DEF IInv, TypeOK, JobInv, ApplyLabels
  <2>2. pc' \in Labels /\ job' \in Jobs
    BY <2>1, AbortJob DEF Labels
  <2>3. job' = job \/ (pc' = "c_nft" /\ job'.clean = job.new /\ job'.after = "drop")
    BY <2>1, AbortJob
  <2>4. tnl \in Tunnels /\ psid_config(job.new) \in PortParams \X Psid
    BY <2>1, PsidConfigType DEF IInv, TypeOK, Progress
  <2>5. tnl' = tnl \/ tnl' = [tnl EXCEPT !.bpf = psid_config(job.new)]
    OBVIOUS
  <2>6. tnl' = tnl \/ (/\ tnl' \in Tunnels /\ tnl'.bpf = psid_config(job.new) /\ tnl'.v4 = tnl.v4
                      /\ tnl'.local = tnl.local /\ tnl'.remote = tnl.remote)
    BY <2>4, <2>5, SetBpf
  <2>7. pc' = "nft" => tnl'.bpf = psid_config(job.new)
    BY <2>1, <2>4, <2>6, AbortJob, SetBpf
  <2>8. tnl' \in Tunnels \cup {None}
    BY <2>4, <2>5, <2>6, <2>7 DEF IInv, TypeOK
  <2>9. ebpf' \in {Manager, None}
    BY <2>1, AbortJob DEF IInv, TypeOK
  <2>10. faults' \in 0..MaxFaults
    BY <2>1, AbortJob DEF IInv, TypeOK
  <2>11. TypeOK'
    BY <2>2, <2>8, <2>9, <2>10, Zenon DEF IInv, TypeOK
  <2>12. JobInv'
    BY <2>1, <2>2, <2>3, AbortJob DEF IInv, TypeOK, JobInv, Jobs, ApplyLabels, CleanupLabels
  <2>13. ParamsInv'
    BY <2>1, <2>2, <2>3, AbortJob DEF IInv, ParamsInv, TunnelHasParams, JobInv, ApplyLabels, CleanupLabels
  <2>14. Progress'
    <3>1. pc' \in {"c_nft", "nft"}
      BY <2>1, AbortJob
    <3>2. CASE pc' = "c_nft"
      BY <3>2 DEF Progress
    <3>3. CASE pc' = "nft"
      <4>1. job' = job /\ addrs6' = addrs6 /\ routes' = routes
        BY <2>3, <3>3
      <4>2. tnl' \in Tunnels /\ tnl'.v4 = tnl.v4 /\ tnl'.local = tnl.local /\ tnl'.remote = tnl.remote
        BY <2>4, <2>6
      <4>3. QED BY <2>7, <3>3, <4>1, <4>2 DEF IInv, Progress, Tunnels
    <3>4. QED BY <3>1, <3>2, <3>3
  <2>15. KernelMatchesParams'
    BY <2>1, <2>2, <2>3, AbortJob, <2>4, <2>5, <2>6, <2>7 DEF IInv, TypeOK, KernelMatchesParams, Carries, Progress, ParamsInv, JobInv, ApplyLabels, CleanupLabels, psid_config, ruleset, Labels
  <2>16. QED BY <2>11, <2>12, <2>13, <2>14, <2>15 DEF IInv
<1>8. CASE apply_step6_nftables
  <2> USE <1>8 DEF apply_step6_nftables, Goto, Fault, NoFault
  <2>1. job \in Jobs /\ job.new \in MapeParams
    BY DEF IInv, TypeOK, JobInv, ApplyLabels
  <2>2. pc' \in Labels /\ job' \in Jobs
    BY <2>1, AbortJob DEF Labels
  <2>3. job' = job \/ (pc' = "c_nft" /\ job'.clean = job.new /\ job'.after = "drop")
    BY <2>1, AbortJob
  <2>4. nft' \in (Br \X PortParams \X Psid) \cup {None}
    BY <2>1, AbortJob DEF IInv, TypeOK, JobInv, ApplyLabels, MapeParams, ruleset
  <2>5. warned' \in SUBSET {"nft", "link", "half", "ipv6", "v4", "v6"}
    BY <2>1, AbortJob DEF IInv, TypeOK
  <2>6. faults' \in 0..MaxFaults
    BY <2>1, AbortJob DEF IInv, TypeOK
  <2>7. TypeOK'
    BY <2>2, <2>4, <2>5, <2>6, Zenon DEF IInv, TypeOK
  <2>8. JobInv'
    BY <2>1, <2>2, <2>3, AbortJob DEF IInv, TypeOK, JobInv, Jobs, ApplyLabels, CleanupLabels
  <2>9. ParamsInv'
    BY <2>1, <2>2, <2>3, AbortJob DEF IInv, ParamsInv, TunnelHasParams, JobInv, ApplyLabels, CleanupLabels
  <2>10. Progress'
    BY <2>1, <2>2, <2>3, AbortJob DEF IInv, TypeOK, Progress, JobInv, ApplyLabels, CleanupLabels, Tunnels, MapeParams, psid_config, ruleset
  <2>11. KernelMatchesParams'
    BY <2>1, <2>2, <2>3, AbortJob DEF IInv, TypeOK, KernelMatchesParams, Carries, Progress, ParamsInv, JobInv, ApplyLabels, CleanupLabels, Tunnels, psid_config, ruleset, Labels
  <2>12. QED BY <2>7, <2>8, <2>9, <2>10, <2>11 DEF IInv
<1>9. QED BY <1>1, <1>2, <1>3, <1>4, <1>5, <1>6, <1>7, <1>8 DEF Apply

\* The steps of Update keep the invariant.
LEMMA UpdateIInv == IInv /\ Update => IInv'
<1> SUFFICES ASSUME IInv, Update PROVE IInv'
  OBVIOUS
<1> USE ConstantsTyped, NoneIsNoValue DEF daemon, history
<1>1. CASE update_del_old
  <2> USE <1>1 DEF update_del_old, Goto, Fault, NoFault
  <2>1. job \in Jobs /\ job.new \in MapeParams
    BY DEF IInv, TypeOK, JobInv, ApplyLabels
  <2>2. pc' \in Labels /\ job' \in Jobs
    BY <2>1, AbortJob DEF Labels
  <2>3. job' = job \/ (pc' = "c_nft" /\ job'.clean = job.new /\ job'.after = "drop")
    BY <2>1, AbortJob
  <2>4. addrs6' \in SUBSET CeIpv6
    BY <2>1, AbortJob DEF IInv, TypeOK, JobInv, ApplyLabels, CleanupLabels, MapeParams
  <2>5. tnl' \in Tunnels \cup {None}
    BY <2>1, AbortJob, TunnelEdit, PsidConfigType DEF IInv, TypeOK, JobInv, Progress, ApplyLabels, CleanupLabels, MapeParams
  <2>6. kept6' \in SUBSET CeIpv6
    BY <2>1, AbortJob DEF IInv, TypeOK, JobInv, ApplyLabels, CleanupLabels, MapeParams
  <2>7. warned' \in SUBSET {"nft", "link", "half", "ipv6", "v4", "v6"}
    BY <2>1, AbortJob DEF IInv, TypeOK
  <2>8. faults' \in 0..MaxFaults
    BY <2>1, AbortJob DEF IInv, TypeOK
  <2>9. TypeOK'
    BY <2>2, <2>4, <2>5, <2>6, <2>7, <2>8, Zenon DEF IInv, TypeOK
  <2>10. JobInv'
    BY <2>1, <2>2, <2>3, AbortJob DEF IInv, TypeOK, JobInv, Jobs, ApplyLabels, CleanupLabels
  <2>11. ParamsInv'
    BY <2>1, <2>2, <2>3, AbortJob DEF IInv, ParamsInv, TunnelHasParams, JobInv, ApplyLabels, CleanupLabels
  <2>12. Progress'
    BY <2>1, <2>2, <2>3, AbortJob, TunnelEdit, PsidConfigType DEF IInv, TypeOK, Progress, JobInv, ApplyLabels, CleanupLabels, MapeParams, psid_config, ruleset
  <2>13. KernelMatchesParams'
    BY <2>1, <2>2, <2>3, AbortJob, TunnelEdit, PsidConfigType DEF IInv, TypeOK, KernelMatchesParams, Carries, Progress, ParamsInv, JobInv, ApplyLabels, CleanupLabels, psid_config, ruleset, Labels
  <2>14. QED BY <2>9, <2>10, <2>11, <2>12, <2>13 DEF IInv
<1>2. CASE UnlinkTc("r_unlink", "r_route")
  <2> USE <1>2 DEF UnlinkTc, Goto, Fault, NoFault
  <2>1. tnl # None => [tnl EXCEPT !.bpf = None] \in Tunnels
    BY TunnelEdit DEF IInv, TypeOK
  <2>2. tnl' \in Tunnels \cup {None}
    BY <2>1 DEF IInv, TypeOK
  <2>3. ebpf' \in {Manager, None}
    BY DEF IInv, TypeOK
  <2>4. faults' \in 0..MaxFaults
    BY DEF IInv, TypeOK
  <2>5. pc' \in Labels
    BY DEF IInv, TypeOK, Labels
  <2>6. TypeOK'
    BY <2>2, <2>3, <2>4, <2>5, Zenon DEF IInv, TypeOK
  <2>7. JobInv'
    BY DEF IInv, TypeOK, JobInv, Jobs, ApplyLabels, CleanupLabels
  <2>8. ParamsInv'
    BY DEF IInv, ParamsInv, TunnelHasParams, JobInv, ApplyLabels, CleanupLabels
  <2>9. Progress'
    BY <2>1 DEF IInv, TypeOK, Progress, JobInv, ApplyLabels, CleanupLabels, MapeParams, psid_config, ruleset
  <2>10. KernelMatchesParams'
    BY <2>1 DEF IInv, TypeOK, KernelMatchesParams, Carries, Progress, ParamsInv, JobInv, ApplyLabels, CleanupLabels, psid_config, ruleset, Labels
  <2>11. QED BY <2>6, <2>7, <2>8, <2>9, <2>10 DEF IInv
<1>3. CASE DelRoute("r_route", "r_link")
  <2> USE <1>3 DEF DelRoute, Goto, Fault, NoFault
  <2>1. routes' \in SUBSET {"wan", "tunnel"}
    BY DEF IInv, TypeOK
  <2>2. faults' \in 0..MaxFaults
    BY DEF IInv, TypeOK
  <2>3. pc' \in Labels
    BY DEF IInv, TypeOK, Labels
  <2>4. TypeOK'
    BY <2>1, <2>2, <2>3, Zenon DEF IInv, TypeOK
  <2>5. JobInv'
    BY DEF IInv, TypeOK, JobInv, Jobs, ApplyLabels, CleanupLabels
  <2>6. ParamsInv'
    BY DEF IInv, ParamsInv, TunnelHasParams, JobInv, ApplyLabels, CleanupLabels
  <2>7. Progress'
    BY DEF IInv, TypeOK, Progress, JobInv, ApplyLabels, CleanupLabels, Tunnels, MapeParams, psid_config, ruleset
  <2>8. KernelMatchesParams'
    BY DEF IInv, TypeOK, KernelMatchesParams, Carries, Progress, ParamsInv, JobInv, ApplyLabels, CleanupLabels, Tunnels, psid_config, ruleset, Labels
  <2>9. QED BY <2>4, <2>5, <2>6, <2>7, <2>8 DEF IInv
<1>4. CASE recreate_delete_link
  <2> USE <1>4 DEF recreate_delete_link, DropTunnel, Goto, Fault, NoFault
  <2>1. job \in Jobs /\ job.new \in MapeParams
    BY DEF IInv, TypeOK, JobInv, ApplyLabels
  <2>2. pc' \in Labels /\ job' \in Jobs
    BY <2>1, AbortJob DEF Labels
  <2>3. job' = job \/ (pc' = "c_nft" /\ job'.clean = job.new /\ job'.after = "drop")
    BY <2>1, AbortJob
  <2>4. tnl' \in Tunnels \cup {None}
    BY <2>1, AbortJob, TunnelEdit, PsidConfigType DEF IInv, TypeOK, JobInv, Progress, ApplyLabels, CleanupLabels, MapeParams
  <2>5. routes' \in SUBSET {"wan", "tunnel"}
    BY <2>1, AbortJob DEF IInv, TypeOK
  <2>6. tunnel_ifindex' \in {Ifindex, None}
    BY <2>1, AbortJob DEF IInv, TypeOK
  <2>7. faults' \in 0..MaxFaults
    BY <2>1, AbortJob DEF IInv, TypeOK
  <2>8. TypeOK'
    BY <2>2, <2>4, <2>5, <2>6, <2>7, Zenon DEF IInv, TypeOK
  <2>9. JobInv'
    BY <2>1, <2>2, <2>3, AbortJob DEF IInv, TypeOK, JobInv, Jobs, ApplyLabels, CleanupLabels
  <2>10. ParamsInv'
    BY <2>1, <2>2, <2>3, AbortJob DEF IInv, ParamsInv, TunnelHasParams, JobInv, ApplyLabels, CleanupLabels
  <2>11. Progress'
    BY <2>1, <2>2, <2>3, AbortJob, TunnelEdit, PsidConfigType DEF IInv, TypeOK, Progress, JobInv, ApplyLabels, CleanupLabels, MapeParams, psid_config, ruleset
  <2>12. KernelMatchesParams'
    BY <2>1, <2>2, <2>3, AbortJob, TunnelEdit, PsidConfigType DEF IInv, TypeOK, KernelMatchesParams, Carries, Progress, ParamsInv, JobInv, ApplyLabels, CleanupLabels, psid_config, ruleset, Labels
  <2>13. QED BY <2>8, <2>9, <2>10, <2>11, <2>12 DEF IInv
<1>5. CASE update_config
  <2> USE <1>5 DEF update_config, Goto, Fault, NoFault
  <2>1. job.new \in MapeParams /\ tnl \in Tunnels
    BY DEF IInv, TypeOK, Progress, JobInv, ApplyLabels
  <2>2. [tnl EXCEPT !.bpf = psid_config(job.new)] = tnl
    BY <2>1 DEF IInv, TypeOK, Progress, Tunnels
  <2>3. tnl' = tnl
    BY <2>2
  <2>4. tnl' \in Tunnels \cup {None}
    BY <2>1, <2>2, <2>3 DEF IInv, TypeOK
  <2>5. faults' \in 0..MaxFaults
    BY DEF IInv, TypeOK
  <2>6. pc' \in Labels
    BY DEF IInv, TypeOK, Labels
  <2>7. TypeOK'
    BY <2>4, <2>5, <2>6, Zenon DEF IInv, TypeOK
  <2>8. JobInv'
    BY DEF IInv, TypeOK, JobInv, Jobs, ApplyLabels, CleanupLabels
  <2>9. ParamsInv'
    BY DEF IInv, ParamsInv, TunnelHasParams, JobInv, ApplyLabels, CleanupLabels
  <2>10. Progress'
    BY <2>1, <2>2, <2>3 DEF IInv, TypeOK, Progress, JobInv, ApplyLabels, CleanupLabels, Tunnels, MapeParams, psid_config, ruleset
  <2>11. KernelMatchesParams'
    BY <2>1, <2>2, <2>3 DEF IInv, TypeOK, KernelMatchesParams, Carries, Progress, ParamsInv, JobInv, ApplyLabels, CleanupLabels, Tunnels, psid_config, ruleset, Labels
  <2>12. QED BY <2>7, <2>8, <2>9, <2>10, <2>11 DEF IInv
<1>6. QED BY <1>1, <1>2, <1>3, <1>4, <1>5 DEF Update

\* The steps of Cleanup keep the invariant.
LEMMA CleanupIInv == IInv /\ Cleanup => IInv'
<1> SUFFICES ASSUME IInv, Cleanup PROVE IInv'
  OBVIOUS
<1> USE ConstantsTyped, NoneIsNoValue DEF daemon, history
<1>1. CASE DeleteTables("c_nft", "c_ebpf")
  <2> USE <1>1 DEF DeleteTables, Goto, Fault, NoFault
  <2>1. nft' \in (Br \X PortParams \X Psid) \cup {None}
    BY DEF IInv, TypeOK, JobInv, ApplyLabels, MapeParams, ruleset
  <2>2. warned' \in SUBSET {"nft", "link", "half", "ipv6", "v4", "v6"}
    BY DEF IInv, TypeOK
  <2>3. faults' \in 0..MaxFaults
    BY DEF IInv, TypeOK
  <2>4. pc' \in Labels
    BY DEF IInv, TypeOK, Labels
  <2>5. TypeOK'
    BY <2>1, <2>2, <2>3, <2>4, Zenon DEF IInv, TypeOK
  <2>6. JobInv'
    BY DEF IInv, TypeOK, JobInv, Jobs, ApplyLabels, CleanupLabels
  <2>7. ParamsInv'
    BY DEF IInv, ParamsInv, TunnelHasParams, JobInv, ApplyLabels, CleanupLabels
  <2>8. Progress'
    BY DEF IInv, TypeOK, Progress, JobInv, ApplyLabels, CleanupLabels, Tunnels, MapeParams, psid_config, ruleset
  <2>9. KernelMatchesParams'
    BY DEF IInv, TypeOK, KernelMatchesParams, Carries, Progress, ParamsInv, JobInv, ApplyLabels, CleanupLabels, Tunnels, psid_config, ruleset, Labels
  <2>10. QED BY <2>5, <2>6, <2>7, <2>8, <2>9 DEF IInv
<1>2. CASE UnlinkTc("c_ebpf", "c_route")
  <2> USE <1>2 DEF UnlinkTc, Goto, Fault, NoFault
  <2>1. tnl # None => [tnl EXCEPT !.bpf = None] \in Tunnels
    BY TunnelEdit DEF IInv, TypeOK
  <2>2. tnl' \in Tunnels \cup {None}
    BY <2>1 DEF IInv, TypeOK
  <2>3. ebpf' \in {Manager, None}
    BY DEF IInv, TypeOK
  <2>4. faults' \in 0..MaxFaults
    BY DEF IInv, TypeOK
  <2>5. pc' \in Labels
    BY DEF IInv, TypeOK, Labels
  <2>6. TypeOK'
    BY <2>2, <2>3, <2>4, <2>5, Zenon DEF IInv, TypeOK
  <2>7. JobInv'
    BY DEF IInv, TypeOK, JobInv, Jobs, ApplyLabels, CleanupLabels
  <2>8. ParamsInv'
    BY DEF IInv, ParamsInv, TunnelHasParams, JobInv, ApplyLabels, CleanupLabels
  <2>9. Progress'
    BY <2>1 DEF IInv, TypeOK, Progress, JobInv, ApplyLabels, CleanupLabels, MapeParams, psid_config, ruleset
  <2>10. KernelMatchesParams'
    BY <2>1 DEF IInv, TypeOK, KernelMatchesParams, Carries, Progress, ParamsInv, JobInv, ApplyLabels, CleanupLabels, psid_config, ruleset, Labels
  <2>11. QED BY <2>6, <2>7, <2>8, <2>9, <2>10 DEF IInv
<1>3. CASE DelRoute("c_route", "c_link")
  <2> USE <1>3 DEF DelRoute, Goto, Fault, NoFault
  <2>1. routes' \in SUBSET {"wan", "tunnel"}
    BY DEF IInv, TypeOK
  <2>2. faults' \in 0..MaxFaults
    BY DEF IInv, TypeOK
  <2>3. pc' \in Labels
    BY DEF IInv, TypeOK, Labels
  <2>4. TypeOK'
    BY <2>1, <2>2, <2>3, Zenon DEF IInv, TypeOK
  <2>5. JobInv'
    BY DEF IInv, TypeOK, JobInv, Jobs, ApplyLabels, CleanupLabels
  <2>6. ParamsInv'
    BY DEF IInv, ParamsInv, TunnelHasParams, JobInv, ApplyLabels, CleanupLabels
  <2>7. Progress'
    BY DEF IInv, TypeOK, Progress, JobInv, ApplyLabels, CleanupLabels, Tunnels, MapeParams, psid_config, ruleset
  <2>8. KernelMatchesParams'
    BY DEF IInv, TypeOK, KernelMatchesParams, Carries, Progress, ParamsInv, JobInv, ApplyLabels, CleanupLabels, Tunnels, psid_config, ruleset, Labels
  <2>9. QED BY <2>4, <2>5, <2>6, <2>7, <2>8 DEF IInv
<1>4. CASE cleanup_delete_link
  <2> USE <1>4 DEF cleanup_delete_link, DropTunnel, Goto, Fault, NoFault
  <2>1. tnl' \in Tunnels \cup {None}
    BY DEF IInv, TypeOK
  <2>2. routes' \in SUBSET {"wan", "tunnel"}
    BY DEF IInv, TypeOK
  <2>3. warned' \in SUBSET {"nft", "link", "half", "ipv6", "v4", "v6"}
    BY DEF IInv, TypeOK
  <2>4. tunnel_ifindex' \in {Ifindex, None}
    BY DEF IInv, TypeOK
  <2>5. faults' \in 0..MaxFaults
    BY DEF IInv, TypeOK
  <2>6. pc' \in Labels
    BY DEF IInv, TypeOK, Labels
  <2>7. TypeOK'
    BY <2>1, <2>2, <2>3, <2>4, <2>5, <2>6, Zenon DEF IInv, TypeOK
  <2>8. JobInv'
    BY DEF IInv, TypeOK, JobInv, Jobs, ApplyLabels, CleanupLabels
  <2>9. ParamsInv'
    BY DEF IInv, ParamsInv, TunnelHasParams, JobInv, ApplyLabels, CleanupLabels
  <2>10. Progress'
    BY DEF IInv, TypeOK, Progress, JobInv, ApplyLabels, CleanupLabels, MapeParams, psid_config, ruleset
  <2>11. KernelMatchesParams'
    BY DEF IInv, TypeOK, KernelMatchesParams, Carries, Progress, ParamsInv, JobInv, ApplyLabels, CleanupLabels, psid_config, ruleset, Labels
  <2>12. QED BY <2>7, <2>8, <2>9, <2>10, <2>11 DEF IInv
<1>5. CASE cleanup_del_ipv4_addr
  <2> USE <1>5 DEF cleanup_del_ipv4_addr, Goto, Fault, NoFault
  <2>1. tnl # None => [tnl EXCEPT !.v4 = @ \ {job.clean.ipv4}] \in Tunnels
    BY TunnelEdit DEF IInv, TypeOK, Tunnels
  <2>2. tnl' \in Tunnels \cup {None}
    BY <2>1 DEF IInv, TypeOK
  <2>3. faults' \in 0..MaxFaults
    BY DEF IInv, TypeOK
  <2>4. pc' \in Labels
    BY DEF IInv, TypeOK, Labels
  <2>5. TypeOK'
    BY <2>2, <2>3, <2>4, Zenon DEF IInv, TypeOK
  <2>6. JobInv'
    BY DEF IInv, TypeOK, JobInv, Jobs, ApplyLabels, CleanupLabels
  <2>7. ParamsInv'
    BY DEF IInv, ParamsInv, TunnelHasParams, JobInv, ApplyLabels, CleanupLabels
  <2>8. Progress'
    BY <2>1 DEF IInv, TypeOK, Progress, JobInv, ApplyLabels, CleanupLabels, MapeParams, psid_config, ruleset
  <2>9. KernelMatchesParams'
    BY <2>1 DEF IInv, TypeOK, KernelMatchesParams, Carries, Progress, ParamsInv, JobInv, ApplyLabels, CleanupLabels, psid_config, ruleset, Labels
  <2>10. QED BY <2>5, <2>6, <2>7, <2>8, <2>9 DEF IInv
<1>6. CASE cleanup_del_ipv6
  <2> USE <1>6 DEF cleanup_del_ipv6, Goto, Fault, NoFault
  <2>1. addrs6' \in SUBSET CeIpv6
    BY DEF IInv, TypeOK, JobInv, ApplyLabels, CleanupLabels, MapeParams
  <2>2. kept6' \in SUBSET CeIpv6
    BY DEF IInv, TypeOK, JobInv, ApplyLabels, CleanupLabels, MapeParams
  <2>3. warned' \in SUBSET {"nft", "link", "half", "ipv6", "v4", "v6"}
    BY DEF IInv, TypeOK
  <2>4. faults' \in 0..MaxFaults
    BY DEF IInv, TypeOK
  <2>5. pc' \in Labels
    BY DEF IInv, TypeOK, Labels
  <2>6. TypeOK'
    BY <2>1, <2>2, <2>3, <2>4, <2>5, Zenon DEF IInv, TypeOK
  <2>7. JobInv'
    BY DEF IInv, TypeOK, JobInv, Jobs, ApplyLabels, CleanupLabels
  <2>8. ParamsInv'
    BY DEF IInv, ParamsInv, TunnelHasParams, JobInv, ApplyLabels, CleanupLabels
  <2>9. Progress'
    BY DEF IInv, TypeOK, Progress, JobInv, ApplyLabels, CleanupLabels, Tunnels, MapeParams, psid_config, ruleset
  <2>10. KernelMatchesParams'
    BY DEF IInv, TypeOK, KernelMatchesParams, Carries, Progress, ParamsInv, JobInv, ApplyLabels, CleanupLabels, Tunnels, psid_config, ruleset, Labels
  <2>11. QED BY <2>6, <2>7, <2>8, <2>9, <2>10 DEF IInv
<1>7. CASE cleanup_sysctl6
  <2> USE <1>7 DEF cleanup_sysctl6, RestoreSysctl, Goto, Fault, NoFault
  <2>1. warned' = warned \/ warned' = warned \cup {"v6"}
    OBVIOUS
  <2>2. original_forward' \in [Family -> {"0", "1", None}]
    BY DEF IInv, TypeOK, Family
  <2>3. forward' \in [Family -> {"0", "1"}]
    BY DEF IInv, TypeOK, Family
  <2>4. warned' \in SUBSET {"nft", "link", "half", "ipv6", "v4", "v6"}
    <3>1. warned \in SUBSET {"nft", "link", "half", "ipv6", "v4", "v6"}
      BY DEF IInv, TypeOK
    <3>2. QED BY <2>1, <3>1
  <2>5. faults' \in 0..MaxFaults
    BY DEF IInv, TypeOK
  <2>6. pc' \in Labels
    BY DEF IInv, TypeOK, Labels
  <2>7. TypeOK'
    BY <2>2, <2>3, <2>4, <2>5, <2>6, Zenon DEF IInv, TypeOK
  <2>8. JobInv'
    BY DEF IInv, TypeOK, JobInv, Jobs, ApplyLabels, CleanupLabels
  <2>9. ParamsInv'
    BY DEF IInv, ParamsInv, TunnelHasParams, JobInv, ApplyLabels, CleanupLabels
  <2>10. Progress'
    BY <2>1 DEF IInv, TypeOK, Progress, JobInv, ApplyLabels, CleanupLabels, Tunnels, MapeParams, psid_config, ruleset
  <2>11. KernelMatchesParams'
    BY <2>1 DEF IInv, TypeOK, KernelMatchesParams, Carries, Progress, ParamsInv, JobInv, ApplyLabels, CleanupLabels, Tunnels, psid_config, ruleset, Labels
  <2>12. QED BY <2>7, <2>8, <2>9, <2>10, <2>11 DEF IInv
<1>8. CASE cleanup_sysctl4
  <2> USE <1>8 DEF cleanup_sysctl4, RestoreSysctl, Goto, Fault, NoFault
  <2>1. original_forward' \in [Family -> {"0", "1", None}]
    BY DEF IInv, TypeOK, Family
  <2>2. forward' \in [Family -> {"0", "1"}]
    BY DEF IInv, TypeOK, Family
  <2>3. warned' \in SUBSET {"nft", "link", "half", "ipv6", "v4", "v6"}
    BY DEF IInv, TypeOK
  <2>4. faults' \in 0..MaxFaults
    BY DEF IInv, TypeOK
  <2>5. pc' \in Labels
    BY DEF IInv, TypeOK, Labels
  <2>6. params' \in MapeParams \cup {None}
    BY DEF IInv, TypeOK
  <2>7. TypeOK'
    BY <2>1, <2>2, <2>3, <2>4, <2>5, <2>6, Zenon DEF IInv, TypeOK
  <2>8. JobInv'
    BY DEF IInv, TypeOK, JobInv, Jobs, ApplyLabels, CleanupLabels
  <2>9. ParamsInv'
    BY DEF IInv, ParamsInv, TunnelHasParams, JobInv, ApplyLabels, CleanupLabels
  <2>10. Progress'
    BY DEF IInv, TypeOK, Progress, JobInv, ApplyLabels, CleanupLabels, Tunnels, MapeParams, psid_config, ruleset
  <2>11. KernelMatchesParams'
    BY DEF IInv, TypeOK, KernelMatchesParams, Carries, Progress, ParamsInv, JobInv, ApplyLabels, CleanupLabels, Tunnels, psid_config, ruleset, Labels
  <2>12. QED BY <2>7, <2>8, <2>9, <2>10, <2>11 DEF IInv
<1>9. QED BY <1>1, <1>2, <1>3, <1>4, <1>5, <1>6, <1>7, <1>8 DEF Cleanup

\* The steps of Startup keep the invariant.
LEMMA StartupIInv == IInv /\ Startup => IInv'
<1> SUFFICES ASSUME IInv, Startup PROVE IInv'
  OBVIOUS
<1> USE ConstantsTyped, NoneIsNoValue DEF daemon, history
<1>1. CASE DeleteTables("s_nft", "s_link")
  <2> USE <1>1 DEF DeleteTables, Goto, Fault, NoFault
  <2>1. nft' \in (Br \X PortParams \X Psid) \cup {None}
    BY DEF IInv, TypeOK, JobInv, ApplyLabels, MapeParams, ruleset
  <2>2. warned' \in SUBSET {"nft", "link", "half", "ipv6", "v4", "v6"}
    BY DEF IInv, TypeOK
  <2>3. faults' \in 0..MaxFaults
    BY DEF IInv, TypeOK
  <2>4. pc' \in Labels
    BY DEF IInv, TypeOK, Labels
  <2>5. TypeOK'
    BY <2>1, <2>2, <2>3, <2>4, Zenon DEF IInv, TypeOK
  <2>6. JobInv'
    BY DEF IInv, TypeOK, JobInv, Jobs, ApplyLabels, CleanupLabels
  <2>7. ParamsInv'
    BY DEF IInv, ParamsInv, TunnelHasParams, JobInv, ApplyLabels, CleanupLabels
  <2>8. Progress'
    BY DEF IInv, TypeOK, Progress, JobInv, ApplyLabels, CleanupLabels, Tunnels, MapeParams, psid_config, ruleset
  <2>9. KernelMatchesParams'
    BY DEF IInv, TypeOK, KernelMatchesParams, Carries, Progress, ParamsInv, JobInv, ApplyLabels, CleanupLabels, Tunnels, psid_config, ruleset, Labels
  <2>10. QED BY <2>5, <2>6, <2>7, <2>8, <2>9 DEF IInv
<1>2. CASE startup_delete_link
  <2> USE <1>2 DEF startup_delete_link, DropTunnel, Goto, Fault, NoFault
  <2>1. tnl' \in Tunnels \cup {None}
    BY TunnelEdit, PsidConfigType DEF IInv, TypeOK, JobInv, Progress, ApplyLabels, CleanupLabels, MapeParams
  <2>2. routes' \in SUBSET {"wan", "tunnel"}
    BY DEF IInv, TypeOK
  <2>3. warned' \in SUBSET {"nft", "link", "half", "ipv6", "v4", "v6"}
    BY DEF IInv, TypeOK
  <2>4. faults' \in 0..MaxFaults
    BY DEF IInv, TypeOK
  <2>5. pc' \in Labels
    BY DEF IInv, TypeOK, Labels
  <2>6. TypeOK'
    BY <2>1, <2>2, <2>3, <2>4, <2>5, Zenon DEF IInv, TypeOK
  <2>7. JobInv'
    BY DEF IInv, TypeOK, JobInv, Jobs, ApplyLabels, CleanupLabels
  <2>8. ParamsInv'
    BY DEF IInv, ParamsInv, TunnelHasParams, JobInv, ApplyLabels, CleanupLabels
  <2>9. Progress'
    BY TunnelEdit, PsidConfigType DEF IInv, TypeOK, Progress, JobInv, ApplyLabels, CleanupLabels, MapeParams, psid_config, ruleset
  <2>10. KernelMatchesParams'
    BY TunnelEdit, PsidConfigType DEF IInv, TypeOK, KernelMatchesParams, Carries, Progress, ParamsInv, JobInv, ApplyLabels, CleanupLabels, psid_config, ruleset, Labels
  <2>11. QED BY <2>6, <2>7, <2>8, <2>9, <2>10 DEF IInv
<1>3. QED BY <1>1, <1>2 DEF Startup

\* What a handler starts with: StartApply, StartUpdate and StartCleanup make jobs.
LEMMA NewJob ==
    ASSUME NEW p \in MapeParams, NEW q \in MapeParams \cup {None}, NEW op \in {"ce", "br"},
           NEW after \in {"apply", "exit"}
    PROVE  /\ [NoJob EXCEPT !.op = "apply", !.new = p] \in Jobs
           /\ [NoJob EXCEPT !.op = op, !.old = p, !.new = q] \in Jobs
           /\ [NoJob EXCEPT !.op = "apply", !.new = q, !.clean = p, !.after = after] \in Jobs
           /\ NoJob \in Jobs
  BY DEF NoJob, Jobs

\* Two well-formed sets of parameters that differ, but not in the port
\* parameters, differ in the address or in the border relay: update is called for
\* nothing else.
LEMMA UpdateKind ==
    ASSUME NEW p \in MapeParams, NEW q \in MapeParams, WellFormed(p), WellFormed(q),
           has_changed(p, q), p.port_params = q.port_params
    PROVE  \/ UpdateOp(p, q) = "ce" /\ UpdateEntry(UpdateOp(p, q)) = "u_del"
           \/ /\ UpdateOp(p, q) = "br" /\ UpdateEntry(UpdateOp(p, q)) = "r_unlink"
              /\ p.ce_ipv6 = q.ce_ipv6
  BY DEF WellFormed, has_changed, UpdateOp, UpdateEntry

\* apply_if_ready, called by a handler, keeps the invariant.
LEMMA ApplyIfReadyIInv ==
    ASSUME IInv, pc = "idle", NEW rules \in RuleLists \cup {None}, NEW prefix \in Prefix,
           apply_if_ready(rules, prefix),
           UNCHANGED <<tunnel_ifindex, original_forward, ebpf, kernel, history, crashes>>,
           pending_map_rules' \in RuleLists \cup {None}, pending_ia_pd' \in Prefix \cup {None},
           cache' \in RuleLists \cup {None}, faults' \in 0..MaxFaults
    PROVE  IInv'
<1> DEFINE new == try_compute(rules, prefix)
<1> USE DEF kernel, history
<1>1. CASE new = None
  <2>1. UNCHANGED <<params, pc, job>>
    BY <1>1, Zenon DEF apply_if_ready
  <2>2. TypeOK'
    BY <2>1, Zenon DEF IInv, TypeOK
  <2>3. JobInv' /\ ParamsInv' /\ Progress' /\ KernelMatchesParams'
    BY <2>1, Zenon
    DEF IInv, JobInv, ParamsInv, TunnelHasParams, Progress, KernelMatchesParams, Carries
  <2>4. QED BY <2>2, <2>3 DEF IInv
<1>2. CASE new # None
  <2>1. new \in MapeParams /\ WellFormed(new)
    BY <1>2, TryComputeType
  <2> HIDE DEF new
  <2>2. params' = new
    BY <1>2 DEF apply_if_ready, new
  <2>3. new # None
    BY <1>2
  \* Whatever is started, the rest follows from the job and the label.
  <2>4. ASSUME job' \in Jobs, pc' \in Labels, JobInv', Progress', KernelMatchesParams',
               pc' \notin {"c_ipv4", "c_ipv6", "c_sysctl6", "c_sysctl4"},
               pc' \notin {"down", "crashed", "s_nft", "s_link"}
        PROVE  IInv'
    <3>1. params' \in MapeParams \cup {None}
      BY <2>1, <2>2
    <3>2. TypeOK'
      BY <2>4, <3>1, Zenon DEF IInv, TypeOK
    <3>3. ParamsInv'
      BY <2>1, <2>2, <2>3, <2>4 DEF ParamsInv, TunnelHasParams
    <3>4. QED BY <2>4, <3>2, <3>3 DEF IInv
  <2>5. CASE tunnel_ifindex = None
    <3>1. pc' = "sysctl4" /\ job' = [NoJob EXCEPT !.op = "apply", !.new = new]
      BY <1>2, <2>5 DEF apply_if_ready, StartApply, new
    <3>2. job' \in Jobs
      BY <2>1, <3>1, NewJob
    <3>3. JobInv'
      BY <2>1, <2>2, <3>1 DEF JobInv, ApplyLabels, CleanupLabels, NoJob
    <3>4. QED
      BY <2>4, <3>1, <3>2, <3>3 DEF Progress, KernelMatchesParams, Labels
  <2>6. CASE tunnel_ifindex # None
    <3>1. params # None
      BY <2>6 DEF IInv, ParamsInv, TunnelHasParams
    <3>2. params \in MapeParams /\ WellFormed(params) /\ Carries(params)
      BY <3>1 DEF IInv, TypeOK, ParamsInv, KernelMatchesParams
    <3>3. CASE ~has_changed(params, new)
      <4>1. UNCHANGED <<pc, job>>
        BY <1>2, <2>6, <3>1, <3>3 DEF apply_if_ready, new
      <4>2. new = params
        BY <2>1, <3>2, <3>3 DEF has_changed, MapeParams
      <4>3. UNCHANGED <<pc, job, params>>
        BY <2>2, <4>1, <4>2
      <4>4. JobInv' /\ Progress' /\ KernelMatchesParams'
        BY <4>3, Zenon DEF IInv, JobInv, Progress, KernelMatchesParams, Carries
      <4>5. job' \in Jobs /\ pc' \in Labels
        BY <4>3 DEF IInv, TypeOK
      <4>6. QED BY <2>4, <4>3, <4>4, <4>5
    <3>4. CASE has_changed(params, new) /\ params.port_params # new.port_params
      <4>1. /\ pc' = "c_nft"
            /\ job' = [NoJob EXCEPT !.op = "apply", !.new = new, !.clean = params, !.after = "apply"]
        BY <1>2, <2>6, <3>1, <3>4 DEF apply_if_ready, StartCleanup, new
      <4>2. job' \in Jobs
        BY <2>1, <3>2, <4>1, NewJob
      <4>3. JobInv'
        BY <2>1, <2>2, <2>3, <3>2, <4>1 DEF JobInv, ApplyLabels, CleanupLabels, NoJob
      <4>4. QED
        BY <2>4, <4>1, <4>2, <4>3 DEF Progress, KernelMatchesParams, Labels
    <3>5. CASE has_changed(params, new) /\ params.port_params = new.port_params
      <4> DEFINE op == UpdateOp(params, new)
      <4>1. /\ pc' = UpdateEntry(op)
            /\ job' = [NoJob EXCEPT !.op = op, !.old = params, !.new = new]
        BY <1>2, <2>6, <3>1, <3>5 DEF apply_if_ready, StartUpdate, new
      <4>2. \/ op = "ce" /\ UpdateEntry(op) = "u_del"
            \/ op = "br" /\ UpdateEntry(op) = "r_unlink" /\ params.ce_ipv6 = new.ce_ipv6
        BY <2>1, <3>2, <3>5, UpdateKind
      <4> HIDE DEF op
      <4>3. job' \in Jobs
        BY <2>1, <3>2, <4>1, <4>2, NewJob
      <4>4. JobInv'
        BY <2>1, <2>2, <3>2, <4>1, <4>2 DEF JobInv, ApplyLabels, CleanupLabels, NoJob
      <4>5. Progress'
        BY <3>2, <4>1, <4>2 DEF Progress, Carries, NoJob
      <4>6. QED
        BY <2>4, <4>1, <4>2, <4>3, <4>4, <4>5 DEF KernelMatchesParams, Labels
    <3>6. QED BY <3>3, <3>4, <3>5
  <2>7. QED BY <2>5, <2>6
<1>3. QED BY <1>1, <1>2

\* Both handlers keep the invariant.
LEMMA EventIInv == IInv /\ Event => IInv'
<1> SUFFICES ASSUME IInv, Event PROVE IInv'
  OBVIOUS
<1>1. /\ pending_map_rules \in RuleLists \cup {None} /\ cache \in RuleLists \cup {None}
      /\ faults \in 0..MaxFaults
  BY DEF IInv, TypeOK
<1>2. CASE \E p \in Prefix : handle_ia_pd(p)
  <2>1. PICK p \in Prefix : handle_ia_pd(p)
    BY <1>2
  <2>2. QED
    BY <1>1, <2>1, ApplyIfReadyIInv DEF handle_ia_pd
<1>3. CASE \E rs \in RuleLists, p \in Prefix : handle_both(rs, p)
  <2>1. PICK rs \in RuleLists, p \in Prefix : handle_both(rs, p)
    BY <1>3
  <2>2. faults' \in 0..MaxFaults
    BY <1>1, <2>1, ConstantsTyped DEF handle_both, Fault, NoFault
  <2>3. cache' \in RuleLists \cup {None}
    BY <1>1, <2>1 DEF handle_both
  <2>4. PICK rules \in RuleLists \cup {None} :
              pending_map_rules' = rules /\ apply_if_ready(rules, p)
    BY <1>1, <2>1 DEF handle_both
  <2>5. QED
    BY <2>1, <2>2, <2>3, <2>4, ApplyIfReadyIInv DEF handle_both
<1>4. QED BY <1>2, <1>3 DEF Event

\* An orderly stop, a start and a crash keep the invariant.
LEMMA ProcessIInv == IInv /\ (terminate \/ start_linux \/ crash) => IInv'
<1> SUFFICES ASSUME IInv, terminate \/ start_linux \/ crash PROVE IInv'
  OBVIOUS
<1> USE ConstantsTyped, NoneIsNoValue DEF daemon, kernel, history
<1>1. CASE terminate /\ params = None
  <2>1. pc' = "down" /\ UNCHANGED <<job, daemon, kernel, cache, history, faults, crashes>>
    BY <1>1 DEF terminate
  <2>2. pc' \in Labels
    BY <2>1 DEF Labels
  <2>3. TypeOK'
    BY <2>1, <2>2, Zenon DEF IInv, TypeOK
  <2>4. JobInv' /\ ParamsInv' /\ Progress' /\ KernelMatchesParams'
    BY <1>1, <2>1 DEF IInv, JobInv, ApplyLabels, CleanupLabels, ParamsInv, TunnelHasParams,
                      Progress, KernelMatchesParams
  <2>5. QED BY <2>3, <2>4 DEF IInv
<1>2. CASE terminate /\ params # None
  <2>1. /\ pc' = "c_nft"
        /\ job' = [NoJob EXCEPT !.op = "apply", !.new = None, !.clean = params, !.after = "exit"]
        /\ UNCHANGED <<daemon, kernel, cache, history, faults, crashes>>
    BY <1>2 DEF terminate, StartCleanup
  <2>2. params \in MapeParams
    BY <1>2 DEF IInv, TypeOK
  <2>3. job' \in Jobs /\ job'.clean = params /\ job'.after = "exit"
    BY <2>1, <2>2, NewJob DEF NoJob
  <2>4. pc' \in Labels
    BY <2>1 DEF Labels
  <2>5. TypeOK'
    BY <2>1, <2>3, <2>4, Zenon DEF IInv, TypeOK
  <2>6. JobInv'
    BY <1>2, <2>1, <2>2, <2>3 DEF JobInv, ApplyLabels, CleanupLabels
  <2>7. ParamsInv' /\ Progress' /\ KernelMatchesParams'
    BY <2>1 DEF IInv, ParamsInv, TunnelHasParams, Progress, KernelMatchesParams
  <2>8. QED BY <2>5, <2>6, <2>7 DEF IInv
<1>3. CASE start_linux
  <2> USE <1>3 DEF start_linux
  <2>1. pending_map_rules' \in RuleLists \cup {None}
    BY DEF IInv, TypeOK
  <2>2. job' \in Jobs /\ pc' \in Labels
    BY DEF NoJob, Jobs, Labels
  <2>3. original_forward' \in [Family -> {"0", "1", None}]
    OBVIOUS
  <2>4. TypeOK'
    BY <2>1, <2>2, <2>3, Zenon DEF IInv, TypeOK
  <2>5. JobInv' /\ ParamsInv' /\ Progress' /\ KernelMatchesParams'
    BY DEF JobInv, ApplyLabels, CleanupLabels, ParamsInv, TunnelHasParams, Progress,
           KernelMatchesParams
  <2>6. QED BY <2>4, <2>5 DEF IInv
<1>4. CASE crash
  <2> USE <1>4 DEF crash
  <2>1. job' \in Jobs /\ pc' \in Labels
    BY DEF NoJob, Jobs, Labels
  <2>2. original_forward' \in [Family -> {"0", "1", None}]
    OBVIOUS
  <2>3. tnl' \in Tunnels \cup {None}
    <3>1. tnl # None => [tnl EXCEPT !.bpf = None] \in Tunnels
      BY TunnelEdit DEF IInv, TypeOK
    <3>2. QED BY <3>1 DEF IInv, TypeOK
  <2>4. kept6' \in SUBSET CeIpv6
    BY DEF IInv, TypeOK
  <2>5. crashes' \in 0..MaxCrashes
    BY DEF IInv, TypeOK
  <2>6. TypeOK'
    BY <2>1, <2>2, <2>3, <2>4, <2>5, Zenon DEF IInv, TypeOK
  <2>7. JobInv' /\ ParamsInv' /\ Progress' /\ KernelMatchesParams'
    BY DEF JobInv, ApplyLabels, CleanupLabels, ParamsInv, TunnelHasParams, Progress,
           KernelMatchesParams
  <2>8. QED BY <2>6, <2>7 DEF IInv
<1>5. QED BY <1>1, <1>2, <1>3, <1>4

\* Every step of the daemon keeps the invariant.
LEMMA NextIInv == IInv /\ [Next]_vars => IInv'
<1> SUFFICES ASSUME IInv, [Next]_vars PROVE IInv'
  OBVIOUS
<1>1. CASE Next
  BY <1>1, ApplyIInv, UpdateIInv, CleanupIInv, StartupIInv, EventIInv, ProcessIInv
  DEF Next, DaemonStep
<1>2. CASE UNCHANGED vars
  <2> USE <1>2 DEF vars, daemon, kernel, history
  <2>1. TypeOK'
    BY Zenon DEF IInv, TypeOK
  <2>2. JobInv'
    BY Zenon DEF IInv, JobInv
  <2>3. ParamsInv'
    BY Zenon DEF IInv, ParamsInv, TunnelHasParams
  <2>4. Progress'
    BY ZenonT(30) DEF IInv, Progress
  <2>5. KernelMatchesParams'
    BY Zenon DEF IInv, KernelMatchesParams, Carries
  <2>6. QED BY <2>1, <2>2, <2>3, <2>4, <2>5 DEF IInv
<1>3. QED BY <1>1, <1>2

\* The inductive invariant holds in every reachable state.
LEMMA Invariance == Spec => []IInv
<1>1. QED BY InitIInv, NextIInv, PTL DEF Spec

-----------------------------------------------------------------------------
(* Theorems *)

\* The variables of the event loop, the kernel and the running handler keep the
\* types the code gives them, whichever calls fail and wherever the process dies.
THEOREM TypeCorrect == Spec => []TypeOK
<1>1. IInv => TypeOK
  BY DEF IInv
<1>2. QED BY <1>1, Invariance, PTL

\* While the event loop waits, DaemonState::params is never wrong about the
\* kernel: the address, tunnel, route, BPF program and ruleset of the parameters
\* are all there, whatever apply, update and cleanup have failed at before.
THEOREM ParamsAreTrue == Spec => []KernelMatchesParams
<1>1. IInv => KernelMatchesParams
  BY DEF IInv
<1>2. QED BY <1>1, Invariance, PTL

\* DaemonState never holds the ifindex of a tunnel without parameters: the branch
\* of apply_if_ready that expects one is dead.
THEOREM NoOrphanTunnel == Spec => []TunnelHasParams
<1>1. IInv => TunnelHasParams
  BY DEF IInv, ParamsInv
<1>2. QED BY <1>1, Invariance, PTL

-----------------------------------------------------------------------------
(* The static table *)

\* From start_linux on, the rules in force are those of the table.
StaticInv ==
    /\ UseStatic /\ pc \notin {"down", "crashed"} => pending_map_rules = StaticRules
    /\ StaticParams

\* Inside a handler, the parameters stay what they are or are forgotten.
LEMMA HandlersBringNothingIn ==
    ASSUME Apply \/ Update \/ Cleanup \/ Startup
    PROVE  /\ pending_map_rules' = pending_map_rules
           /\ params' \in {params, None}
           /\ pc \notin {"down", "crashed"}
<1> USE DEF daemon
<1>1. CASE Apply
  BY <1>1 DEF Apply, apply_sysctl, apply_step2_add_ipv6, apply_step3_create_tunnel,
              add_ipv4_addr, add_ipv4_default_route, apply_step5_5_ebpf, apply_step6_nftables
<1>2. CASE Update
  BY <1>2 DEF Update, update_del_old, UnlinkTc, DelRoute, recreate_delete_link, update_config
<1>3. CASE Cleanup
  BY <1>3 DEF Cleanup, DeleteTables, UnlinkTc, DelRoute, cleanup_delete_link,
              cleanup_del_ipv4_addr, cleanup_del_ipv6, cleanup_sysctl6, cleanup_sysctl4
<1>4. CASE Startup
  BY <1>4 DEF Startup, DeleteTables, startup_delete_link
<1>5. QED BY <1>1, <1>2, <1>3, <1>4

\* What an event computes, it computes from the table and a /56.
LEMMA StaticNext == StaticInv /\ [Next]_vars => StaticInv'
<1> SUFFICES ASSUME StaticInv, [Next]_vars PROVE StaticInv'
  OBVIOUS
<1> USE DEF StaticInv, StaticParams
<1>1. CASE Apply \/ Update \/ Cleanup \/ Startup
  BY <1>1, HandlersBringNothingIn
<1>2. CASE Event
  <2>1. PICK p \in Prefix : handle_ia_pd(p) \/ \E rules \in RuleLists : handle_both(rules, p)
    BY <1>2 DEF Event
  <2> SUFFICES ASSUME UseStatic PROVE StaticInv'
    BY <2>1, ConstantsTyped DEF handle_ia_pd, handle_both
  <2>2. p \in Prefix56 /\ pc = "idle"
    BY <2>1 DEF handle_ia_pd, handle_both, is_valid_ia_pd_for_static_rules
  <2>3. pending_map_rules = StaticRules
    BY <2>2
  <2>4. pending_map_rules' = StaticRules /\ apply_if_ready(StaticRules, p)
    BY <2>1, <2>3 DEF handle_ia_pd, handle_both
  <2>5. params' \in {params, try_compute(StaticRules, p)}
    BY <2>4 DEF apply_if_ready
  <2>6. QED BY <2>2, <2>4, <2>5
<1>3. CASE terminate
  BY <1>3 DEF terminate, daemon
<1>4. CASE start_linux
  BY <1>4 DEF start_linux
<1>5. CASE crash
  BY <1>5 DEF crash
<1>6. CASE UNCHANGED vars
  BY <1>6 DEF vars, daemon
<1>7. QED BY <1>1, <1>2, <1>3, <1>4, <1>5, <1>6 DEF Next, DaemonStep

\* With use_v6plus_static_rules, whatever rules a Reply or the cache holds and
\* whatever prefixes come, the parameters are those of the table for a /56.
THEOREM StaticTableRules == Spec => []StaticParams
<1>1. Init => StaticInv
  BY DEF Init, StaticInv, StaticParams
<1>2. StaticInv => StaticParams
  BY DEF StaticInv
<1>3. QED BY <1>1, <1>2, StaticNext, PTL DEF Spec

=============================================================================
