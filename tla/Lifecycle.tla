----------------------------- MODULE Lifecycle -----------------------------
(***************************************************************************)
(* The mapecd daemon's core: the state the event loop keeps (DaemonState), *)
(* the handlers of the two kinds of events, the three multi-step operations*)
(* of daemon/lifecycle.rs (apply, update, cleanup), the clean-up at start, *)
(* and the kernel state these operations edit.                             *)
(*                                                                         *)
(* A handler runs to completion before the loop selects the next event, but*)
(* it awaits the kernel many times on the way.  Every awaited call is one  *)
(* step here, so that packets can meet, and a crash can freeze, any        *)
(* intermediate kernel state, and so that each call can fail on its own.   *)
(***************************************************************************)
EXTENDS Integers, Sequences

CONSTANTS
    Prefix,         \* delegated IPv6 prefixes (IA_PD) the network may assign
    Prefix56,       \* those of them whose length is 56
    Rule,           \* MAP rules
    RuleLists,      \* the rule lists a Reply may carry, possibly <<>>
    Derived,        \* Derived[r][p]: what compute_mape_params yields, or None
    PortParams,     \* (PSID offset a, PSID length k) pairs, a + k <= 16
    NoPortRanges,   \* those whose port set is empty: apply_ruleset refuses
    Ipv4, Psid, Br, \* shared IPv4 addresses, port-set ids, border relays
    UseStatic,      \* config.use_v6plus_static_rules
    StaticRules,    \* V6PLUS_MAP_RULES
    AdminForward,   \* forwarding sysctls as the administrator left them
    MaxFaults,      \* bound: calls that fail for a reason outside the model
    MaxCrashes,     \* bound: abnormal terminations
    None            \* Rust's None; also "no tunnel", "no table"

Family == {"v4", "v6"}
Derivation == [ipv4 : Ipv4, psid : Psid, br_address : Br, port_params : PortParams]

ASSUME ConstantsTyped ==
    /\ Prefix56 \subseteq Prefix
    /\ RuleLists \subseteq Seq(Rule)
    /\ StaticRules \in RuleLists
    /\ Derived \in [Rule -> [Prefix -> Derivation \cup {None}]]
    /\ NoPortRanges \subseteq PortParams
    /\ UseStatic \in BOOLEAN
    /\ AdminForward \in [Family -> {"0", "1"}]
    /\ MaxFaults \in Nat
    /\ MaxCrashes \in Nat

\* The one ifindex and the one EbpfManager there can be at a time.
Ifindex == "ifindex"
Manager == "EbpfManager"

CeIpv6 == Prefix \X Ipv4 \X Psid

\* MapeParams, less port_ranges, which port_params and psid determine.
MapeParams == [ce_ipv6 : CeIpv6, ipv4 : Ipv4, psid : Psid,
               br_address : Br, port_params : PortParams]

\* What the daemon itself must be able to tell None from.
ASSUME NoneIsNoValue ==
    /\ None \notin RuleLists
    /\ None \notin Prefix
    /\ None \notin Derivation
    /\ None \notin MapeParams
    /\ None \notin {"0", "1"} \cup {Ifindex, Manager}
    /\ None \notin PortParams \X Psid
    /\ None \notin Br \X PortParams \X Psid
    /\ None \notin [local : CeIpv6, remote : Br, v4 : SUBSET Ipv4,
                    bpf : (PortParams \X Psid) \cup {None}]

VARIABLES
    \* DaemonState (daemon/state.rs)
    pending_map_rules, pending_ia_pd, params,
    tunnel_ifindex,     \* Some(ifindex of the tunnel), or None
    original_forward,   \* original_ip_forward and original_ipv6_forward
    ebpf,               \* Some(EbpfManager), or None
    \* where the running handler is, and what it works on
    pc, job,
    \* the kernel
    addrs6,             \* CE /128 addresses on the upstream interface
    tnl,                \* the ip6tnl tunnel with what hangs on it, or None
    routes,             \* IPv4 default routes, by output interface
    nft,                \* the two mapecd tables, or None
    forward,            \* the forwarding sysctls
    \* the disk
    cache,              \* rules.cache
    \* history
    warned,             \* deletions that failed, were logged and passed over
    kept6,              \* CE addresses the daemon has lost track of
    faults, crashes

daemon  == <<pending_map_rules, pending_ia_pd, params, tunnel_ifindex,
             original_forward, ebpf>>
kernel  == <<addrs6, tnl, routes, nft, forward>>
history == <<warned, kept6>>
vars    == <<daemon, pc, job, kernel, cache, history, faults, crashes>>

-----------------------------------------------------------------------------
(* Data *)

\* build_ce_ipv6: both CE formats put the prefix, the shared IPv4 address and
\* the PSID into the address, so the triple stands for it.
build_ce_ipv6(prefix, d) == <<prefix, d.ipv4, d.psid>>

compute_mape_params(r, prefix) ==
    LET d == Derived[r][prefix]
    IN  [ce_ipv6 |-> build_ce_ipv6(prefix, d), ipv4 |-> d.ipv4, psid |-> d.psid,
         br_address |-> d.br_address, port_params |-> d.port_params]

\* DaemonState::try_compute: the first rule of the list that covers the prefix
\* and computes.  None stands for Ok(false) and for Err(NoPrefixMatch), after
\* which the caller does the same: nothing.
try_compute(rules, prefix) ==
    IF rules = None \/ prefix = None THEN None
    ELSE LET usable == {i \in 1..Len(rules) : Derived[rules[i]][prefix] # None}
         IN  IF usable = {} THEN None
             ELSE LET i == CHOOSE i \in usable : \A j \in usable : i <= j
                  IN  compute_mape_params(rules[i], prefix)

\* Mutant of has_changed: the border relay is not compared.
has_changed_but_br(p, q) ==
    \/ p.ce_ipv6 # q.ce_ipv6
    \/ p.ipv4 # q.ipv4
    \/ p.psid # q.psid
    \/ p.port_params # q.port_params

has_changed(p, q) ==
    \/ p.ce_ipv6 # q.ce_ipv6
    \/ p.ipv4 # q.ipv4
    \/ p.psid # q.psid
    \/ p.br_address # q.br_address
    \/ p.port_params # q.port_params

\* What psid_config_from_params and generate_ruleset make of the parameters.
psid_config(p) == <<p.port_params, p.psid>>
ruleset(p)     == <<p.br_address, p.port_params, p.psid>>

\* Mutant of is_valid_ia_pd_for_static_rules: the length is not looked at.
any_ia_pd(prefix) == prefix \in Prefix

is_valid_ia_pd_for_static_rules(prefix) == prefix \in Prefix56

-----------------------------------------------------------------------------
(* Control *)

NoJob == [op |-> "none", old |-> None, new |-> None, clean |-> None, after |-> "none"]

Goto(label) == pc' = label /\ UNCHANGED job

\* A step of apply or update returns Err: the caller runs cleanup on the new
\* parameters and then forgets them.
Abort == /\ pc' = "c_nft"
         /\ job' = [job EXCEPT !.clean = job.new, !.after = "drop"]

Fault   == faults < MaxFaults /\ faults' = faults + 1
NoFault == UNCHANGED faults

\* The tunnel disappears, and with it its addresses, filters and routes.
DropTunnel == tnl' = None /\ routes' = routes \ {"tunnel"}

-----------------------------------------------------------------------------
(* lifecycle::apply, and the tail it shares with lifecycle::update *)

\* Step 1: read, save, write "1".
apply_sysctl(family, here, next) ==
    /\ pc = here
    /\ \/ /\ original_forward' = [original_forward EXCEPT ![family] = forward[family]]
          /\ forward' = [forward EXCEPT ![family] = "1"]
          /\ NoFault
          /\ Goto(next)
       \/ /\ Fault    \* the read fails, or the write does
          /\ original_forward' \in
                {original_forward, [original_forward EXCEPT ![family] = forward[family]]}
          /\ UNCHANGED forward
          /\ Abort
    /\ UNCHANGED <<pending_map_rules, pending_ia_pd, params, tunnel_ifindex, ebpf,
                   addrs6, tnl, routes, nft, cache, history, crashes>>

\* Step 2, and update's "new /128".  The kernel refuses an address it has.
apply_step2_add_ipv6 ==
    /\ pc = "ipv6"
    /\ \/ /\ job.new.ce_ipv6 \notin addrs6
          /\ addrs6' = addrs6 \cup {job.new.ce_ipv6}
          /\ NoFault
          /\ Goto(IF job.op = "ce" THEN "r_unlink" ELSE "tunnel")
       \/ /\ IF job.new.ce_ipv6 \in addrs6 THEN NoFault ELSE Fault
          /\ UNCHANGED addrs6
          /\ Abort
    /\ UNCHANGED <<daemon, tnl, routes, nft, forward, cache, history, crashes>>

\* Step 3: RTM_NEWLINK (refused if the name is taken), then the ifindex is
\* looked up and the link set up.  Only complete success reaches tunnel_ifindex.
apply_step3_create_tunnel ==
    LET link == [local |-> job.new.ce_ipv6, remote |-> job.new.br_address,
                 v4 |-> {}, bpf |-> None]
    IN  /\ pc = "tunnel"
        /\ \/ /\ tnl = None
              /\ tnl' = link
              /\ tunnel_ifindex' = Ifindex
              /\ NoFault
              /\ UNCHANGED warned
              /\ Goto("ipv4")
           \/ /\ tnl = None
              /\ Fault
              /\ \/ UNCHANGED <<tnl, warned>>
                 \/ tnl' = link /\ warned' = warned \cup {"half"}
              /\ UNCHANGED tunnel_ifindex
              /\ Abort
           \/ /\ tnl # None
              /\ NoFault
              /\ UNCHANGED <<tnl, warned, tunnel_ifindex>>
              /\ Abort
        /\ UNCHANGED <<pending_map_rules, pending_ia_pd, params, original_forward, ebpf,
                       addrs6, routes, nft, forward, cache, kept6, crashes>>

\* Step 4.
add_ipv4_addr ==
    /\ pc = "ipv4"
    /\ \/ /\ tnl' = [tnl EXCEPT !.v4 = @ \cup {job.new.ipv4}]
          /\ NoFault
          /\ Goto("route")
       \/ /\ Fault
          /\ UNCHANGED tnl
          /\ Abort
    /\ UNCHANGED <<daemon, addrs6, routes, nft, forward, cache, history, crashes>>

\* Step 5: every default route there is goes first.  A route that stays may or
\* may not stand in the way of the new one (they clash if the metrics agree).
add_ipv4_default_route ==
    /\ pc = "route"
    /\ \/ /\ routes' = {"tunnel"}
          /\ NoFault
          /\ Goto(IF job.op = "v4" THEN "nft" ELSE "ebpf")
       \/ /\ Fault
          /\ routes' = routes \cup {"tunnel"}
          /\ Goto(IF job.op = "v4" THEN "nft" ELSE "ebpf")
       \/ /\ Fault
          /\ routes' \in SUBSET routes
          /\ Abort
    /\ UNCHANGED <<daemon, addrs6, tnl, nft, forward, cache, history, crashes>>

\* Step 5.5: load and link.  A manager that fails on the way is dropped, and the
\* filters it has attached go with it.  psid_config_from_params itself cannot
\* fail: with a + k > 16, calc_port_ranges has not survived its shift before.
apply_step5_5_ebpf ==
    /\ pc = "ebpf"
    /\ \/ /\ tnl' = [tnl EXCEPT !.bpf = psid_config(job.new)]
          /\ ebpf' = Manager
          /\ NoFault
          /\ Goto("nft")
       \/ /\ Fault
          /\ UNCHANGED <<tnl, ebpf>>
          /\ Abort
    /\ UNCHANGED <<pending_map_rules, pending_ia_pd, params, tunnel_ifindex,
                   original_forward, addrs6, routes, nft, forward, cache, history, crashes>>

\* Step 6: one nft transaction replaces both tables.  An old table is replaced
\* as well, so a deletion that failed before no longer matters.
apply_step6_nftables ==
    /\ pc = "nft"
    /\ \/ /\ job.new.port_params \notin NoPortRanges
          /\ nft' = ruleset(job.new)
          /\ warned' = warned \ {"nft"}
          /\ NoFault
          /\ Goto(IF job.op = "apply" THEN "idle" ELSE "config")
       \/ /\ IF job.new.port_params \in NoPortRanges THEN NoFault ELSE Fault
          /\ UNCHANGED <<nft, warned>>
          /\ Abort
    /\ UNCHANGED <<daemon, addrs6, tnl, routes, forward, cache, kept6, crashes>>

-----------------------------------------------------------------------------
(* lifecycle::update *)

\* The branch update takes, and its first step.
UpdateOp(p, q) ==
    IF p.ce_ipv6 # q.ce_ipv6 THEN "ce"
    ELSE IF p.br_address # q.br_address THEN "br"
    ELSE IF p.ipv4 # q.ipv4 THEN "v4"
    ELSE "nft"

UpdateEntry(op) ==
    CASE op = "ce"  -> "u_del"
      [] op = "br"  -> "r_unlink"
      [] op = "v4"  -> "u_del"
      [] op = "nft" -> "nft"

\* The old address is deleted: the /128 if it changes (after an interface
\* lookup whose failure ends the update), else the old IPv4 address.
update_del_old ==
    /\ pc = "u_del"
    /\ \/ /\ addrs6' = IF job.op = "ce" THEN addrs6 \ {job.old.ce_ipv6} ELSE addrs6
          /\ tnl' = IF job.op = "ce" THEN tnl ELSE [tnl EXCEPT !.v4 = @ \ {job.old.ipv4}]
          /\ kept6' = IF job.op = "ce" THEN kept6 \ {job.old.ce_ipv6} ELSE kept6
          /\ NoFault
          /\ UNCHANGED warned
          /\ Goto(IF job.op = "ce" THEN "ipv6" ELSE "ipv4")
       \/ /\ Fault    \* the deletion fails: a warning
          /\ warned' = IF job.op = "ce" THEN warned \cup {"ipv6"} ELSE warned
          /\ kept6' = IF job.op = "ce" THEN kept6 \cup {job.old.ce_ipv6} ELSE kept6
          /\ UNCHANGED <<addrs6, tnl>>
          /\ Goto(IF job.op = "ce" THEN "ipv6" ELSE "ipv4")
       \/ /\ job.op = "ce"
          /\ Fault    \* get_link_index fails: Err
          /\ kept6' = kept6 \cup {job.old.ce_ipv6}
          /\ UNCHANGED <<addrs6, tnl, warned>>
          /\ Abort
    /\ UNCHANGED <<daemon, routes, nft, forward, cache, crashes>>

\* EbpfManager::unlink_tc, as recreate_tunnel_and_apply and cleanup call it.  A
\* detach that fails goes unnoticed.
UnlinkTc(here, next) ==
    /\ pc = here
    /\ \/ /\ tnl' = IF ebpf # None /\ tnl # None THEN [tnl EXCEPT !.bpf = None] ELSE tnl
          /\ NoFault
       \/ /\ ebpf # None
          /\ Fault
          /\ UNCHANGED tnl
    /\ ebpf' = None
    /\ Goto(next)
    /\ UNCHANGED <<pending_map_rules, pending_ia_pd, params, tunnel_ifindex,
                   original_forward, addrs6, routes, nft, forward, cache, history, crashes>>

\* del_ipv4_default_route_by_oif, as both call it: a failure is a warning.
DelRoute(here, next) ==
    /\ pc = here
    /\ \/ /\ routes' = IF tunnel_ifindex # None THEN routes \ {"tunnel"} ELSE routes
          /\ NoFault
       \/ /\ tunnel_ifindex # None
          /\ Fault
          /\ UNCHANGED routes
    /\ Goto(next)
    /\ UNCHANGED <<daemon, addrs6, tnl, nft, forward, cache, history, crashes>>

\* The rest of recreate_tunnel_and_apply before it rejoins apply at step 3.
recreate_delete_link ==
    /\ pc = "r_link"
    /\ \/ /\ IF tunnel_ifindex # None THEN DropTunnel ELSE UNCHANGED <<tnl, routes>>
          /\ tunnel_ifindex' = None
          /\ NoFault
          /\ Goto("tunnel")
       \/ /\ tunnel_ifindex # None
          /\ Fault
          /\ UNCHANGED <<tnl, routes, tunnel_ifindex>>
          /\ Abort
    /\ UNCHANGED <<pending_map_rules, pending_ia_pd, params, original_forward, ebpf,
                   addrs6, nft, forward, cache, history, crashes>>

\* CONFIG_MAP is rewritten; a failure is a warning.
update_config ==
    /\ pc = "config"
    /\ \/ /\ tnl' = IF ebpf # None THEN [tnl EXCEPT !.bpf = psid_config(job.new)] ELSE tnl
          /\ NoFault
       \/ /\ ebpf # None
          /\ Fault
          /\ UNCHANGED tnl
    /\ Goto("idle")
    /\ UNCHANGED <<daemon, addrs6, routes, nft, forward, cache, history, crashes>>

-----------------------------------------------------------------------------
(* lifecycle::cleanup(job.clean): every failure is a warning *)

\* delete_tables, in cleanup and at start.
DeleteTables(here, next) ==
    /\ pc = here
    /\ \/ /\ nft' = None
          /\ warned' = warned \ {"nft"}
          /\ NoFault
       \/ /\ nft # None
          /\ Fault
          /\ UNCHANGED nft
          /\ warned' = warned \cup {"nft"}
    /\ Goto(next)
    /\ UNCHANGED <<daemon, addrs6, tnl, routes, forward, cache, kept6, crashes>>

\* Mutant of cleanup_delete_link: tunnel_ifindex is kept when the deletion fails.
cleanup_delete_link_or_keep ==
    /\ pc = "c_link"
    /\ \/ /\ IF tunnel_ifindex # None THEN DropTunnel ELSE UNCHANGED <<tnl, routes>>
          /\ tunnel_ifindex' = None
          /\ NoFault
          /\ UNCHANGED warned
       \/ /\ tunnel_ifindex # None /\ tnl # None
          /\ Fault
          /\ warned' = warned \cup {"link"}
          /\ UNCHANGED <<tnl, routes, tunnel_ifindex>>
    /\ Goto(IF tunnel_ifindex # None THEN "c_ipv4" ELSE "c_ipv6")
    /\ UNCHANGED <<pending_map_rules, pending_ia_pd, params, original_forward, ebpf,
                   addrs6, nft, forward, cache, kept6, crashes>>

\* Step 3.  The daemon forgets the tunnel even if the kernel keeps it.
cleanup_delete_link ==
    /\ pc = "c_link"
    /\ \/ /\ IF tunnel_ifindex # None THEN DropTunnel ELSE UNCHANGED <<tnl, routes>>
          /\ NoFault
          /\ UNCHANGED warned
       \/ /\ tunnel_ifindex # None /\ tnl # None
          /\ Fault
          /\ warned' = warned \cup {"link"}
          /\ UNCHANGED <<tnl, routes>>
    /\ tunnel_ifindex' = None
    /\ Goto(IF tunnel_ifindex # None THEN "c_ipv4" ELSE "c_ipv6")
    /\ UNCHANGED <<pending_map_rules, pending_ia_pd, params, original_forward, ebpf,
                   addrs6, nft, forward, cache, kept6, crashes>>

\* Step 4, for the tunnel there was before step 3: if it is gone, so is the address,
\* and ENODEV is no failure.
cleanup_del_ipv4_addr ==
    /\ pc = "c_ipv4"
    /\ \/ /\ tnl' = IF tnl = None THEN None ELSE [tnl EXCEPT !.v4 = @ \ {job.clean.ipv4}]
          /\ NoFault
       \/ /\ tnl # None
          /\ Fault
          /\ UNCHANGED tnl
    /\ Goto("c_ipv6")
    /\ UNCHANGED <<daemon, addrs6, routes, nft, forward, cache, kept6, warned, crashes>>

\* Mutant of cleanup_del_ipv6: the step is missing.
cleanup_without_ipv6 ==
    /\ pc = "c_ipv6"
    /\ Goto("c_sysctl6")
    /\ UNCHANGED <<daemon, kernel, cache, history, faults, crashes>>

\* Step 5: the interface lookup or the deletion may fail.
cleanup_del_ipv6 ==
    /\ pc = "c_ipv6"
    /\ \/ /\ addrs6' = addrs6 \ {job.clean.ce_ipv6}
          /\ kept6' = kept6 \ {job.clean.ce_ipv6}
          /\ NoFault
          /\ UNCHANGED warned
       \/ /\ Fault
          /\ kept6' = kept6 \cup {job.clean.ce_ipv6}
          /\ warned' = warned \cup {"ipv6"}
          /\ UNCHANGED addrs6
    /\ Goto("c_sysctl6")
    /\ UNCHANGED <<daemon, tnl, routes, nft, forward, cache, crashes>>

\* Mutant of RestoreSysctl: what was saved is written back, saved or not.
RestoreUnsaved(family) ==
    /\ forward' = [forward EXCEPT ![family] = original_forward[family]]
    /\ original_forward' = [original_forward EXCEPT ![family] = None]
    /\ UNCHANGED <<warned, faults>>

RestoreSysctl(family) ==
    /\ \/ /\ forward' = IF original_forward[family] # None
                        THEN [forward EXCEPT ![family] = original_forward[family]]
                        ELSE forward
          /\ NoFault
          /\ UNCHANGED warned
       \/ /\ original_forward[family] # None
          /\ Fault
          /\ UNCHANGED forward
          /\ warned' = warned \cup {family}
    /\ original_forward' = [original_forward EXCEPT ![family] = None]

cleanup_sysctl6 ==
    /\ pc = "c_sysctl6"
    /\ RestoreSysctl("v6")
    /\ Goto("c_sysctl4")
    /\ UNCHANGED <<pending_map_rules, pending_ia_pd, params, tunnel_ifindex, ebpf,
                   addrs6, tnl, routes, nft, cache, kept6, crashes>>

\* Mutant of cleanup_sysctl4: apply_if_ready returns after a full reset instead of
\* applying the new parameters.
cleanup_and_forget ==
    /\ pc = "c_sysctl4"
    /\ RestoreSysctl("v4")
    /\ Goto(IF job.after = "exit" THEN "down" ELSE "idle")
    /\ params' = None
    /\ UNCHANGED <<pending_map_rules, pending_ia_pd, tunnel_ifindex, ebpf,
                   addrs6, tnl, routes, nft, cache, kept6, crashes>>

\* The last step of cleanup, and what its caller does next: apply the new
\* parameters, forget them, or return from start_linux.
cleanup_sysctl4 ==
    /\ pc = "c_sysctl4"
    /\ RestoreSysctl("v4")
    /\ \/ job.after = "apply" /\ Goto("sysctl4") /\ UNCHANGED params
       \/ job.after = "drop" /\ Goto("idle") /\ params' = None
       \/ job.after = "exit" /\ Goto("down") /\ params' = None
    /\ UNCHANGED <<pending_map_rules, pending_ia_pd, tunnel_ifindex, ebpf,
                   addrs6, tnl, routes, nft, cache, kept6, crashes>>

-----------------------------------------------------------------------------
(* daemon/runner.rs *)

StartApply(new) ==
    pc' = "sysctl4" /\ job' = [NoJob EXCEPT !.op = "apply", !.new = new]
StartUpdate(op, old, new) ==
    pc' = UpdateEntry(op) /\ job' = [NoJob EXCEPT !.op = op, !.old = old, !.new = new]

\* Mutant of StartCleanup: the full reset works on the new parameters.
StartCleanupOfNew(p, after, new) ==
    pc' = "c_nft" /\ job' = [NoJob EXCEPT !.op = "apply", !.new = new, !.after = after,
                                          !.clean = IF new # None THEN new ELSE p]

StartCleanup(p, after, new) ==
    pc' = "c_nft" /\ job' = [NoJob EXCEPT !.op = "apply", !.new = new, !.clean = p, !.after = after]

apply_if_ready(rules, prefix) ==
    LET new == try_compute(rules, prefix)
    IN  IF new = None THEN UNCHANGED <<params, pc, job>>
        ELSE /\ params' = new
             /\ IF tunnel_ifindex = None THEN StartApply(new)
                ELSE IF params = None THEN StartCleanup(new, "apply", new)
                ELSE IF ~has_changed(params, new) THEN UNCHANGED <<pc, job>>
                ELSE IF params.port_params # new.port_params
                     THEN StartCleanup(params, "apply", new)
                ELSE StartUpdate(UpdateOp(params, new), params, new)

\* IaPdReceived, and a LeaseEvent.
handle_ia_pd(prefix) ==
    /\ pc = "idle"
    /\ UseStatic => is_valid_ia_pd_for_static_rules(prefix)
    /\ pending_ia_pd' = prefix
    /\ apply_if_ready(pending_map_rules, prefix)
    /\ UNCHANGED <<pending_map_rules, tunnel_ifindex, original_forward, ebpf,
                   kernel, cache, history, faults, crashes>>

\* Both{rules, ia_pd}: unless the rules are static, they are cached (a failed
\* save is a warning; the file is replaced by a rename) and take over.
handle_both(rules, prefix) ==
    /\ pc = "idle"
    /\ UseStatic => is_valid_ia_pd_for_static_rules(prefix)
    /\ \/ /\ cache' = IF UseStatic THEN cache ELSE rules
          /\ NoFault
       \/ /\ ~UseStatic
          /\ Fault
          /\ UNCHANGED cache
    /\ LET rs == IF UseStatic THEN pending_map_rules ELSE rules
       IN  pending_map_rules' = rs /\ apply_if_ready(rs, prefix)
    /\ pending_ia_pd' = prefix
    /\ UNCHANGED <<tunnel_ifindex, original_forward, ebpf, kernel, history, crashes>>

\* SIGTERM, SIGINT: cleanup only if parameters are in force.
terminate ==
    /\ pc = "idle"
    /\ IF params # None THEN StartCleanup(params, "exit", None) ELSE pc' = "down" /\ UNCHANGED job
    /\ UNCHANGED <<daemon, kernel, cache, history, faults, crashes>>

\* start_linux up to startup_cleanup.
start_linux ==
    /\ pc \in {"down", "crashed"}
    /\ pending_map_rules' = IF UseStatic THEN StaticRules ELSE cache
    /\ pending_ia_pd' = None
    /\ params' = None
    /\ tunnel_ifindex' = None
    /\ original_forward' = [f \in Family |-> None]
    /\ ebpf' = None
    /\ pc' = "s_nft"
    /\ job' = NoJob
    /\ UNCHANGED <<kernel, cache, history, faults, crashes>>

\* The second half of startup_cleanup: ip link delete, by name.
startup_delete_link ==
    /\ pc = "s_link"
    /\ \/ /\ DropTunnel
          /\ warned' = warned \ {"link", "half"}
          /\ NoFault
       \/ /\ tnl # None
          /\ Fault
          /\ warned' = warned \cup {"link"}
          /\ UNCHANGED <<tnl, routes>>
    /\ Goto("idle")
    /\ UNCHANGED <<daemon, addrs6, nft, forward, cache, kept6, crashes>>

\* The process dies.  TCX links die with it; older TC filters stay.
crash ==
    /\ pc \notin {"down", "crashed"}
    /\ crashes < MaxCrashes
    /\ crashes' = crashes + 1
    /\ pc' = "crashed"
    /\ job' = NoJob
    /\ params' = None /\ pending_map_rules' = None /\ pending_ia_pd' = None
    /\ tunnel_ifindex' = None /\ ebpf' = None
    /\ original_forward' = [f \in Family |-> None]
    /\ tnl' \in IF tnl = None THEN {tnl} ELSE {tnl, [tnl EXCEPT !.bpf = None]}
    /\ kept6' = kept6 \cup addrs6
    /\ UNCHANGED <<addrs6, routes, nft, forward, cache, warned, faults>>

-----------------------------------------------------------------------------

Init ==
    /\ pending_map_rules = None /\ pending_ia_pd = None /\ params = None
    /\ tunnel_ifindex = None /\ ebpf = None
    /\ original_forward = [f \in Family |-> None]
    /\ pc = "down" /\ job = NoJob
    /\ addrs6 = {} /\ tnl = None /\ routes = {"wan"} /\ nft = None
    /\ forward = AdminForward
    /\ cache \in RuleLists \cup {None}
    /\ warned = {} /\ kept6 = {} /\ faults = 0 /\ crashes = 0

Apply ==
    \/ apply_sysctl("v4", "sysctl4", "sysctl6")
    \/ apply_sysctl("v6", "sysctl6", "ipv6")
    \/ apply_step2_add_ipv6
    \/ apply_step3_create_tunnel
    \/ add_ipv4_addr
    \/ add_ipv4_default_route
    \/ apply_step5_5_ebpf
    \/ apply_step6_nftables

Update ==
    \/ update_del_old
    \/ UnlinkTc("r_unlink", "r_route")
    \/ DelRoute("r_route", "r_link")
    \/ recreate_delete_link
    \/ update_config

\* Mutant of Cleanup: BPF is unlinked before the tables are deleted.
CleanupUnlinkFirst ==
    \/ UnlinkTc("c_nft", "c_ebpf")
    \/ DeleteTables("c_ebpf", "c_route")
    \/ DelRoute("c_route", "c_link")
    \/ cleanup_delete_link
    \/ cleanup_del_ipv4_addr
    \/ cleanup_del_ipv6
    \/ cleanup_sysctl6
    \/ cleanup_sysctl4

Cleanup ==
    \/ DeleteTables("c_nft", "c_ebpf")
    \/ UnlinkTc("c_ebpf", "c_route")
    \/ DelRoute("c_route", "c_link")
    \/ cleanup_delete_link
    \/ cleanup_del_ipv4_addr
    \/ cleanup_del_ipv6
    \/ cleanup_sysctl6
    \/ cleanup_sysctl4

Startup == DeleteTables("s_nft", "s_link") \/ startup_delete_link

\* What the daemon does by itself once a handler, or the start, has begun.
DaemonStep == Apply \/ Update \/ Cleanup \/ Startup

Event ==
    \/ \E p \in Prefix : handle_ia_pd(p)
    \/ \E rs \in RuleLists, p \in Prefix : handle_both(rs, p)

Next == DaemonStep \/ Event \/ terminate \/ start_linux \/ crash

Spec == Init /\ [][Next]_vars

\* Every daemon step is a step of the one task that runs the event loop; the
\* kernel and nft answer every call, so a handler that has begun goes on.  The
\* network delivers rules and prefix again and again (a lease is renewed at T1),
\* and the service manager restarts a daemon that is down.
Deliver == \E rs \in RuleLists, p \in Prefix : handle_both(rs, p)

Fairness ==
    /\ WF_vars(DaemonStep)
    /\ WF_vars(Deliver)
    /\ WF_vars(start_linux)

FairSpec == Spec /\ Fairness

-----------------------------------------------------------------------------
(* Properties *)

Labels == {"down", "crashed", "s_nft", "s_link", "idle",
           "sysctl4", "sysctl6", "ipv6", "tunnel", "ipv4", "route", "ebpf", "nft",
           "u_del", "r_unlink", "r_route", "r_link", "config",
           "c_nft", "c_ebpf", "c_route", "c_link", "c_ipv4", "c_ipv6", "c_sysctl6",
           "c_sysctl4"}

Jobs == [op : {"none", "apply", "ce", "br", "v4", "nft"},
         old : MapeParams \cup {None}, new : MapeParams \cup {None},
         clean : MapeParams \cup {None}, after : {"none", "apply", "drop", "exit"}]

Tunnels == [local : CeIpv6, remote : Br, v4 : SUBSET Ipv4,
            bpf : (PortParams \X Psid) \cup {None}]

\* The variables of DaemonState, of the kernel and of the handler in progress
\* have the types the code gives them.
TypeOK ==
    /\ pending_map_rules \in RuleLists \cup {None}
    /\ pending_ia_pd \in Prefix \cup {None}
    /\ params \in MapeParams \cup {None}
    /\ tunnel_ifindex \in {Ifindex, None}
    /\ original_forward \in [Family -> {"0", "1", None}]
    /\ ebpf \in {Manager, None}
    /\ pc \in Labels
    /\ job \in Jobs
    /\ addrs6 \in SUBSET CeIpv6
    /\ tnl \in Tunnels \cup {None}
    /\ routes \in SUBSET {"wan", "tunnel"}
    /\ nft \in (Br \X PortParams \X Psid) \cup {None}
    /\ forward \in [Family -> {"0", "1"}]
    /\ cache \in RuleLists \cup {None}
    /\ warned \in SUBSET {"nft", "link", "half", "ipv6", "v4", "v6"}
    /\ kept6 \in SUBSET CeIpv6
    /\ faults \in 0..MaxFaults
    /\ crashes \in 0..MaxCrashes

\* The kernel carries exactly the configuration of p.
Carries(p) ==
    /\ p.ce_ipv6 \in addrs6
    /\ tnl = [local |-> p.ce_ipv6, remote |-> p.br_address, v4 |-> {p.ipv4},
              bpf |-> psid_config(p)]
    /\ "tunnel" \in routes
    /\ nft = ruleset(p)

\* Whenever the event loop is waiting, DaemonState::params tells the truth: if
\* it is Some(p), the kernel carries the address, tunnel, route, BPF program and
\* ruleset of p, whatever calls have failed, been logged and passed over since.
KernelMatchesParams == pc = "idle" /\ params # None => Carries(params)

\* A tunnel the daemon holds an ifindex of always has parameters, so the branch
\* of apply_if_ready for a tunnel without parameters is never taken.
TunnelHasParams == tunnel_ifindex # None => params # None

\* After a reset (params is None while the loop waits, or an orderly stop) each
\* remnant in the kernel is accounted for: a table or tunnel by a deletion that
\* failed and was logged or by a tunnel that was created but not brought up, an
\* address by a failed deletion, a failed lookup or a crash, a sysctl by a failed
\* write or a crash, and no default route points to a tunnel that is gone.
ResidueExplained ==
    pc \in {"idle", "down"} =>
        /\ params = None =>
              /\ nft # None => "nft" \in warned
              /\ tnl # None => warned \cap {"link", "half"} # {}
              /\ addrs6 \subseteq kept6
              /\ crashes = 0 => \A f \in Family : forward[f] = AdminForward[f] \/ f \in warned
        /\ params # None => addrs6 \subseteq kept6 \cup {params.ce_ipv6}
        /\ "tunnel" \in routes => tnl # None

\* Packets leave through the tunnel with staging ports: masquerading is on, the
\* default route leads to the tunnel, and no BPF program translates.
StagingLeak ==
    /\ nft # None
    /\ tnl # None
    /\ tnl.v4 # {} /\ tnl.bpf = None
    /\ "tunnel" \in routes

\* recreate_tunnel_and_apply is between its unlink and its link, or cleanup has
\* taken over from it and the tables are still there.
Recreating == /\ job.op \in {"ce", "br"}
              /\ pc \in {"r_route", "r_link", "tunnel", "ipv4", "route", "ebpf", "c_nft"}

\* Outside a tunnel re-creation and the documented window after a crash, staging
\* ports never leave: apply links BPF before it masquerades, cleanup deletes the
\* tables before it unlinks; the one exception is a table deletion that failed.
StagingGuarded ==
    StagingLeak => \/ Recreating
                   \/ "nft" \in warned
                   \/ pc \in {"crashed", "s_nft"}

\* With static rules, neither the cache nor any event of the network can bring
\* in other rules or a prefix that is not a /56.
StaticParams ==
    UseStatic /\ params # None => \E p \in Prefix56 : params = try_compute(StaticRules, p)

\* Unless the operator keeps stopping the daemon: while Replies keep coming and
\* the faults end, the configuration gets applied again, through failed applies,
\* crashes and leftover addresses.  Only a tunnel left in the kernel without an
\* owner can stand in its way.
Recovers ==
    <>[](pc # "down") => []<>(\/ pc = "idle" /\ params # None
                              \/ warned \cap {"link", "half"} # {})

-----------------------------------------------------------------------------
(* The service behind it all *)

Phase == CASE pc \in {"down", "crashed"} -> "down"
           [] pc \in {"s_nft", "s_link"} -> "starting"
           [] pc = "idle" -> "ready"
           [] OTHER -> IF job.after = "exit" THEN "stopping" ELSE "working"

\* In service is what the kernel carries, and not merely what params says.
InService == IF pc = "idle" /\ params # None /\ Carries(params) THEN params ELSE None

Unservable(p) == p.port_params \in NoPortRanges

Service == INSTANCE CeService WITH
    Wanted      <- try_compute,
    StaticRules <- IF UseStatic THEN StaticRules ELSE None,
    phase       <- Phase,
    rules       <- pending_map_rules,
    prefix      <- pending_ia_pd,
    stored      <- cache,
    goal        <- IF Phase = "working" THEN job.new ELSE None,
    service     <- InService,
    trouble     <- faults > 0 \/ crashes > 0

\* The handlers, with all their calls and failures, implement that promise: when
\* the loop waits, the newest usable rules and prefix are in service whole, and
\* they are not only if a call has failed, the daemon has crashed, or the port set
\* is empty.
ImplementsService == Service!Spec

-----------------------------------------------------------------------------
(* What comments and the design document say, and the code does not do *)

\* "Without deleting the nftables staging rules first, staging ports leak to the
\* WAN without BPF": staging ports never leave while the daemon runs.
NoStagingLeak == ~StagingLeak

=============================================================================
