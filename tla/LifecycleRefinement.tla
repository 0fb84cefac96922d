------------------------ MODULE LifecycleRefinement ------------------------
(***************************************************************************)
(* Lifecycle implements CeService, for every value of the constants.       *)
(*                                                                         *)
(* The hard part is that nothing but a failing call, a crash or an empty   *)
(* port set makes the daemon give up: an apply must never meet a /128 or a *)
(* tunnel that is already there.  That takes an invariant about what the   *)
(* kernel holds as long as no call has failed, at every step of every      *)
(* handler.  The second half asks what it holds once calls have failed.    *)
(***************************************************************************)
EXTENDS LifecycleProofs

Calm == faults = 0 /\ crashes = 0

\* The ifindex is known exactly where the code relies on it, and only an orderly
\* stop is marked as one.
IfindexInv ==
    /\ pc \in {"sysctl4", "sysctl6", "tunnel"} => tunnel_ifindex = None
    /\ pc = "ipv6" => job.op = "ce" \/ tunnel_ifindex = None
    /\ pc \in {"ipv4", "route", "ebpf", "nft", "config"} => tunnel_ifindex # None
    /\ pc = "idle" /\ params # None => tunnel_ifindex # None
    /\ pc \in ApplyLabels => job.after \in {"none", "apply"}

\* The tunnel and the addresses the kernel holds as long as nothing has failed.
CalmKernel ==
    /\ pc # "crashed"
    /\ tunnel_ifindex = None => tnl = None
    /\ pc \in {"down", "s_nft", "s_link", "sysctl4", "sysctl6", "ipv6", "c_sysctl6", "c_sysctl4"}
          => addrs6 = {}
    /\ pc = "idle" => addrs6 = IF params = None THEN {} ELSE {params.ce_ipv6}
    /\ pc = "u_del" => addrs6 = {job.old.ce_ipv6}
    /\ pc \in {"r_unlink", "r_route", "r_link", "tunnel", "ipv4", "route", "ebpf", "nft", "config"}
          => addrs6 = {job.new.ce_ipv6}
    /\ pc \in {"c_nft", "c_ebpf", "c_route", "c_link", "c_ipv4", "c_ipv6"} =>
          addrs6 \subseteq {job.clean.ce_ipv6}
    /\ pc \in CleanupLabels /\ job.after = "drop" => Unservable(job.new)

SInv == IfindexInv /\ (Calm => CalmKernel)


-----------------------------------------------------------------------------
(* The invariant *)

\* A step that fails leaves the job as it is but for what cleanup has to do.
LEMMA AbortKeeps ==
    ASSUME job \in Jobs, Abort
    PROVE  /\ pc' = "c_nft"
           /\ job'.clean = job.new /\ job'.after = "drop"
           /\ job'.new = job.new /\ job'.op = job.op
  BY DEF Abort, Jobs

\* A call that fails ends the calm for good.
LEMMA CalmKept ==
    ASSUME IInv, Calm', faults' = faults \/ Fault, crashes' = crashes
    PROVE  Calm /\ ~Fault
  BY ConstantsTyped DEF Calm, Fault, IInv, TypeOK

\* Nothing is there before the first start.
LEMMA InitSInv == Init => SInv
  BY DEF Init, SInv, IfindexInv, Calm, CalmKernel, ApplyLabels, CleanupLabels


\* The steps of apply find neither their address nor a tunnel while it is calm.
LEMMA ApplySInv == IInv /\ SInv /\ Apply => SInv'
<1> SUFFICES ASSUME IInv, SInv, Apply PROVE SInv'
  OBVIOUS
<1> USE DEF daemon, history
<1>1. job \in Jobs
  BY DEF IInv, TypeOK
<1>2. CASE apply_sysctl("v4", "sysctl4", "sysctl6")
  <2> USE <1>1, <1>2 DEF apply_sysctl, Goto, NoFault
  <2>1. \/ job' = job
        \/ /\ pc' = "c_nft" /\ job'.clean = job.new /\ job'.after = "drop"
           /\ job'.new = job.new /\ job'.op = job.op
    BY AbortKeeps
  <2>2. (faults' = faults \/ Fault) /\ crashes' = crashes
    OBVIOUS
  <2>3. IfindexInv'
    BY <2>1, AbortKeeps, NoneIsNoValue DEF IInv, SInv, IfindexInv, JobInv, ParamsInv, ApplyLabels, CleanupLabels
  <2>4. ASSUME Calm' PROVE CalmKernel'
    <3>1. Calm /\ ~Fault
      BY <2>2, <2>4, CalmKept
    <3>2. CalmKernel
      BY <3>1 DEF SInv
    <3>3. QED
      BY <2>1, <3>1, <3>2, AbortKeeps, NoneIsNoValue
      DEF IInv, SInv, IfindexInv, CalmKernel, JobInv, ParamsInv, ApplyLabels, CleanupLabels, Unservable
  <2>5. QED BY <2>3, <2>4 DEF SInv
<1>3. CASE apply_sysctl("v6", "sysctl6", "ipv6")
  <2> USE <1>1, <1>3 DEF apply_sysctl, Goto, NoFault
  <2>1. \/ job' = job
        \/ /\ pc' = "c_nft" /\ job'.clean = job.new /\ job'.after = "drop"
           /\ job'.new = job.new /\ job'.op = job.op
    BY AbortKeeps
  <2>2. (faults' = faults \/ Fault) /\ crashes' = crashes
    OBVIOUS
  <2>3. IfindexInv'
    BY <2>1, AbortKeeps, NoneIsNoValue DEF IInv, SInv, IfindexInv, JobInv, ParamsInv, ApplyLabels, CleanupLabels
  <2>4. ASSUME Calm' PROVE CalmKernel'
    <3>1. Calm /\ ~Fault
      BY <2>2, <2>4, CalmKept
    <3>2. CalmKernel
      BY <3>1 DEF SInv
    <3>3. QED
      BY <2>1, <3>1, <3>2, AbortKeeps, NoneIsNoValue
      DEF IInv, SInv, IfindexInv, CalmKernel, JobInv, ParamsInv, ApplyLabels, CleanupLabels, Unservable
  <2>5. QED BY <2>3, <2>4 DEF SInv
<1>4. CASE apply_step2_add_ipv6
  <2> USE <1>1, <1>4 DEF apply_step2_add_ipv6, Goto, NoFault
  <2>1. \/ job' = job
        \/ /\ pc' = "c_nft" /\ job'.clean = job.new /\ job'.after = "drop"
           /\ job'.new = job.new /\ job'.op = job.op
    BY AbortKeeps
  <2>2. (faults' = faults \/ Fault) /\ crashes' = crashes
    OBVIOUS
  <2>3. IfindexInv'
    BY <2>1, AbortKeeps, NoneIsNoValue DEF IInv, SInv, IfindexInv, JobInv, ParamsInv, ApplyLabels, CleanupLabels
  <2>4. ASSUME Calm' PROVE CalmKernel'
    <3>1. Calm /\ ~Fault
      BY <2>2, <2>4, CalmKept
    <3>2. CalmKernel
      BY <3>1 DEF SInv
    <3>3. QED
      BY <2>1, <3>1, <3>2, AbortKeeps, NoneIsNoValue
      DEF IInv, SInv, IfindexInv, CalmKernel, JobInv, ParamsInv, ApplyLabels, CleanupLabels, Unservable
  <2>5. QED BY <2>3, <2>4 DEF SInv
<1>5. CASE apply_step3_create_tunnel
  <2> USE <1>1, <1>5 DEF apply_step3_create_tunnel, Goto, NoFault
  <2>1. \/ job' = job
        \/ /\ pc' = "c_nft" /\ job'.clean = job.new /\ job'.after = "drop"
           /\ job'.new = job.new /\ job'.op = job.op
    BY AbortKeeps
  <2>2. (faults' = faults \/ Fault) /\ crashes' = crashes
    OBVIOUS
  <2>3. IfindexInv'
    BY <2>1, AbortKeeps, NoneIsNoValue DEF IInv, SInv, IfindexInv, JobInv, ParamsInv, ApplyLabels, CleanupLabels
  <2>4. ASSUME Calm' PROVE CalmKernel'
    <3>1. Calm /\ ~Fault
      BY <2>2, <2>4, CalmKept
    <3>2. CalmKernel
      BY <3>1 DEF SInv
    <3>3. QED
      BY <2>1, <3>1, <3>2, AbortKeeps, NoneIsNoValue
      DEF IInv, SInv, IfindexInv, CalmKernel, JobInv, ParamsInv, ApplyLabels, CleanupLabels, Unservable
  <2>5. QED BY <2>3, <2>4 DEF SInv
<1>6. CASE add_ipv4_addr
  <2> USE <1>1, <1>6 DEF add_ipv4_addr, Goto, NoFault
  <2>1. \/ job' = job
        \/ /\ pc' = "c_nft" /\ job'.clean = job.new /\ job'.after = "drop"
           /\ job'.new = job.new /\ job'.op = job.op
    BY AbortKeeps
  <2>2. (faults' = faults \/ Fault) /\ crashes' = crashes
    OBVIOUS
  <2>3. IfindexInv'
    BY <2>1, AbortKeeps, NoneIsNoValue DEF IInv, SInv, IfindexInv, JobInv, ParamsInv, ApplyLabels, CleanupLabels
  <2>4. ASSUME Calm' PROVE CalmKernel'
    <3>1. Calm /\ ~Fault
      BY <2>2, <2>4, CalmKept
    <3>2. CalmKernel
      BY <3>1 DEF SInv
    <3>3. QED
      BY <2>1, <3>1, <3>2, AbortKeeps, NoneIsNoValue
      DEF IInv, SInv, IfindexInv, CalmKernel, JobInv, ParamsInv, ApplyLabels, CleanupLabels, Unservable
  <2>5. QED BY <2>3, <2>4 DEF SInv
<1>7. CASE add_ipv4_default_route
  <2> USE <1>1, <1>7 DEF add_ipv4_default_route, Goto, NoFault
  <2>1. \/ job' = job
        \/ /\ pc' = "c_nft" /\ job'.clean = job.new /\ job'.after = "drop"
           /\ job'.new = job.new /\ job'.op = job.op
    BY AbortKeeps
  <2>2. (faults' = faults \/ Fault) /\ crashes' = crashes
    OBVIOUS
  <2>3. IfindexInv'
    BY <2>1, AbortKeeps, NoneIsNoValue DEF IInv, SInv, IfindexInv, JobInv, ParamsInv, ApplyLabels, CleanupLabels
  <2>4. ASSUME Calm' PROVE CalmKernel'
    <3>1. Calm /\ ~Fault
      BY <2>2, <2>4, CalmKept
    <3>2. CalmKernel
      BY <3>1 DEF SInv
    <3>3. QED
      BY <2>1, <3>1, <3>2, AbortKeeps, NoneIsNoValue
      DEF IInv, SInv, IfindexInv, CalmKernel, JobInv, ParamsInv, ApplyLabels, CleanupLabels, Unservable
  <2>5. QED BY <2>3, <2>4 DEF SInv
<1>8. CASE apply_step5_5_ebpf
  <2> USE <1>1, <1>8 DEF apply_step5_5_ebpf, Goto, NoFault
  <2>1. \/ job' = job
        \/ /\ pc' = "c_nft" /\ job'.clean = job.new /\ job'.after = "drop"
           /\ job'.new = job.new /\ job'.op = job.op
    BY AbortKeeps
  <2>2. (faults' = faults \/ Fault) /\ crashes' = crashes
    OBVIOUS
  <2>3. IfindexInv'
    BY <2>1, AbortKeeps, NoneIsNoValue DEF IInv, SInv, IfindexInv, JobInv, ParamsInv, ApplyLabels, CleanupLabels
  <2>4. ASSUME Calm' PROVE CalmKernel'
    <3>1. Calm /\ ~Fault
      BY <2>2, <2>4, CalmKept
    <3>2. CalmKernel
      BY <3>1 DEF SInv
    <3>3. QED
      BY <2>1, <3>1, <3>2, AbortKeeps, NoneIsNoValue
      DEF IInv, SInv, IfindexInv, CalmKernel, JobInv, ParamsInv, ApplyLabels, CleanupLabels, Unservable
  <2>5. QED BY <2>3, <2>4 DEF SInv
<1>9. CASE apply_step6_nftables
  <2> USE <1>1, <1>9 DEF apply_step6_nftables, Goto, NoFault
  <2>1. \/ job' = job
        \/ /\ pc' = "c_nft" /\ job'.clean = job.new /\ job'.after = "drop"
           /\ job'.new = job.new /\ job'.op = job.op
    BY AbortKeeps
  <2>2. (faults' = faults \/ Fault) /\ crashes' = crashes
    OBVIOUS
  <2>3. IfindexInv'
    BY <2>1, AbortKeeps, NoneIsNoValue DEF IInv, SInv, IfindexInv, JobInv, ParamsInv, ApplyLabels, CleanupLabels
  <2>4. ASSUME Calm' PROVE CalmKernel'
    <3>1. Calm /\ ~Fault
      BY <2>2, <2>4, CalmKept
    <3>2. CalmKernel
      BY <3>1 DEF SInv
    <3>3. QED
      BY <2>1, <3>1, <3>2, AbortKeeps, NoneIsNoValue
      DEF IInv, SInv, IfindexInv, CalmKernel, JobInv, ParamsInv, ApplyLabels, CleanupLabels, Unservable
  <2>5. QED BY <2>3, <2>4 DEF SInv
<1>10. QED BY <1>2, <1>3, <1>4, <1>5, <1>6, <1>7, <1>8, <1>9 DEF Apply

\* The old address is gone before the new one is added.
LEMMA UpdateSInv == IInv /\ SInv /\ Update => SInv'
<1> SUFFICES ASSUME IInv, SInv, Update PROVE SInv'
  OBVIOUS
<1> USE DEF daemon, history
<1>1. job \in Jobs
  BY DEF IInv, TypeOK
<1>2. CASE update_del_old
  <2> USE <1>1, <1>2 DEF update_del_old, Goto, NoFault
  <2>1. \/ job' = job
        \/ /\ pc' = "c_nft" /\ job'.clean = job.new /\ job'.after = "drop"
           /\ job'.new = job.new /\ job'.op = job.op
    BY AbortKeeps
  <2>2. (faults' = faults \/ Fault) /\ crashes' = crashes
    OBVIOUS
  <2>3. IfindexInv'
    BY <2>1, AbortKeeps, NoneIsNoValue DEF IInv, SInv, IfindexInv, JobInv, ParamsInv, ApplyLabels, CleanupLabels
  <2>4. ASSUME Calm' PROVE CalmKernel'
    <3>1. Calm /\ ~Fault
      BY <2>2, <2>4, CalmKept
    <3>2. CalmKernel
      BY <3>1 DEF SInv
    <3>3. QED
      BY <2>1, <3>1, <3>2, AbortKeeps, NoneIsNoValue
      DEF IInv, SInv, IfindexInv, CalmKernel, JobInv, ParamsInv, ApplyLabels, CleanupLabels, Unservable
  <2>5. QED BY <2>3, <2>4 DEF SInv
<1>3. CASE UnlinkTc("r_unlink", "r_route")
  <2> USE <1>1, <1>3 DEF UnlinkTc, Goto, NoFault
  <2>1. \/ job' = job
        \/ /\ pc' = "c_nft" /\ job'.clean = job.new /\ job'.after = "drop"
           /\ job'.new = job.new /\ job'.op = job.op
    BY AbortKeeps
  <2>2. (faults' = faults \/ Fault) /\ crashes' = crashes
    OBVIOUS
  <2>3. IfindexInv'
    BY <2>1, AbortKeeps, NoneIsNoValue DEF IInv, SInv, IfindexInv, JobInv, ParamsInv, ApplyLabels, CleanupLabels
  <2>4. ASSUME Calm' PROVE CalmKernel'
    <3>1. Calm /\ ~Fault
      BY <2>2, <2>4, CalmKept
    <3>2. CalmKernel
      BY <3>1 DEF SInv
    <3>3. QED
      BY <2>1, <3>1, <3>2, AbortKeeps, NoneIsNoValue
      DEF IInv, SInv, IfindexInv, CalmKernel, JobInv, ParamsInv, ApplyLabels, CleanupLabels, Unservable
  <2>5. QED BY <2>3, <2>4 DEF SInv
<1>4. CASE DelRoute("r_route", "r_link")
  <2> USE <1>1, <1>4 DEF DelRoute, Goto, NoFault
  <2>1. \/ job' = job
        \/ /\ pc' = "c_nft" /\ job'.clean = job.new /\ job'.after = "drop"
           /\ job'.new = job.new /\ job'.op = job.op
    BY AbortKeeps
  <2>2. (faults' = faults \/ Fault) /\ crashes' = crashes
    OBVIOUS
  <2>3. IfindexInv'
    BY <2>1, AbortKeeps, NoneIsNoValue DEF IInv, SInv, IfindexInv, JobInv, ParamsInv, ApplyLabels, CleanupLabels
  <2>4. ASSUME Calm' PROVE CalmKernel'
    <3>1. Calm /\ ~Fault
      BY <2>2, <2>4, CalmKept
    <3>2. CalmKernel
      BY <3>1 DEF SInv
    <3>3. QED
      BY <2>1, <3>1, <3>2, AbortKeeps, NoneIsNoValue
      DEF IInv, SInv, IfindexInv, CalmKernel, JobInv, ParamsInv, ApplyLabels, CleanupLabels, Unservable
  <2>5. QED BY <2>3, <2>4 DEF SInv
<1>5. CASE recreate_delete_link
  <2> USE <1>1, <1>5 DEF recreate_delete_link, DropTunnel, Goto, NoFault
  <2>1. \/ job' = job
        \/ /\ pc' = "c_nft" /\ job'.clean = job.new /\ job'.after = "drop"
           /\ job'.new = job.new /\ job'.op = job.op
    BY AbortKeeps
  <2>2. (faults' = faults \/ Fault) /\ crashes' = crashes
    OBVIOUS
  <2>3. IfindexInv'
    BY <2>1, AbortKeeps, NoneIsNoValue DEF IInv, SInv, IfindexInv, JobInv, ParamsInv, ApplyLabels, CleanupLabels
  <2>4. ASSUME Calm' PROVE CalmKernel'
    <3>1. Calm /\ ~Fault
      BY <2>2, <2>4, CalmKept
    <3>2. CalmKernel
      BY <3>1 DEF SInv
    <3>3. QED
      BY <2>1, <3>1, <3>2, AbortKeeps, NoneIsNoValue
      DEF IInv, SInv, IfindexInv, CalmKernel, JobInv, ParamsInv, ApplyLabels, CleanupLabels, Unservable
  <2>5. QED BY <2>3, <2>4 DEF SInv
<1>6. CASE update_config
  <2> USE <1>1, <1>6 DEF update_config, Goto, NoFault
  <2>1. \/ job' = job
        \/ /\ pc' = "c_nft" /\ job'.clean = job.new /\ job'.after = "drop"
           /\ job'.new = job.new /\ job'.op = job.op
    BY AbortKeeps
  <2>2. (faults' = faults \/ Fault) /\ crashes' = crashes
    OBVIOUS
  <2>3. IfindexInv'
    BY <2>1, AbortKeeps, NoneIsNoValue DEF IInv, SInv, IfindexInv, JobInv, ParamsInv, ApplyLabels, CleanupLabels
  <2>4. ASSUME Calm' PROVE CalmKernel'
    <3>1. Calm /\ ~Fault
      BY <2>2, <2>4, CalmKept
    <3>2. CalmKernel
      BY <3>1 DEF SInv
    <3>3. QED
      BY <2>1, <3>1, <3>2, AbortKeeps, NoneIsNoValue
      DEF IInv, SInv, IfindexInv, CalmKernel, JobInv, ParamsInv, ApplyLabels, CleanupLabels, Unservable
  <2>5. QED BY <2>3, <2>4 DEF SInv
<1>7. QED BY <1>2, <1>3, <1>4, <1>5, <1>6 DEF Update

\* Cleanup leaves nothing behind while it is calm.
LEMMA CleanupSInv == IInv /\ SInv /\ Cleanup => SInv'
<1> SUFFICES ASSUME IInv, SInv, Cleanup PROVE SInv'
  OBVIOUS
<1> USE DEF daemon, history
<1>1. job \in Jobs
  BY DEF IInv, TypeOK
<1>2. CASE DeleteTables("c_nft", "c_ebpf")
  <2> USE <1>1, <1>2 DEF DeleteTables, Goto, NoFault
  <2>1. \/ job' = job
        \/ /\ pc' = "c_nft" /\ job'.clean = job.new /\ job'.after = "drop"
           /\ job'.new = job.new /\ job'.op = job.op
    BY AbortKeeps
  <2>2. (faults' = faults \/ Fault) /\ crashes' = crashes
    OBVIOUS
  <2>3. IfindexInv'
    BY <2>1, AbortKeeps, NoneIsNoValue DEF IInv, SInv, IfindexInv, JobInv, ParamsInv, ApplyLabels, CleanupLabels
  <2>4. ASSUME Calm' PROVE CalmKernel'
    <3>1. Calm /\ ~Fault
      BY <2>2, <2>4, CalmKept
    <3>2. CalmKernel
      BY <3>1 DEF SInv
    <3>3. QED
      BY <2>1, <3>1, <3>2, AbortKeeps, NoneIsNoValue
      DEF IInv, SInv, IfindexInv, CalmKernel, JobInv, ParamsInv, ApplyLabels, CleanupLabels, Unservable
  <2>5. QED BY <2>3, <2>4 DEF SInv
<1>3. CASE UnlinkTc("c_ebpf", "c_route")
  <2> USE <1>1, <1>3 DEF UnlinkTc, Goto, NoFault
  <2>1. \/ job' = job
        \/ /\ pc' = "c_nft" /\ job'.clean = job.new /\ job'.after = "drop"
           /\ job'.new = job.new /\ job'.op = job.op
    BY AbortKeeps
  <2>2. (faults' = faults \/ Fault) /\ crashes' = crashes
    OBVIOUS
  <2>3. IfindexInv'
    BY <2>1, AbortKeeps, NoneIsNoValue DEF IInv, SInv, IfindexInv, JobInv, ParamsInv, ApplyLabels, CleanupLabels
  <2>4. ASSUME Calm' PROVE CalmKernel'
    <3>1. Calm /\ ~Fault
      BY <2>2, <2>4, CalmKept
    <3>2. CalmKernel
      BY <3>1 DEF SInv
    <3>3. QED
      BY <2>1, <3>1, <3>2, AbortKeeps, NoneIsNoValue
      DEF IInv, SInv, IfindexInv, CalmKernel, JobInv, ParamsInv, ApplyLabels, CleanupLabels, Unservable
  <2>5. QED BY <2>3, <2>4 DEF SInv
<1>4. CASE DelRoute("c_route", "c_link")
  <2> USE <1>1, <1>4 DEF DelRoute, Goto, NoFault
  <2>1. \/ job' = job
        \/ /\ pc' = "c_nft" /\ job'.clean = job.new /\ job'.after = "drop"
           /\ job'.new = job.new /\ job'.op = job.op
    BY AbortKeeps
  <2>2. (faults' = faults \/ Fault) /\ crashes' = crashes
    OBVIOUS
  <2>3. IfindexInv'
    BY <2>1, AbortKeeps, NoneIsNoValue DEF IInv, SInv, IfindexInv, JobInv, ParamsInv, ApplyLabels, CleanupLabels
  <2>4. ASSUME Calm' PROVE CalmKernel'
    <3>1. Calm /\ ~Fault
      BY <2>2, <2>4, CalmKept
    <3>2. CalmKernel
      BY <3>1 DEF SInv
    <3>3. QED
      BY <2>1, <3>1, <3>2, AbortKeeps, NoneIsNoValue
      DEF IInv, SInv, IfindexInv, CalmKernel, JobInv, ParamsInv, ApplyLabels, CleanupLabels, Unservable
  <2>5. QED BY <2>3, <2>4 DEF SInv
<1>5. CASE cleanup_delete_link
  <2> USE <1>1, <1>5 DEF cleanup_delete_link, DropTunnel, Goto, NoFault
  <2>1. \/ job' = job
        \/ /\ pc' = "c_nft" /\ job'.clean = job.new /\ job'.after = "drop"
           /\ job'.new = job.new /\ job'.op = job.op
    BY AbortKeeps
  <2>2. (faults' = faults \/ Fault) /\ crashes' = crashes
    OBVIOUS
  <2>3. IfindexInv'
    BY <2>1, AbortKeeps, NoneIsNoValue DEF IInv, SInv, IfindexInv, JobInv, ParamsInv, ApplyLabels, CleanupLabels
  <2>4. ASSUME Calm' PROVE CalmKernel'
    <3>1. Calm /\ ~Fault
      BY <2>2, <2>4, CalmKept
    <3>2. CalmKernel
      BY <3>1 DEF SInv
    <3>3. QED
      BY <2>1, <3>1, <3>2, AbortKeeps, NoneIsNoValue
      DEF IInv, SInv, IfindexInv, CalmKernel, JobInv, ParamsInv, ApplyLabels, CleanupLabels, Unservable
  <2>5. QED BY <2>3, <2>4 DEF SInv
<1>6. CASE cleanup_del_ipv4_addr
  <2> USE <1>1, <1>6 DEF cleanup_del_ipv4_addr, Goto, NoFault
  <2>1. \/ job' = job
        \/ /\ pc' = "c_nft" /\ job'.clean = job.new /\ job'.after = "drop"
           /\ job'.new = job.new /\ job'.op = job.op
    BY AbortKeeps
  <2>2. (faults' = faults \/ Fault) /\ crashes' = crashes
    OBVIOUS
  <2>3. IfindexInv'
    BY <2>1, AbortKeeps, NoneIsNoValue DEF IInv, SInv, IfindexInv, JobInv, ParamsInv, ApplyLabels, CleanupLabels
  <2>4. ASSUME Calm' PROVE CalmKernel'
    <3>1. Calm /\ ~Fault
      BY <2>2, <2>4, CalmKept
    <3>2. CalmKernel
      BY <3>1 DEF SInv
    <3>3. QED
      BY <2>1, <3>1, <3>2, AbortKeeps, NoneIsNoValue
      DEF IInv, SInv, IfindexInv, CalmKernel, JobInv, ParamsInv, ApplyLabels, CleanupLabels, Unservable
  <2>5. QED BY <2>3, <2>4 DEF SInv
<1>7. CASE cleanup_del_ipv6
  <2> USE <1>1, <1>7 DEF cleanup_del_ipv6, Goto, NoFault
  <2>1. \/ job' = job
        \/ /\ pc' = "c_nft" /\ job'.clean = job.new /\ job'.after = "drop"
           /\ job'.new = job.new /\ job'.op = job.op
    BY AbortKeeps
  <2>2. (faults' = faults \/ Fault) /\ crashes' = crashes
    OBVIOUS
  <2>3. IfindexInv'
    BY <2>1, AbortKeeps, NoneIsNoValue DEF IInv, SInv, IfindexInv, JobInv, ParamsInv, ApplyLabels, CleanupLabels
  <2>4. ASSUME Calm' PROVE CalmKernel'
    <3>1. Calm /\ ~Fault
      BY <2>2, <2>4, CalmKept
    <3>2. CalmKernel
      BY <3>1 DEF SInv
    <3>3. QED
      BY <2>1, <3>1, <3>2, AbortKeeps, NoneIsNoValue
      DEF IInv, SInv, IfindexInv, CalmKernel, JobInv, ParamsInv, ApplyLabels, CleanupLabels, Unservable
  <2>5. QED BY <2>3, <2>4 DEF SInv
<1>8. CASE cleanup_sysctl6
  <2> USE <1>1, <1>8 DEF cleanup_sysctl6, RestoreSysctl, Goto, NoFault
  <2>1. \/ job' = job
        \/ /\ pc' = "c_nft" /\ job'.clean = job.new /\ job'.after = "drop"
           /\ job'.new = job.new /\ job'.op = job.op
    BY AbortKeeps
  <2>2. (faults' = faults \/ Fault) /\ crashes' = crashes
    OBVIOUS
  <2>3. IfindexInv'
    BY <2>1, AbortKeeps, NoneIsNoValue DEF IInv, SInv, IfindexInv, JobInv, ParamsInv, ApplyLabels, CleanupLabels
  <2>4. ASSUME Calm' PROVE CalmKernel'
    <3>1. Calm /\ ~Fault
      BY <2>2, <2>4, CalmKept
    <3>2. CalmKernel
      BY <3>1 DEF SInv
    <3>3. QED
      BY <2>1, <3>1, <3>2, AbortKeeps, NoneIsNoValue
      DEF IInv, SInv, IfindexInv, CalmKernel, JobInv, ParamsInv, ApplyLabels, CleanupLabels, Unservable
  <2>5. QED BY <2>3, <2>4 DEF SInv
<1>9. CASE cleanup_sysctl4
  <2> USE <1>1, <1>9 DEF cleanup_sysctl4, RestoreSysctl, Goto, NoFault
  <2>1. \/ job' = job
        \/ /\ pc' = "c_nft" /\ job'.clean = job.new /\ job'.after = "drop"
           /\ job'.new = job.new /\ job'.op = job.op
    BY AbortKeeps
  <2>2. (faults' = faults \/ Fault) /\ crashes' = crashes
    OBVIOUS
  <2>3. IfindexInv'
    BY <2>1, AbortKeeps, NoneIsNoValue DEF IInv, SInv, IfindexInv, JobInv, ParamsInv, ApplyLabels, CleanupLabels
  <2>4. ASSUME Calm' PROVE CalmKernel'
    <3>1. Calm /\ ~Fault
      BY <2>2, <2>4, CalmKept
    <3>2. CalmKernel
      BY <3>1 DEF SInv
    <3>3. QED
      BY <2>1, <3>1, <3>2, AbortKeeps, NoneIsNoValue
      DEF IInv, SInv, IfindexInv, CalmKernel, JobInv, ParamsInv, ApplyLabels, CleanupLabels, Unservable
  <2>5. QED BY <2>3, <2>4 DEF SInv
<1>10. QED BY <1>2, <1>3, <1>4, <1>5, <1>6, <1>7, <1>8, <1>9 DEF Cleanup

\* Nor is there anything at start.
LEMMA StartupSInv == IInv /\ SInv /\ Startup => SInv'
<1> SUFFICES ASSUME IInv, SInv, Startup PROVE SInv'
  OBVIOUS
<1> USE DEF daemon, history
<1>1. job \in Jobs
  BY DEF IInv, TypeOK
<1>2. CASE DeleteTables("s_nft", "s_link")
  <2> USE <1>1, <1>2 DEF DeleteTables, Goto, NoFault
  <2>1. \/ job' = job
        \/ /\ pc' = "c_nft" /\ job'.clean = job.new /\ job'.after = "drop"
           /\ job'.new = job.new /\ job'.op = job.op
    BY AbortKeeps
  <2>2. (faults' = faults \/ Fault) /\ crashes' = crashes
    OBVIOUS
  <2>3. IfindexInv'
    BY <2>1, AbortKeeps, NoneIsNoValue DEF IInv, SInv, IfindexInv, JobInv, ParamsInv, ApplyLabels, CleanupLabels
  <2>4. ASSUME Calm' PROVE CalmKernel'
    <3>1. Calm /\ ~Fault
      BY <2>2, <2>4, CalmKept
    <3>2. CalmKernel
      BY <3>1 DEF SInv
    <3>3. QED
      BY <2>1, <3>1, <3>2, AbortKeeps, NoneIsNoValue
      DEF IInv, SInv, IfindexInv, CalmKernel, JobInv, ParamsInv, ApplyLabels, CleanupLabels, Unservable
  <2>5. QED BY <2>3, <2>4 DEF SInv
<1>3. CASE startup_delete_link
  <2> USE <1>1, <1>3 DEF startup_delete_link, DropTunnel, Goto, NoFault
  <2>1. \/ job' = job
        \/ /\ pc' = "c_nft" /\ job'.clean = job.new /\ job'.after = "drop"
           /\ job'.new = job.new /\ job'.op = job.op
    BY AbortKeeps
  <2>2. (faults' = faults \/ Fault) /\ crashes' = crashes
    OBVIOUS
  <2>3. IfindexInv'
    BY <2>1, AbortKeeps, NoneIsNoValue DEF IInv, SInv, IfindexInv, JobInv, ParamsInv, ApplyLabels, CleanupLabels
  <2>4. ASSUME Calm' PROVE CalmKernel'
    <3>1. Calm /\ ~Fault
      BY <2>2, <2>4, CalmKept
    <3>2. CalmKernel
      BY <3>1 DEF SInv
    <3>3. QED
      BY <2>1, <3>1, <3>2, AbortKeeps, NoneIsNoValue
      DEF IInv, SInv, IfindexInv, CalmKernel, JobInv, ParamsInv, ApplyLabels, CleanupLabels, Unservable
  <2>5. QED BY <2>3, <2>4 DEF SInv
<1>4. QED BY <1>2, <1>3 DEF Startup

\* What apply_if_ready, called by a handler, can come to.
LEMMA ApplyIfReadyOutcome ==
    ASSUME IInv, SInv, pc = "idle", NEW rs \in RuleLists \cup {None}, NEW p \in Prefix,
           apply_if_ready(rs, p)
    PROVE  LET new == try_compute(rs, p) IN
           \/ new \in {None, params} /\ UNCHANGED <<params, pc, job>>
           \/ /\ new \in MapeParams /\ new # params /\ params' = new
              /\ \/ /\ params = None /\ tunnel_ifindex = None /\ pc' = "sysctl4"
                    /\ job' = [NoJob EXCEPT !.op = "apply", !.new = new]
                 \/ /\ params \in MapeParams
                    /\ \/ /\ pc' = "c_nft"
                          /\ job' = [NoJob EXCEPT !.op = "apply", !.new = new, !.clean = params,
                                                  !.after = "apply"]
                       \/ /\ pc' = "u_del"
                          /\ job' = [NoJob EXCEPT !.op = "ce", !.old = params, !.new = new]
                       \/ /\ pc' = "r_unlink" /\ params.ce_ipv6 = new.ce_ipv6
                          /\ job' = [NoJob EXCEPT !.op = "br", !.old = params, !.new = new]
<1> DEFINE new == try_compute(rs, p)
<1>1. CASE new = None
  BY <1>1, Zenon DEF apply_if_ready
<1>2. CASE new # None
  <2>1. new \in MapeParams /\ WellFormed(new)
    BY <1>2, TryComputeType
  <2>2. params' = new
    BY <1>2 DEF apply_if_ready
  <2>3. params \in MapeParams \cup {None}
    BY DEF IInv, TypeOK
  <2>4. CASE params = None
    <3>1. tunnel_ifindex = None
      BY <2>4 DEF IInv, ParamsInv, TunnelHasParams
    <3>2. pc' = "sysctl4" /\ job' = [NoJob EXCEPT !.op = "apply", !.new = new]
      BY <1>2, <3>1 DEF apply_if_ready, StartApply
    <3>3. QED BY <1>2, <2>1, <2>2, <2>4, <3>1, <3>2
  <2>5. CASE params # None
    <3>1. tunnel_ifindex # None
      BY <2>5 DEF SInv, IfindexInv
    <3>2. params \in MapeParams /\ WellFormed(params)
      BY <2>3, <2>5 DEF IInv, ParamsInv
    <3> HIDE DEF new
    <3>3. CASE ~has_changed(params, new)
      <4>1. UNCHANGED <<pc, job>>
        BY <1>2, <2>5, <3>1, <3>3 DEF apply_if_ready, new
      <4>2. new = params
        BY <2>1, <3>2, <3>3 DEF has_changed, MapeParams
      <4>3. UNCHANGED <<params, pc, job>>
        BY <2>2, <4>1, <4>2
      <4>4. QED BY <4>2, <4>3, Zenon DEF new
    <3>4. CASE has_changed(params, new)
      <4>1. new # params
        BY <3>4 DEF has_changed
      <4>2. CASE params.port_params # new.port_params
        <5>1. /\ pc' = "c_nft"
              /\ job' = [NoJob EXCEPT !.op = "apply", !.new = new, !.clean = params, !.after = "apply"]
          BY <1>2, <2>5, <3>1, <3>4, <4>2 DEF apply_if_ready, StartCleanup, new
        <5>2. QED BY <2>1, <2>2, <3>2, <4>1, <5>1, Zenon DEF new
      <4>3. CASE params.port_params = new.port_params
        <5>1. /\ pc' = UpdateEntry(UpdateOp(params, new))
              /\ job' = [NoJob EXCEPT !.op = UpdateOp(params, new), !.old = params, !.new = new]
          BY <1>2, <2>5, <3>1, <3>4, <4>3 DEF apply_if_ready, StartUpdate, new
        <5>2. \/ UpdateOp(params, new) = "ce" /\ UpdateEntry(UpdateOp(params, new)) = "u_del"
              \/ /\ UpdateOp(params, new) = "br" /\ UpdateEntry(UpdateOp(params, new)) = "r_unlink"
                 /\ params.ce_ipv6 = new.ce_ipv6
          BY <2>1, <3>2, <3>4, <4>3, UpdateKind
        <5>3. CASE UpdateOp(params, new) = "ce" /\ UpdateEntry(UpdateOp(params, new)) = "u_del"
          <6>1. pc' = "u_del" /\ job' = [NoJob EXCEPT !.op = "ce", !.old = params, !.new = new]
            BY <5>1, <5>3
          <6>2. QED BY <2>1, <2>2, <3>2, <4>1, <6>1, Zenon DEF new
        <5>4. CASE /\ UpdateOp(params, new) = "br" /\ UpdateEntry(UpdateOp(params, new)) = "r_unlink"
                   /\ params.ce_ipv6 = new.ce_ipv6
          <6>1. pc' = "r_unlink" /\ job' = [NoJob EXCEPT !.op = "br", !.old = params, !.new = new]
            BY <5>1, <5>4
          <6>2. QED BY <2>1, <2>2, <3>2, <4>1, <5>4, <6>1, Zenon DEF new
        <5>5. QED BY <5>2, <5>3, <5>4
      <4>4. QED BY <4>2, <4>3
    <3>5. QED BY <3>3, <3>4
  <2>6. QED BY <2>4, <2>5
<1>3. QED BY <1>1, <1>2

\* A handler starts its work on what the kernel holds.
LEMMA ApplyIfReadySInv ==
    ASSUME IInv, SInv, pc = "idle", NEW rs \in RuleLists \cup {None}, NEW p \in Prefix,
           apply_if_ready(rs, p), UNCHANGED <<tunnel_ifindex, kernel, crashes>>,
           faults' = faults \/ Fault
    PROVE  SInv'
<1> DEFINE new == try_compute(rs, p)
<1> USE DEF kernel
<1>1. CASE new \in {None, params} /\ UNCHANGED <<params, pc, job>>
  <2>1. IfindexInv'
    BY <1>1 DEF SInv, IfindexInv
  <2>2. ASSUME Calm' PROVE CalmKernel'
    <3>1. CalmKernel
      BY <2>2, CalmKept DEF SInv
    <3>2. QED BY <1>1, <3>1 DEF CalmKernel, CleanupLabels, Unservable
  <2>3. QED BY <2>1, <2>2 DEF SInv
<1>2. CASE /\ new \in MapeParams /\ new # params /\ params' = new
           /\ \/ /\ params = None /\ tunnel_ifindex = None /\ pc' = "sysctl4"
                 /\ job' = [NoJob EXCEPT !.op = "apply", !.new = new]
              \/ /\ params \in MapeParams
                 /\ \/ /\ pc' = "c_nft"
                       /\ job' = [NoJob EXCEPT !.op = "apply", !.new = new, !.clean = params,
                                               !.after = "apply"]
                    \/ /\ pc' = "u_del"
                       /\ job' = [NoJob EXCEPT !.op = "ce", !.old = params, !.new = new]
                    \/ /\ pc' = "r_unlink" /\ params.ce_ipv6 = new.ce_ipv6
                       /\ job' = [NoJob EXCEPT !.op = "br", !.old = params, !.new = new]
  <2> HIDE DEF new
  <2>1. IfindexInv'
    BY <1>2 DEF SInv, IfindexInv, ApplyLabels, NoJob
  <2>2. ASSUME Calm' PROVE CalmKernel'
    <3>1. CalmKernel
      BY <2>2, CalmKept DEF SInv
    <3>2. addrs6 = IF params = None THEN {} ELSE {params.ce_ipv6}
      BY <3>1 DEF CalmKernel
    <3>3. tunnel_ifindex = None => tnl = None
      BY <3>1 DEF CalmKernel
    <3>4. QED BY <1>2, <3>2, <3>3, NoneIsNoValue DEF CalmKernel, CleanupLabels, NoJob
  <2>3. QED BY <2>1, <2>2 DEF SInv
<1>3. QED BY <1>1, <1>2, ApplyIfReadyOutcome

\* The handlers, an orderly stop, a start and a crash.
LEMMA OutsideSInv == IInv /\ SInv /\ (Event \/ terminate \/ start_linux \/ crash) => SInv'
<1> SUFFICES ASSUME IInv, SInv, Event \/ terminate \/ start_linux \/ crash PROVE SInv'
  OBVIOUS
<1>1. pending_map_rules \in RuleLists \cup {None} /\ params \in MapeParams \cup {None}
  BY DEF IInv, TypeOK
<1>2. CASE \E p \in Prefix : handle_ia_pd(p)
  <2>1. PICK p \in Prefix : handle_ia_pd(p)
    BY <1>2
  <2>2. QED
    BY <1>1, <2>1, ApplyIfReadySInv DEF handle_ia_pd
<1>3. CASE \E rs \in RuleLists, p \in Prefix : handle_both(rs, p)
  <2>1. PICK rs \in RuleLists, p \in Prefix : handle_both(rs, p)
    BY <1>3
  <2>2. faults' = faults \/ Fault
    BY <2>1 DEF handle_both, NoFault
  <2>3. PICK rules \in RuleLists \cup {None} : apply_if_ready(rules, p)
    BY <1>1, <2>1 DEF handle_both
  <2>4. QED
    BY <2>1, <2>2, <2>3, ApplyIfReadySInv DEF handle_both
<1>4. CASE terminate
  <2> USE <1>4 DEF terminate, daemon, kernel, history
  <2>1. IfindexInv'
    BY DEF StartCleanup, SInv, IfindexInv, ApplyLabels
  <2>2. ASSUME Calm' PROVE CalmKernel'
    <3>1. CalmKernel
      BY <2>2, CalmKept DEF SInv
    <3>2. QED
      BY <3>1 DEF CalmKernel, StartCleanup, CleanupLabels, NoJob
  <2>3. QED BY <2>1, <2>2 DEF SInv
<1>5. CASE start_linux
  <2> USE <1>5 DEF start_linux, kernel, history
  <2>1. IfindexInv'
    BY DEF IfindexInv, ApplyLabels
  <2>2. ASSUME Calm' PROVE CalmKernel'
    <3>1. CalmKernel
      BY <2>2, CalmKept DEF SInv
    <3>2. params = None /\ (tunnel_ifindex # None => params # None)
      BY DEF IInv, ParamsInv, TunnelHasParams
    <3>3. QED
      BY <3>1, <3>2 DEF CalmKernel, CleanupLabels
  <2>3. QED BY <2>1, <2>2 DEF SInv
<1>6. CASE crash
  <2> USE <1>6 DEF crash
  <2>1. IfindexInv'
    BY DEF IfindexInv, ApplyLabels
  <2>2. ~Calm'
    BY DEF Calm, IInv, TypeOK
  <2>3. QED BY <2>1, <2>2 DEF SInv
<1>7. QED BY <1>2, <1>3, <1>4, <1>5, <1>6 DEF Event

\* The two invariants hold in every reachable state.
LEMMA ServiceInvariance == Spec => [](IInv /\ SInv)
<1>1. ASSUME IInv, SInv, [Next]_vars PROVE SInv'
  <2>1. CASE Next
    BY <1>1, <2>1, ApplySInv, UpdateSInv, CleanupSInv, StartupSInv, OutsideSInv
    DEF Next, DaemonStep
  <2>2. CASE UNCHANGED vars
    BY <1>1, <2>2, Zenon
    DEF vars, daemon, kernel, history, SInv, IfindexInv, Calm, CalmKernel, Unservable
  <2>3. QED BY <1>1, <2>1, <2>2
<1>2. QED BY <1>1, InitIInv, NextIInv, InitSInv, PTL DEF Spec


-----------------------------------------------------------------------------
(* The refinement *)

\* A step of a handler, or of the start, that neither begins nor ends it.
LEMMA InnerStep ==
    ASSUME IInv, pc \notin {"idle", "down", "crashed"}, pc' \notin {"idle", "down", "crashed"},
           Phase' = Phase, job'.new = job.new,
           UNCHANGED <<pending_map_rules, pending_ia_pd, cache, crashes>>,
           faults' = faults \/ Fault
    PROVE  [Service!Next]_(Service!vars)
<1>1. InService = None /\ InService' = None
  BY DEF InService
<1>2. Phase # "down"
  BY DEF Phase
<1>3. CASE faults' = faults
  BY <1>1, <1>3 DEF Service!vars
<1>4. CASE Fault
  <2>1. faults' > 0
    BY <1>4 DEF Fault, IInv, TypeOK
  <2>2. Service!CallFails
    BY <1>1, <1>2, <2>1 DEF Service!CallFails
  <2>3. QED BY <2>2 DEF Service!Next
<1>5. QED BY <1>3, <1>4

\* What has gone wrong stays so: a step of the daemon leaves the record of trouble
\* as it is, or a failing call starts one.
LEMMA TroubleGrows ==
    ASSUME IInv, faults' = faults \/ Fault, crashes' = crashes
    PROVE  (faults' > 0 \/ crashes' > 0) \in {faults > 0 \/ crashes > 0, TRUE}
<1>1. CASE faults' = faults
  <2>1. (faults' > 0 \/ crashes' > 0) = (faults > 0 \/ crashes > 0)
    BY <1>1, Zenon
  <2>2. QED BY <2>1, Zenon
<1>2. CASE Fault
  <2>1. faults' > 0
    BY <1>2 DEF Fault, IInv, TypeOK
  <2>2. (faults' > 0 \/ crashes' > 0) = TRUE
    BY <2>1, Zenon
  <2>3. QED BY <2>2, Zenon
<1>3. QED BY <1>1, <1>2

\* The steps of apply and update: the last one puts the goal in service.
LEMMA ApplyRefines ==
    ASSUME IInv, SInv, IInv', SInv', Apply \/ Update
    PROVE  [Service!Next]_(Service!vars)
<1> USE DEF daemon, history
<1>1. job \in Jobs
  BY DEF IInv, TypeOK
<1>2. CASE apply_sysctl("v4", "sysctl4", "sysctl6")
  <2> USE <1>1, <1>2 DEF apply_sysctl, Goto, NoFault
  <2>1. \/ job' = job
        \/ /\ pc' = "c_nft" /\ job'.after = "drop" /\ job'.new = job.new
    BY AbortKeeps
  <2>2. pc \in ApplyLabels /\ job.after \in {"none", "apply"}
    BY DEF SInv, IfindexInv, ApplyLabels
  <2>3. pc' \in ApplyLabels \cup CleanupLabels
    BY AbortKeeps DEF ApplyLabels, CleanupLabels
  <2>4. Phase' = Phase
    BY <2>1, <2>2, <2>3 DEF Phase, ApplyLabels, CleanupLabels
  <2>5. QED
    BY <2>1, <2>2, <2>3, <2>4, InnerStep DEF ApplyLabels, CleanupLabels
<1>3. CASE apply_sysctl("v6", "sysctl6", "ipv6")
  <2> USE <1>1, <1>3 DEF apply_sysctl, Goto, NoFault
  <2>1. \/ job' = job
        \/ /\ pc' = "c_nft" /\ job'.after = "drop" /\ job'.new = job.new
    BY AbortKeeps
  <2>2. pc \in ApplyLabels /\ job.after \in {"none", "apply"}
    BY DEF SInv, IfindexInv, ApplyLabels
  <2>3. pc' \in ApplyLabels \cup CleanupLabels
    BY AbortKeeps DEF ApplyLabels, CleanupLabels
  <2>4. Phase' = Phase
    BY <2>1, <2>2, <2>3 DEF Phase, ApplyLabels, CleanupLabels
  <2>5. QED
    BY <2>1, <2>2, <2>3, <2>4, InnerStep DEF ApplyLabels, CleanupLabels
<1>4. CASE apply_step2_add_ipv6
  <2> USE <1>1, <1>4 DEF apply_step2_add_ipv6, Goto, NoFault
  <2>1. \/ job' = job
        \/ /\ pc' = "c_nft" /\ job'.after = "drop" /\ job'.new = job.new
    BY AbortKeeps
  <2>2. pc \in ApplyLabels /\ job.after \in {"none", "apply"}
    BY DEF SInv, IfindexInv, ApplyLabels
  <2>3. pc' \in ApplyLabels \cup CleanupLabels
    BY AbortKeeps DEF ApplyLabels, CleanupLabels
  <2>4. Phase' = Phase
    BY <2>1, <2>2, <2>3 DEF Phase, ApplyLabels, CleanupLabels
  <2>5. QED
    BY <2>1, <2>2, <2>3, <2>4, InnerStep DEF ApplyLabels, CleanupLabels
<1>5. CASE apply_step3_create_tunnel
  <2> USE <1>1, <1>5 DEF apply_step3_create_tunnel, Goto, NoFault
  <2>1. \/ job' = job
        \/ /\ pc' = "c_nft" /\ job'.after = "drop" /\ job'.new = job.new
    BY AbortKeeps
  <2>2. pc \in ApplyLabels /\ job.after \in {"none", "apply"}
    BY DEF SInv, IfindexInv, ApplyLabels
  <2>3. pc' \in ApplyLabels \cup CleanupLabels
    BY AbortKeeps DEF ApplyLabels, CleanupLabels
  <2>4. Phase' = Phase
    BY <2>1, <2>2, <2>3 DEF Phase, ApplyLabels, CleanupLabels
  <2>5. QED
    BY <2>1, <2>2, <2>3, <2>4, InnerStep DEF ApplyLabels, CleanupLabels
<1>6. CASE add_ipv4_addr
  <2> USE <1>1, <1>6 DEF add_ipv4_addr, Goto, NoFault
  <2>1. \/ job' = job
        \/ /\ pc' = "c_nft" /\ job'.after = "drop" /\ job'.new = job.new
    BY AbortKeeps
  <2>2. pc \in ApplyLabels /\ job.after \in {"none", "apply"}
    BY DEF SInv, IfindexInv, ApplyLabels
  <2>3. pc' \in ApplyLabels \cup CleanupLabels
    BY AbortKeeps DEF ApplyLabels, CleanupLabels
  <2>4. Phase' = Phase
    BY <2>1, <2>2, <2>3 DEF Phase, ApplyLabels, CleanupLabels
  <2>5. QED
    BY <2>1, <2>2, <2>3, <2>4, InnerStep DEF ApplyLabels, CleanupLabels
<1>7. CASE add_ipv4_default_route
  <2> USE <1>1, <1>7 DEF add_ipv4_default_route, Goto, NoFault
  <2>1. \/ job' = job
        \/ /\ pc' = "c_nft" /\ job'.after = "drop" /\ job'.new = job.new
    BY AbortKeeps
  <2>2. pc \in ApplyLabels /\ job.after \in {"none", "apply"}
    BY DEF SInv, IfindexInv, ApplyLabels
  <2>3. pc' \in ApplyLabels \cup CleanupLabels
    BY AbortKeeps DEF ApplyLabels, CleanupLabels
  <2>4. Phase' = Phase
    BY <2>1, <2>2, <2>3 DEF Phase, ApplyLabels, CleanupLabels
  <2>5. QED
    BY <2>1, <2>2, <2>3, <2>4, InnerStep DEF ApplyLabels, CleanupLabels
<1>8. CASE apply_step5_5_ebpf
  <2> USE <1>1, <1>8 DEF apply_step5_5_ebpf, Goto, NoFault
  <2>1. \/ job' = job
        \/ /\ pc' = "c_nft" /\ job'.after = "drop" /\ job'.new = job.new
    BY AbortKeeps
  <2>2. pc \in ApplyLabels /\ job.after \in {"none", "apply"}
    BY DEF SInv, IfindexInv, ApplyLabels
  <2>3. pc' \in ApplyLabels \cup CleanupLabels
    BY AbortKeeps DEF ApplyLabels, CleanupLabels
  <2>4. Phase' = Phase
    BY <2>1, <2>2, <2>3 DEF Phase, ApplyLabels, CleanupLabels
  <2>5. QED
    BY <2>1, <2>2, <2>3, <2>4, InnerStep DEF ApplyLabels, CleanupLabels
<1>9. CASE update_del_old
  <2> USE <1>1, <1>9 DEF update_del_old, Goto, NoFault
  <2>1. \/ job' = job
        \/ /\ pc' = "c_nft" /\ job'.after = "drop" /\ job'.new = job.new
    BY AbortKeeps
  <2>2. pc \in ApplyLabels /\ job.after \in {"none", "apply"}
    BY DEF SInv, IfindexInv, ApplyLabels
  <2>3. pc' \in ApplyLabels \cup CleanupLabels
    BY AbortKeeps DEF ApplyLabels, CleanupLabels
  <2>4. Phase' = Phase
    BY <2>1, <2>2, <2>3 DEF Phase, ApplyLabels, CleanupLabels
  <2>5. QED
    BY <2>1, <2>2, <2>3, <2>4, InnerStep DEF ApplyLabels, CleanupLabels
<1>10. CASE UnlinkTc("r_unlink", "r_route")
  <2> USE <1>1, <1>10 DEF UnlinkTc, Goto, NoFault
  <2>1. \/ job' = job
        \/ /\ pc' = "c_nft" /\ job'.after = "drop" /\ job'.new = job.new
    BY AbortKeeps
  <2>2. pc \in ApplyLabels /\ job.after \in {"none", "apply"}
    BY DEF SInv, IfindexInv, ApplyLabels
  <2>3. pc' \in ApplyLabels \cup CleanupLabels
    BY AbortKeeps DEF ApplyLabels, CleanupLabels
  <2>4. Phase' = Phase
    BY <2>1, <2>2, <2>3 DEF Phase, ApplyLabels, CleanupLabels
  <2>5. QED
    BY <2>1, <2>2, <2>3, <2>4, InnerStep DEF ApplyLabels, CleanupLabels
<1>11. CASE DelRoute("r_route", "r_link")
  <2> USE <1>1, <1>11 DEF DelRoute, Goto, NoFault
  <2>1. \/ job' = job
        \/ /\ pc' = "c_nft" /\ job'.after = "drop" /\ job'.new = job.new
    BY AbortKeeps
  <2>2. pc \in ApplyLabels /\ job.after \in {"none", "apply"}
    BY DEF SInv, IfindexInv, ApplyLabels
  <2>3. pc' \in ApplyLabels \cup CleanupLabels
    BY AbortKeeps DEF ApplyLabels, CleanupLabels
  <2>4. Phase' = Phase
    BY <2>1, <2>2, <2>3 DEF Phase, ApplyLabels, CleanupLabels
  <2>5. QED
    BY <2>1, <2>2, <2>3, <2>4, InnerStep DEF ApplyLabels, CleanupLabels
<1>12. CASE recreate_delete_link
  <2> USE <1>1, <1>12 DEF recreate_delete_link, Goto, NoFault
  <2>1. \/ job' = job
        \/ /\ pc' = "c_nft" /\ job'.after = "drop" /\ job'.new = job.new
    BY AbortKeeps
  <2>2. pc \in ApplyLabels /\ job.after \in {"none", "apply"}
    BY DEF SInv, IfindexInv, ApplyLabels
  <2>3. pc' \in ApplyLabels \cup CleanupLabels
    BY AbortKeeps DEF ApplyLabels, CleanupLabels
  <2>4. Phase' = Phase
    BY <2>1, <2>2, <2>3 DEF Phase, ApplyLabels, CleanupLabels
  <2>5. QED
    BY <2>1, <2>2, <2>3, <2>4, InnerStep DEF ApplyLabels, CleanupLabels
<1>13. ASSUME pc \in {"nft", "config"}, pc' = "idle", job' = job,
              UNCHANGED <<pending_map_rules, pending_ia_pd, params, cache, crashes>>,
              faults' = faults \/ Fault
       PROVE  Service!Serve
  <2>1. params = job.new /\ params # None /\ job.after \in {"none", "apply"}
    BY <1>13, NoneIsNoValue DEF IInv, JobInv, SInv, IfindexInv, ApplyLabels
  <2>2. Carries(params)'
    BY <1>13, <2>1 DEF IInv, KernelMatchesParams
  <2>3. InService' = job.new
    BY <1>13, <2>1, <2>2 DEF InService
  <2>4. Phase = "working" /\ Phase' = "ready"
    BY <1>13, <2>1 DEF Phase
  <2>5. (faults' > 0 \/ crashes' > 0) \in {faults > 0 \/ crashes > 0, TRUE}
    BY <1>13, TroubleGrows
  <2>6. QED BY <1>13, <2>3, <2>4, <2>5 DEF Service!Serve, Service!Trouble
<1>14. CASE apply_step6_nftables
  <2> USE <1>1, <1>14 DEF apply_step6_nftables, Goto, NoFault
  <2>1. CASE pc' = "idle"
    <3>1. job' = job
      BY <2>1, AbortKeeps
    <3>2. QED BY <1>13, <2>1, <3>1 DEF Service!Next
  <2>2. CASE pc' # "idle"
    <3>1. \/ job' = job
          \/ /\ pc' = "c_nft" /\ job'.after = "drop" /\ job'.new = job.new
      BY AbortKeeps
    <3>2. job.after \in {"none", "apply"}
      BY DEF SInv, IfindexInv, ApplyLabels
    <3>3. pc' \in {"config", "c_nft"}
      BY <2>2, AbortKeeps
    <3>4. Phase' = Phase
      BY <3>1, <3>2, <3>3 DEF Phase
    <3>5. QED BY <3>1, <3>3, <3>4, InnerStep
  <2>3. QED BY <2>1, <2>2
<1>15. CASE update_config
  <2> USE <1>15 DEF update_config, Goto, NoFault
  <2>1. QED BY <1>13 DEF Service!Next
<1>16. QED BY <1>2, <1>3, <1>4, <1>5, <1>6, <1>7, <1>8, <1>9, <1>10, <1>11, <1>12, <1>14, <1>15 DEF Apply, Update

\* The steps of cleanup: the last one gives up, goes on with the apply, or stops.
LEMMA CleanupRefines ==
    ASSUME IInv, SInv, IInv', SInv', Cleanup
    PROVE  [Service!Next]_(Service!vars)
<1> USE DEF daemon, history
<1>1. job \in Jobs
  BY DEF IInv, TypeOK
<1>2. CASE DeleteTables("c_nft", "c_ebpf")
  <2> USE <1>1, <1>2 DEF DeleteTables, Goto, NoFault
  <2>1. job' = job
    OBVIOUS
  <2>2. pc \in CleanupLabels
    BY DEF CleanupLabels
  <2>3. pc' \in ApplyLabels \cup CleanupLabels
    BY DEF ApplyLabels, CleanupLabels
  <2>4. Phase' = Phase
    BY <2>1, <2>2, <2>3 DEF Phase, ApplyLabels, CleanupLabels
  <2>5. QED
    BY <2>1, <2>2, <2>3, <2>4, InnerStep DEF ApplyLabels, CleanupLabels
<1>3. CASE UnlinkTc("c_ebpf", "c_route")
  <2> USE <1>1, <1>3 DEF UnlinkTc, Goto, NoFault
  <2>1. job' = job
    OBVIOUS
  <2>2. pc \in CleanupLabels
    BY DEF CleanupLabels
  <2>3. pc' \in ApplyLabels \cup CleanupLabels
    BY DEF ApplyLabels, CleanupLabels
  <2>4. Phase' = Phase
    BY <2>1, <2>2, <2>3 DEF Phase, ApplyLabels, CleanupLabels
  <2>5. QED
    BY <2>1, <2>2, <2>3, <2>4, InnerStep DEF ApplyLabels, CleanupLabels
<1>4. CASE DelRoute("c_route", "c_link")
  <2> USE <1>1, <1>4 DEF DelRoute, Goto, NoFault
  <2>1. job' = job
    OBVIOUS
  <2>2. pc \in CleanupLabels
    BY DEF CleanupLabels
  <2>3. pc' \in ApplyLabels \cup CleanupLabels
    BY DEF ApplyLabels, CleanupLabels
  <2>4. Phase' = Phase
    BY <2>1, <2>2, <2>3 DEF Phase, ApplyLabels, CleanupLabels
  <2>5. QED
    BY <2>1, <2>2, <2>3, <2>4, InnerStep DEF ApplyLabels, CleanupLabels
<1>5. CASE cleanup_delete_link
  <2> USE <1>1, <1>5 DEF cleanup_delete_link, Goto, NoFault
  <2>1. job' = job
    OBVIOUS
  <2>2. pc \in CleanupLabels
    BY DEF CleanupLabels
  <2>3. pc' \in ApplyLabels \cup CleanupLabels
    BY DEF ApplyLabels, CleanupLabels
  <2>4. Phase' = Phase
    BY <2>1, <2>2, <2>3 DEF Phase, ApplyLabels, CleanupLabels
  <2>5. QED
    BY <2>1, <2>2, <2>3, <2>4, InnerStep DEF ApplyLabels, CleanupLabels
<1>6. CASE cleanup_del_ipv4_addr
  <2> USE <1>1, <1>6 DEF cleanup_del_ipv4_addr, Goto, NoFault
  <2>1. job' = job
    OBVIOUS
  <2>2. pc \in CleanupLabels
    BY DEF CleanupLabels
  <2>3. pc' \in ApplyLabels \cup CleanupLabels
    BY DEF ApplyLabels, CleanupLabels
  <2>4. Phase' = Phase
    BY <2>1, <2>2, <2>3 DEF Phase, ApplyLabels, CleanupLabels
  <2>5. QED
    BY <2>1, <2>2, <2>3, <2>4, InnerStep DEF ApplyLabels, CleanupLabels
<1>7. CASE cleanup_del_ipv6
  <2> USE <1>1, <1>7 DEF cleanup_del_ipv6, Goto, NoFault
  <2>1. job' = job
    OBVIOUS
  <2>2. pc \in CleanupLabels
    BY DEF CleanupLabels
  <2>3. pc' \in ApplyLabels \cup CleanupLabels
    BY DEF ApplyLabels, CleanupLabels
  <2>4. Phase' = Phase
    BY <2>1, <2>2, <2>3 DEF Phase, ApplyLabels, CleanupLabels
  <2>5. QED
    BY <2>1, <2>2, <2>3, <2>4, InnerStep DEF ApplyLabels, CleanupLabels
<1>8. CASE cleanup_sysctl6
  <2> USE <1>1, <1>8 DEF cleanup_sysctl6, RestoreSysctl, Goto, NoFault
  <2>1. job' = job
    OBVIOUS
  <2>2. pc \in CleanupLabels
    BY DEF CleanupLabels
  <2>3. pc' \in ApplyLabels \cup CleanupLabels
    BY DEF ApplyLabels, CleanupLabels
  <2>4. Phase' = Phase
    BY <2>1, <2>2, <2>3 DEF Phase, ApplyLabels, CleanupLabels
  <2>5. QED
    BY <2>1, <2>2, <2>3, <2>4, InnerStep DEF ApplyLabels, CleanupLabels
<1>9. CASE cleanup_sysctl4
  <2> USE <1>9 DEF cleanup_sysctl4, RestoreSysctl, Goto, NoFault
  <2>1. job' = job /\ (faults' = faults \/ Fault)
    OBVIOUS
  <2>2. (faults' > 0 \/ crashes' > 0) \in {faults > 0 \/ crashes > 0, TRUE}
    BY <2>1, TroubleGrows
  <2>3. InService = None
    BY DEF InService
  <2>4. CASE job.after = "apply"
    <3>1. pc' = "sysctl4"
      BY <2>4
    <3>2. Phase' = Phase
      BY <2>1, <2>4, <3>1 DEF Phase
    <3>3. QED BY <2>1, <3>1, <3>2, InnerStep
  <2>5. CASE job.after = "drop"
    <3>1. pc' = "idle" /\ params' = None
      BY <2>5
    <3>2. Phase = "working" /\ Phase' = "ready" /\ InService' = None
      BY <2>5, <3>1 DEF Phase, InService
    <3>3. Calm => Unservable(job.new)
      BY <2>5 DEF SInv, CalmKernel, CleanupLabels
    <3>4. (faults' > 0 \/ crashes' > 0) \/ Unservable(job.new)
      BY <2>1, <3>3 DEF Calm, Fault, IInv, TypeOK
    <3>5. Service!GiveUp
      BY <2>1, <2>2, <2>3, <3>2, <3>4 DEF Service!GiveUp, Service!Trouble
    <3>6. QED BY <3>5 DEF Service!Next
  <2>6. CASE job.after = "exit"
    <3>1. pc' = "down" /\ params' = None
      BY <2>6
    <3>2. Phase = "stopping" /\ Phase' = "down" /\ InService' = None
      BY <2>6, <3>1 DEF Phase, InService
    <3>3. Service!Stopped
      BY <2>1, <2>2, <2>3, <3>2 DEF Service!Stopped, Service!Trouble
    <3>4. QED BY <3>3 DEF Service!Next
  <2>7. QED BY <2>4, <2>5, <2>6
<1>10. QED BY <1>2, <1>3, <1>4, <1>5, <1>6, <1>7, <1>8, <1>9 DEF Cleanup

\* The clean-up at start.
LEMMA StartupRefines ==
    ASSUME IInv, SInv, Startup
    PROVE  [Service!Next]_(Service!vars)
<1> USE DEF daemon
<1>1. CASE DeleteTables("s_nft", "s_link")
  <2> USE <1>1 DEF DeleteTables, Goto, NoFault
  <2>1. Phase' = Phase
    BY DEF Phase
  <2>2. QED BY <2>1, InnerStep
<1>2. CASE startup_delete_link
  <2> USE <1>2 DEF startup_delete_link, Goto, NoFault
  <2>1. params = None
    BY DEF IInv, ParamsInv
  <2>2. InService = None /\ InService' = None
    BY <2>1 DEF InService
  <2>3. Phase = "starting" /\ Phase' = "ready"
    BY DEF Phase
  <2>4. (faults' > 0 \/ crashes' > 0) \in {faults > 0 \/ crashes > 0, TRUE}
    <3>1. (faults' = faults \/ Fault) /\ crashes' = crashes
      OBVIOUS
    <3>2. QED BY <3>1, TroubleGrows
  <2>5. Service!Started
    BY <2>2, <2>3, <2>4 DEF Service!Started, Service!Trouble
  <2>6. QED BY <2>5 DEF Service!Next
<1>3. QED BY <1>1, <1>2 DEF Startup

\* A handler learns rules and a prefix; nothing, or the work on them, begins.
LEMMA EventRefines ==
    ASSUME IInv, SInv, pc = "idle", NEW rs \in RuleLists \cup {None}, NEW p \in Prefix,
           apply_if_ready(rs, p), pending_map_rules' = rs, pending_ia_pd' = p,
           UNCHANGED <<kernel, crashes>>,
           \/ rs = pending_map_rules /\ UNCHANGED <<cache, faults>>
           \/ ~UseStatic /\ cache' = rs /\ UNCHANGED faults
           \/ ~UseStatic /\ UNCHANGED cache /\ Fault
    PROVE  Service!Next
<1> DEFINE new == try_compute(rs, p)
<1>1. InService = params
  BY DEF InService, IInv, KernelMatchesParams
<1>2. Phase = "ready"
  BY DEF Phase
<1>3. \/ new \in {None, params} /\ UNCHANGED <<params, pc, job>>
      \/ new \in MapeParams /\ new # params /\ job'.new = new /\ job'.after # "exit"
         /\ pc' \in {"sysctl4", "c_nft", "u_del", "r_unlink"}
  <2> HIDE DEF new
  <2>1. \/ new \in {None, params} /\ UNCHANGED <<params, pc, job>>
        \/ /\ new \in MapeParams /\ new # params /\ pc' \in {"sysctl4", "c_nft", "u_del", "r_unlink"}
           /\ \/ job' = [NoJob EXCEPT !.op = "apply", !.new = new]
              \/ job' = [NoJob EXCEPT !.op = "apply", !.new = new, !.clean = params, !.after = "apply"]
              \/ job' = [NoJob EXCEPT !.op = "ce", !.old = params, !.new = new]
              \/ job' = [NoJob EXCEPT !.op = "br", !.old = params, !.new = new]
    BY ApplyIfReadyOutcome, Zenon DEF new
  <2>2. QED BY <2>1 DEF NoJob
<1>4. IF new \in {None, InService}
        THEN UNCHANGED <<Phase, InService>> /\ Phase # "working"
        ELSE Phase' = "working" /\ job'.new = new /\ InService' = None
  <2> HIDE DEF new
  <2>1. CASE new \in {None, params} /\ UNCHANGED <<params, pc, job>>
    BY <1>1, <1>2, <2>1 DEF Phase, InService, Carries, kernel
  <2>2. CASE new \in MapeParams /\ new # params /\ job'.new = new /\ job'.after # "exit"
             /\ pc' \in {"sysctl4", "c_nft", "u_del", "r_unlink"}
    BY <1>1, <2>2, NoneIsNoValue DEF Phase, InService
  <2>3. QED BY <1>3, <2>1, <2>2
<1>5. UseStatic \/ (IF UseStatic THEN StaticRules ELSE None) = None
  OBVIOUS
<1>6. \/ rs = pending_map_rules /\ UNCHANGED <<cache, faults, crashes>>
      \/ (IF UseStatic THEN StaticRules ELSE None) = None /\ cache' = rs /\ UNCHANGED <<faults, crashes>>
      \/ (IF UseStatic THEN StaticRules ELSE None) = None /\ UNCHANGED cache /\ faults' > 0
  BY <1>5 DEF Fault, IInv, TypeOK
<1>7. Service!Learn(rs, p)
  <2> HIDE DEF new
  <2>1. CASE new \in {None, InService}
    BY <1>2, <1>4, <1>6, <2>1 DEF Service!Learn, new
  <2>2. CASE new \notin {None, InService}
    BY <1>2, <1>4, <1>6, <2>2 DEF Service!Learn, new
  <2>3. QED BY <2>1, <2>2
<1>8. QED BY <1>7 DEF Service!Next

\* Events, an orderly stop, a start and a crash.
LEMMA OutsideRefines ==
    ASSUME IInv, SInv, Event \/ terminate \/ start_linux \/ crash
    PROVE  Service!Next
<1>1. pending_map_rules \in RuleLists \cup {None}
  BY DEF IInv, TypeOK
<1>2. CASE \E p \in Prefix : handle_ia_pd(p)
  <2>1. PICK p \in Prefix : handle_ia_pd(p)
    BY <1>2
  <2>2. QED BY <1>1, <2>1, EventRefines DEF handle_ia_pd
<1>3. CASE \E rs \in RuleLists, p \in Prefix : handle_both(rs, p)
  <2>1. PICK rs \in RuleLists, p \in Prefix : handle_both(rs, p)
    BY <1>3
  <2> DEFINE rules == IF UseStatic THEN pending_map_rules ELSE rs
  <2>2. rules \in RuleLists \cup {None}
    BY <1>1
  <2>3. pending_map_rules' = rules /\ apply_if_ready(rules, p)
    BY <2>1 DEF handle_both
  <2>4. \/ rules = pending_map_rules /\ UNCHANGED <<cache, faults>>
        \/ ~UseStatic /\ cache' = rules /\ UNCHANGED faults
        \/ ~UseStatic /\ UNCHANGED cache /\ Fault
    BY <2>1 DEF handle_both, NoFault
  <2> HIDE DEF rules
  <2>5. QED BY <2>1, <2>2, <2>3, <2>4, EventRefines DEF handle_both
<1>4. CASE terminate
  <2> USE <1>4 DEF terminate, daemon
  <2>1. InService = params /\ Phase = "ready"
    BY DEF InService, Phase, IInv, KernelMatchesParams
  <2>2. CASE params = None
    <3>1. pc' = "down"
      BY <2>2
    <3>2. Phase' = "down" /\ InService' = None
      BY <3>1 DEF Phase, InService
    <3>3. Service!Stop
      BY <2>1, <2>2, <3>2 DEF Service!Stop
    <3>4. QED BY <3>3 DEF Service!Next
  <2>3. CASE params # None
    <3>1. pc' = "c_nft" /\ job'.after = "exit"
      BY <2>3 DEF StartCleanup, NoJob
    <3>2. Phase' = "stopping" /\ InService' = None
      BY <3>1 DEF Phase, InService
    <3>3. Service!Stop
      BY <2>1, <2>3, <3>2 DEF Service!Stop
    <3>4. QED BY <3>3 DEF Service!Next
  <2>4. QED BY <2>2, <2>3
<1>5. CASE start_linux
  <2> USE <1>5 DEF start_linux
  <2>1. /\ Phase = "down" /\ Phase' = "starting"
        /\ InService = None /\ InService' = None
    BY DEF Phase, InService
  <2>2. StaticRules # None
    BY ConstantsTyped, NoneIsNoValue
  <2>3. Service!Start
    BY <2>1, <2>2 DEF Service!Start
  <2>4. QED BY <2>3 DEF Service!Next
<1>6. CASE crash
  <2> USE <1>6 DEF crash
  <2>1. Phase # "down" /\ Phase' = "down" /\ InService' = None
    BY DEF Phase, InService
  <2>2. crashes' > 0
    BY DEF IInv, TypeOK
  <2>3. Service!Crash
    BY <2>1, <2>2 DEF Service!Crash
  <2>4. QED BY <2>3 DEF Service!Next
<1>7. QED BY <1>2, <1>3, <1>4, <1>5, <1>6 DEF Event

\* The daemon keeps the promise of CeService, whatever the rules, prefixes and
\* parameters, however many calls fail and however often it crashes: each handler,
\* with all its awaited calls, is one change of service, and it gives up only for a
\* reason.
THEOREM DaemonImplementsService == Spec => ImplementsService
<1>1. Init => Service!Init
  <2>1. Init => Phase = "down" /\ InService = None
    BY DEF Init, Phase, InService
  <2>2. QED BY <2>1 DEF Init, Service!Init
<1>2. ASSUME IInv, SInv, IInv', SInv', [Next]_vars PROVE [Service!Next]_(Service!vars)
  <2>1. CASE Next
    BY <1>2, <2>1, ApplyRefines, CleanupRefines, StartupRefines, OutsideRefines
    DEF Next, DaemonStep
  <2>2. CASE UNCHANGED vars
    <3>1. UNCHANGED <<Phase, InService>>
      BY <2>2, Zenon DEF vars, daemon, kernel, Phase, InService, Carries
    <3>2. QED BY <2>2, <3>1 DEF vars, daemon, Service!vars
  <2>3. QED BY <1>2, <2>1, <2>2
<1>3. QED BY <1>1, <1>2, ServiceInvariance, PTL DEF Spec, ImplementsService, Service!Spec

-----------------------------------------------------------------------------
(***************************************************************************)
(* What apply, update and cleanup leave behind in the kernel, for every    *)
(* set of rules and parameters, any failing calls and any crashes: each    *)
(* remnant has its reason, and staging ports leave the host only in the    *)
(* windows that are known.  Each of the five kinds of kernel state has an  *)
(* inductive invariant of its own over the program counter.                *)
(***************************************************************************)

\* The labels of cleanup after it has taken the tables away.
TablesGone == CleanupLabels \ {"c_nft"}

\* A table is there although nothing is in service only if its deletion failed.
NftExplained == nft # None => "nft" \in warned

\* BPF translates.
Translating == tnl # None /\ tnl.bpf # None

\* The tables: they are gone or their deletion failed before apply, and after the
\* first step of cleanup; until update unlinks the program, it translates.
TablesInv ==
    /\ pc \in TablesGone \cup {"s_link", "down"} => NftExplained
    /\ pc = "idle" /\ params = None => NftExplained
    /\ pc \in ApplyLabels /\ job.op = "apply" => NftExplained
    /\ pc \in {"sysctl4", "sysctl6"} => job.op = "apply"
    /\ pc = "c_nft" => /\ job.op \in {"apply", "ce", "br"}
                       /\ job.op = "apply" => NftExplained \/ Translating
    /\ pc \in {"u_del", "ipv6", "r_unlink"} /\ job.op \in {"ce", "br"} => Translating

\* The tunnel: without an ifindex there is none, but for a failed deletion, a link
\* that was not brought up, or what startup_cleanup still has to look for.
TunnelInv ==
    tunnel_ifindex = None /\ tnl # None /\ pc \notin {"crashed", "s_nft", "s_link"} =>
        warned \cap {"link", "half"} # {}

\* The addresses: all but the one the handler works on are accounted for.
AddressInv ==
    /\ pc \in {"down", "crashed", "s_nft", "s_link", "sysctl4", "sysctl6", "ipv6",
               "c_sysctl6", "c_sysctl4"} => addrs6 \subseteq kept6
    /\ pc = "idle" /\ params = None => addrs6 \subseteq kept6
    /\ pc = "idle" /\ params # None => addrs6 \subseteq kept6 \cup {params.ce_ipv6}
    /\ pc = "u_del" => addrs6 \subseteq kept6 \cup {job.old.ce_ipv6}
    /\ pc \in ApplyLabels \ {"u_del"} => addrs6 \subseteq kept6 \cup {job.new.ce_ipv6}
    /\ pc \in {"c_nft", "c_ebpf", "c_route", "c_link", "c_ipv4", "c_ipv6"} =>
          addrs6 \subseteq kept6 \cup {job.clean.ce_ipv6}

\* The administrator's value of a sysctl is in the kernel or in original_forward,
\* or writing it back has failed once.
Restorable(f) ==
    f \notin warned => AdminForward[f] = IF original_forward[f] = None THEN forward[f]
                                         ELSE original_forward[f]

\* The sysctls: nothing is saved while nothing is in force, so apply never saves the
\* "1" it wrote itself.
SysctlInv ==
    /\ crashes = 0 => \A f \in Family : Restorable(f)
    /\ pc \in {"down", "crashed", "s_nft", "s_link", "sysctl4"} =>
          \A f \in Family : original_forward[f] = None
    /\ pc = "idle" /\ params = None => \A f \in Family : original_forward[f] = None
    /\ pc \in {"sysctl6", "c_sysctl4"} => original_forward["v6"] = None

\* The default route: none leads to a tunnel that is not there.
RouteInv == "tunnel" \in routes => tnl # None

RInv == TablesInv /\ TunnelInv /\ AddressInv /\ SysctlInv /\ RouteInv

-----------------------------------------------------------------------------
(* Proofs *)

\* Nothing is there before the first start.
LEMMA InitRInv == Init => RInv
  BY NoneIsNoValue
  DEF Init, RInv, TablesInv, TunnelInv, AddressInv, SysctlInv, RouteInv, TablesGone, NftExplained,
      Restorable, ApplyLabels, CleanupLabels, Family

\* Apply leaves nothing in the kernel that cleanup does not look for.
LEMMA ApplyRInv == IInv /\ SInv /\ RInv /\ Apply => RInv'
<1> SUFFICES ASSUME IInv, SInv, RInv, Apply PROVE RInv'
  OBVIOUS
<1> USE DEF daemon, history, Goto, Fault, NoFault
<1>1. job \in Jobs /\ IfindexInv
  BY DEF IInv, TypeOK, SInv
<1>2. TablesInv /\ TunnelInv /\ AddressInv /\ SysctlInv /\ RouteInv
  BY DEF RInv
<1>3. CASE apply_sysctl("v4", "sysctl4", "sysctl6")
  <2> USE <1>1, <1>2, <1>3 DEF apply_sysctl
  <2>1. TablesInv'
    BY AbortKeeps, NoneIsNoValue DEF IInv, TypeOK, JobInv, ParamsInv, TunnelHasParams,
        Progress, TablesInv, TablesGone, NftExplained, Translating, ApplyLabels,
        CleanupLabels, Tunnels
  <2>2. TunnelInv'
    BY AbortKeeps, NoneIsNoValue DEF IInv, TypeOK, JobInv, ParamsInv, TunnelHasParams,
        IfindexInv, TunnelInv, ApplyLabels, CleanupLabels
  <2>3. AddressInv'
    BY AbortKeeps, NoneIsNoValue DEF IInv, JobInv, ParamsInv, Progress, AddressInv,
        ApplyLabels, CleanupLabels
  <2>4. SysctlInv'
    BY AbortKeeps, ConstantsTyped, NoneIsNoValue DEF IInv, TypeOK, JobInv, ParamsInv,
        IfindexInv, SysctlInv, Restorable, ApplyLabels, CleanupLabels, Family
  <2>5. RouteInv'
    BY AbortKeeps, NoneIsNoValue DEF IInv, TypeOK, Progress, RouteInv, Tunnels
  <2>. QED
    BY <2>1, <2>2, <2>3, <2>4, <2>5 DEF RInv
<1>4. CASE apply_sysctl("v6", "sysctl6", "ipv6")
  <2> USE <1>1, <1>2, <1>4 DEF apply_sysctl
  <2>1. TablesInv'
    BY AbortKeeps, NoneIsNoValue DEF IInv, TypeOK, JobInv, ParamsInv, TunnelHasParams,
        Progress, TablesInv, TablesGone, NftExplained, Translating, ApplyLabels,
        CleanupLabels, Tunnels
  <2>2. TunnelInv'
    BY AbortKeeps, NoneIsNoValue DEF IInv, TypeOK, JobInv, ParamsInv, TunnelHasParams,
        IfindexInv, TunnelInv, ApplyLabels, CleanupLabels
  <2>3. AddressInv'
    BY AbortKeeps, NoneIsNoValue DEF IInv, JobInv, ParamsInv, Progress, AddressInv,
        ApplyLabels, CleanupLabels
  <2>4. SysctlInv'
    BY AbortKeeps, ConstantsTyped, NoneIsNoValue DEF IInv, TypeOK, JobInv, ParamsInv,
        IfindexInv, SysctlInv, Restorable, ApplyLabels, CleanupLabels, Family
  <2>5. RouteInv'
    BY AbortKeeps, NoneIsNoValue DEF IInv, TypeOK, Progress, RouteInv, Tunnels
  <2>. QED
    BY <2>1, <2>2, <2>3, <2>4, <2>5 DEF RInv
<1>5. CASE apply_step2_add_ipv6
  <2> USE <1>1, <1>2, <1>5 DEF apply_step2_add_ipv6
  <2>1. TablesInv'
    BY AbortKeeps, NoneIsNoValue DEF IInv, TypeOK, JobInv, ParamsInv, TunnelHasParams,
        Progress, TablesInv, TablesGone, NftExplained, Translating, ApplyLabels,
        CleanupLabels, Tunnels
  <2>2. TunnelInv'
    BY AbortKeeps, NoneIsNoValue DEF IInv, TypeOK, JobInv, ParamsInv, TunnelHasParams,
        IfindexInv, TunnelInv, ApplyLabels, CleanupLabels
  <2>3. AddressInv'
    BY AbortKeeps, NoneIsNoValue DEF IInv, JobInv, ParamsInv, Progress, AddressInv,
        ApplyLabels, CleanupLabels
  <2>4. SysctlInv'
    BY AbortKeeps, ConstantsTyped, NoneIsNoValue DEF IInv, TypeOK, JobInv, ParamsInv,
        IfindexInv, SysctlInv, Restorable, ApplyLabels, CleanupLabels, Family
  <2>5. RouteInv'
    BY AbortKeeps, NoneIsNoValue DEF IInv, TypeOK, Progress, RouteInv, Tunnels
  <2>. QED
    BY <2>1, <2>2, <2>3, <2>4, <2>5 DEF RInv
<1>6. CASE apply_step3_create_tunnel
  <2> USE <1>1, <1>2, <1>6 DEF apply_step3_create_tunnel
  <2>1. TablesInv'
    BY AbortKeeps, NoneIsNoValue DEF IInv, TypeOK, JobInv, ParamsInv, TunnelHasParams,
        Progress, TablesInv, TablesGone, NftExplained, Translating, ApplyLabels,
        CleanupLabels, Tunnels
  <2>2. TunnelInv'
    BY AbortKeeps, NoneIsNoValue DEF IInv, TypeOK, JobInv, ParamsInv, TunnelHasParams,
        IfindexInv, TunnelInv, ApplyLabels, CleanupLabels
  <2>3. AddressInv'
    BY AbortKeeps, NoneIsNoValue DEF IInv, JobInv, ParamsInv, Progress, AddressInv,
        ApplyLabels, CleanupLabels
  <2>4. SysctlInv'
    BY AbortKeeps, ConstantsTyped, NoneIsNoValue DEF IInv, TypeOK, JobInv, ParamsInv,
        IfindexInv, SysctlInv, Restorable, ApplyLabels, CleanupLabels, Family
  <2>5. RouteInv'
    BY AbortKeeps, NoneIsNoValue DEF IInv, TypeOK, Progress, RouteInv, Tunnels
  <2>. QED
    BY <2>1, <2>2, <2>3, <2>4, <2>5 DEF RInv
<1>7. CASE add_ipv4_addr
  <2> USE <1>1, <1>2, <1>7 DEF add_ipv4_addr
  <2>1. TablesInv'
    BY AbortKeeps, NoneIsNoValue DEF IInv, TypeOK, JobInv, ParamsInv, TunnelHasParams,
        Progress, TablesInv, TablesGone, NftExplained, Translating, ApplyLabels,
        CleanupLabels, Tunnels
  <2>2. TunnelInv'
    BY AbortKeeps, NoneIsNoValue DEF IInv, TypeOK, JobInv, ParamsInv, TunnelHasParams,
        IfindexInv, TunnelInv, ApplyLabels, CleanupLabels
  <2>3. AddressInv'
    BY AbortKeeps, NoneIsNoValue DEF IInv, JobInv, ParamsInv, Progress, AddressInv,
        ApplyLabels, CleanupLabels
  <2>4. SysctlInv'
    BY AbortKeeps, ConstantsTyped, NoneIsNoValue DEF IInv, TypeOK, JobInv, ParamsInv,
        IfindexInv, SysctlInv, Restorable, ApplyLabels, CleanupLabels, Family
  <2>5. RouteInv'
    <3>1. tnl \in Tunnels /\ job.new.ipv4 \in Ipv4 /\ tnl.v4 = {}
      BY DEF IInv, TypeOK, JobInv, Progress, ApplyLabels, MapeParams
    <3>2. tnl' = tnl \/ tnl' \in Tunnels
      BY <3>1, AddV4
    <3>. QED
      BY <3>1, <3>2, NoneIsNoValue DEF Tunnels, RouteInv
  <2>. QED
    BY <2>1, <2>2, <2>3, <2>4, <2>5 DEF RInv
<1>8. CASE add_ipv4_default_route
  <2> USE <1>1, <1>2, <1>8 DEF add_ipv4_default_route
  <2>1. TablesInv'
    BY AbortKeeps, NoneIsNoValue DEF IInv, TypeOK, JobInv, ParamsInv, TunnelHasParams,
        Progress, TablesInv, TablesGone, NftExplained, Translating, ApplyLabels,
        CleanupLabels, Tunnels
  <2>2. TunnelInv'
    BY AbortKeeps, NoneIsNoValue DEF IInv, TypeOK, JobInv, ParamsInv, TunnelHasParams,
        IfindexInv, TunnelInv, ApplyLabels, CleanupLabels
  <2>3. AddressInv'
    BY AbortKeeps, NoneIsNoValue DEF IInv, JobInv, ParamsInv, Progress, AddressInv,
        ApplyLabels, CleanupLabels
  <2>4. SysctlInv'
    BY AbortKeeps, ConstantsTyped, NoneIsNoValue DEF IInv, TypeOK, JobInv, ParamsInv,
        IfindexInv, SysctlInv, Restorable, ApplyLabels, CleanupLabels, Family
  <2>5. RouteInv'
    BY AbortKeeps, NoneIsNoValue DEF IInv, TypeOK, Progress, RouteInv, Tunnels
  <2>. QED
    BY <2>1, <2>2, <2>3, <2>4, <2>5 DEF RInv
<1>9. CASE apply_step5_5_ebpf
  <2> USE <1>1, <1>2, <1>9 DEF apply_step5_5_ebpf
  <2>1. TablesInv'
    BY AbortKeeps, NoneIsNoValue DEF IInv, TypeOK, JobInv, ParamsInv, TunnelHasParams,
        Progress, TablesInv, TablesGone, NftExplained, Translating, ApplyLabels,
        CleanupLabels, Tunnels
  <2>2. TunnelInv'
    BY AbortKeeps, NoneIsNoValue DEF IInv, TypeOK, JobInv, ParamsInv, TunnelHasParams,
        IfindexInv, TunnelInv, ApplyLabels, CleanupLabels
  <2>3. AddressInv'
    BY AbortKeeps, NoneIsNoValue DEF IInv, JobInv, ParamsInv, Progress, AddressInv,
        ApplyLabels, CleanupLabels
  <2>4. SysctlInv'
    BY AbortKeeps, ConstantsTyped, NoneIsNoValue DEF IInv, TypeOK, JobInv, ParamsInv,
        IfindexInv, SysctlInv, Restorable, ApplyLabels, CleanupLabels, Family
  <2>5. RouteInv'
    <3>1. tnl \in Tunnels /\ psid_config(job.new) \in PortParams \X Psid
      BY PsidConfigType DEF IInv, TypeOK, JobInv, Progress, ApplyLabels
    <3>2. tnl' = tnl \/ tnl' \in Tunnels
      BY <3>1, SetBpf
    <3>. QED
      BY <3>1, <3>2, NoneIsNoValue DEF Tunnels, RouteInv
  <2>. QED
    BY <2>1, <2>2, <2>3, <2>4, <2>5 DEF RInv
<1>10. CASE apply_step6_nftables
  <2> USE <1>1, <1>2, <1>10 DEF apply_step6_nftables
  <2>1. TablesInv'
    BY AbortKeeps, NoneIsNoValue DEF IInv, TypeOK, JobInv, ParamsInv, TunnelHasParams,
        Progress, TablesInv, TablesGone, NftExplained, Translating, ApplyLabels,
        CleanupLabels, Tunnels
  <2>2. TunnelInv'
    BY AbortKeeps, NoneIsNoValue DEF IInv, TypeOK, JobInv, ParamsInv, TunnelHasParams,
        IfindexInv, TunnelInv, ApplyLabels, CleanupLabels
  <2>3. AddressInv'
    BY AbortKeeps, NoneIsNoValue DEF IInv, JobInv, ParamsInv, Progress, AddressInv,
        ApplyLabels, CleanupLabels
  <2>4. SysctlInv'
    BY AbortKeeps, ConstantsTyped, NoneIsNoValue DEF IInv, TypeOK, JobInv, ParamsInv,
        IfindexInv, SysctlInv, Restorable, ApplyLabels, CleanupLabels, Family
  <2>5. RouteInv'
    BY AbortKeeps, NoneIsNoValue DEF IInv, TypeOK, Progress, RouteInv, Tunnels
  <2>. QED
    BY <2>1, <2>2, <2>3, <2>4, <2>5 DEF RInv
<1>. QED
  BY <1>3, <1>4, <1>5, <1>6, <1>7, <1>8, <1>9, <1>10 DEF Apply

\* Update gives up an address or a tunnel only by deleting it or recording it.
LEMMA UpdateRInv == IInv /\ SInv /\ RInv /\ Update => RInv'
<1> SUFFICES ASSUME IInv, SInv, RInv, Update PROVE RInv'
  OBVIOUS
<1> USE DEF daemon, history, Goto, Fault, NoFault
<1>1. job \in Jobs /\ IfindexInv
  BY DEF IInv, TypeOK, SInv
<1>2. TablesInv /\ TunnelInv /\ AddressInv /\ SysctlInv /\ RouteInv
  BY DEF RInv
<1>3. CASE update_del_old
  <2> USE <1>1, <1>2, <1>3 DEF update_del_old
  <2>1. TablesInv'
    BY AbortKeeps, NoneIsNoValue DEF IInv, TypeOK, JobInv, ParamsInv, TunnelHasParams,
        Progress, TablesInv, TablesGone, NftExplained, Translating, ApplyLabels,
        CleanupLabels, Tunnels
  <2>2. TunnelInv'
    BY AbortKeeps, NoneIsNoValue DEF IInv, TypeOK, JobInv, ParamsInv, TunnelHasParams,
        IfindexInv, TunnelInv, ApplyLabels, CleanupLabels
  <2>3. AddressInv'
    BY AbortKeeps, NoneIsNoValue DEF IInv, JobInv, ParamsInv, Progress, AddressInv,
        ApplyLabels, CleanupLabels
  <2>4. SysctlInv'
    BY AbortKeeps, ConstantsTyped, NoneIsNoValue DEF IInv, TypeOK, JobInv, ParamsInv,
        IfindexInv, SysctlInv, Restorable, ApplyLabels, CleanupLabels, Family
  <2>5. RouteInv'
    BY AbortKeeps, NoneIsNoValue DEF IInv, TypeOK, Progress, RouteInv, Tunnels
  <2>. QED
    BY <2>1, <2>2, <2>3, <2>4, <2>5 DEF RInv
<1>4. CASE UnlinkTc("r_unlink", "r_route")
  <2> USE <1>1, <1>2, <1>4 DEF UnlinkTc
  <2>1. TablesInv'
    BY NoneIsNoValue DEF IInv, TypeOK, JobInv, ParamsInv, TunnelHasParams, Progress,
        TablesInv, TablesGone, NftExplained, Translating, ApplyLabels, CleanupLabels,
        Tunnels
  <2>2. TunnelInv'
    BY NoneIsNoValue DEF IInv, TypeOK, JobInv, ParamsInv, TunnelHasParams, IfindexInv,
        TunnelInv, ApplyLabels, CleanupLabels
  <2>3. AddressInv'
    BY NoneIsNoValue DEF IInv, JobInv, ParamsInv, Progress, AddressInv, ApplyLabels,
        CleanupLabels
  <2>4. SysctlInv'
    BY ConstantsTyped, NoneIsNoValue DEF IInv, TypeOK, JobInv, ParamsInv, IfindexInv,
        SysctlInv, Restorable, ApplyLabels, CleanupLabels, Family
  <2>5. RouteInv'
    BY NoneIsNoValue DEF IInv, TypeOK, Progress, RouteInv, Tunnels
  <2>. QED
    BY <2>1, <2>2, <2>3, <2>4, <2>5 DEF RInv
<1>5. CASE DelRoute("r_route", "r_link")
  <2> USE <1>1, <1>2, <1>5 DEF DelRoute
  <2>1. TablesInv'
    BY NoneIsNoValue DEF IInv, TypeOK, JobInv, ParamsInv, TunnelHasParams, Progress,
        TablesInv, TablesGone, NftExplained, Translating, ApplyLabels, CleanupLabels,
        Tunnels
  <2>2. TunnelInv'
    BY NoneIsNoValue DEF IInv, TypeOK, JobInv, ParamsInv, TunnelHasParams, IfindexInv,
        TunnelInv, ApplyLabels, CleanupLabels
  <2>3. AddressInv'
    BY NoneIsNoValue DEF IInv, JobInv, ParamsInv, Progress, AddressInv, ApplyLabels,
        CleanupLabels
  <2>4. SysctlInv'
    BY ConstantsTyped, NoneIsNoValue DEF IInv, TypeOK, JobInv, ParamsInv, IfindexInv,
        SysctlInv, Restorable, ApplyLabels, CleanupLabels, Family
  <2>5. RouteInv'
    BY NoneIsNoValue DEF IInv, TypeOK, Progress, RouteInv, Tunnels
  <2>. QED
    BY <2>1, <2>2, <2>3, <2>4, <2>5 DEF RInv
<1>6. CASE recreate_delete_link
  <2> USE <1>1, <1>2, <1>6 DEF recreate_delete_link, DropTunnel
  <2>1. TablesInv'
    BY AbortKeeps, NoneIsNoValue DEF IInv, TypeOK, JobInv, ParamsInv, TunnelHasParams,
        Progress, TablesInv, TablesGone, NftExplained, Translating, ApplyLabels,
        CleanupLabels, Tunnels
  <2>2. TunnelInv'
    BY AbortKeeps, NoneIsNoValue DEF IInv, TypeOK, JobInv, ParamsInv, TunnelHasParams,
        IfindexInv, TunnelInv, ApplyLabels, CleanupLabels
  <2>3. AddressInv'
    BY AbortKeeps, NoneIsNoValue DEF IInv, JobInv, ParamsInv, Progress, AddressInv,
        ApplyLabels, CleanupLabels
  <2>4. SysctlInv'
    BY AbortKeeps, ConstantsTyped, NoneIsNoValue DEF IInv, TypeOK, JobInv, ParamsInv,
        IfindexInv, SysctlInv, Restorable, ApplyLabels, CleanupLabels, Family
  <2>5. RouteInv'
    BY AbortKeeps, NoneIsNoValue DEF IInv, TypeOK, Progress, RouteInv, Tunnels
  <2>. QED
    BY <2>1, <2>2, <2>3, <2>4, <2>5 DEF RInv
<1>7. CASE update_config
  <2> USE <1>1, <1>2, <1>7 DEF update_config
  <2>1. TablesInv'
    BY NoneIsNoValue DEF IInv, TypeOK, JobInv, ParamsInv, TunnelHasParams, Progress,
        TablesInv, TablesGone, NftExplained, Translating, ApplyLabels, CleanupLabels,
        Tunnels
  <2>2. TunnelInv'
    BY NoneIsNoValue DEF IInv, TypeOK, JobInv, ParamsInv, TunnelHasParams, IfindexInv,
        TunnelInv, ApplyLabels, CleanupLabels
  <2>3. AddressInv'
    BY NoneIsNoValue DEF IInv, JobInv, ParamsInv, Progress, AddressInv, ApplyLabels,
        CleanupLabels
  <2>4. SysctlInv'
    BY ConstantsTyped, NoneIsNoValue DEF IInv, TypeOK, JobInv, ParamsInv, IfindexInv,
        SysctlInv, Restorable, ApplyLabels, CleanupLabels, Family
  <2>5. RouteInv'
    BY NoneIsNoValue DEF IInv, TypeOK, Progress, RouteInv, Tunnels
  <2>. QED
    BY <2>1, <2>2, <2>3, <2>4, <2>5 DEF RInv
<1>. QED
  BY <1>3, <1>4, <1>5, <1>6, <1>7 DEF Update

\* Cleanup takes everything away, or records what it could not.
LEMMA CleanupRInv == IInv /\ SInv /\ RInv /\ Cleanup => RInv'
<1> SUFFICES ASSUME IInv, SInv, RInv, Cleanup PROVE RInv'
  OBVIOUS
<1> USE DEF daemon, history, Goto, Fault, NoFault
<1>1. job \in Jobs /\ IfindexInv
  BY DEF IInv, TypeOK, SInv
<1>2. TablesInv /\ TunnelInv /\ AddressInv /\ SysctlInv /\ RouteInv
  BY DEF RInv
<1>3. CASE DeleteTables("c_nft", "c_ebpf")
  <2> USE <1>1, <1>2, <1>3 DEF DeleteTables
  <2>1. TablesInv'
    BY NoneIsNoValue DEF IInv, TypeOK, JobInv, ParamsInv, TunnelHasParams, Progress,
        TablesInv, TablesGone, NftExplained, Translating, ApplyLabels, CleanupLabels,
        Tunnels
  <2>2. TunnelInv'
    BY NoneIsNoValue DEF IInv, TypeOK, JobInv, ParamsInv, TunnelHasParams, IfindexInv,
        TunnelInv, ApplyLabels, CleanupLabels
  <2>3. AddressInv'
    BY NoneIsNoValue DEF IInv, JobInv, ParamsInv, Progress, AddressInv, ApplyLabels,
        CleanupLabels
  <2>4. SysctlInv'
    BY ConstantsTyped, NoneIsNoValue DEF IInv, TypeOK, JobInv, ParamsInv, IfindexInv,
        SysctlInv, Restorable, ApplyLabels, CleanupLabels, Family
  <2>5. RouteInv'
    BY NoneIsNoValue DEF IInv, TypeOK, Progress, RouteInv, Tunnels
  <2>. QED
    BY <2>1, <2>2, <2>3, <2>4, <2>5 DEF RInv
<1>4. CASE UnlinkTc("c_ebpf", "c_route")
  <2> USE <1>1, <1>2, <1>4 DEF UnlinkTc
  <2>1. TablesInv'
    BY NoneIsNoValue DEF IInv, TypeOK, JobInv, ParamsInv, TunnelHasParams, Progress,
        TablesInv, TablesGone, NftExplained, Translating, ApplyLabels, CleanupLabels,
        Tunnels
  <2>2. TunnelInv'
    BY NoneIsNoValue DEF IInv, TypeOK, JobInv, ParamsInv, TunnelHasParams, IfindexInv,
        TunnelInv, ApplyLabels, CleanupLabels
  <2>3. AddressInv'
    BY NoneIsNoValue DEF IInv, JobInv, ParamsInv, Progress, AddressInv, ApplyLabels,
        CleanupLabels
  <2>4. SysctlInv'
    BY ConstantsTyped, NoneIsNoValue DEF IInv, TypeOK, JobInv, ParamsInv, IfindexInv,
        SysctlInv, Restorable, ApplyLabels, CleanupLabels, Family
  <2>5. RouteInv'
    BY NoneIsNoValue DEF IInv, TypeOK, Progress, RouteInv, Tunnels
  <2>. QED
    BY <2>1, <2>2, <2>3, <2>4, <2>5 DEF RInv
<1>5. CASE DelRoute("c_route", "c_link")
  <2> USE <1>1, <1>2, <1>5 DEF DelRoute
  <2>1. TablesInv'
    BY NoneIsNoValue DEF IInv, TypeOK, JobInv, ParamsInv, TunnelHasParams, Progress,
        TablesInv, TablesGone, NftExplained, Translating, ApplyLabels, CleanupLabels,
        Tunnels
  <2>2. TunnelInv'
    BY NoneIsNoValue DEF IInv, TypeOK, JobInv, ParamsInv, TunnelHasParams, IfindexInv,
        TunnelInv, ApplyLabels, CleanupLabels
  <2>3. AddressInv'
    BY NoneIsNoValue DEF IInv, JobInv, ParamsInv, Progress, AddressInv, ApplyLabels,
        CleanupLabels
  <2>4. SysctlInv'
    BY ConstantsTyped, NoneIsNoValue DEF IInv, TypeOK, JobInv, ParamsInv, IfindexInv,
        SysctlInv, Restorable, ApplyLabels, CleanupLabels, Family
  <2>5. RouteInv'
    BY NoneIsNoValue DEF IInv, TypeOK, Progress, RouteInv, Tunnels
  <2>. QED
    BY <2>1, <2>2, <2>3, <2>4, <2>5 DEF RInv
<1>6. CASE cleanup_delete_link
  <2> USE <1>1, <1>2, <1>6 DEF cleanup_delete_link, DropTunnel
  <2>1. TablesInv'
    BY NoneIsNoValue DEF IInv, TypeOK, JobInv, ParamsInv, TunnelHasParams, Progress,
        TablesInv, TablesGone, NftExplained, Translating, ApplyLabels, CleanupLabels,
        Tunnels
  <2>2. TunnelInv'
    BY NoneIsNoValue DEF IInv, TypeOK, JobInv, ParamsInv, TunnelHasParams, IfindexInv,
        TunnelInv, ApplyLabels, CleanupLabels
  <2>3. AddressInv'
    BY NoneIsNoValue DEF IInv, JobInv, ParamsInv, Progress, AddressInv, ApplyLabels,
        CleanupLabels
  <2>4. SysctlInv'
    BY ConstantsTyped, NoneIsNoValue DEF IInv, TypeOK, JobInv, ParamsInv, IfindexInv,
        SysctlInv, Restorable, ApplyLabels, CleanupLabels, Family
  <2>5. RouteInv'
    BY NoneIsNoValue DEF IInv, TypeOK, Progress, RouteInv, Tunnels
  <2>. QED
    BY <2>1, <2>2, <2>3, <2>4, <2>5 DEF RInv
<1>7. CASE cleanup_del_ipv4_addr
  <2> USE <1>1, <1>2, <1>7 DEF cleanup_del_ipv4_addr
  <2>1. TablesInv'
    BY NoneIsNoValue DEF IInv, TypeOK, JobInv, ParamsInv, TunnelHasParams, Progress,
        TablesInv, TablesGone, NftExplained, Translating, ApplyLabels, CleanupLabels,
        Tunnels
  <2>2. TunnelInv'
    BY NoneIsNoValue DEF IInv, TypeOK, JobInv, ParamsInv, TunnelHasParams, IfindexInv,
        TunnelInv, ApplyLabels, CleanupLabels
  <2>3. AddressInv'
    BY NoneIsNoValue DEF IInv, JobInv, ParamsInv, Progress, AddressInv, ApplyLabels,
        CleanupLabels
  <2>4. SysctlInv'
    BY ConstantsTyped, NoneIsNoValue DEF IInv, TypeOK, JobInv, ParamsInv, IfindexInv,
        SysctlInv, Restorable, ApplyLabels, CleanupLabels, Family
  <2>5. RouteInv'
    BY NoneIsNoValue DEF IInv, TypeOK, Progress, RouteInv, Tunnels
  <2>. QED
    BY <2>1, <2>2, <2>3, <2>4, <2>5 DEF RInv
<1>8. CASE cleanup_del_ipv6
  <2> USE <1>1, <1>2, <1>8 DEF cleanup_del_ipv6
  <2>1. TablesInv'
    BY NoneIsNoValue DEF IInv, TypeOK, JobInv, ParamsInv, TunnelHasParams, Progress,
        TablesInv, TablesGone, NftExplained, Translating, ApplyLabels, CleanupLabels,
        Tunnels
  <2>2. TunnelInv'
    BY NoneIsNoValue DEF IInv, TypeOK, JobInv, ParamsInv, TunnelHasParams, IfindexInv,
        TunnelInv, ApplyLabels, CleanupLabels
  <2>3. AddressInv'
    BY NoneIsNoValue DEF IInv, JobInv, ParamsInv, Progress, AddressInv, ApplyLabels,
        CleanupLabels
  <2>4. SysctlInv'
    BY ConstantsTyped, NoneIsNoValue DEF IInv, TypeOK, JobInv, ParamsInv, IfindexInv,
        SysctlInv, Restorable, ApplyLabels, CleanupLabels, Family
  <2>5. RouteInv'
    BY NoneIsNoValue DEF IInv, TypeOK, Progress, RouteInv, Tunnels
  <2>. QED
    BY <2>1, <2>2, <2>3, <2>4, <2>5 DEF RInv
<1>9. CASE cleanup_sysctl6
  <2> USE <1>1, <1>2, <1>9 DEF cleanup_sysctl6, RestoreSysctl
  <2>1. TablesInv'
    BY NoneIsNoValue DEF IInv, TypeOK, JobInv, ParamsInv, TunnelHasParams, Progress,
        TablesInv, TablesGone, NftExplained, Translating, ApplyLabels, CleanupLabels,
        Tunnels
  <2>2. TunnelInv'
    BY NoneIsNoValue DEF IInv, TypeOK, JobInv, ParamsInv, TunnelHasParams, IfindexInv,
        TunnelInv, ApplyLabels, CleanupLabels
  <2>3. AddressInv'
    BY NoneIsNoValue DEF IInv, JobInv, ParamsInv, Progress, AddressInv, ApplyLabels,
        CleanupLabels
  <2>4. SysctlInv'
    BY ConstantsTyped, NoneIsNoValue DEF IInv, TypeOK, JobInv, ParamsInv, IfindexInv,
        SysctlInv, Restorable, ApplyLabels, CleanupLabels, Family
  <2>5. RouteInv'
    BY NoneIsNoValue DEF IInv, TypeOK, Progress, RouteInv, Tunnels
  <2>. QED
    BY <2>1, <2>2, <2>3, <2>4, <2>5 DEF RInv
<1>10. CASE cleanup_sysctl4
  <2> USE <1>1, <1>2, <1>10 DEF cleanup_sysctl4, RestoreSysctl
  <2>1. TablesInv'
    BY NoneIsNoValue DEF IInv, TypeOK, JobInv, ParamsInv, TunnelHasParams, Progress,
        TablesInv, TablesGone, NftExplained, Translating, ApplyLabels, CleanupLabels,
        Tunnels
  <2>2. TunnelInv'
    BY NoneIsNoValue DEF IInv, TypeOK, JobInv, ParamsInv, TunnelHasParams, IfindexInv,
        TunnelInv, ApplyLabels, CleanupLabels
  <2>3. AddressInv'
    BY NoneIsNoValue DEF IInv, JobInv, ParamsInv, Progress, AddressInv, ApplyLabels,
        CleanupLabels
  <2>4. SysctlInv'
    BY ConstantsTyped, NoneIsNoValue DEF IInv, TypeOK, JobInv, ParamsInv, IfindexInv,
        SysctlInv, Restorable, ApplyLabels, CleanupLabels, Family
  <2>5. RouteInv'
    BY NoneIsNoValue DEF IInv, TypeOK, Progress, RouteInv, Tunnels
  <2>. QED
    BY <2>1, <2>2, <2>3, <2>4, <2>5 DEF RInv
<1>. QED
  BY <1>3, <1>4, <1>5, <1>6, <1>7, <1>8, <1>9, <1>10 DEF Cleanup

\* The clean-up at start deals with the tables and the tunnel of a crash.
LEMMA StartupRInv == IInv /\ SInv /\ RInv /\ Startup => RInv'
<1> SUFFICES ASSUME IInv, SInv, RInv, Startup PROVE RInv'
  OBVIOUS
<1> USE DEF daemon, history, Goto, Fault, NoFault
<1>1. job \in Jobs /\ IfindexInv
  BY DEF IInv, TypeOK, SInv
<1>2. TablesInv /\ TunnelInv /\ AddressInv /\ SysctlInv /\ RouteInv
  BY DEF RInv
<1>3. CASE DeleteTables("s_nft", "s_link")
  <2> USE <1>1, <1>2, <1>3 DEF DeleteTables
  <2>1. TablesInv'
    BY NoneIsNoValue DEF IInv, TypeOK, JobInv, ParamsInv, TunnelHasParams, Progress,
        TablesInv, TablesGone, NftExplained, Translating, ApplyLabels, CleanupLabels,
        Tunnels
  <2>2. TunnelInv'
    BY NoneIsNoValue DEF IInv, TypeOK, JobInv, ParamsInv, TunnelHasParams, IfindexInv,
        TunnelInv, ApplyLabels, CleanupLabels
  <2>3. AddressInv'
    BY NoneIsNoValue DEF IInv, JobInv, ParamsInv, Progress, AddressInv, ApplyLabels,
        CleanupLabels
  <2>4. SysctlInv'
    BY ConstantsTyped, NoneIsNoValue DEF IInv, TypeOK, JobInv, ParamsInv, IfindexInv,
        SysctlInv, Restorable, ApplyLabels, CleanupLabels, Family
  <2>5. RouteInv'
    BY NoneIsNoValue DEF IInv, TypeOK, Progress, RouteInv, Tunnels
  <2>. QED
    BY <2>1, <2>2, <2>3, <2>4, <2>5 DEF RInv
<1>4. CASE startup_delete_link
  <2> USE <1>1, <1>2, <1>4 DEF startup_delete_link, DropTunnel
  <2>1. TablesInv'
    BY NoneIsNoValue DEF IInv, TypeOK, JobInv, ParamsInv, TunnelHasParams, Progress,
        TablesInv, TablesGone, NftExplained, Translating, ApplyLabels, CleanupLabels,
        Tunnels
  <2>2. TunnelInv'
    BY NoneIsNoValue DEF IInv, TypeOK, JobInv, ParamsInv, TunnelHasParams, IfindexInv,
        TunnelInv, ApplyLabels, CleanupLabels
  <2>3. AddressInv'
    BY NoneIsNoValue DEF IInv, JobInv, ParamsInv, Progress, AddressInv, ApplyLabels,
        CleanupLabels
  <2>4. SysctlInv'
    BY ConstantsTyped, NoneIsNoValue DEF IInv, TypeOK, JobInv, ParamsInv, IfindexInv,
        SysctlInv, Restorable, ApplyLabels, CleanupLabels, Family
  <2>5. RouteInv'
    BY NoneIsNoValue DEF IInv, TypeOK, Progress, RouteInv, Tunnels
  <2>. QED
    BY <2>1, <2>2, <2>3, <2>4, <2>5 DEF RInv
<1>. QED
  BY <1>3, <1>4 DEF Startup

\* While parameters are in force and the loop waits, BPF translates.
LEMMA InForceTranslates ==
    ASSUME IInv, pc = "idle", params # None
    PROVE  Translating
<1>1. params \in MapeParams
  BY DEF IInv, TypeOK
<1>2. tnl = [local |-> params.ce_ipv6, remote |-> params.br_address, v4 |-> {params.ipv4},
             bpf |-> psid_config(params)]
  BY DEF IInv, KernelMatchesParams, Carries
<1>3. tnl \in Tunnels /\ tnl.bpf \in PortParams \X Psid
  BY <1>1, <1>2, PsidConfigType DEF Tunnels, MapeParams
<1>. QED
  BY <1>3, NoneIsNoValue DEF Translating, Tunnels

\* A handler starts its work on what the kernel holds.
LEMMA ApplyIfReadyRInv ==
    ASSUME IInv, SInv, RInv, pc = "idle", NEW rs \in RuleLists \cup {None}, NEW p \in Prefix,
           apply_if_ready(rs, p), UNCHANGED <<tunnel_ifindex, original_forward, kernel, history, crashes>>
    PROVE  RInv'
<1> DEFINE new == try_compute(rs, p)
<1> USE DEF kernel, history
<1>1. CASE new \in {None, params} /\ UNCHANGED <<params, pc, job>>
  BY <1>1, Zenon
  DEF RInv, TablesInv, TunnelInv, AddressInv, SysctlInv, RouteInv, NftExplained, Translating,
      Restorable
<1>2. CASE /\ new \in MapeParams /\ new # params /\ params' = new
           /\ \/ /\ params = None /\ tunnel_ifindex = None /\ pc' = "sysctl4"
                 /\ job' = [NoJob EXCEPT !.op = "apply", !.new = new]
              \/ /\ params \in MapeParams
                 /\ \/ /\ pc' = "c_nft"
                       /\ job' = [NoJob EXCEPT !.op = "apply", !.new = new, !.clean = params,
                                               !.after = "apply"]
                    \/ /\ pc' = "u_del"
                       /\ job' = [NoJob EXCEPT !.op = "ce", !.old = params, !.new = new]
                    \/ /\ pc' = "r_unlink" /\ params.ce_ipv6 = new.ce_ipv6
                       /\ job' = [NoJob EXCEPT !.op = "br", !.old = params, !.new = new]
  <2> HIDE DEF new
  <2>1. params \in MapeParams => Translating
    BY InForceTranslates, NoneIsNoValue
  <2>2. TablesInv'
    BY <1>2, <2>1, NoneIsNoValue
    DEF RInv, TablesInv, TablesGone, NftExplained, Translating, ApplyLabels, CleanupLabels, NoJob
  <2>3. TunnelInv' /\ RouteInv'
    BY <1>2 DEF RInv, TunnelInv, RouteInv
  <2>4. AddressInv'
    BY <1>2, NoneIsNoValue DEF RInv, AddressInv, ApplyLabels, NoJob
  <2>5. SysctlInv'
    BY <1>2, NoneIsNoValue DEF RInv, SysctlInv, Restorable
  <2>. QED
    BY <2>2, <2>3, <2>4, <2>5 DEF RInv
<1>. QED
  BY <1>1, <1>2, ApplyIfReadyOutcome

\* The handlers, an orderly stop, a start and a crash.
LEMMA OutsideRInv ==
    IInv /\ SInv /\ RInv /\ (Event \/ terminate \/ start_linux \/ crash) => RInv'
<1> SUFFICES ASSUME IInv, SInv, RInv, Event \/ terminate \/ start_linux \/ crash PROVE RInv'
  OBVIOUS
<1>1. pending_map_rules \in RuleLists \cup {None} /\ params \in MapeParams \cup {None}
  BY DEF IInv, TypeOK
<1>2. ASSUME NEW p \in Prefix, handle_ia_pd(p) PROVE RInv'
  BY <1>1, <1>2, ApplyIfReadyRInv DEF handle_ia_pd
<1>3. ASSUME NEW rs \in RuleLists, NEW p \in Prefix, handle_both(rs, p) PROVE RInv'
  <2>1. PICK rules \in RuleLists \cup {None} : apply_if_ready(rules, p)
    BY <1>1, <1>3 DEF handle_both
  <2>. QED
    BY <1>3, <2>1, ApplyIfReadyRInv DEF handle_both
<1>4. CASE terminate
  <2> USE <1>4 DEF terminate, daemon, kernel, history
  <2>1. params # None => Translating
    BY InForceTranslates
  <2>2. TablesInv'
    BY <2>1 DEF RInv, TablesInv, TablesGone, NftExplained, Translating, ApplyLabels,
                CleanupLabels, StartCleanup, NoJob
  <2>3. TunnelInv' /\ RouteInv'
    BY DEF RInv, TunnelInv, RouteInv, StartCleanup
  <2>4. AddressInv'
    BY DEF RInv, AddressInv, ApplyLabels, StartCleanup, NoJob
  <2>5. SysctlInv'
    BY DEF RInv, SysctlInv, Restorable, StartCleanup
  <2>. QED
    BY <2>2, <2>3, <2>4, <2>5 DEF RInv
<1>5. CASE start_linux
  <2> USE <1>5 DEF start_linux, kernel, history
  <2>1. \A f \in Family : original_forward[f] = None /\ original_forward'[f] = None
    BY DEF RInv, SysctlInv
  <2>2. SysctlInv'
    BY <2>1 DEF RInv, SysctlInv, Restorable, Family
  <2>3. TablesInv' /\ TunnelInv' /\ AddressInv' /\ RouteInv'
    BY DEF RInv, TablesInv, TunnelInv, AddressInv, RouteInv, TablesGone, ApplyLabels,
           CleanupLabels
  <2>. QED
    BY <2>2, <2>3 DEF RInv
<1>6. CASE crash
  <2> USE <1>6 DEF crash
  <2>1. crashes' # 0
    BY DEF IInv, TypeOK
  <2>2. \A f \in Family : original_forward'[f] = None
    OBVIOUS
  <2>3. SysctlInv'
    BY <2>1, <2>2 DEF SysctlInv
  <2>4. tnl # None => tnl' # None
    <3>1. tnl # None => tnl \in Tunnels
      BY DEF IInv, TypeOK
    <3>. QED
      BY <3>1, TunnelEdit, NoneIsNoValue DEF Tunnels
  <2>5. RouteInv'
    BY <2>4 DEF RInv, RouteInv
  <2>6. TablesInv' /\ TunnelInv' /\ AddressInv'
    BY DEF RInv, TablesInv, TunnelInv, AddressInv, TablesGone, ApplyLabels, CleanupLabels
  <2>. QED
    BY <2>3, <2>5, <2>6 DEF RInv
<1>. QED
  BY <1>2, <1>3, <1>4, <1>5, <1>6 DEF Event

\* All three invariants hold in every reachable state.
LEMMA ResidueInvariance == Spec => [](IInv /\ SInv /\ RInv)
<1>1. ASSUME IInv, SInv, RInv, [Next]_vars PROVE RInv'
  <2>1. CASE Next
    BY <1>1, <2>1, ApplyRInv, UpdateRInv, CleanupRInv, StartupRInv, OutsideRInv
    DEF Next, DaemonStep
  <2>2. CASE UNCHANGED vars
    <3> USE <1>1, <2>2 DEF vars, daemon, kernel, history, RInv
    <3>1. TablesInv' /\ TunnelInv' /\ RouteInv'
      BY DEF TablesInv, TunnelInv, RouteInv, NftExplained, Translating
    <3>2. AddressInv' /\ SysctlInv'
      BY DEF AddressInv, SysctlInv, Restorable
    <3>. QED
      BY <3>1, <3>2
  <2>. QED
    BY <1>1, <2>1, <2>2
<1>. QED
  BY <1>1, InitRInv, ServiceInvariance, PTL DEF Spec

-----------------------------------------------------------------------------
(* Theorems *)

\* ResidueExplained for every instance: whenever the loop waits without parameters,
\* and after every orderly stop, what is left in the kernel is there because a
\* deletion or a write of cleanup failed, a link was only half made or the process
\* crashed; and the default route never leads to a tunnel that is gone.
THEOREM NothingLeftBehind == Spec => []ResidueExplained
<1>1. ASSUME IInv, RInv PROVE ResidueExplained
  <2> USE <1>1
  <2>1. params = None => tunnel_ifindex = None
    BY DEF IInv, ParamsInv, TunnelHasParams
  <2>2. pc = "down" => params = None
    BY DEF IInv, ParamsInv
  <2>3. ASSUME pc \in {"idle", "down"}, params = None
        PROVE  /\ nft # None => "nft" \in warned
               /\ tnl # None => warned \cap {"link", "half"} # {}
               /\ addrs6 \subseteq kept6
    BY <2>1, <2>3 DEF RInv, TablesInv, NftExplained, TunnelInv, AddressInv
  <2>4. ASSUME pc \in {"idle", "down"}, params = None, crashes = 0, NEW f \in Family
        PROVE  forward[f] = AdminForward[f] \/ f \in warned
    BY <2>4 DEF RInv, SysctlInv, Restorable
  <2>5. ASSUME pc \in {"idle", "down"}, params # None
        PROVE  addrs6 \subseteq kept6 \cup {params.ce_ipv6}
    BY <2>2, <2>5 DEF RInv, AddressInv
  <2>. QED
    BY <2>3, <2>4, <2>5 DEF RInv, RouteInv, ResidueExplained
<1>. QED
  BY <1>1, ResidueInvariance, PTL

\* StagingGuarded for every instance: outside recreate_tunnel_and_apply, the time from
\* a crash to the next start's clean-up, and a deletion of the tables that failed,
\* there is no moment between two calls at which staging ports can leave the host.
THEOREM StagingWindows == Spec => []StagingGuarded
<1>1. ASSUME IInv, RInv, StagingLeak, "nft" \notin warned, pc \notin {"crashed", "s_nft"}
      PROVE  Recreating
  <2> USE <1>1
  <2>1. pc \in Labels
    BY DEF IInv, TypeOK
  <2>2. ~NftExplained /\ ~Translating
    BY DEF NftExplained, Translating, StagingLeak
  <2>3. pc \notin TablesGone \cup {"s_link", "down"}
    BY <2>2 DEF RInv, TablesInv
  <2>4. pc # "idle"
    BY <2>2, InForceTranslates DEF RInv, TablesInv
  <2>5. pc \in ApplyLabels \cup {"c_nft"} => job.op \in {"ce", "br"}
    BY <2>2 DEF RInv, TablesInv, IInv, JobInv
  <2>6. pc \in {"nft", "config"} => job.new \in MapeParams /\ tnl # None /\ tnl.bpf = psid_config(job.new)
    BY DEF IInv, JobInv, Progress, ApplyLabels
  <2>7. pc \notin {"nft", "config"}
    BY <2>2, <2>6, PsidConfigType, NoneIsNoValue DEF Translating
  <2>8. pc \notin {"u_del", "ipv6", "r_unlink", "sysctl4", "sysctl6"}
    BY <2>2, <2>5 DEF RInv, TablesInv, ApplyLabels
  <2>. QED
    BY <2>1, <2>3, <2>4, <2>5, <2>7, <2>8
    DEF Recreating, Labels, ApplyLabels, CleanupLabels, TablesGone
<1>2. IInv /\ RInv => StagingGuarded
  BY <1>1 DEF StagingGuarded
<1>. QED
  BY <1>2, ResidueInvariance, PTL

=============================================================================
