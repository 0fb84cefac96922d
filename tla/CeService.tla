----------------------------- MODULE CeService -----------------------------
(***************************************************************************)
(* What the daemon promises, without the twenty-odd kernel calls it takes: *)
(* it learns rules and prefixes one input at a time, and when it is ready  *)
(* for the next one the kernel carries, whole, the parameters wanted for   *)
(* the newest input that yields any, or nothing of the daemon's is in      *)
(* service.  The second only after a call has failed or the daemon has     *)
(* crashed, or if the parameters cannot be served at all.  An input that   *)
(* yields no parameters, or the same ones, interrupts nothing.             *)
(***************************************************************************)
CONSTANTS
    RuleLists, Prefix,
    Wanted(_, _),       \* the parameters for rules and a prefix, or None
    Unservable(_),      \* parameters that no setup can succeed with
    StaticRules,        \* the built-in rules, or None: those of the network count
    None

VARIABLES
    phase,      \* "down", "starting", "ready", "working" or "stopping"
    rules, prefix,
    stored,     \* the rules that survive a restart
    goal,       \* what it works on
    service,    \* what is in service while it is ready
    trouble     \* a call has failed, or the daemon has crashed

vars == <<phase, rules, prefix, stored, goal, service, trouble>>

Init ==
    /\ phase = "down" /\ rules = None /\ prefix = None
    /\ stored \in RuleLists \cup {None}
    /\ goal = None /\ service = None /\ trouble = FALSE

\* Calls fail at any time; it is not forgotten.
Trouble == trouble' \in {trouble, TRUE}

Start ==
    /\ phase = "down"
    /\ phase' = "starting"
    /\ rules' = IF StaticRules = None THEN stored ELSE StaticRules
    /\ prefix' = None
    /\ UNCHANGED <<stored, goal, service, trouble>>

Started ==
    /\ phase = "starting"
    /\ phase' = "ready"
    /\ Trouble
    /\ UNCHANGED <<rules, prefix, stored, goal, service>>

\* New rules are stored, or that fails; either way they count.
Learn(rs, p) ==
    LET want == Wanted(rs, p)
    IN  /\ phase = "ready"
        /\ rules' = rs /\ prefix' = p
        /\ \/ rs = rules /\ UNCHANGED <<stored, trouble>>
           \/ StaticRules = None /\ stored' = rs /\ UNCHANGED trouble
           \/ StaticRules = None /\ UNCHANGED stored /\ trouble' = TRUE
        /\ IF want \in {None, service}
             THEN UNCHANGED <<phase, goal, service>>
             ELSE phase' = "working" /\ goal' = want /\ service' = None

Serve ==
    /\ phase = "working"
    /\ phase' = "ready"
    /\ service' = goal
    /\ goal' = None
    /\ Trouble
    /\ UNCHANGED <<rules, prefix, stored>>

GiveUp ==
    /\ phase = "working"
    /\ phase' = "ready"
    /\ Trouble
    /\ trouble' \/ Unservable(goal)
    /\ goal' = None
    /\ UNCHANGED <<rules, prefix, stored, service>>

CallFails ==
    /\ phase # "down"
    /\ trouble' = TRUE
    /\ UNCHANGED <<phase, rules, prefix, stored, goal, service>>

\* Ready, it stops at once if nothing is in service.
Stop ==
    /\ phase = "ready"
    /\ phase' = IF service = None THEN "down" ELSE "stopping"
    /\ service' = None
    /\ UNCHANGED <<rules, prefix, stored, goal, trouble>>

Stopped ==
    /\ phase = "stopping"
    /\ phase' = "down"
    /\ Trouble
    /\ UNCHANGED <<rules, prefix, stored, goal, service>>

Crash ==
    /\ phase # "down"
    /\ phase' = "down"
    /\ trouble' = TRUE
    /\ rules' = None /\ prefix' = None /\ goal' = None /\ service' = None
    /\ UNCHANGED stored

Next ==
    \/ Start \/ Started
    \/ \E rs \in RuleLists \cup {None}, p \in Prefix : Learn(rs, p)
    \/ Serve \/ GiveUp \/ CallFails
    \/ Stop \/ Stopped \/ Crash

Spec == Init /\ [][Next]_vars
=============================================================================
