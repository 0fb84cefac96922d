----------------------------- MODULE LeaseWatch -----------------------------
(***************************************************************************)
(* The second source of delegated prefixes: systemd-networkd's lease file. *)
(* A spawned task registers an inotify watch and turns each change of the  *)
(* file into a LeaseEvent; the main task reads the file once by itself and *)
(* sends the result into the same bounded channel before it enters the     *)
(* event loop that drains it.  The two tasks run on different threads of a *)
(* multi-threaded runtime, and nothing orders the registration before the  *)
(* initial read.                                                           *)
(***************************************************************************)
EXTENDS Integers, Sequences

CONSTANTS
    Prefix,     \* delegated prefixes the file may name
    Capacity,   \* of the lease channel (4 in the code)
    MaxWrites,  \* bound: times networkd replaces the file
    None        \* no file, no X-DELEGATED-PREFIX, or an invalid one

ASSUME LeaseConstants ==
    /\ None \notin Prefix
    /\ Capacity \in Nat \ {0}
    /\ MaxWrites \in Nat

VARIABLES
    file,       \* the prefix in the lease file, or None
    events,     \* unread inotify events that name the file
    watcher,    \* where run_lease_watcher is
    found,      \* the prefix it is about to send
    main,       \* where start_linux is
    initial,    \* the prefix it is about to send
    chan,       \* lease_tx .. lease_rx
    pending,    \* DaemonState::pending_ia_pd
    writes,     \* writes so far
    heard       \* the last write came with the watch registered and the loop running

vars == <<file, events, watcher, found, main, initial, chan, pending, writes, heard>>

Watching == watcher \in {"waiting", "parsing", "sending"}

-----------------------------------------------------------------------------
(* systemd-networkd, external *)

\* The file is replaced atomically.  inotify merges an event with the one before
\* it if they are identical and that one is still unread.
networkd_write(p) ==
    /\ writes < MaxWrites
    /\ p # file
    /\ file' = p
    /\ events' \in IF ~Watching THEN {events}
                   ELSE IF events > 0 THEN {events, events + 1}
                   ELSE {1}
    /\ writes' = writes + 1
    /\ heard' = (Watching /\ main = "loop")
    /\ UNCHANGED <<watcher, found, main, initial, chan, pending>>

-----------------------------------------------------------------------------
(* run_lease_watcher *)

\* Mutant of add_watch: the watcher starts with a reading of its own.
add_watch_and_read ==
    /\ watcher = "spawned"
    /\ watcher' \in {"parsing", "exited"}
    /\ UNCHANGED <<file, events, found, main, initial, chan, pending, writes, heard>>

\* Up to add_watch; without the directory or the interface the task ends.
add_watch ==
    /\ watcher = "spawned"
    /\ watcher' \in {"waiting", "exited"}
    /\ UNCHANGED <<file, events, found, main, initial, chan, pending, writes, heard>>

read_events ==
    /\ watcher = "waiting"
    /\ events > 0
    /\ events' = events - 1
    /\ watcher' = "parsing"
    /\ UNCHANGED <<file, found, main, initial, chan, pending, writes, heard>>

\* handle_lease_event parses the file as it is now, not as it was at the event.
parse_lease_event ==
    /\ watcher = "parsing"
    /\ found' = file
    /\ watcher' = IF file = None THEN "waiting" ELSE "sending"
    /\ UNCHANGED <<file, events, main, initial, chan, pending, writes, heard>>

\* Mutant of send_lease_event: events that arrived meanwhile are dropped.
send_and_drain ==
    /\ watcher = "sending"
    /\ \/ main # "stopped" /\ Len(chan) < Capacity /\ chan' = Append(chan, found)
       \/ main = "stopped" /\ UNCHANGED chan
    /\ events' = 0
    /\ watcher' = "waiting"
    /\ UNCHANGED <<file, found, main, initial, pending, writes, heard>>

\* Mutant of send_lease_event: a receiver that is gone is not noticed.
send_to_anyone ==
    /\ watcher = "sending"
    /\ Len(chan) < Capacity
    /\ chan' = Append(chan, found)
    /\ watcher' = "waiting"
    /\ UNCHANGED <<file, events, found, main, initial, pending, writes, heard>>

\* Mutant of send_lease_event: the channel is unbounded.
send_unbounded ==
    /\ watcher = "sending"
    /\ chan' = Append(chan, found)
    /\ watcher' = "waiting"
    /\ UNCHANGED <<file, events, found, main, initial, pending, writes, heard>>

\* tx.send waits for a free slot; it fails at once if the receiver is gone.
send_lease_event ==
    /\ watcher = "sending"
    /\ \/ main # "stopped" /\ Len(chan) < Capacity /\ chan' = Append(chan, found)
       \/ main = "stopped" /\ UNCHANGED chan
    /\ watcher' = "waiting"
    /\ UNCHANGED <<file, events, found, main, initial, pending, writes, heard>>

cancelled ==
    /\ watcher = "waiting"
    /\ main = "stopped"
    /\ watcher' = "exited"
    /\ UNCHANGED <<file, events, found, main, initial, chan, pending, writes, heard>>

-----------------------------------------------------------------------------
(* start_linux *)

read_initial_lease ==
    /\ main = "start"
    /\ initial' = file
    /\ main' = IF file = None THEN "loop" ELSE "sending"
    /\ UNCHANGED <<file, events, watcher, found, chan, pending, writes, heard>>

\* The receiver exists, but nobody polls it yet.
send_initial_lease ==
    /\ main = "sending"
    /\ Len(chan) < Capacity
    /\ chan' = Append(chan, initial)
    /\ main' = "loop"
    /\ UNCHANGED <<file, events, watcher, found, initial, pending, writes, heard>>

\* Mutant of recv_lease_event: the channel is taken for closed after one event.
recv_once ==
    /\ main = "loop"
    /\ chan # <<>>
    /\ pending = None
    /\ pending' = Head(chan)
    /\ chan' = Tail(chan)
    /\ UNCHANGED <<file, events, watcher, found, main, initial, writes, heard>>

\* Some(LeaseEvent): handle_ia_pd takes the prefix over (what follows from it is
\* the Lifecycle module's).
recv_lease_event ==
    /\ main = "loop"
    /\ chan # <<>>
    /\ pending' = Head(chan)
    /\ chan' = Tail(chan)
    /\ UNCHANGED <<file, events, watcher, found, main, initial, writes, heard>>

\* SIGTERM, SIGINT: cancel.cancel(), and the receiver is dropped.
stop ==
    /\ main = "loop"
    /\ main' = "stopped"
    /\ UNCHANGED <<file, events, watcher, found, initial, chan, pending, writes, heard>>

-----------------------------------------------------------------------------

Init ==
    /\ file \in Prefix \cup {None}
    /\ events = 0 /\ writes = 0 /\ heard = FALSE
    /\ watcher = "spawned" /\ found = None
    /\ main = "start" /\ initial = None
    /\ chan = <<>> /\ pending = None

Watch == add_watch \/ read_events \/ parse_lease_event \/ send_lease_event \/ cancelled
Main  == read_initial_lease \/ send_initial_lease \/ recv_lease_event

Next ==
    \/ \E p \in Prefix \cup {None} : networkd_write(p)
    \/ Watch
    \/ Main
    \/ stop

Spec == Init /\ [][Next]_vars

\* tokio polls every task that is ready; nobody has to write the file or to stop.
FairSpec == Spec /\ WF_vars(Watch) /\ WF_vars(Main)

-----------------------------------------------------------------------------
(* Properties *)

\* The watcher's and the main task's variables have their types, and the channel
\* never holds more than its capacity.
TypeOK ==
    /\ file \in Prefix \cup {None}
    /\ events \in 0..MaxWrites
    /\ watcher \in {"spawned", "waiting", "parsing", "sending", "exited"}
    /\ found \in Prefix \cup {None}
    /\ main \in {"start", "sending", "loop", "stopped"}
    /\ initial \in Prefix \cup {None}
    /\ chan \in Seq(Prefix) /\ Len(chan) <= Capacity
    /\ pending \in Prefix \cup {None}
    /\ writes \in 0..MaxWrites
    /\ heard \in BOOLEAN

\* The newest prefix on its way to the daemon.
Newest == IF chan = <<>> THEN pending ELSE chan[Len(chan)]

\* No update is lost behind the watcher's back: with every event handled, a
\* prefix written while the watch was registered and the loop running is the
\* newest one in the channel, or has arrived, however events were merged and
\* whatever the watcher read in between.
FreshTail ==
    heard /\ watcher = "waiting" /\ events = 0 /\ main = "loop" /\ file # None
        => Newest = file

\* The main task can hang in its initial send (its receiver is not polled before
\* the loop, so a full channel is final) only if networkd has by then written the file
\* at least as often as the channel has slots.
HangNeedsWrites == main = "sending" /\ Len(chan) = Capacity => writes >= Capacity

\* So the daemon ends up with the prefix in the file, once networkd is quiet.
Converges ==
    <>[](heard /\ main = "loop" /\ file # None => pending = file)

\* A watcher that waits for room in the channel of a stopped loop still ends.
WatcherStops == main = "stopped" ~> watcher = "exited"

=============================================================================
