------------------------------ MODULE PidFile ------------------------------
(***************************************************************************)
(* One daemon per PID file.  `mapecd start` opens (or creates) the file,   *)
(* locks it with flock, and writes its PID; the guard unlinks the path and *)
(* only then closes the file, which releases the lock.  `mapecd status` and*)
(* `mapecd stop` read the PID through the path.                            *)
(* Every system call is a step; processes die at any point.                *)
(***************************************************************************)
EXTENDS Integers, FiniteSets

CONSTANTS
    Proc,           \* processes that run mapecd, named by their PID
    Inode,          \* inodes for the PID file
    Overlapping,    \* TRUE: a start may overlap another process's shutdown
    None

ASSUME PidConstants ==
    /\ IsFiniteSet(Proc) /\ IsFiniteSet(Inode)
    /\ Cardinality(Inode) > Cardinality(Proc)
    /\ Overlapping \in BOOLEAN
    /\ None \notin Proc \cup Inode

VARIABLES
    path,       \* the inode the path names, or None
    text,       \* the PID in each inode, or None: empty
    holder,     \* the process that has each inode locked, or None
    fd,         \* the inode each process has open, or None
    st          \* where PidGuard::create, or the shutdown, of each process is

vars == <<path, text, holder, fd, st>>

\* The file is closed and its lock released; the process is gone.
Exit(p) ==
    /\ st' = [st EXCEPT ![p] = "off"]
    /\ fd' = [fd EXCEPT ![p] = None]
    /\ holder' = [i \in Inode |-> IF holder[i] = p THEN None ELSE holder[i]]

Unused == {i \in Inode : i # path /\ \A p \in Proc : fd[p] # i}

-----------------------------------------------------------------------------
(* PidGuard::create *)

\* Mutant of open: the file is truncated.
open_truncate(p) ==
    /\ st[p] = "off"
    /\ Overlapping \/ \A q \in Proc : st[q] # "unlinked"
    /\ \E i \in IF path = None THEN Unused ELSE {path} :
          /\ path' = i
          /\ fd' = [fd EXCEPT ![p] = i]
          /\ text' = [text EXCEPT ![i] = None]
    /\ st' = [st EXCEPT ![p] = "opened"]
    /\ UNCHANGED <<holder>>

\* Mutant of open: the file is not created.
open_existing(p) ==
    /\ st[p] = "off"
    /\ Overlapping \/ \A q \in Proc : st[q] # "unlinked"
    /\ fd' = [fd EXCEPT ![p] = path]
    /\ st' = [st EXCEPT ![p] = "opened"]
    /\ UNCHANGED <<path, text, holder>>

\* write(true).create(true).truncate(false).
open(p) ==
    /\ st[p] = "off"
    /\ Overlapping \/ \A q \in Proc : st[q] # "unlinked"
    /\ \/ /\ path # None
          /\ fd' = [fd EXCEPT ![p] = path]
          /\ UNCHANGED <<path, text>>
       \/ /\ path = None
          /\ \E i \in Unused :
                /\ path' = i
                /\ fd' = [fd EXCEPT ![p] = i]
                /\ text' = [text EXCEPT ![i] = None]
    /\ st' = [st EXCEPT ![p] = "opened"]
    /\ UNCHANGED <<holder>>

\* Mutant of flock: a lock that is taken is passed over.
flock_ignored(p) ==
    /\ st[p] = "opened"
    /\ holder' = [holder EXCEPT ![fd[p]] = p]
    /\ st' = [st EXCEPT ![p] = "locked"]
    /\ UNCHANGED <<path, text, fd>>

\* LOCK_EX | LOCK_NB: the lock, or "mapecd is already running".
flock(p) ==
    /\ st[p] = "opened"
    /\ \/ /\ holder[fd[p]] = None
          /\ holder' = [holder EXCEPT ![fd[p]] = p]
          /\ st' = [st EXCEPT ![p] = "locked"]
          /\ UNCHANGED <<fd>>
       \/ /\ holder[fd[p]] # None
          /\ Exit(p)
    /\ UNCHANGED <<path, text>>

\* set_len(0), then write!.  If one fails, the file is closed but not removed.
set_len(p) ==
    /\ st[p] = "locked"
    /\ \/ /\ text' = [text EXCEPT ![fd[p]] = None]
          /\ st' = [st EXCEPT ![p] = "empty"]
          /\ UNCHANGED <<fd, holder>>
       \/ Exit(p) /\ UNCHANGED text
    /\ UNCHANGED path

write_pid(p) ==
    /\ st[p] = "empty"
    /\ \/ /\ text' = [text EXCEPT ![fd[p]] = p]
          /\ st' = [st EXCEPT ![p] = "running"]
          /\ UNCHANGED <<fd, holder>>
       \/ Exit(p) /\ UNCHANGED text
    /\ UNCHANGED path

-----------------------------------------------------------------------------
(* The end of start, and of the process *)

\* PidGuard::drop, after SIGTERM (`mapecd stop` sends it), SIGINT or an error of
\* start_linux: whatever the path names is unlinked.
remove_file(p) ==
    /\ st[p] = "running"
    /\ Overlapping \/ \A q \in Proc : st[q] # "opened"
    /\ path' = None
    /\ st' = [st EXCEPT ![p] = "unlinked"]
    /\ UNCHANGED <<text, holder, fd>>

\* Then the field _file is dropped.
close(p) ==
    /\ st[p] = "unlinked"
    /\ Exit(p)
    /\ UNCHANGED <<path, text>>

\* External: the process is killed, or SIGTERM finds no handler yet.
die(p) ==
    /\ st[p] # "off"
    /\ Exit(p)
    /\ UNCHANGED <<path, text>>

-----------------------------------------------------------------------------
(* mapecd status, mapecd stop *)

read_pid_file == IF path = None THEN None ELSE text[path]

is_process_alive(p) == st[p] # "off"

\* What `status` reports, and whom `stop` signals: a live PID, or None.
status ==
    IF read_pid_file # None /\ is_process_alive(read_pid_file) THEN read_pid_file ELSE None

-----------------------------------------------------------------------------

Init ==
    /\ path = None
    /\ text = [i \in Inode |-> None] /\ holder = [i \in Inode |-> None]
    /\ fd = [p \in Proc |-> None] /\ st = [p \in Proc |-> "off"]

Create(p) == open(p) \/ flock(p) \/ set_len(p) \/ write_pid(p)
Drop(p)   == remove_file(p) \/ close(p)

Next == \E p \in Proc : Create(p) \/ Drop(p) \/ die(p)

Spec == Init /\ [][Next]_vars

-----------------------------------------------------------------------------
(* Properties *)

\* A process in PidGuard::create or later has an inode open.
TypeOK ==
    /\ path \in Inode \cup {None}
    /\ text \in [Inode -> Proc \cup {None}]
    /\ holder \in [Inode -> Proc \cup {None}]
    /\ fd \in [Proc -> Inode \cup {None}]
    /\ st \in [Proc -> {"off", "opened", "locked", "empty", "running", "unlinked"}]
    /\ \A p \in Proc : st[p] # "off" => fd[p] # None

\* The daemon is past PidGuard::create, and has not left start_linux.
Running(p) == st[p] = "running"

\* flock prevents a second start: there is never more than one daemon, whatever
\* dies, fails and is left behind, as long as no start overlaps a shutdown.
AtMostOneDaemon == \A p, q \in Proc : Running(p) /\ Running(q) => p = q

\* A running daemon is found by `status` and `stop`: the path names the inode it
\* has locked, with its PID in it, whatever failed starts have come and gone.
RunningIsFound == \A p \in Proc : Running(p) => path = fd[p] /\ status = p

=============================================================================
