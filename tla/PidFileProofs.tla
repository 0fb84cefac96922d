--------------------------- MODULE PidFileProofs ---------------------------
(***************************************************************************)
(* One daemon per PID file, for any number of processes and inodes, any    *)
(* failures and deaths, provided that no start overlaps a shutdown.        *)
(***************************************************************************)
EXTENDS PidFile, TLAPS

\* Past flock, and not gone yet.
Locking(p) == st[p] \in {"locked", "empty", "running", "unlinked"}

\* flock's book-keeping: a lock is held by exactly the process past flock that has
\* the inode open.
Locks ==
    /\ \A p \in Proc : Locking(p) => holder[fd[p]] = p
    /\ \A i \in Inode : holder[i] # None => Locking(holder[i]) /\ fd[holder[i]] = i

\* Everybody works on the inode the path names; a process that has unlinked it is
\* alone until it has closed it.
OneInode ==
    /\ \A p \in Proc : st[p] \notin {"off", "unlinked"} => fd[p] = path
    /\ \A p, q \in Proc : st[p] = "unlinked" /\ p # q => st[q] = "off"

\* The PID of a running daemon is in the inode it has locked.
PidWritten == \A p \in Proc : Running(p) => text[fd[p]] = p

IInv == TypeOK /\ Locks /\ OneInode /\ PidWritten

\* Initially no process runs.
LEMMA InitIInv == Init => IInv
  BY DEF Init, IInv, TypeOK, Locks, OneInode, PidWritten, Locking, Running

\* Two processes past flock are one process: they would hold the same lock.
LEMMA OneLocker ==
    ASSUME IInv, NEW p \in Proc, NEW q \in Proc, Locking(p), Locking(q)
    PROVE  p = q
  BY PidConstants DEF IInv, TypeOK, Locks, OneInode, Locking

\* A process that goes away, from whatever point, leaves the invariant intact.
LEMMA ExitIInv ==
    ASSUME IInv, NEW p \in Proc, Exit(p), UNCHANGED <<path, text>>
    PROVE  IInv'
<1> USE PidConstants DEF IInv, TypeOK, Exit
<1>1. TypeOK'
  OBVIOUS
<1>2. Locks'
  BY DEF Locks, Locking
<1>3. OneInode' /\ PidWritten'
  BY DEF OneInode, PidWritten, Running
<1>. QED
  BY <1>1, <1>2, <1>3

\* Every system call of every process keeps the invariant if starts and shutdowns
\* do not overlap.
LEMMA StepIInv ==
    ASSUME ~Overlapping
    PROVE  IInv /\ [Next]_vars => IInv'
<1> SUFFICES ASSUME IInv, [Next]_vars PROVE IInv'
  OBVIOUS
<1> USE PidConstants DEF IInv, TypeOK
<1>1. ASSUME NEW p \in Proc, open(p) PROVE IInv'
  <2>1. \A q \in Proc : st[q] # "unlinked"
    BY <1>1 DEF open
  <2>2. CASE path # None
    BY <1>1, <2>1, <2>2 DEF open, Locks, Locking, OneInode, PidWritten, Running
  <2>3. CASE path = None
    <3>1. \A q \in Proc : st[q] = "off"
      BY <2>1, <2>3 DEF OneInode
    <3>2. PICK i \in Unused : /\ path' = i
                              /\ fd' = [fd EXCEPT ![p] = i]
                              /\ text' = [text EXCEPT ![i] = None]
      BY <1>1, <2>3 DEF open
    <3>3. i \in Inode
      BY <3>2 DEF Unused
    <3>4. TypeOK'
      BY <1>1, <3>2, <3>3 DEF open
    <3>5. Locks'
      BY <1>1, <3>1, <3>2 DEF open, Locks, Locking
    <3>. QED
      BY <1>1, <3>1, <3>2, <3>4, <3>5 DEF open, OneInode, PidWritten, Running
  <2>. QED
    BY <2>2, <2>3
<1>2. ASSUME NEW p \in Proc, flock(p) PROVE IInv'
  <2>1. CASE holder[fd[p]] = None
    <3>1. TypeOK'
      BY <1>2, <2>1 DEF flock
    <3>2. Locks'
      BY <1>2, <2>1 DEF flock, Locks, Locking
    <3>. QED
      BY <1>2, <2>1, <3>1, <3>2 DEF flock, OneInode, PidWritten, Running
  <2>2. CASE Exit(p)
    BY <1>2, <2>2, ExitIInv DEF flock
  <2>. QED
    BY <1>2, <2>1, <2>2 DEF flock
<1>3. ASSUME NEW p \in Proc, set_len(p) PROVE IInv'
  <2>1. CASE text' = [text EXCEPT ![fd[p]] = None] /\ st' = [st EXCEPT ![p] = "empty"]
                /\ UNCHANGED <<fd, holder>>
    <3>1. \A q \in Proc : Running(q) => q = p
      BY <1>3, OneLocker DEF set_len, Running, Locking
    <3>. QED
      BY <1>3, <2>1, <3>1 DEF set_len, Locks, Locking, OneInode, PidWritten, Running
  <2>2. CASE Exit(p) /\ UNCHANGED text
    BY <1>3, <2>2, ExitIInv DEF set_len
  <2>. QED
    BY <1>3, <2>1, <2>2 DEF set_len
<1>4. ASSUME NEW p \in Proc, write_pid(p) PROVE IInv'
  <2>1. CASE text' = [text EXCEPT ![fd[p]] = p] /\ st' = [st EXCEPT ![p] = "running"]
                /\ UNCHANGED <<fd, holder>>
    <3>1. \A q \in Proc : Running(q) => q = p
      BY <1>4, OneLocker DEF write_pid, Running, Locking
    <3>. QED
      BY <1>4, <2>1, <3>1 DEF write_pid, Locks, Locking, OneInode, PidWritten, Running
  <2>2. CASE Exit(p) /\ UNCHANGED text
    BY <1>4, <2>2, ExitIInv DEF write_pid
  <2>. QED
    BY <1>4, <2>1, <2>2 DEF write_pid
<1>5. ASSUME NEW p \in Proc, remove_file(p) PROVE IInv'
  <2>1. \A q \in Proc : q # p => st[q] = "off"
    BY <1>5, OneLocker DEF remove_file, Locking
  <2>. QED
    BY <1>5, <2>1 DEF remove_file, Locks, Locking, OneInode, PidWritten, Running
<1>6. ASSUME NEW p \in Proc, close(p) PROVE IInv'
  BY <1>6, ExitIInv DEF close
<1>7. ASSUME NEW p \in Proc, die(p) PROVE IInv'
  BY <1>7, ExitIInv DEF die
<1>8. CASE UNCHANGED vars
  BY <1>8 DEF vars, Locks, Locking, OneInode, PidWritten, Running
<1>. QED
  BY <1>1, <1>2, <1>3, <1>4, <1>5, <1>6, <1>7, <1>8 DEF Next, Create, Drop

\* AtMostOneDaemon for any number of processes: the lock of PidGuard::create admits
\* one daemon, whoever dies or fails at which call, as long as no start overlaps
\* another daemon's shutdown.
THEOREM OneDaemon ==
    ASSUME ~Overlapping
    PROVE  Spec => []AtMostOneDaemon
<1>1. IInv => AtMostOneDaemon
  BY OneLocker DEF AtMostOneDaemon, Running, Locking
<1>. QED
  BY <1>1, InitIInv, StepIInv, PTL DEF Spec

\* RunningIsFound for any number of processes: `status` and `stop` always find the
\* running daemon, under the same assumption.
THEOREM DaemonFound ==
    ASSUME ~Overlapping
    PROVE  Spec => []RunningIsFound
<1>1. IInv => RunningIsFound
  BY PidConstants DEF IInv, TypeOK, OneInode, PidWritten, RunningIsFound, Running, status,
     read_pid_file, is_process_alive
<1>. QED
  BY <1>1, InitIInv, StepIInv, PTL DEF Spec

\* TypeOK for any number of processes, overlapping starts and shutdowns included: a
\* process past PidGuard::create's open always has an inode to lock and to write.
THEOREM TypeCorrect == Spec => []TypeOK
<1>1. Init => TypeOK
  BY DEF Init, TypeOK
<1>2. TypeOK /\ [Next]_vars => TypeOK'
  <2> SUFFICES ASSUME TypeOK, [Next]_vars PROVE TypeOK'
    OBVIOUS
  <2> USE PidConstants DEF TypeOK
  <2>1. ASSUME NEW p \in Proc, Exit(p), UNCHANGED <<path, text>> PROVE TypeOK'
    BY <2>1 DEF Exit
  <2>2. ASSUME NEW p \in Proc, open(p) PROVE TypeOK'
    <3>1. CASE path = None
      <4>1. PICK i \in Inode : /\ path' = i
                               /\ fd' = [fd EXCEPT ![p] = i]
                               /\ text' = [text EXCEPT ![i] = None]
        BY <2>2, <3>1 DEF open, Unused
      <4>. QED
        BY <2>2, <4>1 DEF open
    <3>. QED
      BY <2>2, <3>1 DEF open
  <2>3. ASSUME NEW p \in Proc, flock(p) PROVE TypeOK'
    BY <2>1, <2>3 DEF flock
  <2>4. ASSUME NEW p \in Proc, set_len(p) PROVE TypeOK'
    BY <2>1, <2>4 DEF set_len
  <2>5. ASSUME NEW p \in Proc, write_pid(p) PROVE TypeOK'
    BY <2>1, <2>5 DEF write_pid
  <2>6. ASSUME NEW p \in Proc, remove_file(p) PROVE TypeOK'
    BY <2>6 DEF remove_file
  <2>7. ASSUME NEW p \in Proc, close(p) \/ die(p) PROVE TypeOK'
    BY <2>1, <2>7 DEF close, die
  <2>8. CASE UNCHANGED vars
    BY <2>8 DEF vars
  <2>. QED
    BY <2>2, <2>3, <2>4, <2>5, <2>6, <2>7, <2>8 DEF Next, Create, Drop
<1>. QED
  BY <1>1, <1>2, PTL DEF Spec

=============================================================================
