-------------------------- MODULE LeaseWatchProofs --------------------------
(***************************************************************************)
(* LeaseWatch for any prefixes, any capacity of the channel and any number *)
(* of writes: no update is lost once the watch and the loop are there, and *)
(* the initial send can only hang after Capacity writes.                   *)
(***************************************************************************)
EXTENDS LeaseWatch, TLAPS

\* What the watcher still owes the channel.
Owed == events + (IF watcher \in {"parsing", "sending"} THEN 1 ELSE 0)

\* There are no more unread events than writes; before the loop runs, every
\* entry of the channel and every event being handled stands for a write of its
\* own, and no task has anything for the channel but prefixes.
Accounting ==
    /\ events <= writes
    /\ main \in {"start", "sending"} => Len(chan) + Owed <= writes
    /\ watcher = "sending" => found # None
    /\ main = "sending" => initial # None

\* FreshTail needs to know what the watcher carries while it sends: with no event
\* unread, that is what the file says now.
Carried ==
    /\ heard => main \in {"loop", "stopped"} /\ watcher # "spawned"
    /\ heard /\ watcher = "sending" /\ events = 0 /\ file # None => found = file

IInv == TypeOK /\ Accounting /\ Carried /\ FreshTail

\* Initially nothing is in the channel and no write has been heard.
LEMMA InitIInv == Init => IInv
<1> SUFFICES ASSUME Init PROVE IInv
  OBVIOUS
<1>1. chan \in Seq(Prefix) /\ Len(chan) = 0
  BY DEF Init
<1>a. heard \in BOOLEAN
  BY Zenon DEF Init
<1>2. TypeOK
  BY <1>1, <1>a, LeaseConstants DEF Init, TypeOK
<1>3. Accounting
  BY <1>1 DEF Init, Accounting, Owed
<1>4. ~heard
  BY DEF Init
<1>. QED
  BY <1>2, <1>3, <1>4 DEF IInv, Carried, FreshTail

\* Appending to the channel makes the new entry the newest.
LEMMA NewestAfterSend ==
    ASSUME chan \in Seq(Prefix), NEW p \in Prefix, chan' = Append(chan, p)
    PROVE  Newest' = p /\ Len(chan') = Len(chan) + 1 /\ chan' \in Seq(Prefix)
  BY DEF Newest

\* Taking the oldest entry into pending_ia_pd leaves the newest what it was.
LEMMA NewestAfterRecv ==
    ASSUME chan \in Seq(Prefix), chan # <<>>, pending' = Head(chan), chan' = Tail(chan)
    PROVE  Newest' = Newest /\ Len(chan') = Len(chan) - 1 /\ chan' \in Seq(Prefix)
                /\ Head(chan) \in Prefix
  BY DEF Newest

\* Every step of networkd, the watcher and the main task keeps the invariant.
LEMMA StepIInv == IInv /\ [Next]_vars => IInv'
<1> SUFFICES ASSUME IInv, [Next]_vars PROVE IInv'
  OBVIOUS
<1> USE LeaseConstants DEF IInv, TypeOK, Accounting, Owed, Carried, FreshTail
<1>1. ASSUME NEW p \in Prefix \cup {None}, networkd_write(p) PROVE IInv'
  <2>1. heard' \in BOOLEAN /\ (heard' => Watching /\ main = "loop")
    BY <1>1, Zenon DEF networkd_write
  <2>2. Watching => events' > 0
    BY <1>1 DEF networkd_write
  <2>3. events' \in 0..(events + 1)
    BY <1>1 DEF networkd_write
  <2>5. TypeOK' /\ Accounting'
    BY <1>1, <2>1, <2>3 DEF networkd_write
  <2>6. Carried'
    BY <1>1, <2>1, <2>2 DEF networkd_write, Watching
  <2>7. FreshTail'
    BY <1>1, <2>1, <2>2 DEF networkd_write
  <2>. QED
    BY <2>5, <2>6, <2>7
<1>2. CASE add_watch
  <2>1. TypeOK' /\ Accounting'
    BY <1>2 DEF add_watch
  <2>2. Newest' = Newest
    BY <1>2 DEF add_watch, Newest
  <2>3. ~heard
    BY <1>2 DEF add_watch
  <2>. QED
    BY <1>2, <2>1, <2>2, <2>3 DEF add_watch
<1>3. CASE read_events
  BY <1>3 DEF read_events, Newest
<1>4. CASE parse_lease_event
  BY <1>4 DEF parse_lease_event, Newest
<1>5. CASE send_lease_event
  <2>1. CASE main # "stopped" /\ Len(chan) < Capacity /\ chan' = Append(chan, found)
    <3>1. found \in Prefix
      BY <1>5 DEF send_lease_event
    <3>2. Newest' = found /\ Len(chan') = Len(chan) + 1 /\ chan' \in Seq(Prefix)
      BY <2>1, <3>1, NewestAfterSend
    <3>. QED
      BY <1>5, <2>1, <3>2 DEF send_lease_event
  <2>2. CASE main = "stopped" /\ UNCHANGED chan
    BY <1>5, <2>2 DEF send_lease_event
  <2>. QED
    BY <1>5, <2>1, <2>2 DEF send_lease_event
<1>6. CASE cancelled
  BY <1>6 DEF cancelled
<1>7. CASE read_initial_lease
  BY <1>7 DEF read_initial_lease
<1>8. CASE send_initial_lease
  <2>1. initial \in Prefix
    BY <1>8 DEF send_initial_lease
  <2>2. Newest' = initial /\ Len(chan') = Len(chan) + 1 /\ chan' \in Seq(Prefix)
    BY <1>8, <2>1, NewestAfterSend DEF send_initial_lease
  <2>. QED
    BY <1>8, <2>2 DEF send_initial_lease
<1>9. CASE recv_lease_event
  <2>1. /\ Newest' = Newest
        /\ Len(chan') = Len(chan) - 1
        /\ chan' \in Seq(Prefix)
        /\ Head(chan) \in Prefix
    BY <1>9, NewestAfterRecv DEF recv_lease_event
  <2>. QED
    BY <1>9, <2>1 DEF recv_lease_event
<1>10. CASE stop
  BY <1>10 DEF stop
<1>11. CASE UNCHANGED vars
  BY <1>11 DEF vars, Newest
<1>. QED
  BY <1>1, <1>2, <1>3, <1>4, <1>5, <1>6, <1>7, <1>8, <1>9, <1>10, <1>11
  DEF Next, Watch, Main

\* The strengthened invariant holds of every behaviour.
LEMMA Invariance == Spec => []IInv
  BY InitIInv, StepIInv, PTL DEF Spec

\* TypeOK for every instance: the watcher only sends what it has parsed, and the
\* lease channel never holds more than its capacity, the initial send included.
THEOREM TypeCorrect == Spec => []TypeOK
  BY Invariance, PTL DEF IInv

\* FreshTail for every instance: a prefix that networkd wrote while the watch was
\* registered and the loop running is never lost by run_lease_watcher, the channel
\* or the loop, with any merging of events.
THEOREM NoHeardUpdateLost == Spec => []FreshTail
  BY Invariance, PTL DEF IInv

\* HangNeedsWrites for every instance: start_linux can only be stuck in its initial
\* send once the file has been written at least as often as the lease channel has slots.
THEOREM StartupHangBound == Spec => []HangNeedsWrites
<1>1. IInv => HangNeedsWrites
  BY LeaseConstants DEF IInv, TypeOK, Accounting, Owed, HangNeedsWrites
<1>. QED
  BY <1>1, Invariance, PTL

=============================================================================
