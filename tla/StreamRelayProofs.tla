------------------------- MODULE StreamRelayProofs -------------------------
(***************************************************************************)
(* Proofs about StreamRelay, for any number of pollers, messages and       *)
(* clients and any times.  Only WorkIsLeased looks at the clock; what is   *)
(* said of the log and of its readers follows from who held the lease when *)
(* an entry was written.                                                   *)
(***************************************************************************)
EXTENDS StreamRelay, FiniteSetTheorems, TLAPS

----------------------------------------------------------------------------
(* Type correctness.                                                       *)

\* What a poller has in hand while it processes a message.
InHand ==
    \A p \in Pollers : pc[p] \in {"put", "delete"} =>
        hand[p] \in Messages /\ stamp[p] \in 1..MaxStamp

TypeInv == TypeOK /\ InHand

LEMMA TypeInit == Init => TypeInv
BY ConstantsAssumption DEF Init, TypeInv, TypeOK, InHand, Offline, PC

LEMMA GotoType ==
    ASSUME TypeOK, NEW p \in Pollers, NEW where \in PC, Goto(p, where)
    PROVE  pc' \in [Pollers -> PC]
BY DEF TypeOK, Goto

LEMMA EntryType ==
    ASSUME TypeInv, NEW p \in Pollers, pc[p] = "put"
    PROVE  Entry(p) \in Entries
BY DEF TypeInv, TypeOK, InHand, Entry, Entries, Holds

LEMMA ForgetType ==
    ASSUME TypeInv, NEW p \in Pollers, Forget(p)
    PROVE  /\ pc' \in [Pollers -> PC]
           /\ left' \in [Pollers -> 0..RunTime]
           /\ todo' \in [Pollers -> SUBSET Messages]
           /\ hand' \in [Pollers -> Messages \cup {NoMessage}]
           /\ stamp' \in [Pollers -> 0..MaxStamp]
           /\ InHand'
BY ConstantsAssumption DEF TypeInv, TypeOK, InHand, Forget, Goto, PC

LEMMA TypeNext == TypeInv /\ [Next]_vars => TypeInv'
<1> SUFFICES ASSUME TypeInv, [Next]_vars PROVE TypeInv'
    OBVIOUS
<1> USE ConstantsAssumption
<1> USE DEF queue, poller, clients
<1>1. ASSUME NEW m \in Messages, Publish(m) PROVE TypeInv'
    BY <1>1 DEF Publish, TypeInv, TypeOK, InHand
<1>2. ASSUME NEW p \in Pollers, Invoke(p) PROVE TypeInv'
    BY <1>2 DEF Invoke, Goto, TypeInv, TypeOK, InHand, PC
<1>3. ASSUME NEW p \in Pollers, AcquireLease(p) PROVE TypeInv'
    <2>1. lease' \in [owner : Pollers \cup {NoPoller}, left : 0..LeaseTime]
        BY <1>3 DEF AcquireLease, Leased, TypeInv, TypeOK
    <2>2. pc' \in [Pollers -> PC] /\ InHand'
        BY <1>3 DEF AcquireLease, Goto, TypeInv, TypeOK, InHand, PC
    <2> QED
        BY <1>3, <2>1, <2>2 DEF AcquireLease, TypeInv, TypeOK
<1>4. ASSUME NEW p \in Pollers, Loop(p) PROVE TypeInv'
    BY <1>4 DEF Loop, Goto, TypeInv, TypeOK, InHand, PC
<1>5. ASSUME NEW p \in Pollers, Receive(p) PROVE TypeInv'
    <2>1. PICK batch \in SUBSET Visible :
             /\ hidden' = [m \in Messages |->
                              IF m \in batch THEN Visibility ELSE hidden[m]]
             /\ handle' = [m \in Messages |->
                              IF m \in batch THEN p ELSE handle[m]]
             /\ todo' = [todo EXCEPT ![p] = batch]
             /\ Goto(p, IF batch = {} THEN "loop" ELSE "next")
        BY <1>5 DEF Receive
    <2>2. batch \subseteq Messages
        BY DEF Visible
    <2>3. hidden' \in [Messages -> 0..Visibility]
        BY <2>1 DEF TypeInv, TypeOK
    <2>4. handle' \in [Messages -> Pollers \cup {NoPoller}]
        BY <2>1 DEF TypeInv, TypeOK
    <2>5. todo' \in [Pollers -> SUBSET Messages]
        BY <2>1, <2>2 DEF TypeInv, TypeOK
    <2>6. pc' \in [Pollers -> PC] /\ InHand'
        BY <1>5, <2>1 DEF Receive, Goto, TypeInv, TypeOK, InHand, PC
    <2> QED
        BY <1>5, <2>3, <2>4, <2>5, <2>6 DEF Receive, TypeInv, TypeOK
<1>6. ASSUME NEW p \in Pollers, ReceiveFails(p) PROVE TypeInv'
    BY <1>6 DEF ReceiveFails, Goto, TypeInv, TypeOK, InHand, PC
<1>7. ASSUME NEW p \in Pollers, Normalize(p) PROVE TypeInv'
    <2>1. PICK m \in todo[p] : /\ hand' = [hand EXCEPT ![p] = m]
                               /\ todo' = [todo EXCEPT ![p] = @ \ {m}]
        BY <1>7 DEF Normalize
    <2>2. m \in Messages
        BY DEF TypeInv, TypeOK
    <2>3. clock + 1 \in 1..MaxStamp /\ clock' = clock + 1
        BY <1>7 DEF Normalize, TypeInv, TypeOK
    <2>4. stamp' = [stamp EXCEPT ![p] = clock + 1] /\ Goto(p, "put")
        BY <1>7 DEF Normalize
    <2>5. /\ hand' \in [Pollers -> Messages \cup {NoMessage}]
          /\ todo' \in [Pollers -> SUBSET Messages]
          /\ stamp' \in [Pollers -> 0..MaxStamp]
          /\ pc' \in [Pollers -> PC]
        BY <2>1, <2>2, <2>3, <2>4, GotoType DEF TypeInv, TypeOK, PC
    <2>6. InHand'
        BY <2>1, <2>2, <2>3, <2>4 DEF TypeInv, TypeOK, InHand, Goto
    <2> QED
        BY <1>7, <2>3, <2>5, <2>6 DEF Normalize, TypeInv, TypeOK
<1>8. ASSUME NEW p \in Pollers, Persist(p) PROVE TypeInv'
    <2>1. log' \in Seq(Entries)
        BY <1>8, EntryType DEF Persist, At, TypeInv, TypeOK
    <2>2. pc' \in [Pollers -> PC] /\ InHand'
        BY <1>8 DEF Persist, At, Goto, TypeInv, TypeOK, InHand, PC
    <2> QED
        BY <1>8, <2>1, <2>2 DEF Persist, TypeInv, TypeOK
<1>9. ASSUME NEW p \in Pollers, PersistFails(p) PROVE TypeInv'
    <2>1. log' \in Seq(Entries)
        <3>1. Entry(p) \in Entries
            BY <1>9, EntryType DEF PersistFails, At
        <3>2. log' = log \/ log' = Append(log, Entry(p))
            BY <1>9 DEF PersistFails
        <3>3. log \in Seq(Entries)
            BY DEF TypeInv, TypeOK
        <3> QED
            BY <3>1, <3>2, <3>3
    <2>2. pc' \in [Pollers -> PC] /\ InHand'
        BY <1>9 DEF PersistFails, At, Goto, TypeInv, TypeOK, InHand, PC
    <2> QED
        BY <1>9, <2>1, <2>2 DEF PersistFails, TypeInv, TypeOK
<1>10. ASSUME NEW p \in Pollers, Delete(p) PROVE TypeInv'
    <2>1. hand[p] \in Messages
        BY <1>10 DEF Delete, At, TypeInv, InHand
    <2>2. place' \in [Messages -> {"unsent", "queued", "deleted"}]
        BY <1>10, <2>1 DEF Delete, Deleted, TypeInv, TypeOK
    <2>3. pc' \in [Pollers -> PC] /\ InHand'
        BY <1>10 DEF Delete, AfterMessage, At, Goto, TypeInv, TypeOK, InHand, PC
    <2>4. /\ todo' \in [Pollers -> SUBSET Messages]
          /\ hand' \in [Pollers -> Messages \cup {NoMessage}]
        BY <1>10 DEF Delete, TypeInv, TypeOK
    <2> QED
        BY <1>10, <2>2, <2>3, <2>4 DEF Delete, TypeInv, TypeOK
<1>11. ASSUME NEW p \in Pollers, DeleteFails(p) PROVE TypeInv'
    <2>1. hand[p] \in Messages
        BY <1>11 DEF DeleteFails, At, TypeInv, InHand
    <2>2. place' \in [Messages -> {"unsent", "queued", "deleted"}]
        BY <1>11, <2>1 DEF DeleteFails, TypeInv, TypeOK
    <2>3. pc' \in [Pollers -> PC] /\ InHand'
        BY <1>11 DEF DeleteFails, At, Goto, TypeInv, TypeOK, InHand, PC
    <2> QED
        BY <1>11, <2>2, <2>3 DEF DeleteFails, TypeInv, TypeOK
<1>12. ASSUME NEW p \in Pollers, ReleaseLease(p) PROVE TypeInv'
    <2>1. lease' \in [owner : Pollers \cup {NoPoller}, left : 0..LeaseTime]
        BY <1>12 DEF ReleaseLease, Released, TypeInv, TypeOK
    <2> QED
        BY <1>12, <2>1, ForgetType DEF ReleaseLease, TypeInv, TypeOK
<1>13. ASSUME NEW p \in Pollers, Kill(p) PROVE TypeInv'
    BY <1>13, ForgetType DEF Kill, TypeInv, TypeOK
<1>14. ASSUME NEW c \in Clients, Connect(c) PROVE TypeInv'
    BY <1>14 DEF Connect, Offline, TypeInv, TypeOK, InHand
<1>15. ASSUME NEW c \in Clients, Poll(c) PROVE TypeInv'
    <2>1. PICK n \in 0..Len(log) :
             \E last \in FetchEventsAfter(n, cursor[c]) :
                /\ sent' = [sent EXCEPT ![c] =
                               @ \cup FetchEventsAfter(n, cursor[c])]
                /\ cursor' = [cursor EXCEPT ![c] = last]
        BY <1>15 DEF Poll
    <2>2. \A i \in 1..n : log[i].stamp \in 1..MaxStamp
        <3>1. \A i \in 1..n : log[i] \in Entries
            BY DEF TypeInv, TypeOK
        <3> QED
            BY <3>1 DEF Entries
    <2>3. FetchEventsAfter(n, cursor[c]) \subseteq 1..MaxStamp
        BY <2>2 DEF FetchEventsAfter, Beyond
    <2> QED
        BY <1>15, <2>1, <2>3 DEF Poll, TypeInv, TypeOK, InHand
<1>16. ASSUME NEW c \in Clients, Disconnect(c) PROVE TypeInv'
    BY <1>16 DEF Disconnect, Offline, TypeInv, TypeOK, InHand
<1>17. CASE Tick
    <2>1. lease' \in [owner : Pollers \cup {NoPoller}, left : 0..LeaseTime]
        BY <1>17 DEF Tick, Less, TypeInv, TypeOK
    <2>2. left' \in [Pollers -> 0..RunTime]
        BY <1>17 DEF Tick, Less, TypeInv, TypeOK
    <2>3. hidden' \in [Messages -> 0..Visibility]
        BY <1>17 DEF Tick, Less, TypeInv, TypeOK
    <2> QED
        BY <1>17, <2>1, <2>2, <2>3 DEF Tick, TypeInv, TypeOK, InHand
<1>18. CASE UNCHANGED vars
    BY <1>18 DEF vars, TypeInv, TypeOK, InHand
<1> QED
    BY <1>1, <1>2, <1>3, <1>4, <1>5, <1>6, <1>7, <1>8, <1>9, <1>10, <1>11,
       <1>12, <1>13, <1>14, <1>15, <1>16, <1>17, <1>18
       DEF Next, Work, Stream

LEMMA TypeAlways == Spec => []TypeInv
BY TypeInit, TypeNext, PTL DEF Spec

\* Every variable of the relay keeps its type.
THEOREM TypeCorrect == Spec => []TypeOK
<1>1. TypeInv => TypeOK
    BY DEF TypeInv
<1> QED
    BY <1>1, TypeAlways, PTL
----------------------------------------------------------------------------
(* The lease.                                                              *)

LEMMA LeaseInit == Init => WorkIsLeased
BY DEF Init, WorkIsLeased, Working

\* What a step of one poller, or of none, leaves of the lease: whoever works
\* after it with time to spare did so before it, and the lease is the same.
LEMMA LeaseKept ==
    ASSUME TypeInv, WorkIsLeased, UNCHANGED <<lease, left>>,
           \A p \in Pollers : Working(p)' => Working(p)
    PROVE  WorkIsLeased'
BY DEF WorkIsLeased

LEMMA LeaseNext == TypeInv /\ WorkIsLeased /\ [Next]_vars => WorkIsLeased'
<1> SUFFICES ASSUME TypeInv, WorkIsLeased, [Next]_vars PROVE WorkIsLeased'
    OBVIOUS
<1> USE ConstantsAssumption
<1> USE DEF queue, poller, clients
<1>1. ASSUME NEW m \in Messages, Publish(m) PROVE WorkIsLeased'
    BY <1>1, LeaseKept DEF Publish, Working
<1>2. ASSUME NEW p \in Pollers, Invoke(p) PROVE WorkIsLeased'
    BY <1>2 DEF Invoke, Goto, TypeInv, TypeOK, WorkIsLeased, Working
<1>3. ASSUME NEW p \in Pollers, AcquireLease(p) PROVE WorkIsLeased'
    <2>1. CASE CanLease(p) /\ lease' = Leased(p) /\ Goto(p, "loop")
        <3> SUFFICES ASSUME NEW q \in Pollers, Working(q)',
                            left'[q] > RunTime - LeaseTime
                     PROVE  /\ lease'.owner = q
                            /\ lease'.left >= left'[q] - (RunTime - LeaseTime)
            BY DEF WorkIsLeased
        <3>1. left' = left /\ left[q] \in 0..RunTime
            BY <1>3 DEF AcquireLease, TypeInv, TypeOK
        <3>2. CASE q = p
            BY <2>1, <3>1, <3>2 DEF Leased
        <3>3. CASE q # p
            <4>1. Working(q)
                BY <2>1, <3>3 DEF Goto, Working, TypeInv, TypeOK
            <4>2. lease.owner = q /\ lease.left > 0
                BY <3>1, <4>1 DEF WorkIsLeased, TypeInv, TypeOK
            <4> QED
                BY <2>1, <3>3, <4>2 DEF CanLease
        <3> QED
            BY <3>2, <3>3
    <2>2. CASE Goto(p, "idle") /\ UNCHANGED lease
        BY <1>3, <2>2, LeaseKept
           DEF AcquireLease, Goto, Working, TypeInv, TypeOK
    <2> QED
        BY <1>3, <2>1, <2>2 DEF AcquireLease
<1>4. ASSUME NEW p \in Pollers, Loop(p) PROVE WorkIsLeased'
    BY <1>4, LeaseKept DEF Loop, At, Goto, Working, TypeInv, TypeOK
<1>5. ASSUME NEW p \in Pollers, Receive(p) PROVE WorkIsLeased'
    <2>1. \E where : Goto(p, where)
        BY <1>5 DEF Receive
    <2> QED
        BY <1>5, <2>1, LeaseKept
           DEF Receive, At, Goto, Working, TypeInv, TypeOK
<1>6. ASSUME NEW p \in Pollers, ReceiveFails(p) PROVE WorkIsLeased'
    BY <1>6, LeaseKept DEF ReceiveFails, At, Goto, Working, TypeInv, TypeOK
<1>7. ASSUME NEW p \in Pollers, Normalize(p) PROVE WorkIsLeased'
    BY <1>7, LeaseKept DEF Normalize, At, Goto, Working, TypeInv, TypeOK
<1>8. ASSUME NEW p \in Pollers, Persist(p) PROVE WorkIsLeased'
    BY <1>8, LeaseKept DEF Persist, At, Goto, Working, TypeInv, TypeOK
<1>9. ASSUME NEW p \in Pollers, PersistFails(p) PROVE WorkIsLeased'
    BY <1>9, LeaseKept DEF PersistFails, At, Goto, Working, TypeInv, TypeOK
<1>10. ASSUME NEW p \in Pollers, Delete(p) PROVE WorkIsLeased'
    BY <1>10, LeaseKept DEF Delete, At, Goto, Working, TypeInv, TypeOK
<1>11. ASSUME NEW p \in Pollers, DeleteFails(p) PROVE WorkIsLeased'
    BY <1>11, LeaseKept DEF DeleteFails, At, Goto, Working, TypeInv, TypeOK
<1>12. ASSUME NEW p \in Pollers, ReleaseLease(p) PROVE WorkIsLeased'
    <2> SUFFICES ASSUME NEW q \in Pollers, Working(q)',
                        left'[q] > RunTime - LeaseTime
                 PROVE  /\ lease'.owner = q
                        /\ lease'.left >= left'[q] - (RunTime - LeaseTime)
        BY DEF WorkIsLeased
    <2>1. q # p /\ Working(q) /\ left'[q] = left[q]
        BY <1>12 DEF ReleaseLease, Forget, Goto, Working, TypeInv, TypeOK
    <2>2. lease.owner = q
        BY <2>1 DEF WorkIsLeased
    <2>3. lease' = lease
        BY <1>12, <2>1, <2>2 DEF ReleaseLease, Released
    <2> QED
        BY <2>1, <2>3 DEF WorkIsLeased
<1>13. ASSUME NEW p \in Pollers, Kill(p) PROVE WorkIsLeased'
    BY <1>13 DEF Kill, Forget, Goto, Working, WorkIsLeased, TypeInv, TypeOK
<1>14. ASSUME NEW c \in Clients, Stream(c) PROVE WorkIsLeased'
    BY <1>14, LeaseKept DEF Stream, Connect, Poll, Disconnect, Working
<1>15. CASE Tick
    <2> SUFFICES ASSUME NEW q \in Pollers, Working(q)',
                        left'[q] > RunTime - LeaseTime
                 PROVE  /\ lease'.owner = q
                        /\ lease'.left >= left'[q] - (RunTime - LeaseTime)
        BY DEF WorkIsLeased
    <2>1. left[q] \in Nat /\ left[q] > 0 /\ left'[q] = left[q] - 1 /\ Working(q)
        BY <1>15 DEF Tick, Less, Working, TypeInv, TypeOK
    <2>2. lease.owner = q /\ lease.left >= left[q] - (RunTime - LeaseTime)
        BY <2>1 DEF WorkIsLeased
    <2>3. lease.left \in Nat /\ lease.left > 0
        BY <2>1, <2>2 DEF TypeInv, TypeOK
    <2>4. lease'.owner = lease.owner /\ lease'.left = lease.left - 1
        BY <1>15, <2>3 DEF Tick, Less
    <2> QED
        BY <2>1, <2>2, <2>3, <2>4
<1>16. CASE UNCHANGED vars
    BY <1>16, LeaseKept DEF vars, Working
<1> QED
    BY <1>1, <1>2, <1>3, <1>4, <1>5, <1>6, <1>7, <1>8, <1>9, <1>10, <1>11,
       <1>12, <1>13, <1>14, <1>15, <1>16 DEF Next, Work

\* Two pollers work at once only in the tail of the run of one of them.
THEOREM WorkLeased == Spec => []WorkIsLeased
BY LeaseInit, LeaseNext, TypeAlways, PTL DEF Spec

----------------------------------------------------------------------------
(* Nothing is lost.                                                        *)

Stored(m) == \E i \in 1..Len(log) : log[i].message = m

\* A poller about to delete a message has stored it.
StoredFirst == \A p \in Pollers : pc[p] = "delete" => Stored(hand[p])

LostInv == NothingLost /\ StoredFirst

LEMMA LostInit == Init => LostInv
BY DEF Init, LostInv, NothingLost, StoredFirst

\* The log only grows.
LEMMA LogGrows ==
    ASSUME TypeInv, [Next]_vars
    PROVE  \/ log' = log
           \/ \E p \in Pollers : /\ pc[p] = "put"
                                 /\ log' = Append(log, Entry(p))
<1> USE DEF queue, poller, clients
<1>1. ASSUME NEW p \in Pollers, Persist(p) \/ PersistFails(p)
      PROVE  /\ pc[p] = "put"
             /\ log' = log \/ log' = Append(log, Entry(p))
    BY <1>1 DEF Persist, PersistFails, At
<1>2. ASSUME NEW p \in Pollers, Work(p)
      PROVE  Persist(p) \/ PersistFails(p) \/ log' = log
    BY <1>2 DEF Work, Invoke, AcquireLease, Loop, Receive, ReceiveFails,
       Normalize, Delete, DeleteFails, ReleaseLease, Kill
<1>3. ASSUME NEW m \in Messages, Publish(m) PROVE log' = log
    BY <1>3 DEF Publish
<1>4. ASSUME NEW c \in Clients, Stream(c) PROVE log' = log
    BY <1>4 DEF Stream, Connect, Poll, Disconnect
<1>5. CASE Tick
    BY <1>5 DEF Tick
<1>6. CASE UNCHANGED vars
    BY <1>6 DEF vars
<1> QED
    BY <1>1, <1>2, <1>3, <1>4, <1>5, <1>6 DEF Next

LEMMA StoredStays ==
    ASSUME TypeInv, [Next]_vars, NEW m, Stored(m)
    PROVE  Stored(m)'
<1>1. PICK i \in 1..Len(log) : log[i].message = m
    BY DEF Stored
<1>2. log \in Seq(Entries)
    BY DEF TypeInv, TypeOK
<1>3. CASE log' = log
    BY <1>3 DEF Stored
<1>4. ASSUME NEW p \in Pollers, pc[p] = "put", log' = Append(log, Entry(p))
      PROVE  Stored(m)'
    <2>1. Entry(p) \in Entries
        BY <1>4, EntryType
    <2>2. i \in 1..Len(log') /\ log'[i] = log[i]
        BY <1>2, <1>4, <2>1
    <2> QED
        BY <1>1, <2>2 DEF Stored
<1> QED
    BY <1>3, <1>4, LogGrows

\* What a step must leave for the two to hold after it.
LEMMA LostStep ==
    ASSUME TypeInv, LostInv, [Next]_vars,
           \A m \in Messages : place'[m] = "deleted" =>
               place[m] = "deleted" \/ Stored(m),
           \A p \in Pollers : pc'[p] = "delete" =>
               /\ hand'[p] = hand[p]
               /\ hand[p] \in Messages
               /\ \/ pc[p] = "delete"
                  \/ \E i \in 1..Len(log') : log'[i].message = hand[p]
    PROVE  LostInv'
<1>1. ASSUME NEW m \in Messages, place'[m] = "deleted"
      PROVE  \E i \in 1..Len(log') : log'[i].message = m
    <2>1. Stored(m)
        BY <1>1 DEF LostInv, NothingLost, Stored
    <2> QED
        BY <2>1, StoredStays DEF Stored
<1>2. ASSUME NEW p \in Pollers, pc'[p] = "delete"
      PROVE  \E i \in 1..Len(log') : log'[i].message = hand'[p]
    <2>1. CASE pc[p] = "delete"
        <3>1. PICK m \in Messages : m = hand[p]
            BY <1>2
        <3>2. Stored(m)
            BY <2>1, <3>1 DEF LostInv, StoredFirst, Stored
        <3>3. \E i \in 1..Len(log') : log'[i].message = m
            BY <3>2, StoredStays DEF Stored
        <3> QED
            BY <1>2, <3>1, <3>3
    <2> QED
        BY <1>2, <2>1
<1> QED
    BY <1>1, <1>2 DEF LostInv, NothingLost, StoredFirst, Stored

LEMMA LostNext == TypeInv /\ LostInv /\ [Next]_vars => LostInv'
<1> SUFFICES ASSUME TypeInv, LostInv, [Next]_vars PROVE LostInv'
    OBVIOUS
<1> USE DEF queue, poller, clients
<1>1. \A p \in Pollers : pc[p] = "delete" => hand[p] \in Messages
    BY DEF TypeInv, InHand
<1>2. ASSUME NEW m \in Messages, Publish(m) PROVE LostInv'
    BY <1>1, <1>2, LostStep DEF Publish, TypeInv, TypeOK
<1>3. ASSUME NEW p \in Pollers, Invoke(p) PROVE LostInv'
    BY <1>1, <1>3, LostStep DEF Invoke, Goto, TypeInv, TypeOK
<1>4. ASSUME NEW p \in Pollers, AcquireLease(p) PROVE LostInv'
    BY <1>1, <1>4, LostStep DEF AcquireLease, Goto, TypeInv, TypeOK
<1>5. ASSUME NEW p \in Pollers, Loop(p) PROVE LostInv'
    BY <1>1, <1>5, LostStep DEF Loop, Goto, TypeInv, TypeOK
<1>6. ASSUME NEW p \in Pollers, Receive(p) PROVE LostInv'
    <2>1. PICK where \in {"loop", "next"} : Goto(p, where)
        BY <1>6 DEF Receive
    <2> QED
        BY <1>1, <1>6, <2>1, LostStep DEF Receive, Goto, TypeInv, TypeOK
<1>7. ASSUME NEW p \in Pollers, ReceiveFails(p) PROVE LostInv'
    BY <1>1, <1>7, LostStep DEF ReceiveFails, Goto, TypeInv, TypeOK
<1>8. ASSUME NEW p \in Pollers, Normalize(p) PROVE LostInv'
    <2>1. PICK m : hand' = [hand EXCEPT ![p] = m]
        BY <1>8 DEF Normalize
    <2> QED
        BY <1>1, <1>8, <2>1, LostStep DEF Normalize, Goto, TypeInv, TypeOK
<1>9. ASSUME NEW p \in Pollers, Persist(p) PROVE LostInv'
    <2>1. pc[p] = "put" /\ hand[p] \in Messages
        BY <1>9 DEF Persist, At, TypeInv, InHand
    <2>2. log \in Seq(Entries) /\ Entry(p) \in Entries
        BY <2>1, EntryType DEF TypeInv, TypeOK
    <2>3. /\ Len(log') \in 1..Len(log')
          /\ log'[Len(log')] = Entry(p)
        BY <1>9, <2>2 DEF Persist
    <2>4. log'[Len(log')].message = hand[p]
        BY <2>3 DEF Entry
    <2> QED
        BY <1>1, <1>9, <2>1, <2>3, <2>4, LostStep
           DEF Persist, Goto, TypeInv, TypeOK
<1>10. ASSUME NEW p \in Pollers, PersistFails(p) PROVE LostInv'
    BY <1>1, <1>10, LostStep DEF PersistFails, Goto, TypeInv, TypeOK
<1>11. ASSUME NEW p \in Pollers, Delete(p) \/ DeleteFails(p) PROVE LostInv'
    <2>1. pc[p] = "delete"
        BY <1>11 DEF Delete, DeleteFails, At
    <2>2. Stored(hand[p])
        BY <2>1 DEF LostInv, StoredFirst
    <2>3. PICK there : place' = [place EXCEPT ![hand[p]] = there]
        BY <1>11 DEF Delete, DeleteFails
    <2>4. \A m \in Messages :
              place'[m] = "deleted" => place[m] = "deleted" \/ Stored(m)
        BY <2>2, <2>3 DEF TypeInv, TypeOK
    <2>5. PICK where \in {"loop", "next", "release"} : Goto(p, where)
        BY <1>11 DEF Delete, DeleteFails, AfterMessage
    <2>6. \A q \in Pollers \ {p} : hand'[q] = hand[q]
        BY <1>11 DEF Delete, DeleteFails, TypeInv, TypeOK
    <2> QED
        BY <1>1, <2>4, <2>5, <2>6, LostStep DEF Goto, TypeInv, TypeOK
<1>12. ASSUME NEW p \in Pollers, ReleaseLease(p) PROVE LostInv'
    BY <1>1, <1>12, LostStep DEF ReleaseLease, Forget, Goto, TypeInv, TypeOK
<1>13. ASSUME NEW p \in Pollers, Kill(p) PROVE LostInv'
    BY <1>1, <1>13, LostStep DEF Kill, Forget, Goto, TypeInv, TypeOK
<1>14. ASSUME NEW c \in Clients, Stream(c) PROVE LostInv'
    BY <1>1, <1>14, LostStep DEF Stream, Connect, Poll, Disconnect
<1>15. CASE Tick
    BY <1>1, <1>15, LostStep DEF Tick
<1>16. CASE UNCHANGED vars
    BY <1>1, <1>16, LostStep DEF vars
<1> QED
    BY <1>2, <1>3, <1>4, <1>5, <1>6, <1>7, <1>8, <1>9, <1>10, <1>11,
       <1>12, <1>13, <1>14, <1>15, <1>16 DEF Next, Work

\* A message the queue no longer has is in the log.
THEOREM NoMessageIsLost == Spec => []NothingLost
<1>1. LostInv => NothingLost
    BY DEF LostInv
<1> QED
    BY <1>1, LostInit, LostNext, TypeAlways, PTL DEF Spec

----------------------------------------------------------------------------
(* The order of the log.                                                   *)

\* Stamps tell entries apart, those about to be written too.
Fresh ==
    /\ \A i \in 1..Len(log) : log[i].stamp <= clock
    /\ \A i, j \in 1..Len(log) : i # j => log[i].stamp # log[j].stamp
    /\ \A p \in Pollers : pc[p] = "put" =>
           /\ stamp[p] <= clock
           /\ \A i \in 1..Len(log) : log[i].stamp # stamp[p]
           /\ \A q \in Pollers : pc[q] = "put" /\ q # p => stamp[q] # stamp[p]

\* What has overtaken an entry that the holder of the lease is about to
\* write was written without the lease.
Overtaken ==
    \A p \in Pollers : pc[p] = "put" /\ Holds(p) =>
        \A i \in 1..Len(log) : log[i].stamp > stamp[p] => log[i].late

\* Of two entries that are not in the order of their stamps, one is late.
Ordered ==
    \A i \in 1..Len(log) : \A j \in 1..i :
        log[j].stamp > log[i].stamp => log[j].late \/ log[i].late

LogInv == Fresh /\ Overtaken /\ Ordered

LEMMA LogInit == Init => LogInv
BY DEF Init, LogInv, Fresh, Overtaken, Ordered

\* A step that writes and stamps nothing.
LEMMA LogKept ==
    ASSUME LogInv, UNCHANGED <<log, clock>>,
           \A p \in Pollers : pc'[p] = "put" =>
               /\ pc[p] = "put"
               /\ stamp'[p] = stamp[p]
               /\ Holds(p)' => Holds(p)
    PROVE  LogInv'
<1>1. Fresh'
    BY DEF LogInv, Fresh
<1>2. Overtaken'
    BY DEF LogInv, Overtaken
<1>3. Ordered'
    BY DEF LogInv, Ordered
<1> QED
    BY <1>1, <1>2, <1>3 DEF LogInv

\* A poller writes its entry.
LEMMA LogAppended ==
    ASSUME TypeInv, LogInv, NEW p \in Pollers, pc[p] = "put",
           log' = Append(log, Entry(p)), UNCHANGED <<lease, stamp, clock>>,
           pc'[p] # "put",
           \A q \in Pollers : pc'[q] = "put" => pc[q] = "put"
    PROVE  LogInv'
<1>1. log \in Seq(Entries) /\ Entry(p) \in Entries
    BY EntryType DEF TypeInv, TypeOK
<1>2. Len(log') = Len(log) + 1 /\ Len(log) \in Nat
    BY <1>1
<1>3. /\ \A i \in 1..Len(log) : log'[i] = log[i]
      /\ log'[Len(log) + 1] = Entry(p)
    BY <1>1
<1>4. /\ Entry(p).stamp = stamp[p]
      /\ Entry(p).late = ~Holds(p)
    BY DEF Entry
<1>5. \A i \in 1..Len(log') : i \in 1..Len(log) \/ i = Len(log) + 1
    BY <1>2
<1>6. /\ stamp[p] <= clock
      /\ \A i \in 1..Len(log) : log[i].stamp # stamp[p]
      /\ \A q \in Pollers : pc[q] = "put" /\ q # p => stamp[q] # stamp[p]
    BY DEF LogInv, Fresh
<1>7. Fresh'
    <2>1. \A i \in 1..Len(log') : log'[i].stamp <= clock'
        BY <1>3, <1>4, <1>5, <1>6 DEF LogInv, Fresh
    <2>2. \A i, j \in 1..Len(log') : i # j => log'[i].stamp # log'[j].stamp
        BY <1>3, <1>4, <1>5, <1>6 DEF LogInv, Fresh
    <2>3. ASSUME NEW q \in Pollers, pc'[q] = "put"
          PROVE  /\ stamp'[q] <= clock'
                 /\ \A i \in 1..Len(log') : log'[i].stamp # stamp'[q]
                 /\ \A r \in Pollers : pc'[r] = "put" /\ r # q =>
                        stamp'[r] # stamp'[q]
        BY <1>3, <1>4, <1>5, <1>6, <2>3 DEF LogInv, Fresh
    <2> QED
        BY <2>1, <2>2, <2>3 DEF Fresh
<1>8. Overtaken'
    <2> SUFFICES ASSUME NEW q \in Pollers, pc'[q] = "put", Holds(q)',
                        NEW i \in 1..Len(log'), log'[i].stamp > stamp'[q]
                 PROVE  log'[i].late
        BY DEF Overtaken
    <2>1. pc[q] = "put" /\ Holds(q) /\ q # p
        BY DEF Holds
    <2>2. ~Holds(p)
        BY <2>1 DEF Holds
    <2>3. CASE i \in 1..Len(log)
        BY <1>3, <2>1, <2>3 DEF LogInv, Overtaken
    <2>4. CASE i = Len(log) + 1
        BY <1>3, <1>4, <2>2, <2>4
    <2> QED
        BY <1>5, <2>3, <2>4
<1>9. Ordered'
    <2> SUFFICES ASSUME NEW i \in 1..Len(log'), NEW j \in 1..i,
                        log'[j].stamp > log'[i].stamp
                 PROVE  log'[j].late \/ log'[i].late
        BY DEF Ordered
    <2>1. CASE i \in 1..Len(log)
        <3>1. j \in 1..Len(log)
            BY <1>2, <2>1
        <3> QED
            BY <1>3, <2>1, <3>1 DEF LogInv, Ordered
    <2>2. CASE i = Len(log) + 1
        <3>1. log'[i] = Entry(p)
            BY <1>3, <2>2
        <3>2. log'[i].stamp \in Nat
            BY <1>1, <3>1 DEF Entries
        <3>3. j # i
            BY <3>2
        <3>4. j \in 1..Len(log)
            BY <1>2, <2>2, <3>3
        <3>5. log[j].stamp > stamp[p]
            BY <1>3, <1>4, <3>1, <3>4
        <3>6. CASE Holds(p)
            BY <1>3, <3>4, <3>5, <3>6 DEF LogInv, Overtaken
        <3>7. CASE ~Holds(p)
            BY <1>4, <3>1, <3>7
        <3> QED
            BY <3>6, <3>7
    <2> QED
        BY <1>5, <2>1, <2>2
<1> QED
    BY <1>7, <1>8, <1>9 DEF LogInv

LEMMA LogNext == TypeInv /\ LogInv /\ [Next]_vars => LogInv'
<1> SUFFICES ASSUME TypeInv, LogInv, [Next]_vars PROVE LogInv'
    OBVIOUS
<1> USE DEF queue, poller, clients
<1>1. ASSUME NEW m \in Messages, Publish(m) PROVE LogInv'
    BY <1>1, LogKept DEF Publish, Holds
<1>2. ASSUME NEW p \in Pollers, Invoke(p) PROVE LogInv'
    BY <1>2, LogKept DEF Invoke, Goto, Holds, TypeInv, TypeOK
<1>3. ASSUME NEW p \in Pollers, AcquireLease(p) PROVE LogInv'
    <2>1. \A q \in Pollers : pc'[q] = "put" => q # p /\ pc[q] = "put"
        BY <1>3 DEF AcquireLease, Goto, TypeInv, TypeOK
    <2>2. \A q \in Pollers \ {p} : Holds(q)' => Holds(q)
        BY <1>3 DEF AcquireLease, Leased, Holds
    <2> QED
        BY <1>3, <2>1, <2>2, LogKept DEF AcquireLease
<1>4. ASSUME NEW p \in Pollers, Loop(p) PROVE LogInv'
    BY <1>4, LogKept DEF Loop, Goto, Holds, TypeInv, TypeOK
<1>5. ASSUME NEW p \in Pollers, Receive(p) PROVE LogInv'
    <2>1. PICK where \in {"loop", "next"} : Goto(p, where)
        BY <1>5 DEF Receive
    <2> QED
        BY <1>5, <2>1, LogKept DEF Receive, Goto, Holds, TypeInv, TypeOK
<1>6. ASSUME NEW p \in Pollers, ReceiveFails(p) PROVE LogInv'
    BY <1>6, LogKept DEF ReceiveFails, Goto, Holds, TypeInv, TypeOK
<1>7. ASSUME NEW p \in Pollers, Normalize(p) PROVE LogInv'
    <2>1. /\ log' = log /\ lease' = lease
          /\ clock' = clock + 1 /\ clock \in Nat
          /\ stamp'[p] = clock + 1
          /\ \A q \in Pollers \ {p} : stamp'[q] = stamp[q] /\ pc'[q] = pc[q]
        BY <1>7 DEF Normalize, Goto, TypeInv, TypeOK
    <2>2. \A i \in 1..Len(log) : log[i].stamp \in Nat
        <3>1. \A i \in 1..Len(log) : log[i] \in Entries
            BY DEF TypeInv, TypeOK
        <3> QED
            BY <3>1 DEF Entries
    <2>3. \A q \in Pollers : stamp[q] \in Nat
        BY DEF TypeInv, TypeOK
    <2>4. Fresh'
        <3>1. \A i \in 1..Len(log) : log[i].stamp < clock + 1
            BY <2>1, <2>2 DEF LogInv, Fresh
        <3>2. \A q \in Pollers \ {p} : pc[q] = "put" => stamp[q] < clock + 1
            BY <2>1, <2>3 DEF LogInv, Fresh
        <3> QED
            BY <2>1, <2>2, <2>3, <3>1, <3>2 DEF LogInv, Fresh
    <2>5. Overtaken'
        <3>1. \A i \in 1..Len(log) : ~(log[i].stamp > clock + 1)
            BY <2>1, <2>2 DEF LogInv, Fresh
        <3> QED
            BY <2>1, <3>1 DEF LogInv, Overtaken, Holds
    <2>6. Ordered'
        BY <2>1 DEF LogInv, Ordered
    <2> QED
        BY <2>4, <2>5, <2>6 DEF LogInv
<1>8. ASSUME NEW p \in Pollers, Persist(p) \/ PersistFails(p) PROVE LogInv'
    <2>1. PICK where \in {"delete", "release"} : Goto(p, where)
        BY <1>8 DEF Persist, PersistFails
    <2>2. /\ pc[p] = "put" /\ pc'[p] # "put"
          /\ \A q \in Pollers : pc'[q] = "put" => pc[q] = "put"
          /\ UNCHANGED <<lease, stamp, clock>>
        BY <1>8, <2>1 DEF Persist, PersistFails, At, Goto, TypeInv, TypeOK
    <2>3. CASE log' = Append(log, Entry(p))
        BY <2>2, <2>3, LogAppended
    <2>4. CASE log' = log
        BY <2>2, <2>4, LogKept DEF Holds
    <2> QED
        BY <1>8, <2>3, <2>4 DEF Persist, PersistFails
<1>9. ASSUME NEW p \in Pollers, Delete(p) \/ DeleteFails(p) PROVE LogInv'
    <2>1. PICK where \in {"loop", "next", "release"} : Goto(p, where)
        BY <1>9 DEF Delete, DeleteFails, AfterMessage
    <2> QED
        BY <1>9, <2>1, LogKept
           DEF Delete, DeleteFails, Goto, Holds, TypeInv, TypeOK
<1>10. ASSUME NEW p \in Pollers, ReleaseLease(p) PROVE LogInv'
    <2>1. \A q \in Pollers : Holds(q)' => Holds(q)
        BY <1>10 DEF ReleaseLease, Released, Holds, TypeInv, TypeOK
    <2> QED
        BY <1>10, <2>1, LogKept DEF ReleaseLease, Forget, Goto, TypeInv, TypeOK
<1>11. ASSUME NEW p \in Pollers, Kill(p) PROVE LogInv'
    BY <1>11, LogKept DEF Kill, Forget, Goto, Holds, TypeInv, TypeOK
<1>12. ASSUME NEW c \in Clients, Stream(c) PROVE LogInv'
    BY <1>12, LogKept DEF Stream, Connect, Poll, Disconnect, Holds
<1>13. CASE Tick
    <2>1. \A q \in Pollers : Holds(q)' => Holds(q)
        BY <1>13 DEF Tick, Less, Holds, TypeInv, TypeOK
    <2> QED
        BY <1>13, <2>1, LogKept DEF Tick
<1>14. CASE UNCHANGED vars
    BY <1>14, LogKept DEF vars, Holds
<1> QED
    BY <1>1, <1>2, <1>3, <1>4, <1>5, <1>6, <1>7, <1>8, <1>9, <1>10, <1>11,
       <1>12, <1>13, <1>14 DEF Next, Work

LEMMA LogAlways == Spec => []LogInv
BY LogInit, LogNext, TypeAlways, PTL DEF Spec

----------------------------------------------------------------------------
(* What the clients miss.                                                  *)

\* Below an entry of a page, nothing the query saw is left out.
LEMMA PageIsLowest ==
    ASSUME TypeInv, NEW n \in 0..Len(log), NEW k, NEW s, NEW t,
           s \in FetchEventsAfter(n, k), t \in Beyond(n, k), t < s
    PROVE  t \in FetchEventsAfter(n, k)
<1>1. Beyond(n, k) \subseteq 1..MaxStamp
    <2>1. \A i \in 1..n : log[i] \in Entries
        BY DEF TypeInv, TypeOK
    <2> QED
        BY <2>1 DEF Beyond, Entries
<1> DEFINE under(x) == {u \in Beyond(n, k) : u < x}
<1>2. IsFiniteSet(under(s))
    <2>1. IsFiniteSet(1..MaxStamp)
        BY ConstantsAssumption, FS_Interval
    <2> QED
        BY <1>1, <2>1, FS_Subset
<1>3. under(t) \subseteq under(s)
    <2>1. s \in 1..MaxStamp /\ t \in 1..MaxStamp
        BY <1>1 DEF FetchEventsAfter
    <2> QED
        BY <1>1, <2>1
<1>4. /\ Cardinality(under(s)) \in Nat
      /\ Cardinality(under(t)) \in Nat
      /\ Cardinality(under(t)) <= Cardinality(under(s))
    <2>1. IsFiniteSet(under(t))
        BY <1>2, <1>3, FS_Subset
    <2> HIDE DEF under
    <2> QED
        BY <1>2, <1>3, <2>1, FS_Subset, FS_CardinalityType
<1>5. Cardinality(under(s)) < Page
    BY DEF FetchEventsAfter
<1> QED
    BY <1>4, <1>5, ConstantsAssumption DEF FetchEventsAfter

\* A cursor that has moved is the stamp of an entry.
Cursors ==
    \A c \in Clients : start[c] # Offline =>
        \/ cursor[c] = start[c]
        \/ \E j \in 1..Len(log) : log[j].stamp = cursor[c]

ReadInv == Cursors /\ SkipsNeedOverrun

LEMMA ReadInit == Init => ReadInv
BY DEF Init, ReadInv, Cursors, SkipsNeedOverrun, Skipped

\* A step that touches no client.
LEMMA ReadKept ==
    ASSUME TypeInv, LogInv, LogInv', ReadInv, UNCHANGED <<start, cursor, sent>>,
           \/ log' = log
           \/ \E p \in Pollers : pc[p] = "put" /\ log' = Append(log, Entry(p))
    PROVE  ReadInv'
<1>1. CASE log' = log
    BY <1>1 DEF ReadInv, Cursors, SkipsNeedOverrun, Skipped
<1>2. ASSUME NEW p \in Pollers, pc[p] = "put", log' = Append(log, Entry(p))
      PROVE  ReadInv'
    <2>1. log \in Seq(Entries) /\ Entry(p) \in Entries
        BY <1>2, EntryType DEF TypeInv, TypeOK
    <2>2. /\ Len(log) \in Nat
          /\ Len(log') = Len(log) + 1
          /\ \A i \in 1..Len(log) : log'[i] = log[i]
          /\ log'[Len(log) + 1] = Entry(p)
        BY <1>2, <2>1
    <2>3. Cursors'
        BY <2>2 DEF ReadInv, Cursors
    <2>4. ASSUME NEW c \in Clients, NEW i \in 1..Len(log'), Skipped(c, i)'
          PROVE  \E j \in 1..i : /\ log'[j].late
                                 /\ log'[j].stamp >= log'[i].stamp
        <3>1. CASE i \in 1..Len(log)
            <4>1. Skipped(c, i)
                BY <2>2, <2>4, <3>1 DEF Skipped
            <4>2. PICK j \in 1..i : log[j].late /\ log[j].stamp >= log[i].stamp
                BY <3>1, <4>1 DEF ReadInv, SkipsNeedOverrun
            <4>3. j \in 1..Len(log)
                BY <2>2, <3>1
            <4> QED
                BY <2>2, <3>1, <4>2, <4>3
        <3>2. CASE i = Len(log) + 1
            <4>1. /\ start[c] # Offline
                  /\ start[c] < log'[i].stamp
                  /\ log'[i].stamp <= cursor[c]
                BY <2>4 DEF Skipped
            <4>2. /\ log'[i].stamp \in 1..MaxStamp
                  /\ start[c] \in Nat /\ cursor[c] \in Nat
                BY <2>1, <2>2, <3>2 DEF Entries, TypeInv, TypeOK
            <4>3. cursor[c] # start[c]
                BY <4>1, <4>2
            <4>4. PICK j \in 1..Len(log) : log[j].stamp = cursor[c]
                BY <4>1, <4>3 DEF ReadInv, Cursors
            <4>5. j \in 1..Len(log') /\ j # i /\ j \in 1..i /\ i \in 1..i
                BY <2>2, <3>2
            <4>6. log'[j].stamp = cursor[c]
                BY <2>2, <4>4
            <4>7. log'[j].stamp # log'[i].stamp
                BY <4>5 DEF LogInv, Fresh
            <4>8. log'[j].stamp > log'[i].stamp
                BY <4>1, <4>2, <4>6, <4>7
            <4>9. log'[j].late \/ log'[i].late
                BY <4>5, <4>8 DEF LogInv, Ordered
            <4> QED
                BY <4>2, <4>5, <4>6, <4>8, <4>9
        <3> QED
            BY <2>2, <3>1, <3>2
    <2>5. SkipsNeedOverrun'
        BY <2>4 DEF SkipsNeedOverrun
    <2> QED
        BY <2>3, <2>5 DEF ReadInv
<1> QED
    BY <1>1, <1>2

LEMMA ReadPoll ==
    ASSUME TypeInv, LogInv, ReadInv, NEW c \in Clients, Poll(c)
    PROVE  ReadInv'
<1> USE DEF queue, poller
<1>1. PICK n \in 0..Len(log) :
         \E last \in FetchEventsAfter(n, cursor[c]) :
            /\ \A s \in FetchEventsAfter(n, cursor[c]) : s <= last
            /\ sent' = [sent EXCEPT ![c] =
                           @ \cup FetchEventsAfter(n, cursor[c])]
            /\ cursor' = [cursor EXCEPT ![c] = last]
    BY DEF Poll
<1> DEFINE page == FetchEventsAfter(n, cursor[c])
<1>2. PICK last \in page :
         /\ sent' = [sent EXCEPT ![c] = @ \cup page]
         /\ cursor' = [cursor EXCEPT ![c] = last]
    BY <1>1
<1>3. /\ log' = log /\ start' = start
      /\ cursor'[c] = last
      /\ sent'[c] = sent[c] \cup page
      /\ \A d \in Clients \ {c} : cursor'[d] = cursor[d] /\ sent'[d] = sent[d]
    BY <1>2 DEF Poll, TypeInv, TypeOK
<1>4. Len(log) \in Nat /\ \A i \in 1..Len(log) : log[i].stamp \in 1..MaxStamp
    <2>1. Len(log) \in Nat /\ \A i \in 1..Len(log) : log[i] \in Entries
        BY DEF TypeInv, TypeOK
    <2> QED
        BY <2>1 DEF Entries
<1>5. PICK j \in 1..n : log[j].stamp = last
    BY DEF FetchEventsAfter, Beyond
<1>6. j \in 1..Len(log)
    BY <1>4
<1>7. cursor[c] \in Nat
    BY DEF TypeInv, TypeOK
<1>8. Cursors'
    BY <1>3, <1>5, <1>6 DEF ReadInv, Cursors
<1>9. ASSUME NEW i \in 1..Len(log), Skipped(c, i)'
      PROVE  \E h \in 1..i : log[h].late /\ log[h].stamp >= log[i].stamp
    <2>1. /\ start[c] # Offline
          /\ start[c] < log[i].stamp
          /\ log[i].stamp <= last
          /\ log[i].stamp \notin sent[c]
          /\ log[i].stamp \notin page
        BY <1>3, <1>9 DEF Skipped
    <2>2. CASE log[i].stamp <= cursor[c]
        <3>1. Skipped(c, i)
            BY <2>1, <2>2 DEF Skipped
        <3> QED
            BY <3>1 DEF ReadInv, SkipsNeedOverrun
    <2>3. CASE log[i].stamp > cursor[c]
        <3>1. log[i].stamp < last
            <4>1. log[i].stamp # last
                BY <2>1
            <4> QED
                BY <1>4, <1>5, <1>6, <2>1, <4>1
        <3>2. i \notin 1..n
            <4>1. SUFFICES ASSUME i \in 1..n PROVE FALSE
                OBVIOUS
            <4>2. log[i].stamp \in Beyond(n, cursor[c])
                BY <2>3, <4>1 DEF Beyond
            <4>3. log[i].stamp \in page
                BY <3>1, <4>2, PageIsLowest
            <4> QED
                BY <2>1, <4>3
        <3>3. j \in 1..i /\ i \in 1..i
            BY <1>4, <3>2
        <3>4. log[j].late \/ log[i].late
            BY <1>5, <3>1, <3>3 DEF LogInv, Ordered
        <3> QED
            BY <1>4, <1>5, <3>1, <3>3, <3>4
    <2> QED
        BY <1>4, <1>7, <2>2, <2>3
<1>10. ASSUME NEW d \in Clients \ {c}, NEW i \in 1..Len(log), Skipped(d, i)'
       PROVE  \E h \in 1..i : log[h].late /\ log[h].stamp >= log[i].stamp
    <2>1. Skipped(d, i)
        BY <1>3, <1>10 DEF Skipped
    <2> QED
        BY <2>1 DEF ReadInv, SkipsNeedOverrun
<1>11. SkipsNeedOverrun'
    BY <1>3, <1>9, <1>10 DEF SkipsNeedOverrun
<1> QED
    BY <1>8, <1>11 DEF ReadInv

LEMMA ReadNext == TypeInv /\ LogInv /\ LogInv' /\ ReadInv /\ [Next]_vars => ReadInv'
<1> SUFFICES ASSUME TypeInv, LogInv, LogInv', ReadInv, [Next]_vars
             PROVE  ReadInv'
    OBVIOUS
<1> USE DEF queue, poller, clients
<1>1. ASSUME UNCHANGED <<start, cursor, sent>> PROVE ReadInv'
    BY <1>1, LogGrows, ReadKept
<1>2. ASSUME NEW c \in Clients, Connect(c) \/ Disconnect(c) PROVE ReadInv'
    <2>1. /\ log' = log
          /\ start'[c] = Offline \/ cursor'[c] = start'[c]
          /\ \A d \in Clients \ {c} : /\ start'[d] = start[d]
                                      /\ cursor'[d] = cursor[d]
                                      /\ sent'[d] = sent[d]
        BY <1>2 DEF Connect, Disconnect, TypeInv, TypeOK
    <2>2. Cursors'
        BY <2>1 DEF ReadInv, Cursors
    <2>3. ASSUME NEW d \in Clients, NEW i \in 1..Len(log), Skipped(d, i)'
          PROVE  \E j \in 1..i : log[j].late /\ log[j].stamp >= log[i].stamp
        <3>1. CASE d = c
            <4>1. start'[c] = Offline \/ (cursor'[c] = start'[c] /\ cursor'[c] \in Nat)
                BY <1>2 DEF Connect, Disconnect, TypeInv, TypeOK
            <4>2. log[i].stamp \in Nat
                <5>1. log[i] \in Entries
                    BY DEF TypeInv, TypeOK
                <5> QED
                    BY <5>1 DEF Entries
            <4> QED
                BY <2>1, <2>3, <3>1, <4>1, <4>2 DEF Skipped
        <3>2. CASE d # c
            <4>1. Skipped(d, i)
                BY <2>1, <2>3, <3>2 DEF Skipped
            <4> QED
                BY <4>1 DEF ReadInv, SkipsNeedOverrun
        <3> QED
            BY <3>1, <3>2
    <2>4. SkipsNeedOverrun'
        BY <2>1, <2>3 DEF SkipsNeedOverrun
    <2> QED
        BY <2>2, <2>4 DEF ReadInv
<1>3. ASSUME NEW m \in Messages, Publish(m) PROVE UNCHANGED <<start, cursor, sent>>
    BY <1>3 DEF Publish
<1>4. ASSUME NEW p \in Pollers, Work(p) PROVE UNCHANGED <<start, cursor, sent>>
    BY <1>4 DEF Work, Invoke, AcquireLease, Loop, Receive, ReceiveFails,
       Normalize, Persist, PersistFails, Delete, DeleteFails, ReleaseLease, Kill
<1>5. CASE Tick
    BY <1>1, <1>5 DEF Tick
<1>6. CASE UNCHANGED vars
    BY <1>1, <1>6 DEF vars
<1> QED
    BY <1>1, <1>2, <1>3, <1>4, <1>5, <1>6, ReadPoll DEF Next, Stream

\* The stream of a client skips an event only when a poller wrote after its
\* lease was over.
THEOREM SkipsComeFromOverruns == Spec => []SkipsNeedOverrun
<1>1. ReadInv => SkipsNeedOverrun
    BY DEF ReadInv
<1> QED
    BY <1>1, ReadInit, ReadNext, TypeAlways, LogAlways, PTL DEF Spec
============================================================================
