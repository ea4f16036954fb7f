---------------------------- MODULE StreamRelay ----------------------------
(***************************************************************************)
(* The stream service: pollers move the events the queue holds into a log  *)
(* table (poller.mjs), and the handler of the event stream reads the log   *)
(* for each connected browser, from a cursor of its own (stream.mjs).      *)
(*                                                                         *)
(* A poller is an invocation of the scheduled function, or a retry of it   *)
(* with the same request id.  Two may run at once; a lease row in the same *)
(* table is what keeps them apart.  A poller may be killed at any moment,  *)
(* and is killed when its run time is over; then nobody releases the lease *)
(* but its expiry.                                                         *)
(*                                                                         *)
(* The events this service publishes carry a header and a body, not the    *)
(* metadata normalizeEvent looks for, so each of them is wrapped: its key  *)
(* in the log is the time it was normalised at, and a second delivery is a *)
(* second entry.  Times are abstracted to the order in which the entries   *)
(* were normalised ("stamp"), two being never equal: the clocks of two     *)
(* invocations are taken to agree.  The table is read without asking for   *)
(* consistency, so a query sees any prefix of the writes.                  *)
(*                                                                         *)
(* Definitions whose name starts with Bug are wrong variants of the one    *)
(* after them; nothing uses them.                                          *)
(***************************************************************************)
EXTENDS Naturals, Sequences, FiniteSets

CONSTANTS
    Pollers,    \* invocations of the poller
    Messages,   \* events published to the queue
    Clients,    \* connected browsers
    NoPoller,   \* the owner of a lease nobody ever took
    NoMessage,  \* what a poller between two messages has in hand
    RunTime,    \* Timeout of the poller, template.yaml
    LeaseTime,  \* POLLER_LEASE_MS
    Buffer,     \* POLLER_RUNTIME_BUFFER_MS
    Visibility, \* VisibilityTimeout of the receive
    BatchSize,  \* MaxNumberOfMessages
    Page,       \* Limit of fetchEventsAfter
    MaxStamp    \* bound: entries normalised in a behaviour

ASSUME ConstantsAssumption ==
    /\ NoPoller \notin Pollers
    /\ NoMessage \notin Messages
    /\ RunTime \in Nat /\ LeaseTime \in Nat /\ Buffer \in Nat
    /\ LeaseTime <= RunTime /\ Buffer < RunTime
    /\ Visibility \in Nat /\ BatchSize \in Nat /\ MaxStamp \in Nat
    /\ Page \in Nat \ {0}

VARIABLES
    place,   \* where a message is: "unsent", "queued" or "deleted"
    hidden,  \* for how long a message received stays invisible
    handle,  \* the poller whose receipt handle of the message is the latest
    lease,   \* the LOCK row: leaseOwner and what is left to leaseExpiresAt
    pc,      \* where a poller stands
    left,    \* getRemainingTimeInMillis of a poller
    todo,    \* the messages of its batch a poller has not processed
    hand,    \* the message a poller is processing
    stamp,   \* the timestamp normalizeEvent gave it
    clock,   \* stamps given so far
    log,     \* the STREAM rows, in the order they were written
    start,   \* the cursor a client began with; MaxStamp + 1: not connected
    cursor,  \* the key of the last entry a client was sent
    sent     \* the stamps of the entries a client was sent

queue == <<place, hidden, handle>>
poller == <<pc, left, todo, hand, stamp>>
clients == <<start, cursor, sent>>
vars == <<place, hidden, handle, lease, pc, left, todo, hand, stamp, clock,
          log, start, cursor, sent>>

Entries == [stamp : 1..MaxStamp, message : Messages, late : BOOLEAN]
Offline == MaxStamp + 1

Init ==
    /\ place = [m \in Messages |-> "unsent"]
    /\ hidden = [m \in Messages |-> 0]
    /\ handle = [m \in Messages |-> NoPoller]
    /\ lease = [owner |-> NoPoller, left |-> 0]
    /\ pc = [p \in Pollers |-> "idle"]
    /\ left = [p \in Pollers |-> 0]
    /\ todo = [p \in Pollers |-> {}]
    /\ hand = [p \in Pollers |-> NoMessage]
    /\ stamp = [p \in Pollers |-> 0]
    /\ clock = 0
    /\ log = << >>
    /\ start = [c \in Clients |-> Offline]
    /\ cursor = [c \in Clients |-> 0]
    /\ sent = [c \in Clients |-> {}]

----------------------------------------------------------------------------
(***************************************************************************)
(* The queue.                                                              *)
(***************************************************************************)
Publish(m) ==
    /\ place[m] = "unsent"
    /\ place' = [place EXCEPT ![m] = "queued"]
    /\ UNCHANGED <<hidden, handle, lease, poller, clock, log, clients>>

Visible == {m \in Messages : place[m] = "queued" /\ hidden[m] = 0}

----------------------------------------------------------------------------
(***************************************************************************)
(* The lease.                                                              *)
(***************************************************************************)
CanLease(p) == lease.left = 0 \/ lease.owner = p

Leased(p) == [owner |-> p, left |-> LeaseTime]

\* A release that does not ask whose lease it is.
BugReleaseAny(p) == [owner |-> lease.owner, left |-> 0]

Released(p) ==
    IF lease.owner = p THEN [owner |-> p, left |-> 0] ELSE lease

Holds(p) == lease.owner = p /\ lease.left > 0

----------------------------------------------------------------------------
(***************************************************************************)
(* The poller.  A step of it needs run time; Kill ends one that has none.  *)
(***************************************************************************)
At(p, label) == pc[p] = label /\ left[p] > 0
Goto(p, label) == pc' = [pc EXCEPT ![p] = label]
TimeToReceive(p) == left[p] > Buffer

Invoke(p) ==
    /\ pc[p] = "idle"
    /\ left' = [left EXCEPT ![p] = RunTime]
    /\ Goto(p, "acquire")
    /\ UNCHANGED <<queue, lease, todo, hand, stamp, clock, log, clients>>

AcquireLease(p) ==
    /\ At(p, "acquire")
    /\ \/ CanLease(p) /\ lease' = Leased(p) /\ Goto(p, "loop")
       \/ ~CanLease(p) /\ Goto(p, "idle") /\ UNCHANGED lease
    /\ UNCHANGED <<queue, left, todo, hand, stamp, clock, log, clients>>

\* The test of the while loop.
Loop(p) ==
    /\ At(p, "loop")
    /\ Goto(p, IF TimeToReceive(p) THEN "receive" ELSE "release")
    /\ UNCHANGED <<queue, lease, left, todo, hand, stamp, clock, log, clients>>

\* The long poll answers, at any time after it began: with no message, or
\* with some of those that are visible.
Receive(p) ==
    /\ At(p, "receive")
    /\ \E batch \in SUBSET Visible :
          /\ Cardinality(batch) <= BatchSize
          /\ hidden' = [m \in Messages |->
                           IF m \in batch THEN Visibility ELSE hidden[m]]
          /\ handle' = [m \in Messages |->
                           IF m \in batch THEN p ELSE handle[m]]
          /\ todo' = [todo EXCEPT ![p] = batch]
          /\ Goto(p, IF batch = {} THEN "loop" ELSE "next")
    /\ UNCHANGED <<place, lease, left, hand, stamp, clock, log, clients>>

\* normalizeEvent of the next message of the batch: it is wrapped, with the
\* time of now.
Normalize(p) ==
    /\ At(p, "next")
    /\ clock < MaxStamp
    /\ clock' = clock + 1
    /\ stamp' = [stamp EXCEPT ![p] = clock + 1]
    /\ \E m \in todo[p] :
          /\ hand' = [hand EXCEPT ![p] = m]
          /\ todo' = [todo EXCEPT ![p] = @ \ {m}]
    /\ Goto(p, "put")
    /\ UNCHANGED <<queue, lease, left, log, clients>>

Entry(p) == [stamp |-> stamp[p], message |-> hand[p], late |-> ~Holds(p)]

\* persistEvent.  "late" is no attribute of the row: it remembers that the
\* lease of the poller was over when it wrote.
Persist(p) ==
    /\ At(p, "put")
    /\ log' = Append(log, Entry(p))
    /\ Goto(p, "delete")
    /\ UNCHANGED <<queue, lease, left, todo, hand, stamp, clock, clients>>

\* An error of the put that is logged and goes on to the delete.
BugSwallowedPut(p) ==
    /\ At(p, "put")
    /\ log' \in {log, Append(log, Entry(p))}
    /\ Goto(p, "delete")
    /\ UNCHANGED <<queue, lease, left, todo, hand, stamp, clock, clients>>

\* The call fails, whether or not the row was written: the exception leaves
\* the loop, and the finally block releases the lease.
PersistFails(p) ==
    /\ At(p, "put")
    /\ log' \in {log, Append(log, Entry(p))}
    /\ Goto(p, "release")
    /\ UNCHANGED <<queue, lease, left, todo, hand, stamp, clock, clients>>

\* DeleteMessage.  With a receipt handle that is no longer the latest, the
\* queue may delete the message or not.
Deleted(p) ==
    IF handle[hand[p]] = p THEN {"deleted"} ELSE {"deleted", place[hand[p]]}

AfterMessage(p) ==
    IF ~TimeToReceive(p) \/ todo[p] = {} THEN "loop" ELSE "next"

Delete(p) ==
    /\ At(p, "delete")
    /\ \E there \in Deleted(p) : place' = [place EXCEPT ![hand[p]] = there]
    /\ Goto(p, AfterMessage(p))
    /\ todo' = [todo EXCEPT ![p] = IF TimeToReceive(p) THEN @ ELSE {}]
    /\ hand' = [hand EXCEPT ![p] = NoMessage]
    /\ UNCHANGED <<hidden, handle, lease, left, stamp, clock, log, clients>>

DeleteFails(p) ==
    /\ At(p, "delete")
    /\ \E there \in {"deleted", place[hand[p]]} :
          place' = [place EXCEPT ![hand[p]] = there]
    /\ Goto(p, "release")
    /\ UNCHANGED <<hidden, handle, lease, left, todo, hand, stamp, clock, log,
                   clients>>

\* A poller that leaves keeps nothing of what it had in memory.
Forget(p) ==
    /\ Goto(p, "idle")
    /\ left' = [left EXCEPT ![p] = 0]
    /\ todo' = [todo EXCEPT ![p] = {}]
    /\ hand' = [hand EXCEPT ![p] = NoMessage]
    /\ stamp' = [stamp EXCEPT ![p] = 0]

ReceiveFails(p) ==
    /\ At(p, "receive")
    /\ Goto(p, "release")
    /\ UNCHANGED <<queue, lease, left, todo, hand, stamp, clock, log, clients>>

ReleaseLease(p) ==
    /\ At(p, "release")
    /\ lease' = Released(p)
    /\ Forget(p)
    /\ UNCHANGED <<queue, clock, log, clients>>

\* The invocation dies, by a fault of the runtime, because its time is over
\* or because a call for the lease raised, whose update may still have been
\* written: in each case the lease stays as it is.
Kill(p) ==
    /\ pc[p] # "idle"
    /\ Forget(p)
    /\ UNCHANGED <<queue, lease, clock, log, clients>>

----------------------------------------------------------------------------
(***************************************************************************)
(* The event stream.                                                       *)
(***************************************************************************)
Connect(c) ==
    /\ start[c] = Offline
    /\ start' = [start EXCEPT ![c] = clock]
    /\ cursor' = [cursor EXCEPT ![c] = clock]
    /\ sent' = [sent EXCEPT ![c] = {}]
    /\ UNCHANGED <<queue, lease, poller, clock, log>>

\* fetchEventsAfter, when the query sees the first n writes: the Page lowest
\* keys above the cursor.
Beyond(n, k) == {s \in {log[i].stamp : i \in 1..n} : s > k}

\* ScanIndexForward: false, to show the newest events first.
BugNewestFirst(n, k) ==
    {s \in Beyond(n, k) : Cardinality({t \in Beyond(n, k) : t > s}) < Page}

FetchEventsAfter(n, k) ==
    {s \in Beyond(n, k) : Cardinality({t \in Beyond(n, k) : t < s}) < Page}

\* One round of the loop.  A write to the client may fail: Disconnect.
Poll(c) ==
    /\ start[c] # Offline
    /\ \E n \in 0..Len(log) :
          LET page == FetchEventsAfter(n, cursor[c])
          IN  \E last \in page :
                 /\ \A s \in page : s <= last
                 /\ sent' = [sent EXCEPT ![c] = @ \cup page]
                 /\ cursor' = [cursor EXCEPT ![c] = last]
    /\ UNCHANGED <<queue, lease, poller, clock, log, start>>

Disconnect(c) ==
    /\ start[c] # Offline
    /\ start' = [start EXCEPT ![c] = Offline]
    /\ cursor' = [cursor EXCEPT ![c] = 0]
    /\ sent' = [sent EXCEPT ![c] = {}]
    /\ UNCHANGED <<queue, lease, poller, clock, log>>

----------------------------------------------------------------------------
Less(n) == IF n = 0 THEN 0 ELSE n - 1

Tick ==
    /\ \A p \in Pollers : pc[p] # "idle" => left[p] > 0
    /\ left' = [p \in Pollers |-> Less(left[p])]
    /\ lease' = [owner |-> lease.owner, left |-> Less(lease.left)]
    /\ hidden' = [m \in Messages |-> Less(hidden[m])]
    /\ UNCHANGED <<place, handle, pc, todo, hand, stamp, clock, log, clients>>

Work(p) ==
    \/ Invoke(p) \/ AcquireLease(p) \/ Loop(p)
    \/ Receive(p) \/ ReceiveFails(p) \/ Normalize(p)
    \/ Persist(p) \/ PersistFails(p)
    \/ Delete(p) \/ DeleteFails(p)
    \/ ReleaseLease(p) \/ Kill(p)

Stream(c) == Connect(c) \/ Poll(c) \/ Disconnect(c)

Next ==
    \/ \E m \in Messages : Publish(m)
    \/ \E p \in Pollers : Work(p)
    \/ \E c \in Clients : Stream(c)
    \/ Tick

Spec == Init /\ [][Next]_vars

----------------------------------------------------------------------------
PC == {"idle", "acquire", "loop", "receive", "next", "put", "delete",
           "release"}

\* Every variable has its type: the lease is never longer than LeaseTime, and
\* the log is the entries the pollers wrote.
TypeOK ==
    /\ place \in [Messages -> {"unsent", "queued", "deleted"}]
    /\ hidden \in [Messages -> 0..Visibility]
    /\ handle \in [Messages -> Pollers \cup {NoPoller}]
    /\ lease \in [owner : Pollers \cup {NoPoller}, left : 0..LeaseTime]
    /\ pc \in [Pollers -> PC]
    /\ left \in [Pollers -> 0..RunTime]
    /\ todo \in [Pollers -> SUBSET Messages]
    /\ hand \in [Pollers -> Messages \cup {NoMessage}]
    /\ stamp \in [Pollers -> 0..MaxStamp]
    /\ clock \in 0..MaxStamp
    /\ log \in Seq(Entries)
    /\ start \in [Clients -> 0..Offline]
    /\ cursor \in [Clients -> 0..MaxStamp]
    /\ sent \in [Clients -> SUBSET (1..MaxStamp)]

\* A message the queue no longer has is in the log (processMessage deletes
\* after the put, and the lease, the errors and the kills between the two
\* never turn that order round).
NothingLost ==
    \A m \in Messages : place[m] = "deleted" =>
        \E i \in 1..Len(log) : log[i].message = m

Working(p) == pc[p] \in {"loop", "receive", "next", "put", "delete"}

\* Two pollers work at once only in the tail of the run of one of them: a
\* poller with more than RunTime - LeaseTime to go owns the lease, and the
\* lease lasts as long as that (acquireLease, releaseLease).
WorkIsLeased ==
    \A p \in Pollers : Working(p) /\ left[p] > RunTime - LeaseTime =>
        /\ lease.owner = p
        /\ lease.left >= left[p] - (RunTime - LeaseTime)

\* An event a connected client was never sent and never will be, its cursor
\* being past it.
Skipped(c, i) ==
    /\ start[c] # Offline
    /\ start[c] < log[i].stamp
    /\ log[i].stamp <= cursor[c]
    /\ log[i].stamp \notin sent[c]

\* The stream of a client skips an event only when a poller wrote after its
\* lease was over: the event itself came late, or an event with a later
\* stamp had been written late before it (fetchEventsAfter reads in key
\* order, and holders of the lease write in key order).
SkipsNeedOverrun ==
    \A c \in Clients, i \in 1..Len(log) : Skipped(c, i) =>
        \E j \in 1..i : /\ log[j].late
                        /\ log[j].stamp >= log[i].stamp

============================================================================
