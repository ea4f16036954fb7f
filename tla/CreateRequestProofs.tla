------------------------ MODULE CreateRequestProofs ------------------------
(***************************************************************************)
(* Proofs about CreateRequest, for any number of creations, phones, keys   *)
(* and duplicate signatures.  What is said of keys and of answers holds    *)
(* with and without transactions and for stale queries; what rests on the  *)
(* phone check needs settled ones (StaleReads = FALSE).                    *)
(***************************************************************************)
EXTENDS CreateRequestRefinement, TLAPS

-----------------------------------------------------------------------------
(* Type correctness.                                                       *)

LEMMA ItemFacts ==
  /\ Len(Item) = 7
  /\ \A i \in 1 .. 7 : Item[i] \in OwnItem \cup {"PHONE"}
  /\ OwnItem \subseteq {Item[i] : i \in 1 .. 7}
  /\ "PHONE" \notin OwnItem
  /\ "TRACK" \in OwnItem
  /\ Item[6] = "PHONE" /\ Item[7] = "DUP"
BY DEF Item, OwnItem

\* Going on to a call keeps pc a function into PC.
LEMMA GotoType ==
  ASSUME TypeOK, NEW c \in Creator, NEW where \in PC, Goto(c, where)
  PROVE  pc' \in [Creator -> PC]
BY DEF TypeOK, Goto

LEMMA TypeInit == Init => TypeOK
BY ConstantsAssumption, ItemFacts DEF Init, TypeOK, PC, ReplyKind, Answer

LEMMA TypeNext == TypeOK /\ [Next]_vars => TypeOK'
<1> SUFFICES ASSUME TypeOK, [Next]_vars PROVE TypeOK'
  OBVIOUS
<1> USE ConstantsAssumption
<1>1. ASSUME NEW c \in Creator, NEW k \in ReplyKind, NEW r \in Creator \cup {None},
             Finish(c, Answer(k, r))
      PROVE  /\ pc' \in [Creator -> PC]
             /\ reply' \in [Creator -> [kind : ReplyKind, request : Creator \cup {None}]]
  BY <1>1 DEF Finish, Answer, Goto, TypeOK, PC
<1>2. ASSUME NEW c \in Creator, Release(c)
      PROVE  holder' \in [Key -> Creator \cup {None}]
  BY <1>2 DEF Release, TypeOK
<1>3. ASSUME NEW c \in Creator PROVE form[c].phone \in Phone
  BY DEF TypeOK, Form
<1>4. ASSUME NEW c \in Creator, Arrive(c) PROVE TypeOK'
  <2>1. Told \in SUBSET Creator
    BY DEF Told
  <2>2. answered' \in [Creator -> SUBSET Creator]
    BY <1>4, <2>1 DEF Arrive, TypeOK
  <2>3. Keyed(c) => form[c].key \in Key
    BY DEF Keyed, TypeOK, Form
  <2>4. {"replayed", "refused", "none"} \subseteq ReplyKind
    BY DEF ReplyKind
  <2>5. CASE Goto(c, "phone") /\ UNCHANGED <<holder, reply>>
    BY <1>4, <2>2, <2>5 DEF Arrive, TypeOK, Goto, PC
  <2>6. CASE /\ Keyed(c) /\ Finish(c, Answer("replayed", result[form[c].key]))
             /\ UNCHANGED holder
    <3>1. result[form[c].key] \in Creator \cup {None}
      BY <2>3, <2>6 DEF TypeOK
    <3> QED
      BY <1>1, <1>4, <2>2, <2>4, <2>6, <3>1 DEF Arrive, TypeOK
  <2>7. CASE Finish(c, Answer("refused", None)) /\ UNCHANGED holder
    BY <1>1, <1>4, <2>2, <2>4, <2>7 DEF Arrive, TypeOK
  <2>8. CASE /\ Keyed(c) /\ holder' = [holder EXCEPT ![form[c].key] = c]
             /\ Goto(c, "phone") /\ UNCHANGED reply
    BY <1>4, <2>2, <2>3, <2>8 DEF Arrive, TypeOK, Goto, PC
  <2> QED
    BY <1>4, <2>5, <2>6, <2>7, <2>8 DEF Arrive
<1>5. ASSUME NEW c \in Creator, CheckPhone(c) PROVE TypeOK'
  BY <1>1, <1>5 DEF CheckPhone, Refuse, TypeOK, Goto, PC, ReplyKind
<1>6. ASSUME NEW c \in Creator, CheckDuplicate(c) PROVE TypeOK'
  BY <1>1, <1>6 DEF CheckDuplicate, Refuse, TypeOK, Goto, PC, ReplyKind
<1>7. ASSUME NEW c \in Creator, Transact(c) PROVE TypeOK'
  <2>1. items' \in [Creator -> SUBSET OwnItem]
    BY <1>7 DEF Transact, TypeOK
  <2>2. /\ phoneItem' \in [Phone -> Creator \cup {None}]
        /\ taker' \in [Phone -> Creator \cup {None}]
    <3>1. SetPhone(c, c) \/ UNCHANGED <<phoneItem, taker>>
      BY <1>7 DEF Transact
    <3> QED
      BY <1>3, <3>1 DEF SetPhone, TypeOK
  <2>3. pc' \in [Creator -> PC]
    <3>1. PICK where \in {"commit", "fail", "put"} : Goto(c, where)
      BY <1>7 DEF Transact
    <3>2. where \in PC
      BY DEF PC
    <3> QED
      BY <3>1, <3>2, GotoType
  <2> QED
    BY <1>7, <2>1, <2>2, <2>3 DEF Transact, TypeOK
<1>8. ASSUME NEW c \in Creator, FallbackPut(c) PROVE TypeOK'
  <2>1. /\ items' \in [Creator -> SUBSET OwnItem]
        /\ phoneItem' \in [Phone -> Creator \cup {None}]
        /\ taker' \in [Phone -> Creator \cup {None}]
    <3>1. CASE UNCHANGED <<items, phoneItem, taker>>
      BY <3>1 DEF TypeOK
    <3>2. CASE PutItem(c)
      <4>1. next[c] \in 1 .. 7
        BY ItemFacts DEF TypeOK
      <4> QED
        BY <1>3, <3>2, <4>1, ItemFacts DEF PutItem, SetPhone, TypeOK
    <3> QED
      BY <1>8, <3>1, <3>2 DEF FallbackPut
  <2>2. pc' \in [Creator -> PC]
    <3>1. CASE UNCHANGED pc
      BY <3>1 DEF TypeOK
    <3>2. CASE \E where \in {"commit", "rollback", "fail"} : Goto(c, where)
      BY <3>2, GotoType DEF PC
    <3> QED
      BY <1>8, <3>1, <3>2 DEF FallbackPut
  <2>3. next' \in [Creator -> 1 .. Len(Item)]
    <3>1. CASE UNCHANGED next
      BY <3>1 DEF TypeOK
    <3>2. CASE ~LastPut(c) /\ next' = [next EXCEPT ![c] = @ + 1]
      BY <3>2, ItemFacts DEF LastPut, TypeOK
    <3> QED
      BY <1>8, <3>1, <3>2 DEF FallbackPut
  <2> QED
    BY <1>8, <2>1, <2>2, <2>3 DEF FallbackPut, TypeOK
<1>9. ASSUME NEW c \in Creator, Rollback(c) PROVE TypeOK'
  <2>1. /\ items' \in [Creator -> SUBSET OwnItem]
        /\ phoneItem' \in [Phone -> Creator \cup {None}]
        /\ taker' \in [Phone -> Creator \cup {None}]
    <3>1. CASE UNCHANGED <<items, phoneItem, taker>>
      BY <3>1 DEF TypeOK
    <3>2. ASSUME NEW i, DeleteItem(c, i)
          PROVE  /\ items' \in [Creator -> SUBSET OwnItem]
                 /\ phoneItem' \in [Phone -> Creator \cup {None}]
                 /\ taker' \in [Phone -> Creator \cup {None}]
      <4>1. CASE SetPhone(c, None) /\ UNCHANGED items
        BY <1>3, <4>1 DEF SetPhone, TypeOK
      <4>2. CASE /\ items' = [items EXCEPT ![c] = @ \ {Item[i]}]
                 /\ UNCHANGED <<phoneItem, taker>>
        BY <4>2 DEF TypeOK
      <4> QED
        BY <3>2, <4>1, <4>2 DEF DeleteItem
    <3> QED
      BY <1>9, <3>1, <3>2 DEF Rollback
  <2>2. pc' \in [Creator -> PC]
    <3>1. "fail" \in PC
      BY DEF PC
    <3> QED
      BY <1>9, <3>1, GotoType DEF Rollback, TypeOK
  <2>3. next' \in [Creator -> 1 .. Len(Item)]
    <3>1. CASE UNCHANGED next
      BY <3>1 DEF TypeOK
    <3>2. CASE next[c] > 1 /\ next' = [next EXCEPT ![c] = @ - 1]
      BY <3>2, ItemFacts DEF TypeOK
    <3> QED
      BY <1>9, <3>1, <3>2 DEF Rollback
  <2> QED
    BY <1>9, <2>1, <2>2, <2>3 DEF Rollback, TypeOK
<1>10. ASSUME NEW c \in Creator, Fail(c) PROVE TypeOK'
  BY <1>1, <1>2, <1>10 DEF Fail, TypeOK, ReplyKind
<1>11. ASSUME NEW c \in Creator, Commit(c) PROVE TypeOK'
  BY <1>2, <1>11 DEF Commit, Goto, TypeOK, PC
<1>15. ASSUME NEW c \in Creator, Respond(c) PROVE TypeOK'
  BY <1>1, <1>15 DEF Respond, TypeOK, ReplyKind
<1>12. ASSUME NEW c \in Creator, Crash(c) PROVE TypeOK'
  BY <1>1, <1>12 DEF Crash, TypeOK, ReplyKind
<1>13. ASSUME NEW k \in Key, LockExpires(k) \/ Forget(k) PROVE TypeOK'
  BY <1>13 DEF LockExpires, Forget, TypeOK
<1>14. CASE UNCHANGED vars
  BY <1>14 DEF vars, TypeOK
<1> QED
  BY <1>4, <1>5, <1>6, <1>7, <1>8, <1>9, <1>10, <1>11, <1>12, <1>13, <1>14, <1>15
     DEF Next, Step

\* Every variable keeps its type (create_rescue_request.py:118-229).
THEOREM TypeCorrect == Spec => []TypeOK
BY TypeInit, TypeNext, PTL DEF Spec

-----------------------------------------------------------------------------
(* What a step of one creation leaves alone.                               *)

\* The record of d does not change.
Idle(d) ==
  /\ pc'[d] = pc[d]
  /\ items'[d] = items[d]
  /\ next'[d] = next[d]
  /\ reply'[d] = reply[d]
  /\ answered'[d] = answered[d]

LEMMA OthersIdle ==
  ASSUME TypeOK, NEW c \in Creator, Step(c) \/ Crash(c), NEW d \in Creator, d # c
  PROVE  Idle(d)
<1>1. CASE Arrive(c)
  BY <1>1 DEF Arrive, Goto, Finish, Idle, TypeOK
<1>2. CASE CheckPhone(c)
  BY <1>2 DEF CheckPhone, Refuse, Goto, Finish, Idle, TypeOK
<1>3. CASE CheckDuplicate(c)
  BY <1>3 DEF CheckDuplicate, Refuse, Goto, Finish, Idle, TypeOK
<1>4. CASE Transact(c)
  BY <1>4 DEF Transact, Goto, Idle, TypeOK
<1>5. CASE FallbackPut(c)
  <2>1. items'[d] = items[d]
    BY <1>5 DEF FallbackPut, PutItem, TypeOK
  <2>2. pc'[d] = pc[d] /\ next'[d] = next[d]
    BY <1>5 DEF FallbackPut, Goto, TypeOK
  <2> QED
    BY <1>5, <2>1, <2>2 DEF FallbackPut, Idle
<1>6. CASE Rollback(c)
  <2>1. items'[d] = items[d]
    BY <1>6 DEF Rollback, DeleteItem, TypeOK
  <2>2. pc'[d] = pc[d] /\ next'[d] = next[d]
    BY <1>6 DEF Rollback, Goto, TypeOK
  <2> QED
    BY <1>6, <2>1, <2>2 DEF Rollback, Idle
<1>7. CASE Fail(c)
  BY <1>7 DEF Fail, Goto, Finish, Idle, TypeOK
<1>8. CASE Commit(c)
  BY <1>8 DEF Commit, Goto, Idle, TypeOK
<1>10. CASE Respond(c)
  BY <1>10 DEF Respond, Goto, Finish, Idle, TypeOK
<1>9. CASE Crash(c)
  BY <1>9 DEF Crash, Goto, Finish, Idle, TypeOK
<1> QED
  BY <1>1, <1>2, <1>3, <1>4, <1>5, <1>6, <1>7, <1>8, <1>9, <1>10 DEF Step

\* Expiry touches keys only, and nobody changes what was submitted.
LEMMA KeysOnly ==
  ASSUME \E k \in Key : LockExpires(k) \/ Forget(k)
  PROVE  UNCHANGED <<form, items, phoneItem, taker, pc, next, reply, answered>>
BY DEF LockExpires, Forget

LEMMA FormStays == [Next]_vars => UNCHANGED form
BY DEF Next, vars, Step, Arrive, CheckPhone, CheckDuplicate, Transact, FallbackPut,
       Rollback, Fail, Commit, Respond, Crash, LockExpires, Forget

-----------------------------------------------------------------------------
(* The keys.                                                               *)

Working == {"phone", "dup", "transact", "put", "rollback", "fail", "commit"}

\* Who works under a key holds it, a held key has no answer, and only a
\* creation that carries the key holds it.
HolderInv ==
  /\ \A c \in Creator : pc[c] \in Working /\ Keyed(c) => holder[form[c].key] = c
  /\ \A k \in Key : holder[k] # None => result[k] = None /\ form[holder[k]].key = k

KInv == TypeOK /\ HolderInv

LEMMA KInvInit == Init => KInv
BY TypeInit DEF Init, KInv, HolderInv, Working

\* Steps between the reservation and the end.
Inner(c) ==
  CheckPhone(c) \/ CheckDuplicate(c) \/ Transact(c) \/ FallbackPut(c) \/ Rollback(c)

\* They, the answer and a crash start no work and leave the keys alone.
LEMMA InnerKeys ==
  ASSUME TypeOK, NEW c \in Creator, Inner(c) \/ Respond(c) \/ Crash(c)
  PROVE  /\ pc'[c] \in Working => pc[c] \in Working
         /\ UNCHANGED <<form, holder, result>>
<1>1. CASE Inner(c)
  BY <1>1 DEF Inner, CheckPhone, CheckDuplicate, Transact, FallbackPut, Rollback, Working
<1>2. CASE Respond(c) \/ Crash(c)
  BY <1>2 DEF Respond, Crash, Finish, Goto, TypeOK, Working
<1> QED
  BY <1>1, <1>2

LEMMA KInvNext == KInv /\ [Next]_vars => KInv'
<1> SUFFICES ASSUME KInv, [Next]_vars PROVE HolderInv'
  BY TypeNext DEF KInv
<1> USE ConstantsAssumption
<1>1. TypeOK /\ HolderInv /\ UNCHANGED form
  BY FormStays DEF KInv
<1>2. \A c \in Creator : Keyed(c) => form[c].key \in Key
  BY <1>1 DEF Keyed, TypeOK, Form
<1>3. \A c \in Creator : Keyed(c)' = Keyed(c)
  BY <1>1 DEF Keyed
<1>4. ASSUME NEW c \in Creator, Arrive(c) PROVE HolderInv'
  <2>1. \A d \in Creator : d # c => pc'[d] = pc[d]
    BY <1>1, <1>4, OthersIdle DEF Step, Idle
  <2>2. CASE ~Keyed(c) /\ UNCHANGED <<holder, result>>
    BY <1>1, <1>2, <1>3, <2>1, <2>2 DEF HolderInv, Keyed
  <2>3. CASE pc'[c] = "done" /\ UNCHANGED <<holder, result>>
    BY <1>1, <1>2, <1>3, <2>1, <2>3 DEF HolderInv, Keyed, Working
  <2>4. CASE /\ Keyed(c) /\ Reservable(c)
             /\ holder' = [holder EXCEPT ![form[c].key] = c]
             /\ UNCHANGED result
    <3>1. ASSUME NEW d \in Creator, pc'[d] \in Working, Keyed(d)
          PROVE  holder'[form[d].key] = d
      BY <1>1, <1>2, <2>1, <2>4, <3>1 DEF HolderInv, Reservable, TypeOK
    <3>2. ASSUME NEW k \in Key, holder'[k] # None
          PROVE  result'[k] = None /\ form[holder'[k]].key = k
      BY <1>1, <1>2, <2>4, <3>2 DEF HolderInv, Reservable, TypeOK
    <3> QED
      BY <1>1, <1>3, <3>1, <3>2 DEF HolderInv, Keyed
  <2>5. Finish(c, Answer("replayed", result[form[c].key])) \/ Finish(c, Answer("refused", None))
          => pc'[c] = "done"
    BY <1>1 DEF Finish, Goto, TypeOK
  <2> QED
    BY <1>4, <2>2, <2>3, <2>4, <2>5 DEF Arrive
<1>5. ASSUME NEW c \in Creator, Inner(c) \/ Respond(c) \/ Crash(c) PROVE HolderInv'
  <2>1. \A d \in Creator : d # c => pc'[d] = pc[d]
    BY <1>1, <1>5, OthersIdle DEF Step, Inner, Idle
  <2> QED
    BY <1>1, <1>3, <1>5, <2>1, InnerKeys DEF HolderInv, Keyed
<1>6. ASSUME NEW c \in Creator, Fail(c) \/ Commit(c) PROVE HolderInv'
  <2>1. /\ pc[c] \in Working
        /\ pc'[c] \in {"answer", "done"}
        /\ \A d \in Creator : d # c => pc'[d] = pc[d]
    BY <1>1, <1>6, OthersIdle DEF Step, Idle, Fail, Commit, Finish, Goto, TypeOK, Working
  <2>2. \A k \in Key : holder'[k] = IF k = form[c].key THEN None ELSE holder[k]
    BY <1>6 DEF Fail, Commit, Release
  <2>3. \A k \in Key : k # form[c].key => result'[k] = result[k]
    BY <1>6 DEF Fail, Commit
  <2>4. ASSUME NEW d \in Creator, pc'[d] \in Working, Keyed(d)
        PROVE  holder'[form[d].key] = d
    <3>1. d # c /\ holder[form[d].key] = d
      BY <1>1, <2>1, <2>4 DEF HolderInv, Working
    <3>2. form[d].key # form[c].key
      BY <1>1, <2>1, <2>4, <3>1 DEF HolderInv, Keyed
    <3> QED
      BY <1>2, <2>2, <2>4, <3>1, <3>2
  <2> QED
    BY <1>1, <1>3, <2>2, <2>3, <2>4 DEF HolderInv, Keyed
<1>7. ASSUME NEW k \in Key, LockExpires(k) PROVE HolderInv'
  BY <1>1, <1>2, <1>3, <1>7 DEF HolderInv, LockExpires, TypeOK, Working, Keyed
<1>8. ASSUME NEW k \in Key, Forget(k) PROVE HolderInv'
  BY <1>1, <1>3, <1>8 DEF HolderInv, Forget, TypeOK, Keyed
<1>9. CASE UNCHANGED vars
  BY <1>1, <1>9 DEF HolderInv, vars, Keyed
<1> QED
  BY <1>4, <1>5, <1>6, <1>7, <1>8, <1>9 DEF Next, Step, Inner

\* What a step does to one key, in the terms of SingleFlight.
LEMMA KeyStep ==
  ASSUME KInv, [Next]_vars, NEW k \in Key
  PROVE  KeyStore(k)!Next \/ UNCHANGED KeyStore(k)!vars
<1> USE ConstantsAssumption
<1> DEFINE Same == holder'[k] = holder[k] /\ result'[k] = result[k]
<1>1. Same => UNCHANGED KeyStore(k)!vars
  BY DEF KeyStore!vars, WorkOn
<1>2. TypeOK /\ HolderInv /\ UNCHANGED form
  BY FormStays DEF KInv
<1>3. holder[k] = None => WorkOn(k) = {}
  BY DEF WorkOn
<1>4. ASSUME NEW c \in Creator PROVE holder[k] = c => WorkOn(k) = {c}
  BY DEF WorkOn
<1>5. holder'[k] = None => WorkOn(k)' = {}
  BY DEF WorkOn
<1>6. ASSUME NEW c \in Creator, Arrive(c) PROVE Same \/ KeyStore(k)!Start(c)
  <2>1. CASE UNCHANGED <<holder, result>>
    BY <2>1
  <2>2. CASE /\ Keyed(c) /\ Reservable(c)
             /\ holder' = [holder EXCEPT ![form[c].key] = c]
             /\ UNCHANGED result
    BY <1>2, <1>3, <2>2 DEF Reservable, TypeOK, KeyStore!Start, WorkOn
  <2> QED
    BY <1>6, <2>1, <2>2 DEF Arrive
<1>7. ASSUME NEW c \in Creator, Inner(c) \/ Respond(c) \/ Crash(c) PROVE Same
  BY <1>2, <1>7, InnerKeys
<1>8. ASSUME NEW c \in Creator, Fail(c) PROVE Same \/ KeyStore(k)!Drop(c)
  <2>1. CASE k # form[c].key
    BY <1>8, <2>1 DEF Fail, Release
  <2>2. CASE k = form[c].key
    <3>1. holder[k] = c
      BY <1>2, <1>8, <2>2 DEF Fail, HolderInv, Working, Keyed
    <3>2. holder'[k] = None /\ result'[k] = result[k]
      BY <1>8, <2>2 DEF Fail, Release
    <3> QED
      BY <1>4, <1>5, <3>1, <3>2 DEF KeyStore!Drop
  <2> QED
    BY <2>1, <2>2
<1>9. ASSUME NEW c \in Creator, Commit(c) PROVE Same \/ KeyStore(k)!Finish(c)
  <2>1. CASE k # form[c].key
    BY <1>9, <2>1 DEF Commit, Release
  <2>2. CASE k = form[c].key
    <3>1. holder[k] = c
      BY <1>2, <1>9, <2>2 DEF Commit, HolderInv, Working, Keyed
    <3>2. holder'[k] = None /\ result'[k] = c
      BY <1>9, <2>2 DEF Commit, Release
    <3> QED
      BY <1>4, <1>5, <3>1, <3>2 DEF KeyStore!Finish
  <2> QED
    BY <2>1, <2>2
<1>10. ASSUME NEW j \in Key, LockExpires(j)
       PROVE  Same \/ \E c \in Creator : KeyStore(k)!Drop(c)
  <2>1. CASE j # k
    BY <1>2, <1>10, <2>1 DEF LockExpires, TypeOK
  <2>2. CASE j = k
    <3>1. PICK c \in Creator : holder[k] = c
      BY <1>2, <1>10, <2>2 DEF LockExpires, TypeOK
    <3>2. holder'[k] = None /\ result'[k] = result[k]
      BY <1>2, <1>10, <2>2 DEF LockExpires, TypeOK
    <3> QED
      BY <1>4, <1>5, <3>1, <3>2 DEF KeyStore!Drop
  <2> QED
    BY <2>1, <2>2
<1>11. ASSUME NEW j \in Key, Forget(j) PROVE Same \/ KeyStore(k)!Forget
  <2>1. CASE j # k
    BY <1>2, <1>11, <2>1 DEF Forget, TypeOK
  <2>2. CASE j = k
    <3>1. result[k] # None /\ result'[k] = None /\ holder' = holder
      BY <1>2, <1>11, <2>2 DEF Forget, TypeOK
    <3>2. holder[k] = None
      BY <1>2, <3>1 DEF HolderInv
    <3> QED
      BY <1>3, <1>5, <3>1, <3>2 DEF KeyStore!Forget
  <2> QED
    BY <2>1, <2>2
<1>12. CASE UNCHANGED vars
  BY <1>1, <1>12 DEF vars
<1> HIDE DEF Same
<1> QED
  BY <1>1, <1>6, <1>7, <1>8, <1>9, <1>10, <1>11, <1>12 DEF Next, Step, Inner, KeyStore!Next

\* A creation uses its key as SingleFlight allows, whatever becomes of it
\* (create_rescue_request.py:56-68 and 241-267).
THEOREM KeysKept == Spec => KeysAreSingleFlight
<1>1. Init => \A k \in Key : KeyStore(k)!Init
  BY DEF Init, KeyStore!Init, WorkOn
<1>2. KInv /\ [Next]_vars =>
        [\A k \in Key : KeyStore(k)!Next \/ UNCHANGED KeyStore(k)!vars]_<<holder, result>>
  BY KeyStep
<1> QED
  BY <1>1, <1>2, KInvInit, KInvNext, PTL DEF Spec, KeysAreSingleFlight

-----------------------------------------------------------------------------
(* Whole requests.                                                         *)

\* d is past its writes and its request is whole.
Whole(d) == pc[d] \in {"answer", "done"} /\ items[d] = OwnItem /\ PhoneKept(d)

\* What c has written so far, by where it is.
Progress(c) ==
  /\ pc[c] \in {"idle", "phone", "dup", "transact"} => next[c] = 1
  /\ pc[c] \in {"idle", "phone"} => items[c] = {}
  /\ pc[c] = "put" =>
       \A i \in 1 .. 7 : i < next[c] =>
         IF Item[i] = "PHONE" THEN PhoneKept(c) ELSE Item[i] \in items[c]
  /\ pc[c] \in {"commit", "answer"} => items[c] = OwnItem /\ PhoneKept(c)

WholeInv ==
  /\ \A c \in Creator : Progress(c)
  /\ \A k \in Key, d \in Creator : result[k] = d => Whole(d)
  /\ \A d \in Told : Whole(d)

WInv == TypeOK /\ WholeInv

LEMMA WInvInit == Init => WInv
<1> SUFFICES ASSUME Init PROVE WholeInv
  BY TypeInit DEF WInv
<1>1. \A c \in Creator : Progress(c)
  BY DEF Init, Progress
<1>2. \A k \in Key : result[k] \notin Creator
  BY ConstantsAssumption DEF Init
<1>3. Told = {}
  BY DEF Init, Told, Answer
<1> QED
  BY <1>1, <1>2, <1>3 DEF WholeInv

\* A creation sets the PHONE item of its phone in its own name or leaves it alone.
LEMMA PhoneStep ==
  ASSUME NEW c \in Creator, Step(c) \/ Crash(c)
  PROVE  \/ UNCHANGED <<phoneItem, taker>>
         \/ \E r : SetPhone(c, r)
BY DEF Step, Crash, Arrive, CheckPhone, CheckDuplicate, Transact, FallbackPut, PutItem,
       Rollback, DeleteItem, Fail, Commit, Respond

\* So what another creation does to the item of d counts as its taking it.
LEMMA PhoneKeptByOthers ==
  ASSUME TypeOK, NEW c \in Creator, Step(c) \/ Crash(c), NEW d \in Creator, d # c,
         PhoneKept(d)
  PROVE  PhoneKept(d)'
<1>1. form' = form /\ form[d].phone \in Phone
  BY FormStays DEF Next, TypeOK, Form
<1>2. CASE UNCHANGED <<phoneItem, taker>>
  BY <1>1, <1>2 DEF PhoneKept
<1>3. ASSUME NEW r, SetPhone(c, r) PROVE PhoneKept(d)'
  <2>1. CASE form[c].phone = form[d].phone
    BY <1>1, <1>3, <2>1, ConstantsAssumption DEF SetPhone, PhoneKept, TypeOK
  <2>2. CASE form[c].phone # form[d].phone
    BY <1>1, <1>3, <2>2 DEF SetPhone, PhoneKept, TypeOK
  <2> QED
    BY <2>1, <2>2
<1> QED
  BY <1>2, <1>3, PhoneStep

\* Past its writes, a creation leaves its request alone, and so do the others.
LEMMA WholeStays ==
  ASSUME TypeOK, [Next]_vars, NEW d \in Creator, Whole(d)
  PROVE  Whole(d)'
<1> USE ConstantsAssumption
<1>0. form' = form
  BY FormStays
<1>1. ASSUME NEW c \in Creator, c # d, Step(c) \/ Crash(c) PROVE Whole(d)'
  BY <1>1, OthersIdle, PhoneKeptByOthers DEF Idle, Whole
<1>2. ASSUME Step(d) \/ Crash(d) PROVE Whole(d)'
  <2>1. Respond(d) \/ Crash(d)
    BY <1>2 DEF Whole, Step, Arrive, CheckPhone, CheckDuplicate, Transact, FallbackPut,
                Rollback, Fail, Commit
  <2>2. pc'[d] = "done" /\ UNCHANGED <<items, phoneItem, taker>>
    BY <2>1 DEF Respond, Crash, Finish, Goto, TypeOK
  <2> QED
    BY <1>0, <2>2 DEF Whole, PhoneKept
<1>3. CASE \E k \in Key : LockExpires(k) \/ Forget(k)
  BY <1>0, <1>3, KeysOnly DEF Whole, PhoneKept
<1>4. CASE UNCHANGED vars
  BY <1>4 DEF vars, Whole, PhoneKept
<1> QED
  BY <1>1, <1>2, <1>3, <1>4 DEF Next

\* A step of c keeps Progress(c).
LEMMA ProgressStep ==
  ASSUME TypeOK, NEW c \in Creator, Step(c) \/ Crash(c), Progress(c)
  PROVE  Progress(c)'
<1>0. form' = form /\ form[c].phone \in Phone
  BY FormStays DEF Next, TypeOK, Form
<1>1. ASSUME pc'[c] = "done" PROVE Progress(c)'
  BY <1>1 DEF Progress
<1>2. CASE Arrive(c)
  <2>1. pc'[c] = "done" \/ pc'[c] = "phone"
    BY <1>2 DEF Arrive, Finish, Goto, TypeOK
  <2> QED
    BY <1>1, <1>2, <2>1 DEF Arrive, Progress
<1>3. CASE CheckPhone(c) \/ CheckDuplicate(c)
  <2>1. pc'[c] \in {"done", "dup", "transact"}
    BY <1>3 DEF CheckPhone, CheckDuplicate, Refuse, Finish, Goto, TypeOK
  <2>2. next[c] = 1 /\ next' = next
    BY <1>3 DEF CheckPhone, CheckDuplicate, Progress
  <2> QED
    BY <2>1, <2>2 DEF Progress
<1>4. CASE Transact(c)
  <2>1. next[c] = 1 /\ next' = next
    BY <1>4 DEF Transact, Progress
  <2>2. \/ pc'[c] = "commit" /\ items'[c] = OwnItem /\ PhoneKept(c)'
        \/ pc'[c] \in {"fail", "put"}
    BY <1>0, <1>4 DEF Transact, Goto, SetPhone, PhoneKept, TypeOK
  <2> QED
    BY <2>1, <2>2 DEF Progress
<1>5. CASE FallbackPut(c)
  <2>1. CASE pc'[c] \in {"rollback", "fail"}
    BY <2>1 DEF Progress
  <2>2. CASE /\ PutItem(c)
             /\ \/ LastPut(c) /\ Goto(c, "commit")
                \/ ~LastPut(c) /\ next' = [next EXCEPT ![c] = @ + 1] /\ UNCHANGED pc
    <3>1. pc[c] = "put" /\ next[c] \in 1 .. 7
      BY <1>5, ItemFacts DEF FallbackPut, TypeOK
    <3>2. /\ items[c] \subseteq items'[c]
          /\ Item[next[c]] # "PHONE" => Item[next[c]] \in items'[c]
      BY <2>2 DEF PutItem, TypeOK
    <3>6. /\ Item[next[c]] = "PHONE" => PhoneKept(c)'
          /\ PhoneKept(c) => PhoneKept(c)'
      BY <1>0, <2>2 DEF PutItem, SetPhone, PhoneKept, TypeOK
    <3>3. \A i \in 1 .. 7 : i <= next[c] =>
            IF Item[i] = "PHONE" THEN PhoneKept(c)' ELSE Item[i] \in items'[c]
      BY <3>1, <3>2, <3>6 DEF Progress
    <3>4. CASE LastPut(c) /\ Goto(c, "commit")
      <4>1. next[c] = 7 /\ pc'[c] = "commit"
        BY <3>4, ItemFacts DEF LastPut, Goto, TypeOK
      <4>2. items'[c] \subseteq OwnItem
        BY TypeNext DEF TypeOK, Next
      <4>3. OwnItem \subseteq items'[c]
        BY <3>3, <4>1, ItemFacts
      <4>4. PhoneKept(c)'
        BY <3>3, <4>1, ItemFacts
      <4> QED
        BY <4>1, <4>2, <4>3, <4>4 DEF Progress
    <3>5. CASE next' = [next EXCEPT ![c] = @ + 1] /\ UNCHANGED pc
      BY <3>1, <3>3, <3>5 DEF Progress, TypeOK
    <3> QED
      BY <2>2, <3>4, <3>5
  <2>3. Goto(c, "rollback") \/ Goto(c, "fail") => pc'[c] \in {"rollback", "fail"}
    BY DEF Goto, TypeOK
  <2> QED
    BY <1>5, <2>1, <2>2, <2>3 DEF FallbackPut
<1>6. CASE Rollback(c)
  <2>1. pc'[c] \in {"rollback", "fail"}
    BY <1>6 DEF Rollback, Goto, TypeOK
  <2> QED
    BY <2>1 DEF Progress
<1>7. CASE Fail(c) \/ Respond(c) \/ Crash(c)
  BY <1>1, <1>7 DEF Fail, Respond, Crash, Finish, Goto, TypeOK
<1>8. CASE Commit(c)
  <2>1. pc'[c] = "answer" /\ UNCHANGED <<items, phoneItem, taker>>
    BY <1>8 DEF Commit, Goto, TypeOK
  <2> QED
    BY <1>0, <1>8, <2>1 DEF Commit, Progress, PhoneKept
<1> QED
  BY <1>2, <1>3, <1>4, <1>5, <1>6, <1>7, <1>8 DEF Step

LEMMA WInvNext == WInv /\ [Next]_vars => WInv'
<1> SUFFICES ASSUME WInv, [Next]_vars PROVE WholeInv'
  BY TypeNext DEF WInv
<1> USE ConstantsAssumption
<1>1. TypeOK /\ WholeInv /\ form' = form
  BY FormStays DEF WInv
<1>2. \A d \in Creator : Whole(d) => Whole(d)'
  BY <1>1, WholeStays
<1>3. ASSUME NEW c \in Creator, Step(c) \/ Crash(c)
      PROVE  \A d \in Creator : Progress(d)'
  <2>1. ASSUME NEW d \in Creator, d # c PROVE Progress(d)'
    BY <1>1, <1>3, <2>1, OthersIdle, PhoneKeptByOthers DEF WholeInv, Progress, Idle
  <2> QED
    BY <1>1, <1>3, <2>1, ProgressStep DEF WholeInv
<1>4. ASSUME NEW c \in Creator, Step(c) \/ Crash(c), UNCHANGED result,
             \/ UNCHANGED reply
             \/ \E k \in {"refused", "failed", "crashed"} : Finish(c, Answer(k, None))
             \/ \E k \in Key : result[k] # None /\ Finish(c, Answer("replayed", result[k]))
             \/ Whole(c) /\ Finish(c, Answer("created", c))
      PROVE  WholeInv'
  <2>1. \A k \in Key, d \in Creator : result'[k] = d => Whole(d)'
    BY <1>1, <1>2, <1>4 DEF WholeInv
  <2>2. ASSUME NEW d \in Told' PROVE Whole(d)
    <3>1. PICK e \in Creator :
            reply'[e].kind \in {"created", "replayed"} /\ reply'[e].request = d
      BY DEF Told
    <3>2. d \in Creator
      BY DEF Told
    <3>3. CASE reply'[e] = reply[e]
      BY <1>1, <3>1, <3>2, <3>3 DEF WholeInv, Told
    <3>4. CASE e = c
      BY <1>1, <1>4, <3>1, <3>3, <3>4 DEF WholeInv, Finish, Answer, TypeOK
    <3> QED
      BY <1>1, <1>4, <3>3, <3>4 DEF Finish, TypeOK
  <2>3. \A d \in Told' : Whole(d)'
    BY <1>2, <2>2 DEF Told
  <2> QED
    BY <1>3, <1>4, <2>1, <2>3 DEF WholeInv
<1>5. ASSUME NEW c \in Creator, Arrive(c) PROVE WholeInv'
  <2>1. Keyed(c) => form[c].key \in Key
    BY <1>1 DEF Keyed, TypeOK, Form
  <2> QED
    BY <1>4, <1>5, <2>1 DEF Arrive, Step
<1>6. ASSUME NEW c \in Creator, Inner(c) \/ Crash(c) \/ Fail(c) PROVE WholeInv'
  <2>1. UNCHANGED result
    BY <1>1, <1>6, InnerKeys DEF Fail
  <2>2. \/ UNCHANGED reply
        \/ \E k \in {"refused", "failed", "crashed"} : Finish(c, Answer(k, None))
    BY <1>6 DEF Inner, CheckPhone, CheckDuplicate, Refuse, Transact, FallbackPut, Rollback,
                Crash, Fail
  <2> QED
    BY <1>4, <1>6, <2>1, <2>2 DEF Step, Inner
<1>7. ASSUME NEW c \in Creator, Commit(c) PROVE WholeInv'
  <2>1. Whole(c)'
    <3>1. Progress(c)' /\ pc'[c] = "answer"
      BY <1>1, <1>3, <1>7 DEF Commit, Goto, Step, TypeOK
    <3> QED
      BY <3>1 DEF Progress, Whole
  <2>2. Told' = Told
    BY <1>7 DEF Commit, Told
  <2>3. \A k \in Key : result'[k] = c \/ result'[k] = result[k]
    BY <1>7 DEF Commit
  <2>4. \A k \in Key, d \in Creator : result'[k] = d => Whole(d)'
    BY <1>1, <1>2, <2>1, <2>3 DEF WholeInv
  <2>5. \A d \in Told' : Whole(d)'
    BY <1>1, <1>2, <2>2 DEF WholeInv, Told
  <2> QED
    BY <1>3, <1>7, <2>4, <2>5 DEF WholeInv, Step
<1>10. ASSUME NEW c \in Creator, Respond(c) PROVE WholeInv'
  <2>1. Whole(c)
    BY <1>1, <1>10 DEF Respond, WholeInv, Progress, Whole
  <2> QED
    BY <1>4, <1>10, <2>1 DEF Respond, Step
<1>8. ASSUME NEW k \in Key, LockExpires(k) \/ Forget(k) PROVE WholeInv'
  <2>1. UNCHANGED <<items, phoneItem, taker, pc, next, reply>>
    BY <1>8, KeysOnly
  <2>2. \A j \in Key : result'[j] \notin Creator \/ result'[j] = result[j]
    BY <1>1, <1>8 DEF LockExpires, Forget, TypeOK
  <2> QED
    BY <1>1, <2>1, <2>2 DEF WholeInv, Whole, PhoneKept, Told, Progress
<1>9. CASE UNCHANGED vars
  BY <1>1, <1>9 DEF WholeInv, Whole, PhoneKept, Told, Progress, vars
<1> QED
  BY <1>5, <1>6, <1>7, <1>8, <1>9, <1>10 DEF Next, Step, Inner

\* Nobody is told of part of a request, with and without transactions; of its
\* items only PHONE can be lost, and only to another creation of its phone
\* (rescue_request_repository.py:180-197 and 318-322).
THEOREM AnsweredRequestsAreWhole == Spec => []AnsweredIsWhole
<1>1. WInv => AnsweredIsWhole
  BY DEF WInv, WholeInv, Whole, AnsweredIsWhole
<1> QED
  BY <1>1, WInvInit, WInvNext, PTL DEF Spec

-----------------------------------------------------------------------------
(* What the phone check gives, when it sees what was written.              *)

Past == Working \ {"phone"}

\* Creations with one key submit one phone.
OnePhonePerKey ==
  \A c, d \in Creator :
    Keyed(c) /\ form[c].key = form[d].key => form[c].phone = form[d].phone

\* Who is past the phone check works alone under its key, on a phone that no
\* other creation of the key has written.
OnceInv ==
  \A c, d \in Creator :
    (c # d /\ Keyed(c) /\ form[c].key = form[d].key) =>
      /\ pc[c] \in Past => "TRACK" \notin items[d]
      /\ "TRACK" \notin items[c] \/ "TRACK" \notin items[d]

OInv == KInv /\ OnePhonePerKey /\ OnceInv

LEMMA OInvInit == Init => OInv
BY KInvInit DEF Init, OInv, OnePhonePerKey, OnceInv, Past, Working, Keyed

\* Only a creation past the check writes items.
LEMMA WriteIsPast ==
  ASSUME TypeOK, NEW c \in Creator, Step(c) \/ Crash(c), items'[c] # items[c]
  PROVE  pc[c] \in Past
BY DEF Step, Crash, Arrive, CheckPhone, CheckDuplicate, Transact, FallbackPut, Rollback,
       Fail, Commit, Respond, Past, Working

\* Or touches the PHONE item.
LEMMA TakerIsPast ==
  ASSUME TypeOK, NEW c \in Creator, Step(c) \/ Crash(c), NEW p \in Phone,
         taker'[p] # taker[p]
  PROVE  pc[c] \in Past /\ taker'[p] = c
<1>1. CASE Transact(c) \/ FallbackPut(c) \/ Rollback(c)
  <2>1. \E r : SetPhone(c, r)
    BY <1>1 DEF Transact, FallbackPut, PutItem, Rollback, DeleteItem
  <2>2. taker'[p] = c
    BY <2>1 DEF SetPhone, TypeOK
  <2> QED
    BY <1>1, <2>2 DEF Transact, FallbackPut, Rollback, Past, Working
<1>2. CASE UNCHANGED taker
  BY <1>2
<1> QED
  BY <1>1, <1>2 DEF Step, Crash, Arrive, CheckPhone, CheckDuplicate, Fail, Commit, Respond

\* And only through the check does it get there.
LEMMA PastIsChecked ==
  ASSUME TypeOK, StaleReads = FALSE,
         NEW c \in Creator, Step(c) \/ Crash(c), pc'[c] \in Past, pc[c] \notin Past
  PROVE  CheckPhone(c) /\ ~PhoneTaken(c) /\ items' = items
<1>1. CASE Arrive(c)
  BY <1>1 DEF Arrive, Finish, Goto, TypeOK, Past, Working
<1>2. CASE CheckPhone(c)
  <2>1. CASE Refuse(c)
    BY <2>1 DEF Refuse, Finish, Goto, TypeOK, Past, Working
  <2> QED
    BY <1>2, <2>1 DEF CheckPhone
<1>3. CASE Fail(c) \/ Commit(c) \/ Respond(c) \/ Crash(c)
  BY <1>3 DEF Fail, Commit, Respond, Crash, Finish, Goto, TypeOK, Past, Working
<1>4. CASE CheckDuplicate(c) \/ Transact(c) \/ FallbackPut(c) \/ Rollback(c)
  BY <1>4 DEF CheckDuplicate, Transact, FallbackPut, Rollback, Past, Working
<1> QED
  BY <1>1, <1>2, <1>3, <1>4 DEF Step

LEMMA OInvNext == StaleReads = FALSE /\ OInv /\ [Next]_vars => OInv'
<1> SUFFICES ASSUME StaleReads = FALSE, OInv, [Next]_vars
             PROVE  OnePhonePerKey' /\ OnceInv'
  BY KInvNext DEF OInv
<1>1. /\ TypeOK /\ HolderInv /\ OnePhonePerKey /\ OnceInv
      /\ form' = form
  BY FormStays DEF OInv, KInv
<1>2. OnePhonePerKey'
  BY <1>1 DEF OnePhonePerKey, Keyed
<1>3. ASSUME NEW a \in Creator, Step(a) \/ Crash(a),
             NEW c \in Creator, NEW d \in Creator,
             c # d, Keyed(c), form[c].key = form[d].key
      PROVE  /\ pc'[c] \in Past => "TRACK" \notin items'[d]
             /\ "TRACK" \notin items'[c] \/ "TRACK" \notin items'[d]
  <2>1. Keyed(d) /\ form[d].phone = form[c].phone
    BY <1>1, <1>3 DEF OnePhonePerKey, Keyed
  <2>2. ~(pc[c] \in Past /\ pc[d] \in Past)
    BY <1>1, <1>3, <2>1 DEF HolderInv, Past
  <2>3. /\ pc[c] \in Past => "TRACK" \notin items[d]
        /\ pc[d] \in Past => "TRACK" \notin items[c]
        /\ "TRACK" \notin items[c] \/ "TRACK" \notin items[d]
    BY <1>1, <1>3, <2>1 DEF OnceInv
  <2>4. \A b \in Creator : b # a => pc'[b] = pc[b] /\ items'[b] = items[b]
    BY <1>1, <1>3, OthersIdle DEF Idle
  <2>5. items'[a] # items[a] => pc[a] \in Past
    BY <1>1, <1>3, WriteIsPast
  <2>6. CASE a = c
    <3>1. CASE pc[c] \in Past
      BY <1>3, <2>3, <2>4, <2>6, <3>1
    <3>2. CASE pc[c] \notin Past
      <4>1. items'[c] = items[c] /\ items'[d] = items[d]
        BY <1>3, <2>4, <2>5, <2>6, <3>2
      <4>2. ASSUME pc'[c] \in Past PROVE "TRACK" \notin items[d]
        <5>1. ~PhoneTaken(c)
          BY <1>1, <1>3, <2>6, <3>2, <4>2, PastIsChecked
        <5> QED
          BY <2>1, <5>1 DEF PhoneTaken
      <4> QED
        BY <2>3, <4>1, <4>2
    <3> QED
      BY <3>1, <3>2
  <2>7. CASE a = d
    BY <1>3, <2>2, <2>3, <2>4, <2>5, <2>7
  <2>8. CASE a # c /\ a # d
    BY <2>3, <2>4, <2>8
  <2> QED
    BY <2>6, <2>7, <2>8
<1>4. CASE \E a \in Creator : Step(a) \/ Crash(a)
  BY <1>1, <1>2, <1>3, <1>4 DEF OnceInv, Keyed
<1>5. CASE \E k \in Key : LockExpires(k) \/ Forget(k)
  BY <1>1, <1>2, <1>5, KeysOnly DEF OnceInv, Keyed
<1>6. CASE UNCHANGED vars
  BY <1>1, <1>2, <1>6 DEF OnceInv, Keyed, vars
<1> QED
  BY <1>2, <1>4, <1>5, <1>6 DEF Next

\* A key creates one request, whatever becomes of the invocations that carry it
\* and of its stored answer, as long as queries are not stale
\* (create_rescue_request.py:79-84).
THEOREM KeysCreateOnce ==
  ASSUME StaleReads = FALSE
  PROVE  Spec => []KeyCreatesOnce
<1>1. OInv => KeyCreatesOnce
  BY ItemFacts DEF OInv, OnceInv, KeyCreatesOnce
<1>2. OInv /\ [Next]_vars => OInv'
  BY OInvNext
<1> QED
  BY <1>1, <1>2, OInvInit, PTL DEF Spec

\* A creation that has not started, or started after the answer to another with
\* its phone, has not passed the check and touched nothing.
Untouched(c) ==
  items[c] = {} /\ pc[c] \notin Past /\ taker[form[c].phone] # c

LaterInv ==
  /\ \A c \in Creator : pc[c] \in {"idle", "phone"} => Untouched(c)
  /\ \A c \in Creator : \A d \in answered[c] :
       Whole(d) /\ (form[c].phone = form[d].phone => Untouched(c))

LInv == WInv /\ LaterInv

LEMMA LInvInit == Init => LInv
BY WInvInit, ConstantsAssumption DEF Init, LInv, LaterInv, Untouched, Past, Working, Form

\* A creation that has not passed the check stays untouched, unless it passes.
LEMMA UntouchedStays ==
  ASSUME TypeOK, NEW a \in Creator, Step(a) \/ Crash(a), NEW c \in Creator, Untouched(c),
         c = a => pc'[c] \notin Past
  PROVE  Untouched(c)'
<1>1. form' = form /\ form[c].phone \in Phone
  BY FormStays DEF Next, TypeOK, Form
<1>2. taker'[form[c].phone] # c
  BY <1>1, TakerIsPast DEF Untouched
<1>3. items'[c] = {} /\ pc'[c] \notin Past
  <2>1. CASE c = a
    BY <2>1, WriteIsPast DEF Untouched
  <2>2. CASE c # a
    BY <2>2, OthersIdle DEF Untouched, Idle
  <2> QED
    BY <2>1, <2>2
<1> QED
  BY <1>1, <1>2, <1>3 DEF Untouched

LEMMA LInvNext == StaleReads = FALSE /\ LInv /\ [Next]_vars => LInv'
<1> SUFFICES ASSUME StaleReads = FALSE, LInv, [Next]_vars PROVE LaterInv'
  BY WInvNext DEF LInv
<1>1. TypeOK /\ WholeInv /\ LaterInv /\ form' = form
  BY FormStays DEF LInv, WInv
<1>2. \A d \in Creator : Whole(d) => Whole(d)'
  BY <1>1, WholeStays
<1>7. ASSUME NEW a \in Creator, Step(a) \/ Crash(a),
             NEW c \in Creator, pc'[c] \in {"idle", "phone"}
      PROVE  Untouched(c)'
  <2>1. pc[c] \in {"idle", "phone"}
    <3>1. CASE c = a
      BY <1>1, <1>7, <3>1 DEF Step, Arrive, CheckPhone, CheckDuplicate, Transact, FallbackPut,
           Rollback, Fail, Commit, Respond, Crash, Refuse, Finish, Goto, TypeOK
    <3>2. CASE c # a
      BY <1>1, <1>7, <3>2, OthersIdle DEF Idle
    <3> QED
      BY <3>1, <3>2
  <2>2. pc'[c] \notin Past
    BY <1>7 DEF Past, Working
  <2> QED
    BY <1>1, <1>7, <2>1, <2>2, UntouchedStays DEF LaterInv
<1>3. ASSUME NEW a \in Creator, Step(a) \/ Crash(a),
             NEW c \in Creator, NEW d \in answered'[c]
      PROVE  Whole(d)' /\ (form[c].phone = form[d].phone => Untouched(c)')
  <2>1. answered[c] \subseteq Creator
    BY <1>1 DEF TypeOK
  <2>2. CASE c # a
    <3>1. answered'[c] = answered[c]
      BY <1>1, <1>3, <2>2, OthersIdle DEF Idle
    <3> QED
      BY <1>1, <1>2, <1>3, <2>1, <2>2, <3>1, UntouchedStays DEF LaterInv
  <2>3. CASE c = a /\ Arrive(c)
    <3>1. d \in Told
      BY <1>1, <1>3, <2>3 DEF Arrive, TypeOK
    <3>2. d \in Creator /\ Whole(d)
      BY <1>1, <3>1 DEF Told, WholeInv
    <3>3. Untouched(c)
      BY <1>1, <2>3 DEF Arrive, LaterInv
    <3>4. pc'[c] \notin Past
      BY <1>1, <2>3 DEF Arrive, Finish, Goto, TypeOK, Past, Working
    <3> QED
      BY <1>1, <1>2, <1>3, <2>3, <3>2, <3>3, <3>4, UntouchedStays
  <2>4. CASE c = a /\ ~Arrive(c)
    <3>1. answered' = answered
      BY <1>3, <2>4 DEF Step, CheckPhone, CheckDuplicate, Transact, FallbackPut, Rollback,
                        Fail, Commit, Respond, Crash
    <3>2. d \in Creator /\ Whole(d) /\ "TRACK" \in items[d]
      BY <1>1, <1>3, <2>1, <3>1, ItemFacts DEF LaterInv, Whole
    <3>3. ASSUME form[c].phone = form[d].phone PROVE Untouched(c)'
      <4>1. Untouched(c)
        BY <1>1, <1>3, <3>1, <3>3 DEF LaterInv
      <4>2. PhoneTaken(c)
        BY <3>2, <3>3 DEF PhoneTaken
      <4>3. pc'[c] \notin Past
        BY <1>1, <1>3, <2>4, <4>1, <4>2, PastIsChecked DEF Untouched
      <4> QED
        BY <1>1, <1>3, <4>1, <4>3, UntouchedStays
    <3> QED
      BY <1>2, <3>2, <3>3
  <2> QED
    BY <2>2, <2>3, <2>4
<1>4. CASE \E a \in Creator : Step(a) \/ Crash(a)
  BY <1>1, <1>3, <1>4, <1>7 DEF LaterInv
<1>5. CASE UNCHANGED <<form, items, phoneItem, taker, pc, next, reply, answered>>
  BY <1>1, <1>5 DEF LaterInv, Whole, PhoneKept, Untouched
<1>6. UNCHANGED vars => UNCHANGED <<form, items, phoneItem, taker, pc, next, reply, answered>>
  BY DEF vars
<1> QED
  BY <1>4, <1>5, <1>6, KeysOnly DEF Next

\* Once somebody was told of a request, no creation that starts later with its
\* phone writes anything, as long as queries are not stale
\* (create_rescue_request.py:79-84).
THEOREM LaterCreationsAreRefused ==
  ASSUME StaleReads = FALSE
  PROVE  Spec => []LaterIsRefused
<1>1. LInv => LaterIsRefused
  BY DEF LInv, LaterInv, Untouched, LaterIsRefused
<1>2. LInv /\ [Next]_vars => LInv'
  BY LInvNext
<1> QED
  BY <1>1, <1>2, LInvInit, PTL DEF Spec
=============================================================================
