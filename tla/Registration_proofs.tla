------------------------ MODULE Registration_proofs ------------------------
(***************************************************************************)
(* Registration for any set of requests, emails, capacities and any pool.   *)
(*                                                                         *)
(* TxInv says what an open transaction may rely on: who holds the event     *)
(* row, that the event is not deleted meanwhile, that nothing of the        *)
(* request is committed yet and that its email is still free.               *)
(*                                                                         *)
(* SeatInv counts the overbooking.  It is not enough to bound the rows: a    *)
(* step that commits must know how many requests that counted too early are *)
(* still on their way.  The bound is stated for every level from the        *)
(* highest capacity up, so that raising the capacity keeps it.              *)
(***************************************************************************)
EXTENDS Registration, FiniteSetTheorems, TLAPS

\* The holder of the event row is the request between its lock and its end.
LockHeld ==
    \A r \in Requests : pc[r] \in Locking <=> lockedBy = r

LockedNotDeleted == lockedBy # NoTx => ~event.deleted

\* Nothing of a request is visible before it is answered.
NothingEarly ==
    \A r \in Requests :
        pc[r] # "answered" => r \notin rows \cup cancelled /\ answer[r] = "none"

\* Behind the lock nobody else can take the email that Insert found free.
EmailStillFree ==
    \A r \in Requests : pc[r] \in {"enqueue", "commit"} => ~Registered(EmailOf[r])

TxInv ==
    /\ TypeOK
    /\ IsFiniteSet(rows)
    /\ LockHeld
    /\ LockedNotDeleted
    /\ NothingEarly
    /\ EmailStillFree
    /\ OneRowPerEmail
    /\ EveryRegistrationHasItsJob
    /\ AnswersAreTrue

\* Requests on their way that counted fewer than h registrations.
Pending(h) == {r \in Requests : pc[r] \in Counted /\ seen[r] < h}

PoolRespected == IsFiniteSet(Active) /\ Cardinality(Active) <= PoolSize

\* The lock is kept only by a request that counted less than the capacity.
LowCount ==
    /\ event.capacity <= highest
    /\ \A r \in Requests : pc[r] \in Locking => seen[r] < highest

\* At or above level h, the rows and those who may still join them.
SeatsBounded ==
    \A h \in Nat :
        h >= highest /\ Cardinality(rows) >= h
            => Cardinality(rows) + Cardinality(Pending(h)) <= h + (PoolSize - 1)

SeatInv == PoolRespected /\ LowCount /\ SeatsBounded

-----------------------------------------------------------------------------
\* The state before the first request.
LEMMA TxInit == Init => TxInv
  <1> SUFFICES ASSUME Init PROVE TxInv
    OBVIOUS
  <1> USE RegistrationAssumption DEF Init
  <1>1. TypeOK
    BY DEF TypeOK
  <1>2. IsFiniteSet(rows)
    BY FS_EmptySet
  <1>3. /\ LockHeld /\ LockedNotDeleted /\ NothingEarly /\ EmailStillFree
        /\ OneRowPerEmail /\ EveryRegistrationHasItsJob /\ AnswersAreTrue
    BY DEF LockHeld, LockedNotDeleted, NothingEarly, EmailStillFree, OneRowPerEmail,
           EveryRegistrationHasItsJob, AnswersAreTrue, Locking
  <1> QED
    BY <1>1, <1>2, <1>3 DEF TxInv

\* Every action keeps the types of the tables and of the transactions' state.
LEMMA TxTypes == IsFiniteSet(rows) /\ TypeOK /\ [Next]_vars => TypeOK'
  <1> SUFFICES ASSUME IsFiniteSet(rows), TypeOK, [Next]_vars PROVE TypeOK'
    OBVIOUS
  <1> USE RegistrationAssumption DEF TypeOK, Open, Counted, Locking
  <1>1. ASSUME NEW r \in Requests, Begin(r)
        PROVE  TypeOK'
    BY <1>1 DEF Begin, Goto
  <1>2. ASSUME NEW r \in Requests, DuplicateCheck(r)
        PROVE  TypeOK'
    BY <1>2 DEF DuplicateCheck, Goto, Finish
  <1>3. ASSUME NEW r \in Requests, CapacitySnapshot(r)
        PROVE  TypeOK'
    <2>1. Cardinality(rows) \in Nat
      BY FS_CardinalityType
    <2> QED
      BY <1>3, <2>1 DEF CapacitySnapshot, Goto, Finish
  <1>4. ASSUME NEW r \in Requests, CapacityLock(r)
        PROVE  TypeOK'
    BY <1>4 DEF CapacityLock, Goto, Finish
  <1>5. ASSUME NEW r \in Requests, Insert(r)
        PROVE  TypeOK'
    BY <1>5 DEF Insert, Goto, Finish
  <1>6. ASSUME NEW r \in Requests, Enqueue(r)
        PROVE  TypeOK'
    BY <1>6 DEF Enqueue, Goto
  <1>7. ASSUME NEW r \in Requests, Commit(r)
        PROVE  TypeOK'
    BY <1>7 DEF Commit, Finish
  <1>8. ASSUME NEW r \in Requests, Abort(r)
        PROVE  TypeOK'
    BY <1>8 DEF Abort, Finish
  <1>9. ASSUME NEW r \in Requests, Cancel(r)
        PROVE  TypeOK'
    BY <1>9 DEF Cancel
  <1>10. ASSUME NEW k \in Capacities, Update(k)
         PROVE  TypeOK'
    BY <1>10 DEF Update, Edit
  <1>11. CASE Delete
    <2>1. [event EXCEPT !.deleted = TRUE] \in [capacity : Capacities, deleted : BOOLEAN]
      BY Zenon
    <2> QED
      BY <1>11, <2>1 DEF Delete, Edit
  <1>12. CASE Restore
    <2>1. [event EXCEPT !.deleted = FALSE] \in [capacity : Capacities, deleted : BOOLEAN]
      BY Zenon
    <2> QED
      BY <1>12, <2>1 DEF Restore, Edit
  <1>13. CASE UNCHANGED vars
    BY <1>13 DEF vars
  <1> QED
    BY <1>1, <1>2, <1>3, <1>4, <1>5, <1>6, <1>7, <1>8, <1>9, <1>10, <1>11, <1>12, <1>13
    DEF Next, Step

\* What an open transaction relies on, and the three properties that follow from it,
\* are kept by every action.
LEMMA TxStep == TxInv /\ [Next]_vars => TxInv'
  <1> SUFFICES ASSUME TxInv, [Next]_vars PROVE TxInv'
    OBVIOUS
  <1> USE RegistrationAssumption
  <1>0. TypeOK /\ TypeOK'
    BY TxTypes DEF TxInv
  <1>1. ASSUME NEW r \in Requests, Begin(r)
        PROVE  TxInv'
    <2> USE <1>0, <1>1 DEF TxInv, TypeOK, Open, Counted, Locking, Begin, Goto
    <2>1. IsFiniteSet(rows) /\ IsFiniteSet(rows')
      OBVIOUS
    <2>2. LockHeld' /\ LockedNotDeleted'
      BY DEF LockHeld, LockedNotDeleted
    <2>3. NothingEarly' /\ AnswersAreTrue'
      BY DEF NothingEarly, AnswersAreTrue
    <2>4. EmailStillFree' /\ OneRowPerEmail' /\ EveryRegistrationHasItsJob'
      BY DEF LockHeld, EmailStillFree, Registered, OneRowPerEmail, EveryRegistrationHasItsJob
    <2> QED
      BY <1>0, <2>1, <2>2, <2>3, <2>4
  <1>2. ASSUME NEW r \in Requests, DuplicateCheck(r)
        PROVE  TxInv'
    <2> USE <1>0, <1>2 DEF TxInv, TypeOK, Open, Counted, Locking, DuplicateCheck, Goto, Finish
    <2>1. IsFiniteSet(rows) /\ IsFiniteSet(rows')
      OBVIOUS
    <2>2. LockHeld' /\ LockedNotDeleted'
      BY DEF LockHeld, LockedNotDeleted
    <2>3. NothingEarly' /\ AnswersAreTrue'
      BY DEF NothingEarly, AnswersAreTrue
    <2>4. EmailStillFree' /\ OneRowPerEmail' /\ EveryRegistrationHasItsJob'
      BY DEF LockHeld, EmailStillFree, Registered, OneRowPerEmail, EveryRegistrationHasItsJob
    <2> QED
      BY <1>0, <2>1, <2>2, <2>3, <2>4
  <1>3. ASSUME NEW r \in Requests, CapacitySnapshot(r)
        PROVE  TxInv'
    <2> USE <1>0, <1>3 DEF TxInv, TypeOK, Open, Counted, Locking, CapacitySnapshot, Goto, Finish
    <2>1. IsFiniteSet(rows) /\ IsFiniteSet(rows')
      OBVIOUS
    <2>2. LockHeld' /\ LockedNotDeleted'
      BY DEF LockHeld, LockedNotDeleted
    <2>3. NothingEarly' /\ AnswersAreTrue'
      BY DEF NothingEarly, AnswersAreTrue
    <2>4. EmailStillFree' /\ OneRowPerEmail' /\ EveryRegistrationHasItsJob'
      BY DEF LockHeld, EmailStillFree, Registered, OneRowPerEmail, EveryRegistrationHasItsJob
    <2> QED
      BY <1>0, <2>1, <2>2, <2>3, <2>4
  <1>4. ASSUME NEW r \in Requests, CapacityLock(r)
        PROVE  TxInv'
    <2> USE <1>0, <1>4 DEF TxInv, TypeOK, Open, Counted, Locking, CapacityLock, Goto, Finish
    <2>1. IsFiniteSet(rows) /\ IsFiniteSet(rows')
      OBVIOUS
    <2>2. LockHeld' /\ LockedNotDeleted'
      BY DEF LockHeld, LockedNotDeleted
    <2>3. NothingEarly' /\ AnswersAreTrue'
      BY DEF NothingEarly, AnswersAreTrue
    <2>4. EmailStillFree' /\ OneRowPerEmail' /\ EveryRegistrationHasItsJob'
      BY DEF LockHeld, EmailStillFree, Registered, OneRowPerEmail, EveryRegistrationHasItsJob
    <2> QED
      BY <1>0, <2>1, <2>2, <2>3, <2>4
  <1>5. ASSUME NEW r \in Requests, Insert(r)
        PROVE  TxInv'
    <2> USE <1>0, <1>5 DEF TxInv, TypeOK, Open, Counted, Locking, Insert, Goto, Finish
    <2>1. IsFiniteSet(rows) /\ IsFiniteSet(rows')
      OBVIOUS
    <2>2. LockHeld' /\ LockedNotDeleted'
      BY DEF LockHeld, LockedNotDeleted
    <2>3. NothingEarly' /\ AnswersAreTrue'
      BY DEF NothingEarly, AnswersAreTrue
    <2>4. EmailStillFree' /\ OneRowPerEmail' /\ EveryRegistrationHasItsJob'
      BY DEF LockHeld, EmailStillFree, Registered, OneRowPerEmail, EveryRegistrationHasItsJob
    <2> QED
      BY <1>0, <2>1, <2>2, <2>3, <2>4
  <1>6. ASSUME NEW r \in Requests, Enqueue(r)
        PROVE  TxInv'
    <2> USE <1>0, <1>6 DEF TxInv, TypeOK, Open, Counted, Locking, Enqueue, Goto
    <2>1. IsFiniteSet(rows) /\ IsFiniteSet(rows')
      OBVIOUS
    <2>2. LockHeld' /\ LockedNotDeleted'
      BY DEF LockHeld, LockedNotDeleted
    <2>3. NothingEarly' /\ AnswersAreTrue'
      BY DEF NothingEarly, AnswersAreTrue
    <2>4. EmailStillFree' /\ OneRowPerEmail' /\ EveryRegistrationHasItsJob'
      BY DEF LockHeld, EmailStillFree, Registered, OneRowPerEmail, EveryRegistrationHasItsJob
    <2> QED
      BY <1>0, <2>1, <2>2, <2>3, <2>4
  <1>7. ASSUME NEW r \in Requests, Commit(r)
        PROVE  TxInv'
    <2> USE <1>0, <1>7 DEF TxInv, TypeOK, Open, Counted, Locking, Commit, Finish
    <2>1. IsFiniteSet(rows) /\ IsFiniteSet(rows')
      BY FS_AddElement
    <2>2. LockHeld' /\ LockedNotDeleted'
      BY DEF LockHeld, LockedNotDeleted
    <2>3. NothingEarly' /\ AnswersAreTrue'
      BY DEF NothingEarly, AnswersAreTrue
    <2>4. EmailStillFree' /\ OneRowPerEmail' /\ EveryRegistrationHasItsJob'
      BY DEF LockHeld, EmailStillFree, Registered, OneRowPerEmail, EveryRegistrationHasItsJob,
             NothingEarly
    <2> QED
      BY <1>0, <2>1, <2>2, <2>3, <2>4
  <1>8. ASSUME NEW r \in Requests, Abort(r)
        PROVE  TxInv'
    <2> USE <1>0, <1>8 DEF TxInv, TypeOK, Open, Counted, Locking, Abort, Finish
    <2>1. IsFiniteSet(rows) /\ IsFiniteSet(rows')
      OBVIOUS
    <2>2. LockHeld' /\ LockedNotDeleted'
      BY DEF LockHeld, LockedNotDeleted
    <2>3. NothingEarly' /\ AnswersAreTrue'
      BY DEF NothingEarly, AnswersAreTrue
    <2>4. EmailStillFree' /\ OneRowPerEmail' /\ EveryRegistrationHasItsJob'
      BY DEF LockHeld, EmailStillFree, Registered, OneRowPerEmail, EveryRegistrationHasItsJob
    <2> QED
      BY <1>0, <2>1, <2>2, <2>3, <2>4
  <1>9. ASSUME NEW r \in Requests, Cancel(r)
        PROVE  TxInv'
    <2> USE <1>0, <1>9 DEF TxInv, TypeOK, Open, Counted, Locking, Cancel
    <2>1. IsFiniteSet(rows) /\ IsFiniteSet(rows')
      BY FS_RemoveElement
    <2>2. LockHeld' /\ LockedNotDeleted'
      BY DEF LockHeld, LockedNotDeleted
    <2>3. NothingEarly' /\ AnswersAreTrue'
      BY DEF NothingEarly, AnswersAreTrue
    <2>4. EmailStillFree' /\ OneRowPerEmail' /\ EveryRegistrationHasItsJob'
      BY DEF LockHeld, EmailStillFree, Registered, OneRowPerEmail, EveryRegistrationHasItsJob
    <2> QED
      BY <1>0, <2>1, <2>2, <2>3, <2>4
  <1>10. ASSUME NEW k \in Capacities, Update(k)
         PROVE  TxInv'
    <2> USE <1>0, <1>10 DEF TxInv, TypeOK, Open, Counted, Locking, Update, Edit
    <2>1. IsFiniteSet(rows) /\ IsFiniteSet(rows')
      OBVIOUS
    <2>2. LockHeld' /\ LockedNotDeleted'
      BY DEF LockHeld, LockedNotDeleted
    <2>3. NothingEarly' /\ AnswersAreTrue'
      BY DEF NothingEarly, AnswersAreTrue
    <2>4. EmailStillFree' /\ OneRowPerEmail' /\ EveryRegistrationHasItsJob'
      BY DEF LockHeld, EmailStillFree, Registered, OneRowPerEmail, EveryRegistrationHasItsJob
    <2> QED
      BY <1>0, <2>1, <2>2, <2>3, <2>4
  <1>11. CASE Delete
    <2> USE <1>0, <1>11 DEF TxInv, TypeOK, Open, Counted, Locking, Delete, Edit
    <2>1. IsFiniteSet(rows) /\ IsFiniteSet(rows')
      OBVIOUS
    <2>2. LockHeld' /\ LockedNotDeleted'
      BY DEF LockHeld, LockedNotDeleted
    <2>3. NothingEarly' /\ AnswersAreTrue'
      BY DEF NothingEarly, AnswersAreTrue
    <2>4. EmailStillFree' /\ OneRowPerEmail' /\ EveryRegistrationHasItsJob'
      BY DEF LockHeld, EmailStillFree, Registered, OneRowPerEmail, EveryRegistrationHasItsJob
    <2> QED
      BY <1>0, <2>1, <2>2, <2>3, <2>4
  <1>12. CASE Restore
    <2> USE <1>0, <1>12 DEF TxInv, TypeOK, Open, Counted, Locking, Restore, Edit
    <2>1. IsFiniteSet(rows) /\ IsFiniteSet(rows')
      OBVIOUS
    <2>2. LockHeld' /\ LockedNotDeleted'
      BY DEF LockHeld, LockedNotDeleted
    <2>3. NothingEarly' /\ AnswersAreTrue'
      BY DEF NothingEarly, AnswersAreTrue
    <2>4. EmailStillFree' /\ OneRowPerEmail' /\ EveryRegistrationHasItsJob'
      BY DEF LockHeld, EmailStillFree, Registered, OneRowPerEmail, EveryRegistrationHasItsJob
    <2> QED
      BY <1>0, <2>1, <2>2, <2>3, <2>4
  <1>13. CASE UNCHANGED vars
    <2> USE <1>0, <1>13 DEF TxInv, TypeOK, Open, Counted, Locking, vars
    <2>1. IsFiniteSet(rows) /\ IsFiniteSet(rows')
      OBVIOUS
    <2>2. LockHeld' /\ LockedNotDeleted'
      BY DEF LockHeld, LockedNotDeleted
    <2>3. NothingEarly' /\ AnswersAreTrue'
      BY DEF NothingEarly, AnswersAreTrue
    <2>4. EmailStillFree' /\ OneRowPerEmail' /\ EveryRegistrationHasItsJob'
      BY DEF LockHeld, EmailStillFree, Registered, OneRowPerEmail, EveryRegistrationHasItsJob
    <2> QED
      BY <1>0, <2>1, <2>2, <2>3, <2>4
  <1> QED
    BY <1>1, <1>2, <1>3, <1>4, <1>5, <1>6, <1>7, <1>8, <1>9, <1>10, <1>11, <1>12, <1>13
    DEF Next, Step

\* No seats are taken before the first request.
LEMMA SeatInit == Init => SeatInv
  <1> SUFFICES ASSUME Init PROVE SeatInv
    OBVIOUS
  <1>1. Active = {} /\ \A h \in Nat : Pending(h) = {}
    BY DEF Init, Active, Pending, Open, Counted, Locking
  <1>2. IsFiniteSet({}) /\ Cardinality({}) = 0
    BY FS_EmptySet
  <1> QED
    BY <1>1, <1>2, RegistrationAssumption
    DEF Init, SeatInv, PoolRespected, LowCount, SeatsBounded, Locking

\* Requests past their snapshot are in a transaction, so the pool bounds them.
LEMMA PendingInPool ==
  ASSUME PoolRespected, NEW h \in Nat
  PROVE  /\ Pending(h) \subseteq Active
         /\ IsFiniteSet(Pending(h))
         /\ Cardinality(Pending(h)) \in Nat
         /\ Cardinality(Pending(h)) <= Cardinality(Active)
         /\ Cardinality(Active) \in Nat
  <1>1. Pending(h) \subseteq Active
    BY DEF Pending, Active, Open
  <1> QED
    BY <1>1, FS_Subset, FS_CardinalityType DEF PoolRespected

\* A step in which no row and no early counter is added keeps the bound.
LEMMA SeatsKept ==
  ASSUME TxInv, TxInv', SeatInv,
         rows' \subseteq rows,
         highest <= highest',
         \A h \in Nat : Pending(h)' \subseteq Pending(h)
  PROVE  SeatsBounded'
  <1> SUFFICES ASSUME NEW h \in Nat, h >= highest', Cardinality(rows') >= h
               PROVE  Cardinality(rows') + Cardinality(Pending(h)') <= h + (PoolSize - 1)
    BY DEF SeatsBounded
  <1>1. highest \in Nat /\ highest' \in Nat
    BY RegistrationAssumption DEF TxInv, TypeOK
  <1>2. /\ Cardinality(rows) \in Nat /\ Cardinality(rows') \in Nat
        /\ Cardinality(rows') <= Cardinality(rows)
    BY FS_Subset, FS_CardinalityType DEF TxInv
  <1>3. /\ Cardinality(Pending(h)) \in Nat /\ Cardinality(Pending(h)') \in Nat
        /\ Cardinality(Pending(h)') <= Cardinality(Pending(h))
    BY PendingInPool, FS_Subset, FS_CardinalityType DEF SeatInv
  <1>4. Cardinality(rows) + Cardinality(Pending(h)) <= h + (PoolSize - 1)
    BY <1>1, <1>2 DEF SeatInv, SeatsBounded
  <1> QED
    BY <1>2, <1>3, <1>4, RegistrationAssumption

\* A step in which no transaction begins keeps the pool's bound.
LEMMA PoolKept ==
  ASSUME PoolRespected, Active' \subseteq Active
  PROVE  PoolRespected'
  BY FS_Subset, FS_CardinalityType, RegistrationAssumption DEF PoolRespected

\* Every action keeps the count of seats.
LEMMA SeatStep == TxInv /\ TxInv' /\ SeatInv /\ [Next]_vars => SeatInv'
  <1> SUFFICES ASSUME TxInv, TxInv', SeatInv, [Next]_vars PROVE SeatInv'
    OBVIOUS
  <1> USE RegistrationAssumption
  <1>0. /\ TypeOK /\ TypeOK' /\ PoolRespected /\ LowCount /\ SeatsBounded
        /\ IsFiniteSet(rows) /\ IsFiniteSet(rows')
        /\ Cardinality(rows) \in Nat /\ Cardinality(rows') \in Nat
    BY FS_CardinalityType DEF TxInv, SeatInv
  <1>1. ASSUME NEW r \in Requests, Begin(r)
        PROVE  SeatInv'
    <2> USE <1>0, <1>1 DEF TypeOK, Open, Counted, Locking, Begin, Goto
    <2>1. Active' = Active \cup {r} /\ r \notin Active
      BY DEF Active
    <2>2. PoolRespected'
      <3>1. IsFiniteSet(Active) /\ Cardinality(Active) \in Nat
        BY FS_CardinalityType DEF PoolRespected
      <3>2. /\ IsFiniteSet(Active \cup {r})
            /\ Cardinality(Active \cup {r}) = Cardinality(Active) + 1
        BY <2>1, <3>1, FS_AddElement
      <3>3. Cardinality(Active) < PoolSize
        OBVIOUS
      <3> QED
        BY <2>1, <3>1, <3>2, <3>3 DEF PoolRespected
    <2>3. LowCount'
      BY DEF LowCount
    <2>4. \A h \in Nat : Pending(h)' \subseteq Pending(h)
      BY DEF Pending
    <2>5. rows' \subseteq rows /\ highest <= highest'
      OBVIOUS
    <2> QED
      BY <2>2, <2>3, <2>4, <2>5, SeatsKept DEF SeatInv
  <1>2. ASSUME NEW r \in Requests, DuplicateCheck(r)
        PROVE  SeatInv'
    <2> USE <1>0, <1>2 DEF TypeOK, Open, Counted, Locking, DuplicateCheck, Goto, Finish
    <2>1. Active' \subseteq Active
      BY DEF Active
    <2>2. LowCount'
      BY DEF LowCount
    <2>3. \A h \in Nat : Pending(h)' \subseteq Pending(h)
      BY DEF Pending
    <2>4. rows' \subseteq rows /\ highest <= highest'
      OBVIOUS
    <2> QED
      BY <2>1, <2>2, <2>3, <2>4, PoolKept, SeatsKept DEF SeatInv
  <1>3. ASSUME NEW r \in Requests, CapacitySnapshot(r)
        PROVE  SeatInv'
    <2> USE <1>0, <1>3 DEF TypeOK, Open, Counted, Locking, CapacitySnapshot, Goto, Finish
    <2>1. Active' \subseteq Active
      BY DEF Active
    <2>2. LowCount'
      BY DEF LowCount
    <2>3. rows' = rows /\ highest' = highest
      OBVIOUS
    <2>4. SeatsBounded'
      <3> SUFFICES ASSUME NEW h \in Nat, h >= highest, Cardinality(rows) >= h
                   PROVE  Cardinality(rows) + Cardinality(Pending(h)') <= h + (PoolSize - 1)
        BY <2>3 DEF SeatsBounded
      <3>1. Pending(h)' \subseteq Pending(h)
        BY DEF Pending
      <3>2. /\ Cardinality(Pending(h)) \in Nat /\ Cardinality(Pending(h)') \in Nat
            /\ Cardinality(Pending(h)') <= Cardinality(Pending(h))
        BY <3>1, PendingInPool, FS_Subset, FS_CardinalityType
      <3> QED
        BY <3>2 DEF SeatsBounded
    <2> QED
      BY <2>1, <2>2, <2>4, PoolKept DEF SeatInv
  <1>4. ASSUME NEW r \in Requests, CapacityLock(r)
        PROVE  SeatInv'
    <2> USE <1>0, <1>4 DEF TypeOK, Open, Counted, Locking, CapacityLock, Goto, Finish
    <2>1. Active' \subseteq Active
      BY DEF Active
    <2>2. LowCount'
      <3>1. event.capacity \in Nat /\ highest \in Nat /\ event.capacity <= highest
        BY DEF LowCount
      <3>2. pc'[r] \in Locking => seen'[r] < highest
        BY <3>1
      <3>3. \A q \in Requests \ {r} : pc'[q] = pc[q] /\ seen'[q] = seen[q]
        OBVIOUS
      <3> QED
        BY <3>1, <3>2, <3>3 DEF LowCount
    <2>3. \A h \in Nat : Pending(h)' \subseteq Pending(h)
      BY DEF Pending
    <2>4. rows' \subseteq rows /\ highest <= highest'
      OBVIOUS
    <2> QED
      BY <2>1, <2>2, <2>3, <2>4, PoolKept, SeatsKept DEF SeatInv
  <1>5. ASSUME NEW r \in Requests, Insert(r)
        PROVE  SeatInv'
    <2> USE <1>0, <1>5 DEF TypeOK, Open, Counted, Locking, Insert, Goto, Finish
    <2>1. Active' \subseteq Active
      BY DEF Active
    <2>2. LowCount'
      BY DEF LowCount
    <2>3. \A h \in Nat : Pending(h)' \subseteq Pending(h)
      BY DEF Pending
    <2>4. rows' \subseteq rows /\ highest <= highest'
      OBVIOUS
    <2> QED
      BY <2>1, <2>2, <2>3, <2>4, PoolKept, SeatsKept DEF SeatInv
  <1>6. ASSUME NEW r \in Requests, Enqueue(r)
        PROVE  SeatInv'
    <2> USE <1>0, <1>6 DEF TypeOK, Open, Counted, Locking, Enqueue, Goto
    <2>1. Active' \subseteq Active
      BY DEF Active
    <2>2. LowCount'
      BY DEF LowCount
    <2>3. \A h \in Nat : Pending(h)' \subseteq Pending(h)
      BY DEF Pending
    <2>4. rows' \subseteq rows /\ highest <= highest'
      OBVIOUS
    <2> QED
      BY <2>1, <2>2, <2>3, <2>4, PoolKept, SeatsKept DEF SeatInv
  <1>7. ASSUME NEW r \in Requests, Commit(r)
        PROVE  SeatInv'
    <2> USE <1>0, <1>7 DEF TypeOK, Open, Counted, Locking, Commit, Finish
    <2>1. Active' = Active \ {r} /\ r \in Active
      BY DEF Active
    <2>2. LowCount'
      BY DEF LowCount
    <2>3. rows' = rows \cup {r} /\ r \notin rows /\ highest' = highest
      BY DEF TxInv, NothingEarly
    <2>4. Cardinality(rows') = Cardinality(rows) + 1
      BY <2>3, FS_AddElement
    <2>5. /\ Cardinality(Active) \in Nat
          /\ IsFiniteSet(Active')
          /\ Cardinality(Active') = Cardinality(Active) - 1
      BY <2>1, FS_RemoveElement, FS_CardinalityType DEF PoolRespected
    <2>6. PoolRespected'
      BY <2>5 DEF PoolRespected
    <2>7. SeatsBounded'
      <3> SUFFICES ASSUME NEW h \in Nat, h >= highest, Cardinality(rows) + 1 >= h
                   PROVE  Cardinality(rows) + 1 + Cardinality(Pending(h)')
                              <= h + (PoolSize - 1)
        BY <2>3, <2>4 DEF SeatsBounded
      <3>1. r \in Pending(h) /\ Pending(h)' = Pending(h) \ {r}
        BY DEF Pending, LowCount
      <3>2. /\ IsFiniteSet(Pending(h))
            /\ Cardinality(Pending(h)) \in Nat
            /\ Cardinality(Pending(h)) <= Cardinality(Active)
        BY PendingInPool
      <3>3. Cardinality(Pending(h) \ {r}) = Cardinality(Pending(h)) - 1
        BY <3>1, <3>2, FS_RemoveElement
      <3>4. Cardinality(Pending(h)') = Cardinality(Pending(h)) - 1
        BY <3>1, <3>3
      <3>5. CASE Cardinality(rows) >= h
        BY <3>4, <3>2, <3>5 DEF SeatsBounded
      <3>6. CASE Cardinality(rows) + 1 = h
        BY <2>5, <3>2, <3>4, <3>6 DEF PoolRespected
      <3> QED
        BY <3>5, <3>6
    <2> QED
      BY <2>2, <2>6, <2>7 DEF SeatInv
  <1>8. ASSUME NEW r \in Requests, Abort(r)
        PROVE  SeatInv'
    <2> USE <1>0, <1>8 DEF TypeOK, Open, Counted, Locking, Abort, Finish
    <2>1. Active' \subseteq Active
      BY DEF Active
    <2>2. LowCount'
      BY DEF LowCount
    <2>3. \A h \in Nat : Pending(h)' \subseteq Pending(h)
      BY DEF Pending
    <2>4. rows' \subseteq rows /\ highest <= highest'
      OBVIOUS
    <2> QED
      BY <2>1, <2>2, <2>3, <2>4, PoolKept, SeatsKept DEF SeatInv
  <1>9. ASSUME NEW r \in Requests, Cancel(r)
        PROVE  SeatInv'
    <2> USE <1>0, <1>9 DEF TypeOK, Open, Counted, Locking, Cancel
    <2>1. Active' \subseteq Active
      BY DEF Active
    <2>2. LowCount'
      BY DEF LowCount
    <2>3. \A h \in Nat : Pending(h)' \subseteq Pending(h)
      BY DEF Pending
    <2>4. rows' \subseteq rows /\ highest <= highest'
      OBVIOUS
    <2> QED
      BY <2>1, <2>2, <2>3, <2>4, PoolKept, SeatsKept DEF SeatInv
  <1>10. ASSUME NEW k \in Capacities, Update(k)
         PROVE  SeatInv'
    <2> USE <1>0, <1>10 DEF TypeOK, Open, Counted, Locking, Update, Edit
    <2>1. Active' \subseteq Active
      BY DEF Active
    <2>2. LowCount'
      BY DEF LowCount
    <2>3. \A h \in Nat : Pending(h)' \subseteq Pending(h)
      BY DEF Pending
    <2>4. rows' \subseteq rows /\ highest <= highest'
      OBVIOUS
    <2> QED
      BY <2>1, <2>2, <2>3, <2>4, PoolKept, SeatsKept DEF SeatInv
  <1>11. CASE Delete
    <2> USE <1>0, <1>11 DEF TypeOK, Open, Counted, Locking, Delete, Edit
    <2>1. Active' \subseteq Active
      BY DEF Active
    <2>2. LowCount'
      BY DEF LowCount
    <2>3. \A h \in Nat : Pending(h)' \subseteq Pending(h)
      BY DEF Pending
    <2>4. rows' \subseteq rows /\ highest <= highest'
      OBVIOUS
    <2> QED
      BY <2>1, <2>2, <2>3, <2>4, PoolKept, SeatsKept DEF SeatInv
  <1>12. CASE Restore
    <2> USE <1>0, <1>12 DEF TypeOK, Open, Counted, Locking, Restore, Edit
    <2>1. Active' \subseteq Active
      BY DEF Active
    <2>2. LowCount'
      BY DEF LowCount
    <2>3. \A h \in Nat : Pending(h)' \subseteq Pending(h)
      BY DEF Pending
    <2>4. rows' \subseteq rows /\ highest <= highest'
      OBVIOUS
    <2> QED
      BY <2>1, <2>2, <2>3, <2>4, PoolKept, SeatsKept DEF SeatInv
  <1>13. CASE UNCHANGED vars
    <2> USE <1>0, <1>13 DEF TypeOK, Open, Counted, Locking, vars
    <2>1. Active' \subseteq Active
      BY DEF Active
    <2>2. LowCount'
      BY DEF LowCount
    <2>3. \A h \in Nat : Pending(h)' \subseteq Pending(h)
      BY DEF Pending
    <2>4. rows' \subseteq rows /\ highest <= highest'
      OBVIOUS
    <2> QED
      BY <2>1, <2>2, <2>3, <2>4, PoolKept, SeatsKept DEF SeatInv
  <1> QED
    BY <1>1, <1>2, <1>3, <1>4, <1>5, <1>6, <1>7, <1>8, <1>9, <1>10, <1>11, <1>12, <1>13
    DEF Next, Step

-----------------------------------------------------------------------------
\* Both invariants hold in every reachable state.
LEMMA RegistrationAlways == Spec => [](TxInv /\ SeatInv)
  BY TxInit, TxStep, SeatInit, SeatStep, PTL DEF Spec

\* The tables and every request's transaction keep their types.
THEOREM RegistrationTypes == Spec => []TypeOK
  BY RegistrationAlways, PTL DEF TxInv

\* An email registers once, for any number of concurrent requests.
THEOREM EmailsRegisterOnce == Spec => []OneRowPerEmail
  BY RegistrationAlways, PTL DEF TxInv

\* Registration and confirmation job are committed together (the outbox).
THEOREM OutboxIsAtomic == Spec => []EveryRegistrationHasItsJob
  BY RegistrationAlways, PTL DEF TxInv

\* What the client is told of its registration is true.
THEOREM ClientsAreToldTheTruth == Spec => []AnswersAreTrue
  BY RegistrationAlways, PTL DEF TxInv

\* An event is overbooked by at most one registration less than the pool has
\* connections.
THEOREM OverbookingIsBounded == Spec => []OvershootBounded
  <1>1. TxInv /\ SeatInv => OvershootBounded
    <2> SUFFICES ASSUME TxInv, SeatInv PROVE OvershootBounded
      OBVIOUS
    <2>1. highest \in Nat /\ Cardinality(rows) \in Nat
      BY RegistrationAssumption, FS_CardinalityType DEF TxInv, TypeOK
    <2>2. Cardinality(Pending(highest)) \in Nat
      BY <2>1, PendingInPool DEF SeatInv
    <2>3. CASE Cardinality(rows) >= highest
      <3>1. Cardinality(rows) + Cardinality(Pending(highest)) <= highest + (PoolSize - 1)
        BY <2>1, <2>3 DEF SeatInv, SeatsBounded
      <3> QED
        BY <2>1, <2>2, <3>1, RegistrationAssumption DEF OvershootBounded
    <2>4. CASE Cardinality(rows) < highest
      BY <2>1, <2>4, RegistrationAssumption DEF OvershootBounded
    <2> QED
      BY <2>1, <2>3, <2>4
  <1> QED
    BY <1>1, RegistrationAlways, PTL

\* Nobody is registered for a deleted event: the holder of the row lock is the only
\* one who adds a row, and Delete waits for it.
THEOREM DeletedEventsStayEmpty == Spec => NeverIntoDeletedEvent
  <1>1. TxInv /\ [Next]_vars => [~event.deleted \/ rows' \subseteq rows]_vars
    <2> SUFFICES ASSUME TxInv, [Next]_vars, event.deleted
                 PROVE  rows' \subseteq rows
      OBVIOUS
    <2>1. ASSUME NEW r \in Requests
          PROVE  ~Commit(r)
      BY <2>1, RegistrationAssumption
      DEF TxInv, LockHeld, LockedNotDeleted, Commit, Locking
    <2> QED
      BY <2>1
      DEF Next, Step, Begin, DuplicateCheck, CapacitySnapshot, CapacityLock, Insert, Enqueue,
          Abort, Cancel, Update, Delete, Restore, Edit, vars
  <1> QED
    BY <1>1, RegistrationAlways, PTL DEF Spec, NeverIntoDeletedEvent
=============================================================================
