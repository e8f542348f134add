--------------------- MODULE ConfirmationDelivery_proofs --------------------
(***************************************************************************)
(* The send-once gate, proved for every set of registrations and of         *)
(* concurrent executions and every number of faults.                        *)
(***************************************************************************)
EXTENDS ConfirmationDelivery, TLAPS

\* What a row and the executions holding it say of the confirmations sent: a
\* failed or missing row means none, a sent row one, and a row in `sending' what
\* its holder has done so far, or either when its holder is gone.
CountMatchesRow ==
    \A r \in Regs :
        /\ sends[r] \in {0, 1}
        /\ row[r].status \in {"none", "failed"} => sends[r] = 0
        /\ row[r].status = "sent" => sends[r] = 1
        /\ row[r].sent_at <=> row[r].status = "sent"

CountMatchesHolder ==
    \A e \in Execs :
        /\ exec[e].pc \in {"send", "mark_failed"} => sends[exec[e].reg] = 0
        /\ exec[e].pc = "mark_sent" => sends[exec[e].reg] = 1

BusyHasReg == \A e \in Execs : exec[e].pc # "idle" => exec[e].reg \in Regs

GateInv ==
    /\ TypeOK
    /\ BusyHasReg
    /\ GateExclusive
    /\ CountMatchesRow
    /\ CountMatchesHolder
    /\ AckMeansSent

\* No delivery row and no execution at the start.
LEMMA GateInit == Init => GateInv
  BY DeliveryAssumption
  DEF Init, GateInv, TypeOK, BusyHasReg, GateExclusive, CountMatchesRow, CountMatchesHolder,
      AckMeansSent, Holding, Idle, Statuses, Pcs

\* Every statement of the gate and every answer of the notifier keeps the gate,
\* and so does the end of any executions, whatever is counted as a fault.
LEMMA GateKept ==
    ASSUME GateInv, faults' \in Nat,
           \/ \E e \in Execs, r \in Regs : Begin(e, r)
           \/ \E e \in Execs : \E o : Proceed(e, o)
           \/ \E dead \in SUBSET Execs : Stop(dead)
           \/ UNCHANGED <<row, exec, sends, acked>>
    PROVE  GateInv'
  <1> USE DeliveryAssumption
  <1> USE DEF GateInv
  <1>0. /\ Idle \in [pc : Pcs, reg : Regs \cup {NoReg}]
        /\ Idle.pc = "idle"
    BY DEF Idle, Pcs
  <1>1. CASE UNCHANGED <<row, exec, sends, acked>>
    BY <1>1 DEF TypeOK, BusyHasReg, GateExclusive, CountMatchesRow, CountMatchesHolder,
                AckMeansSent, Holding
  <1>2. faults' \in Nat
    OBVIOUS
  \* A step that writes no row and sends nothing, and leaves the others alone.
  <1>3. ASSUME NEW e \in Execs, UNCHANGED <<row, sends>>, faults' \in Nat,
               NEW c \in [pc : Pcs, reg : Regs \cup {NoReg}],
               exec' = [exec EXCEPT ![e] = c],
               c.pc # "idle" => c.reg \in Regs,
               c.pc \in {"idle", "insert", "flip", "look"},
               acked' \subseteq Regs, \A r \in acked' : sends[r] = 1
        PROVE  GateInv'
    <2>1. \A f \in Execs : exec'[f] = IF f = e THEN c ELSE exec[f]
      BY <1>3 DEF TypeOK
    <2>2. TypeOK'
      BY <1>3 DEF TypeOK
    <2>3. BusyHasReg'
      BY <1>3, <2>1 DEF BusyHasReg
    <2>4. GateExclusive'
      BY <1>3, <2>1 DEF GateExclusive, Holding
    <2>5. CountMatchesRow' /\ CountMatchesHolder' /\ AckMeansSent'
      BY <1>3, <2>1 DEF CountMatchesRow, CountMatchesHolder, AckMeansSent
    <2> QED
      BY <2>2, <2>3, <2>4, <2>5
  \* The gate is passed: an unheld row goes to sending.
  <1>4. ASSUME NEW e \in Execs, NEW r \in Regs, exec[e].reg = r,
               row[r].status \in {"none", "failed"},
               row' = [row EXCEPT ![r].status = "sending"],
               exec' = [exec EXCEPT ![e].pc = "send"] \/ exec' = [exec EXCEPT ![e] = Idle],
               UNCHANGED <<sends, acked>>, faults' \in Nat
        PROVE  GateInv'
    <2>1. /\ \A q \in Regs : row'[q].status = IF q = r THEN "sending" ELSE row[q].status
          /\ \A q \in Regs : row'[q].sent_at = row[q].sent_at
      BY <1>4 DEF TypeOK
    <2>2. /\ \A f \in Execs \ {e} : exec'[f] = exec[f]
          /\ exec'[e].pc = "idle" \/ (exec'[e].pc = "send" /\ exec'[e].reg = r)
          /\ exec' \in [Execs -> [pc : Pcs, reg : Regs \cup {NoReg}]]
      <3>1. CASE exec' = [exec EXCEPT ![e].pc = "send"]
        <4>1. exec[e] \in [pc : Pcs, reg : Regs \cup {NoReg}]
          BY DEF TypeOK
        <4>2. /\ [exec[e] EXCEPT !.pc = "send"] \in [pc : Pcs, reg : Regs \cup {NoReg}]
              /\ [exec[e] EXCEPT !.pc = "send"].pc = "send"
              /\ [exec[e] EXCEPT !.pc = "send"].reg = exec[e].reg
          BY <4>1 DEF Pcs
        <4> QED
          BY <1>4, <3>1, <4>2 DEF TypeOK
      <3>2. CASE exec' = [exec EXCEPT ![e] = Idle]
        <4>1. exec' \in [Execs -> [pc : Pcs, reg : Regs \cup {NoReg}]]
          BY <1>0, <3>2 DEF TypeOK
        <4>2. \A f \in Execs : exec'[f] = IF f = e THEN Idle ELSE exec[f]
          BY <3>2 DEF TypeOK
        <4> QED
          BY <1>0, <4>1, <4>2
      <3> QED
        BY <1>4, <3>1, <3>2
    <2>3. TypeOK'
      <3>1. row' \in [Regs -> [status : Statuses, sent_at : BOOLEAN]]
        BY <1>4 DEF TypeOK, Statuses
      <3> QED
        BY <1>4, <2>2, <3>1 DEF TypeOK
    <2>4. \A f \in Execs : Holding(f) => exec[f].reg # r
      BY <1>4 DEF GateExclusive
    <2>5. sends[r] = 0 /\ row[r].sent_at = FALSE
      BY <1>4 DEF CountMatchesRow, TypeOK
    <2>6. BusyHasReg'
      BY <2>2 DEF BusyHasReg
    <2>7. GateExclusive'
      BY <2>1, <2>2, <2>4 DEF GateExclusive, Holding, BusyHasReg
    <2>8. CountMatchesRow'
      BY <1>4, <2>1, <2>5 DEF CountMatchesRow
    <2>9. CountMatchesHolder' /\ AckMeansSent'
      BY <1>4, <2>2, <2>5 DEF CountMatchesHolder, AckMeansSent
    <2> QED
      BY <2>3, <2>6, <2>7, <2>8, <2>9
  <1>5. ASSUME NEW e \in Execs, NEW r \in Regs, Begin(e, r) PROVE GateInv'
    <2> DEFINE c == [pc |-> "insert", reg |-> r]
    <2>1. c \in [pc : Pcs, reg : Regs \cup {NoReg}] /\ c.pc = "insert" /\ c.reg = r
      BY DEF Pcs
    <2> HIDE DEF c
    <2> QED
      BY <1>3, <1>5, <2>1 DEF Begin, TypeOK, AckMeansSent, c
  <1>6. ASSUME NEW e \in Execs, NEW o, Insert(e, o) \/ Flip(e, o) PROVE GateInv'
    <2> DEFINE r == exec[e].reg
    <2>1. r \in Regs /\ faults' \in Nat /\ UNCHANGED <<sends, acked>>
      BY <1>2, <1>6 DEF BusyHasReg, Insert, Flip, ReturnError
    <2>2. CASE UNCHANGED row
      <3>1. PICK c \in {Idle, [exec[e] EXCEPT !.pc = "flip"], [exec[e] EXCEPT !.pc = "look"]} :
                exec' = [exec EXCEPT ![e] = c]
        <4>1. \/ exec' = [exec EXCEPT ![e] = Idle]
              \/ exec' = [exec EXCEPT ![e].pc = "flip"]
              \/ exec' = [exec EXCEPT ![e].pc = "look"]
          <5>1. row[r].status = "none" /\ Insert(e, o) => ~Applied(o)
            BY <2>1, <2>2 DEF Insert, TypeOK
          <5>2. row[r].status = "failed" /\ Flip(e, o) => ~Applied(o)
            BY <2>1, <2>2 DEF Flip, TypeOK
          <5> QED
            BY <1>6, <5>1, <5>2 DEF Insert, Flip, Goto, ReturnError, Applied
        <4> QED
          BY <4>1
      <3>2. /\ c \in [pc : Pcs, reg : Regs \cup {NoReg}]
            /\ c.pc \in {"idle", "flip", "look"}
            /\ c.pc # "idle" => c.reg \in Regs
        BY <1>0, <2>1, <3>1 DEF TypeOK, Pcs
      <3> QED
        BY <1>3, <2>1, <2>2, <3>1, <3>2 DEF TypeOK, AckMeansSent
    <2>3. CASE ~UNCHANGED row
      <3>1. /\ row[r].status \in {"none", "failed"}
            /\ row' = [row EXCEPT ![r].status = "sending"]
            /\ exec' = [exec EXCEPT ![e].pc = "send"] \/ exec' = [exec EXCEPT ![e] = Idle]
        BY <1>6, <2>3 DEF Insert, Flip, Goto, ReturnError
      <3> QED
        BY <1>4, <2>1, <3>1
    <2> QED
      BY <2>2, <2>3
  <1>7. ASSUME NEW e \in Execs, NEW o, Look(e, o) PROVE GateInv'
    <2>1. acked' \subseteq Regs /\ \A r \in acked' : sends[r] = 1
      BY <1>7 DEF Look, AlreadySent, ReturnNil, ReturnError, TypeOK, BusyHasReg,
                  CountMatchesRow, AckMeansSent
    <2>2. exec' = [exec EXCEPT ![e] = Idle] /\ UNCHANGED <<row, sends>> /\ faults' \in Nat
      BY <1>7 DEF Look, ReturnNil, ReturnError, TypeOK
    <2> QED
      BY <1>0, <1>3, <2>1, <2>2
  <1>8. ASSUME NEW e \in Execs, NEW answer, Send(e, answer) PROVE GateInv'
    <2> DEFINE r == exec[e].reg
               q == IF answer = "ok" THEN "mark_sent" ELSE "mark_failed"
    <2>1. /\ r \in Regs /\ Holding(e) /\ sends[r] = 0
          /\ row[r].status = "sending" /\ UNCHANGED <<row, acked>>
      BY <1>8 DEF Send, BusyHasReg, Holding, GateExclusive, CountMatchesHolder
    <2>2. \A k \in Regs : sends'[k] = IF k = r /\ answer = "ok" THEN 1 ELSE sends[k]
      BY <1>8, <2>1 DEF Send, TypeOK
    <2>3. \A f \in Execs : /\ exec'[f].reg = exec[f].reg
                           /\ exec'[f].pc = IF f = e THEN q ELSE exec[f].pc
      BY <1>8 DEF Send, Goto, TypeOK
    <2>4. TypeOK'
      <3>1. sends' \in [Regs -> Nat]
        BY <1>8, <2>1, <2>2 DEF Send, TypeOK
      <3>2. exec' \in [Execs -> [pc : Pcs, reg : Regs \cup {NoReg}]]
        BY <1>8 DEF Send, Goto, TypeOK, Pcs
      <3> QED
        BY <2>1, <3>1, <3>2 DEF TypeOK
    <2>5. \A f \in Execs : f # e /\ Holding(f) => exec[f].reg # r
      BY <2>1 DEF GateExclusive
    <2>6. BusyHasReg'
      BY <2>1, <2>3 DEF BusyHasReg
    <2>7. GateExclusive'
      BY <2>1, <2>3 DEF GateExclusive, Holding
    <2>8. CountMatchesRow'
      BY <2>1, <2>2 DEF CountMatchesRow
    <2>9. CountMatchesHolder'
      BY <2>1, <2>2, <2>3, <2>5 DEF CountMatchesHolder, Holding, BusyHasReg
    <2>10. AckMeansSent'
      BY <2>1, <2>2 DEF AckMeansSent, TypeOK
    <2> QED
      BY <2>4, <2>6, <2>7, <2>8, <2>9, <2>10
  <1>9. ASSUME NEW e \in Execs, NEW o, MarkSent(e, o) \/ MarkFailed(e, o) PROVE GateInv'
    <2> DEFINE r == exec[e].reg
    <2>1. /\ r \in Regs /\ Holding(e) /\ row[r].status = "sending" /\ row[r].sent_at = FALSE
          /\ exec' = [exec EXCEPT ![e] = Idle] /\ UNCHANGED sends /\ faults' \in Nat
      BY <1>2, <1>9 DEF MarkSent, MarkFailed, BusyHasReg, Holding, GateExclusive, ReturnNil,
                        ReturnError, CountMatchesRow, TypeOK
    <2>2. /\ MarkSent(e, o) => sends[r] = 1
          /\ MarkFailed(e, o) => sends[r] = 0
      BY DEF MarkSent, MarkFailed, CountMatchesHolder
    <2>3. acked' \subseteq Regs /\ \A k \in acked' : sends[k] = 1
      BY <1>9, <2>1, <2>2 DEF MarkSent, MarkFailed, ReturnNil, ReturnError, TypeOK,
                              AckMeansSent
    <2>4. \A f \in Execs : f # e /\ Holding(f) => exec[f].reg # r
      BY <2>1 DEF GateExclusive
    <2>5. \A f \in Execs : exec'[f] = IF f = e THEN Idle ELSE exec[f]
      BY <2>1 DEF TypeOK
    <2>6. /\ \A k \in Regs \ {r} : row'[k] = row[k]
          /\ \/ row'[r] = row[r]
             \/ row'[r].status = "sent" /\ row'[r].sent_at = TRUE /\ sends[r] = 1
             \/ row'[r].status = "failed" /\ row'[r].sent_at = FALSE /\ sends[r] = 0
          /\ row' \in [Regs -> [status : Statuses, sent_at : BOOLEAN]]
      <3>1. CASE MarkSent(e, o)
        BY <2>1, <2>2, <3>1 DEF MarkSent, TypeOK, Statuses
      <3>2. CASE MarkFailed(e, o)
        <4>1. row' = row \/ row' = [row EXCEPT ![r].status = "failed"]
          BY <3>2 DEF MarkFailed
        <4>2. CASE row' = row
          BY <4>2 DEF TypeOK
        <4>3. CASE row' = [row EXCEPT ![r].status = "failed"]
          <5>1. row[r] \in [status : Statuses, sent_at : BOOLEAN]
            BY <2>1 DEF TypeOK
          <5>2. /\ [row[r] EXCEPT !.status = "failed"] \in [status : Statuses, sent_at : BOOLEAN]
                /\ [row[r] EXCEPT !.status = "failed"].status = "failed"
                /\ [row[r] EXCEPT !.status = "failed"].sent_at = row[r].sent_at
            BY <5>1 DEF Statuses
          <5> QED
            BY <2>1, <2>2, <3>2, <4>3, <5>2 DEF TypeOK
        <4> QED
          BY <4>1, <4>2, <4>3
      <3> QED
        BY <1>9, <3>1, <3>2
    <2>7. TypeOK'
      BY <1>0, <2>1, <2>3, <2>6 DEF TypeOK
    <2>8. BusyHasReg' /\ CountMatchesHolder' /\ AckMeansSent'
      BY <1>0, <2>1, <2>3, <2>5 DEF BusyHasReg, CountMatchesHolder, AckMeansSent
    <2>9. GateExclusive'
      BY <1>0, <2>4, <2>5, <2>6 DEF GateExclusive, Holding, BusyHasReg
    <2>10. CountMatchesRow'
      BY <2>1, <2>6 DEF CountMatchesRow
    <2> QED
      BY <2>7, <2>8, <2>9, <2>10
  <1>10. ASSUME NEW dead \in SUBSET Execs, Stop(dead) PROVE GateInv'
    <2>1. \A f \in Execs : exec'[f] = IF f \in dead THEN Idle ELSE exec[f]
      BY <1>10 DEF Stop
    <2>2. TypeOK'
      BY <1>0, <1>2, <1>10, <2>1 DEF Stop, TypeOK
    <2>3. BusyHasReg' /\ CountMatchesHolder' /\ AckMeansSent' /\ CountMatchesRow'
      BY <1>0, <1>10, <2>1 DEF Stop, BusyHasReg, CountMatchesHolder, AckMeansSent,
                               CountMatchesRow
    <2>4. GateExclusive'
      BY <1>0, <1>10, <2>1 DEF Stop, GateExclusive, Holding
    <2> QED
      BY <2>2, <2>3, <2>4
  <1> QED
    BY <1>1, <1>5, <1>6, <1>7, <1>8, <1>9, <1>10 DEF Proceed

\* A step is one of these, and faults stay a number.
LEMMA GateStep ==
    ASSUME GateInv, [Next]_vars
    PROVE  GateInv'
  <1>1. faults \in Nat
    BY DEF GateInv, TypeOK
  <1>2. ASSUME NEW e \in Execs, Step(e)
        PROVE  faults' \in Nat /\ \E o : Proceed(e, o)
    BY <1>1, <1>2 DEF Step, Outcome
  <1>3. ASSUME NEW dead \in SUBSET Execs, Crash(dead)
        PROVE  faults' \in Nat /\ Stop(dead)
    BY <1>1, <1>3 DEF Crash
  <1> QED
    BY <1>1, <1>2, <1>3, GateKept DEF Next, vars

\* The gate's invariant holds in every reachable state.
LEMMA GateAlways == Spec => []GateInv
  BY GateInit, GateStep, PTL DEF Spec

\* The delivery rows and the executions keep their types: no statement writes a
\* status that TryStartRegistration does not know.
THEOREM DeliveryTypes == Spec => []TypeOK
  BY GateAlways, PTL DEF GateInv

\* However many executions of a registration's job run, crash or lose a write,
\* one at a time passes TryStartRegistration.
THEOREM GateIsExclusive == Spec => []GateExclusive
  BY GateAlways, PTL DEF GateInv

\* No registration is sent a second confirmation.
THEOREM OneConfirmation == Spec => []AtMostOneSend
  <1>1. ASSUME GateInv PROVE AtMostOneSend
    <2>1. \A r \in Regs : sends[r] = 0 \/ sends[r] = 1
      BY <1>1, Zenon DEF GateInv, CountMatchesRow
    <2>2. \A r \in Regs : sends[r] \in Nat
      BY <1>1 DEF GateInv, TypeOK
    <2>3. ASSUME NEW r \in Regs PROVE sends[r] <= 1
      BY <2>1, <2>2
    <2> QED
      BY <2>3 DEF AtMostOneSend
  <1> QED
    BY <1>1, GateAlways, PTL

\* execute returns nil for a confirmation job only when the confirmation is out.
THEOREM AcknowledgedIsSent == Spec => []AckMeansSent
  BY GateAlways, PTL DEF GateInv

\* A delivery recorded as sent is final.
THEOREM SentIsFinal == Spec => SentStays
  <1>1. ASSUME GateInv, [Next]_vars, NEW r \in Regs, row[r].status = "sent"
        PROVE  row'[r] = row[r]
    <2> USE <1>1 DEF GateInv
    <2>1. ASSUME NEW e \in Execs, exec[e].pc \in {"mark_sent", "mark_failed"}
          PROVE  exec[e].reg # r
      BY <2>1 DEF GateExclusive, Holding
    <2>2. ASSUME NEW e \in Execs, NEW o, MarkSent(e, o) \/ MarkFailed(e, o)
          PROVE  row'[r] = row[r]
      BY <2>1, <2>2 DEF MarkSent, MarkFailed, TypeOK
    <2>3. ASSUME NEW e \in Execs, NEW o, Insert(e, o) \/ Flip(e, o)
          PROVE  row'[r] = row[r]
      BY <2>3 DEF Insert, Flip, TypeOK
    <2> QED
      BY <2>2, <2>3 DEF Next, Step, Proceed, Begin, Look, Send, Crash, Stop, vars
  <1>2. GateInv /\ [Next]_vars =>
            [\A r \in Regs : row[r].status = "sent" => row'[r] = row[r]]_vars
    BY <1>1
  <1>3. Spec => [][\A r \in Regs : row[r].status = "sent" => row'[r] = row[r]]_vars
    BY <1>2, GateAlways, PTL DEF Spec
  <1> QED
    BY <1>3 DEF SentStays

\* The gate implements the promise of SendOnce: every step of every interleaving
\* is a delivery, an acknowledgement or invisible.
THEOREM GateImplementsSendOnce == Spec => ImplementsSendOnce
  <1>1. Init => Abstract!Init
    BY DEF Init, Abstract!Init
  <1>2. ASSUME GateInv, [Next]_vars PROVE [Abstract!Next]_<<sends, acked>>
    <2> USE <1>2 DEF GateInv
    <2>1. CASE UNCHANGED <<sends, acked>>
      BY <2>1
    <2>2. ASSUME NEW e \in Execs, NEW answer, Send(e, answer)
          PROVE  [Abstract!Next]_<<sends, acked>>
      <3> DEFINE r == exec[e].reg
      <3>1. r \in Regs /\ sends[r] = 0 /\ UNCHANGED acked
        BY <2>2 DEF Send, BusyHasReg, CountMatchesHolder
      <3>2. CASE answer # "ok"
        BY <2>2, <3>2 DEF Send
      <3>3. CASE answer = "ok"
        <4>1. sends' = [sends EXCEPT ![r] = 1]
          BY <2>2, <3>1, <3>3 DEF Send
        <4>2. Abstract!Deliver(r)
          BY <3>1, <4>1 DEF Abstract!Deliver
        <4> QED
          BY <3>1, <4>2 DEF Abstract!Next
      <3> QED
        BY <3>2, <3>3
    <2>3. ASSUME NEW e \in Execs, ReturnNil(e), UNCHANGED sends, exec[e].reg \in Regs,
                 sends[exec[e].reg] = 1
          PROVE  [Abstract!Next]_<<sends, acked>>
      <3>1. Abstract!Acknowledge(exec[e].reg)
        BY <2>3 DEF ReturnNil, Abstract!Acknowledge
      <3> QED
        BY <2>3, <3>1 DEF Abstract!Next
    <2>4. ASSUME NEW e \in Execs, NEW o, Look(e, o) PROVE [Abstract!Next]_<<sends, acked>>
      <3>1. exec[e].reg \in Regs
        BY <2>4 DEF Look, BusyHasReg
      <3>2. AlreadySent(exec[e].reg) =>
                sends[exec[e].reg] = 1
        BY <3>1 DEF CountMatchesRow, AlreadySent
      <3> QED
        BY <2>1, <2>3, <2>4, <3>1, <3>2 DEF Look, ReturnError
    <2>5. ASSUME NEW e \in Execs, NEW o, MarkSent(e, o)
          PROVE  [Abstract!Next]_<<sends, acked>>
      <3>1. exec[e].reg \in Regs /\ sends[exec[e].reg] = 1
        BY <2>5 DEF MarkSent, BusyHasReg, CountMatchesHolder
      <3> QED
        BY <2>3, <2>5, <3>1 DEF MarkSent
    <2>6. ASSUME NEW e \in Execs, NEW o, Insert(e, o) \/ Flip(e, o) \/ MarkFailed(e, o)
          PROVE  UNCHANGED <<sends, acked>>
      BY <2>6 DEF Insert, Flip, MarkFailed, ReturnError
    <2>7. ASSUME NEW e \in Execs, NEW r \in Regs, Begin(e, r)
          PROVE  UNCHANGED <<sends, acked>>
      BY <2>7 DEF Begin
    <2>8. ASSUME NEW dead, Stop(dead)
          PROVE  UNCHANGED <<sends, acked>>
      BY <2>8 DEF Stop
    <2> QED
      BY <2>1, <2>2, <2>4, <2>5, <2>6, <2>7, <2>8 DEF Next, Step, Proceed, Crash, vars
  <1> QED
    BY <1>1, <1>2, GateAlways, PTL DEF Spec, ImplementsSendOnce, Abstract!Spec
=============================================================================
