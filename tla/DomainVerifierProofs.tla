-------------------------- MODULE DomainVerifierProofs --------------------------
(***************************************************************************)
(* Proofs about DomainVerifier, for any finite number of domains and any   *)
(* bounds.                                                                 *)
(***************************************************************************)
EXTENDS DomainVerifier, FiniteSetTheorems, SequenceTheorems, TLAPS

\* The domain in the goroutine's hand was not verified when its row was read, and
\* nobody else verifies it meanwhile.
InHand == pc \in {"mark", "check", "pass", "fail"} => status[current] # "verified"

\* No handler is about a domain that has no row yet: creating one takes no signal away.
NewIsUnknown == \A d \in Domains : status[d] = "new" => handler[d] = "none"

\* The inductive invariant.
Inv == TypeOK /\ NoLostWakeup /\ InHand /\ NewIsUnknown

\* What a sweep takes is a sequence of domains: the table is finite.
LEMMA SweepSelects == \A ids \in [1..BatchSize -> Pending] : ids \in Seq(Domains)
<1>1. IsFiniteSet(Pending) BY DomainsAreFinite, FS_Subset DEF Pending
<1>2. Cardinality(Pending) \in Nat BY <1>1, FS_CardinalityType
<1>3. BatchSize \in Nat BY <1>2, BoundsAreNatural DEF BatchSize
<1>4. Pending \subseteq Domains BY DEF Pending
<1>. QED BY <1>3, <1>4

LEMMA InvInit == Init => Inv
<1>. SUFFICES ASSUME Init PROVE Inv OBVIOUS
<1>1. MaxAttempts \in Nat /\ MaxLapses \in Nat BY BoundsAreNatural
<1>2. 0 \in 0..MaxAttempts /\ 0 \in 0..MaxLapses BY <1>1
<1>3. <<>> \in Seq(Domains) OBVIOUS
<1>4. TypeOK BY <1>2, <1>3 DEF Init, TypeOK
<1>5. NoLostWakeup /\ InHand /\ NewIsUnknown
  BY DEF Init, NoLostWakeup, InHand, NewIsUnknown
<1>. QED BY <1>4, <1>5 DEF Inv

LEMMA InvNext == Inv /\ [Next]_vars => Inv'
<1>. SUFFICES ASSUME Inv, [Next]_vars PROVE Inv' OBVIOUS
<1>. <<>> \in Seq(Domains) OBVIOUS
<1>. MaxAttempts \in Nat /\ MaxLapses \in Nat BY BoundsAreNatural
<1>. USE DEF Inv, TypeOK, NoLostWakeup, InHand, NewIsUnknown
<1>1. ASSUME NEW d \in Domains, Create(d) PROVE Inv'
  <2>1. status' \in [Domains -> {"new", "pending", "verifying", "verified", "failed", "deleted"}]
    BY <1>1 DEF Create, SetStatus
  <2>2. handler' \in [Domains -> {"none", "append", "signal"}] BY <1>1 DEF Create
  <2>3. NoLostWakeup'
    BY <1>1, <2>2 DEF Create, worker
  <2>4. InHand' BY <1>1, <2>1 DEF Create, SetStatus, worker
  <2>5. NewIsUnknown' BY <1>1 DEF Create, SetStatus
  <2>. QED BY <1>1, <2>1, <2>2, <2>3, <2>4, <2>5 DEF Create, worker
<1>2. ASSUME NEW d \in Domains, Verify(d) PROVE Inv'
  <2>1. NewIsUnknown' BY <1>2 DEF Verify, row, HasRow
  <2>. QED BY <1>2, <2>1 DEF Verify, worker, row
<1>3. ASSUME NEW d \in Domains, Enter(d) PROVE Inv'
  <2>1. queue' \in Seq(Domains) BY <1>3 DEF Enter
  <2>2. handler'[d] = "signal" BY <1>3 DEF Enter
  <2>. QED BY <1>3, <2>1, <2>2 DEF Enter, worker, row
<1>4. ASSUME NEW d \in Domains, Signal(d) PROVE Inv'
  BY <1>4 DEF Signal, worker, row
<1>5. ASSUME NEW d \in Domains, Delete(d) PROVE Inv'
  BY <1>5 DEF Delete, SetStatus, worker, wake
<1>6. ASSUME NEW d \in Domains, Publish(d) \/ Withdraw(d) PROVE Inv'
  BY <1>6 DEF Publish, Withdraw, worker, wake, row
<1>7. CASE Restart
  <2>1. lapses' \in 0..MaxLapses BY <1>7 DEF Restart
  <2>2. handler' \in [Domains -> {"none", "append", "signal"}] BY <1>7 DEF Restart
  <2>. QED BY <1>7, <2>1, <2>2 DEF Restart, row
<1>8. CASE TakeSignal
  BY <1>8 DEF TakeSignal, Goto, row
<1>9. CASE DrainQueue
  BY <1>9 DEF DrainQueue, row
<1>10. CASE Sweep
  <2>1. batch' \in Seq(Domains) BY <1>10, SweepSelects DEF Sweep
  <2>. QED BY <1>10, <2>1 DEF Sweep, row, wake
<1>11. CASE TakeId
  <2>1. CASE batch = <<>> BY <1>11, <2>1 DEF TakeId, Goto, row, wake
  <2>2. CASE batch # <<>>
    <3>1. Head(batch) \in Domains /\ Tail(batch) \in Seq(Domains) BY <2>2
    <3>. QED BY <1>11, <2>2, <3>1 DEF TakeId, row, wake
  <2>. QED BY <2>1, <2>2
<1>12. CASE ReadRow
  BY <1>12 DEF ReadRow, Goto, NextId, row, wake
<1>13. CASE MarkVerifying
  <2>1. attempts' \in [Domains -> 0..MaxAttempts]
    <3>1. current \in Domains /\ attempts[current] \in 0..MaxAttempts BY <1>13 DEF MarkVerifying
    <3>2. (IF attempts[current] < MaxAttempts THEN attempts[current] + 1 ELSE attempts[current])
             \in 0..MaxAttempts
      BY <3>1
    <3>. QED BY <1>13, <3>2 DEF MarkVerifying, row
  <2>2. status' \in [Domains -> {"new", "pending", "verifying", "verified", "failed", "deleted"}]
        /\ status'[current] # "verified"
    BY <1>13 DEF MarkVerifying, row, SetStatus
  <2>4. older' \in [Domains -> SUBSET Domains] BY <1>13 DEF MarkVerifying, row
  <2>3. NewIsUnknown' BY <1>13 DEF MarkVerifying, row, SetStatus, wake
  <2>. QED BY <1>13, <2>1, <2>2, <2>3, <2>4 DEF MarkVerifying, Goto, wake
<1>14. CASE CheckRecords
  BY <1>14 DEF CheckRecords, Goto, row, wake
<1>15. CASE MarkVerified
  BY <1>15 DEF MarkVerified, SetStatus, NextId, wake
<1>16. CASE MarkFailed
  BY <1>16 DEF MarkFailed, SetStatus, NextId, wake
<1>17. CASE StatementFails
  BY <1>17 DEF StatementFails, Goto, NextId, row, wake
<1>18. CASE UNCHANGED vars
  BY <1>18 DEF vars, row, wake, worker
<1>. QED BY <1>1, <1>2, <1>3, <1>4, <1>5, <1>6, <1>7, <1>8, <1>9, <1>10, <1>11, <1>12,
            <1>13, <1>14, <1>15, <1>16, <1>17, <1>18 DEF Next, VerifyOne

LEMMA Inductive == Spec => []Inv
BY InvInit, InvNext, PTL DEF Spec

\* Every reachable state of the verifier is well typed; in particular what the goroutine
\* works on is a domain it was given (Run, sweep, verifyOne).
THEOREM TypeCorrect == Spec => []TypeOK
<1>1. Inv => TypeOK BY DEF Inv
<1>. QED BY <1>1, Inductive, PTL

\* An id that was appended to the queue is never forgotten, however handlers interleave
\* with the goroutine's receive, drain and sweep (Enqueue, Run).
THEOREM WakeupsAreNotLost == Spec => []NoLostWakeup
<1>1. Inv => NoLostWakeup BY DEF Inv
<1>. QED BY <1>1, Inductive, PTL

\* A verified domain stays verified until it is deleted: no check that is under way, was
\* queued twice or fails late takes it back (verifyOne, MarkFailed).
THEOREM VerifiedDomainsStay == Spec => VerifiedStays
<1>1. Inv /\ [Next]_vars =>
        [\A d \in Domains : status[d] = "verified" => status'[d] \in {"verified", "deleted"}]_vars
  <2>. SUFFICES ASSUME Inv, Next, NEW d \in Domains, status[d] = "verified"
                PROVE  status'[d] \in {"verified", "deleted"}
    OBVIOUS
  <2>. USE DEF Inv, TypeOK, InHand, HasRow, SetStatus, row
  <2>1. ASSUME NEW e \in Domains, Create(e) \/ Verify(e) \/ Enter(e) \/ Signal(e) \/ Delete(e)
                                  \/ Publish(e) \/ Withdraw(e)
        PROVE  status'[d] \in {"verified", "deleted"}
    BY <2>1 DEF Create, Verify, Enter, Signal, Delete, Publish, Withdraw
  <2>2. CASE Restart \/ TakeSignal \/ DrainQueue \/ Sweep \/ TakeId \/ StatementFails
    BY <2>2 DEF Restart, TakeSignal, DrainQueue, Sweep, TakeId, StatementFails
  <2>3. CASE VerifyOne
    BY <2>3 DEF VerifyOne, ReadRow, MarkVerifying, CheckRecords, MarkVerified, MarkFailed
  <2>. QED BY <2>1, <2>2, <2>3 DEF Next
<1>. QED BY <1>1, Inductive, PTL DEF Spec, VerifiedStays
=================================================================================
