---------------------------- MODULE DomainVerifier ----------------------------
(***************************************************************************)
(* The DNS verification of domains: the rows' dns_status, the queue that   *)
(* API handlers append to, the signal channel of capacity one, and the     *)
(* one goroutine that drains the queue or sweeps the table every minute.   *)
(* Handlers and the goroutine interleave at the mutex, at the channel and  *)
(* at every database statement; a statement may fail, and the server may   *)
(* stop between any two.                                                   *)
(*                                                                         *)
(* A domain id is never used again, so a deleted domain stays deleted.     *)
(***************************************************************************)
EXTENDS Naturals, Sequences, FiniteSets, SequencesExt

CONSTANTS Domains, None,
          MaxAttempts,   \* verification_attempts from which sweeps pass a domain by
          Limit,         \* domains that a sweep takes at most
          Askers,        \* bound: the domains whose owners ask for a Verify
          MaxQueue,      \* bound: nobody asks for a Verify while the queue is this long
          MaxLapses      \* bound: how often a statement fails or the server is restarted

ASSUME NoneIsNoDomain == None \notin Domains
ASSUME DomainsAreFinite == IsFiniteSet(Domains)   \* the rows of a table
ASSUME BoundsAreNatural == {MaxAttempts, Limit, MaxQueue, MaxLapses} \subseteq Nat

VARIABLES
    status,     \* dns_status; "new" before the row, "deleted" after it
    attempts,   \* verification_attempts, up to MaxAttempts
    older,      \* verification_attempted_at: the domains whose last attempt, if they had one,
                \* was before the domain's
    published,  \* domains whose record is in the DNS
    handler,    \* the API handler that enqueues the domain: "none", "append", "signal"
    queue,      \* v.queue
    signal,     \* v.signal holds a value
    batch,      \* the ids drainQueue or sweep still has to go through
    current,    \* the id verifyOne works on
    pc,         \* where the goroutine is
    lapses      \* failed statements and restarts of the server so far

row == <<status, attempts, older>>
wake == <<handler, queue, signal>>
worker == <<batch, current, pc>>
vars == <<row, published, wake, worker, lapses>>

TypeOK ==
    /\ status \in [Domains -> {"new", "pending", "verifying", "verified", "failed", "deleted"}]
    /\ attempts \in [Domains -> 0..MaxAttempts]
    /\ older \in [Domains -> SUBSET Domains]
    /\ published \in SUBSET Domains
    /\ handler \in [Domains -> {"none", "append", "signal"}]
    /\ queue \in Seq(Domains) /\ batch \in Seq(Domains)
    /\ signal \in BOOLEAN
    /\ pc \in {"select", "swap", "next", "read", "mark", "check", "pass", "fail"}
    /\ current \in IF pc \in {"select", "swap", "next"} THEN {None} ELSE Domains
    /\ pc \in {"select", "swap"} => batch = <<>>
    /\ lapses \in 0..MaxLapses

Init == /\ status = [d \in Domains |-> "new"]
        /\ attempts = [d \in Domains |-> 0]
        /\ older = [d \in Domains |-> {}]
        /\ published = {}
        /\ handler = [d \in Domains |-> "none"]
        /\ queue = <<>> /\ signal = FALSE
        /\ batch = <<>> /\ current = None /\ pc = "select"
        /\ lapses = 0

HasRow(d) == status[d] \notin {"new", "deleted"}
SetStatus(d, s) == status' = [status EXCEPT ![d] = s]

-----------------------------------------------------------------------------
(* The API handlers and the outside.                                       *)

Create(d) == /\ status[d] = "new"
             /\ SetStatus(d, "pending")
             /\ handler' = [handler EXCEPT ![d] = "append"]
             /\ UNCHANGED <<attempts, older, published, queue, signal, worker, lapses>>

Verify(d) == /\ HasRow(d) /\ d \in Askers /\ handler[d] = "none" /\ Len(queue) < MaxQueue
             /\ handler' = [handler EXCEPT ![d] = "append"]
             /\ UNCHANGED <<row, published, queue, signal, worker, lapses>>

\* Enqueue under the mutex, ...
Enter(d) == /\ handler[d] = "append"
            /\ queue' = Append(queue, d)
            /\ handler' = [handler EXCEPT ![d] = "signal"]
            /\ UNCHANGED <<row, published, signal, worker, lapses>>

\* Faulty variant: no signal while the goroutine is at work.
SignalIfIdle(d) == /\ handler[d] = "signal"
                   /\ signal' = (signal \/ pc = "select")
                   /\ handler' = [handler EXCEPT ![d] = "none"]
                   /\ UNCHANGED <<row, published, queue, worker, lapses>>

\* ... and the signal after it, dropped if one is waiting already.
Signal(d) == /\ handler[d] = "signal"
             /\ signal' = TRUE
             /\ handler' = [handler EXCEPT ![d] = "none"]
             /\ UNCHANGED <<row, published, queue, worker, lapses>>

Delete(d) == /\ HasRow(d)
             /\ SetStatus(d, "deleted")
             /\ UNCHANGED <<attempts, older, published, wake, worker, lapses>>

\* The owner, who has the token from the row, adds the record or takes it out.
Publish(d) == /\ HasRow(d)
              /\ published' = published \cup {d}
              /\ UNCHANGED <<row, wake, worker, lapses>>
Withdraw(d) == /\ HasRow(d)
               /\ published' = published \ {d}
               /\ UNCHANGED <<row, wake, worker, lapses>>

\* The server stops and is started again: the rows are all that is left.
Restart == /\ lapses < MaxLapses
           /\ lapses' = lapses + 1
           /\ handler' = [d \in Domains |-> "none"]
           /\ queue' = <<>> /\ signal' = FALSE
           /\ batch' = <<>> /\ current' = None /\ pc' = "select"
           /\ UNCHANGED <<row, published>>

-----------------------------------------------------------------------------
(* The goroutine.                                                          *)

Goto(p) == pc' = p /\ UNCHANGED <<batch, current>>
NextId == pc' = "next" /\ current' = None /\ UNCHANGED batch

TakeSignal == /\ pc = "select" /\ signal
              /\ signal' = FALSE
              /\ Goto("swap")
              /\ UNCHANGED <<row, published, handler, queue, lapses>>

DrainQueue == /\ pc = "swap"
              /\ batch' = queue /\ queue' = <<>>
              /\ pc' = "next" /\ UNCHANGED current
              /\ UNCHANGED <<row, published, handler, signal, lapses>>

\* PendingDomains: a limited number, the oldest attempt first, and before it, in any order,
\* the domains that had none.
Pending == {d \in Domains : status[d] \in {"pending", "failed"} /\ attempts[d] < MaxAttempts}
BatchSize == IF Cardinality(Pending) < Limit THEN Cardinality(Pending) ELSE Limit
OldestFirst(ids) ==
    \A i \in DOMAIN ids : older[ids[i]] \cap Pending \subseteq {ids[j] : j \in 1..(i - 1)}

Sweep == /\ pc = "select"
         /\ \E ids \in [1..BatchSize -> Pending] :
               IsInjective(ids) /\ OldestFirst(ids) /\ batch' = ids
         /\ pc' = "next" /\ UNCHANGED current
         /\ UNCHANGED <<row, published, wake, lapses>>

TakeId == /\ pc = "next"
          /\ IF batch = <<>>
             THEN Goto("select")
             ELSE batch' = Tail(batch) /\ current' = Head(batch) /\ pc' = "read"
          /\ UNCHANGED <<row, published, wake, lapses>>

\* Faulty variant: a verified domain is checked again.
ReadRowAny == /\ pc = "read"
              /\ IF HasRow(current) THEN Goto("mark") ELSE NextId
              /\ UNCHANGED <<row, published, wake, lapses>>

\* Faulty variant: a domain that is being verified is left to whoever does it.
ReadRowUnclaimed == /\ pc = "read"
                    /\ IF status[current] \in {"pending", "failed"} THEN Goto("mark") ELSE NextId
                    /\ UNCHANGED <<row, published, wake, lapses>>

ReadRow == /\ pc = "read"
           /\ IF HasRow(current) /\ status[current] # "verified" THEN Goto("mark") ELSE NextId
           /\ UNCHANGED <<row, published, wake, lapses>>

MarkVerifying == /\ pc = "mark"
                 /\ IF status[current] \in {"pending", "failed"}
                    THEN /\ SetStatus(current, "verifying")
                         /\ attempts' = [attempts EXCEPT ![current] =
                                           IF @ < MaxAttempts THEN @ + 1 ELSE @]
                         /\ older' = [d \in Domains |-> IF d = current THEN Domains \ {d}
                                                        ELSE older[d] \ {current}]
                    ELSE UNCHANGED row
                 /\ Goto("check")
                 /\ UNCHANGED <<published, wake, lapses>>

\* checkRecords.  A lookup that fails counts as a record not found, as if the record had
\* been withdrawn and published again.
CheckRecords == /\ pc = "check"
                /\ Goto(IF current \in published THEN "pass" ELSE "fail")
                /\ UNCHANGED <<row, published, wake, lapses>>

MarkVerified == /\ pc = "pass"
                /\ IF HasRow(current) THEN SetStatus(current, "verified") ELSE UNCHANGED status
                /\ NextId
                /\ UNCHANGED <<attempts, older, published, wake, lapses>>

\* Faulty variant: a failed check leaves the status alone.
MarkFailedNot == /\ pc = "fail"
                 /\ NextId
                 /\ UNCHANGED <<row, published, wake, lapses>>

MarkFailed == /\ pc = "fail"
              /\ IF HasRow(current) THEN SetStatus(current, "failed") ELSE UNCHANGED status
              /\ NextId
              /\ UNCHANGED <<attempts, older, published, wake, lapses>>

\* A statement fails: verifyOne returns, but for MarkVerifying, whose error it drops
\* before it goes on to the check.  (A sweep that fails does nothing.)
StatementFails == /\ lapses < MaxLapses
                  /\ lapses' = lapses + 1
                  /\ \/ pc = "mark" /\ Goto("check")
                     \/ pc \in {"read", "pass", "fail"} /\ NextId
                  /\ UNCHANGED <<row, published, wake>>

VerifyOne == ReadRow \/ MarkVerifying \/ CheckRecords \/ MarkVerified \/ MarkFailed

Next == \/ \E d \in Domains : \/ Create(d) \/ Verify(d) \/ Enter(d) \/ Signal(d)
                              \/ Delete(d) \/ Publish(d) \/ Withdraw(d)
        \/ Restart
        \/ TakeSignal \/ DrainQueue \/ Sweep \/ TakeId \/ VerifyOne
        \/ StatementFails

Spec == Init /\ [][Next]_vars

\* Handlers and the goroutine go on; select chooses at random among the cases that
\* are ready, so neither the ticker nor the signal is passed over for ever.
Fairness == /\ \A d \in Domains : WF_vars(Enter(d)) /\ WF_vars(Signal(d))
            /\ SF_vars(TakeSignal) /\ SF_vars(Sweep)
            /\ WF_vars(DrainQueue) /\ WF_vars(TakeId) /\ WF_vars(VerifyOne)

FairSpec == Spec /\ Fairness

-----------------------------------------------------------------------------
(* Correctness.                                                            *)

\* An id in the queue is never forgotten: a signal is there, or about to be sent, or
\* has been received for it.
NoLostWakeup ==
    queue # <<>> => \/ signal
                    \/ pc = "swap"
                    \/ \E d \in Domains : handler[d] = "signal"

\* A verified domain stays so until it is deleted, whatever checks are under way.
VerifiedStays ==
    [][\A d \in Domains : status[d] = "verified" => status'[d] \in {"verified", "deleted"}]_vars

\* A record that stays published gets its domain verified by the sweeps alone, whatever
\* other domains wait for them, if it is there before the attempts have run out, however
\* queue, sweeps, failed statements and restarts interleave: but for a row that a lapse
\* leaves "verifying", which no sweep takes.
Done(d) == status[d] \in {"verified", "deleted"}
Stranded(d) == status[d] = "verifying" /\ current # d /\ lapses > 0
PublishedIsVerified ==
    \A d \in Domains :
        []([](d \in published) /\ HasRow(d) /\ attempts[d] < MaxAttempts =>
               <>Done(d) \/ <>[]Stranded(d))

\* An owner who goes on asking gets the domain verified once its record stays published,
\* whatever its row was left in by a restart and even when its attempts have run out.
AskedIsVerified ==
    \A d \in Domains :
        <>[](d \in published) /\ []<>(handler[d] = "append") =>
            [](HasRow(d) => <>Done(d))
==============================================================================
