--------------------------- MODULE RecordRevision ---------------------------
(***************************************************************************)
(* One record of a JetStream key-value bucket that several crawler         *)
(* instances revise at once (jetstreamrecord.Records).  A revision reads   *)
(* the record with its revision number, computes the new record, and       *)
(* writes it only if the number still stands; a writer that lost the race  *)
(* pauses and starts over, ContendedAttempts times at most.                *)
(*                                                                         *)
(* The record here is the page count of one host of one order              *)
(* (page_visit_limits.go): each writer asks for one page and Limit bounds  *)
(* them.  With Limit = 1 it is equally the record that says which message  *)
(* took a page visit (taken_page_visits.go).                               *)
(***************************************************************************)
EXTENDS Naturals, FiniteSets

CONSTANTS
    Writers,            \* page visits that ask for a page of the host
    Limit,              \* maxPages of the order's profile
    ContendedAttempts,  \* const contendedAttempts
    MaxFailures         \* bound of the model: broker failures in a behavior

ASSUME LimitAssumption == Limit \in Nat
ASSUME AttemptsAssumption == ContendedAttempts \in Nat \ {0}
ASSUME FailuresAssumption == MaxFailures \in Nat
ASSUME WritersAssumption == IsFiniteSet(Writers)

VARIABLES
    pages,      \* the record's value
    revision,   \* the bucket's revision of the record; 0 while it is absent
    stage,      \* how far each writer's Revise has come
    seen,       \* the value and the revision each writer read
    attempts,   \* how often each writer lost the race in its current Revise
    unanswered, \* writes the bucket made whose answer never came back
    failures    \* broker failures so far

vars == <<pages, revision, stage, seen, attempts, unanswered, failures>>

Stages == {"reading", "writing", "granted", "refused", "failed"}

\* A writer reads the record before it has read anything else.
NothingSeen == [pages |-> 0, revision |-> 0]

Granted == {w \in Writers : stage[w] = "granted"}

TypeOK ==
    /\ pages \in Nat
    /\ revision \in Nat
    /\ stage \in [Writers -> Stages]
    /\ seen \in [Writers -> [pages : Nat, revision : Nat]]
    /\ attempts \in [Writers -> 0 .. ContendedAttempts]
    /\ unanswered \in Nat
    /\ failures \in Nat

Init ==
    /\ pages = 0
    /\ revision = 0
    /\ stage = [w \in Writers |-> "reading"]
    /\ seen = [w \in Writers |-> NothingSeen]
    /\ attempts = [w \in Writers |-> 0]
    /\ unanswered = 0
    /\ failures = 0

----------------------------------------------------------------------------
\* standingRecordAt and the revise function: a record at its limit is left as
\* it stands and the writer is refused.
Read(w) ==
    /\ stage[w] = "reading"
    /\ seen' = [seen EXCEPT ![w] = [pages |-> pages, revision |-> revision]]
    /\ stage' = [stage EXCEPT ![w] = IF pages >= Limit THEN "refused" ELSE "writing"]
    /\ UNCHANGED <<pages, revision, attempts, unanswered, failures>>

\* Mutated form of RevisionStands: an unconditional put.
RevisionIgnored(w) == TRUE

\* The bucket takes a write made against the revision that still stands.
RevisionStands(w) == seen[w].revision = revision

WriteRecord(w) ==
    /\ stage[w] = "writing"
    /\ RevisionStands(w)
    /\ pages' = seen[w].pages + 1
    /\ revision' = revision + 1

Write(w) ==
    /\ WriteRecord(w)
    /\ stage' = [stage EXCEPT ![w] = "granted"]
    /\ UNCHANGED <<seen, attempts, unanswered, failures>>

\* The write is made but its answer is lost, so Revise reports a failure.
WriteUnanswered(w) ==
    /\ failures < MaxFailures
    /\ WriteRecord(w)
    /\ stage' = [stage EXCEPT ![w] = "failed"]
    /\ unanswered' = unanswered + 1
    /\ failures' = failures + 1
    /\ UNCHANGED <<seen, attempts>>

\* Mutated form of Contended: a lost race taken for a write.
ContendedTakenForWrite(w) ==
    /\ stage[w] = "writing"
    /\ ~RevisionStands(w)
    /\ attempts' = [attempts EXCEPT ![w] = @ + 1]
    /\ stage' = [stage EXCEPT ![w] = "granted"]
    /\ UNCHANGED <<pages, revision, seen, unanswered, failures>>

\* Another writer changed the record first: pause and start over, or give up
\* after the last attempt.
Contended(w) ==
    /\ stage[w] = "writing"
    /\ ~RevisionStands(w)
    /\ attempts' = [attempts EXCEPT ![w] = @ + 1]
    /\ stage' = [stage EXCEPT ![w] =
                    IF attempts[w] + 1 < ContendedAttempts THEN "reading" ELSE "failed"]
    /\ UNCHANGED <<pages, revision, seen, unanswered, failures>>

\* A read or a write the broker refuses fails the revision without a trace.
Fail(w) ==
    /\ failures < MaxFailures
    /\ stage[w] \in {"reading", "writing"}
    /\ stage' = [stage EXCEPT ![w] = "failed"]
    /\ failures' = failures + 1
    /\ UNCHANGED <<pages, revision, seen, attempts, unanswered>>

\* The message behind the failed revision is redelivered and asks again.
Redelivered(w) ==
    /\ stage[w] = "failed"
    /\ stage' = [stage EXCEPT ![w] = "reading"]
    /\ attempts' = [attempts EXCEPT ![w] = 0]
    /\ UNCHANGED <<pages, revision, seen, unanswered, failures>>

----------------------------------------------------------------------------
Step(w) == \/ Read(w)
           \/ Write(w)
           \/ Contended(w)
           \/ Redelivered(w)

\* Every request has been answered: no writer has a revision left to make.
AllAnswered == \A w \in Writers : stage[w] \in {"granted", "refused"}

Answered == AllAnswered /\ UNCHANGED vars

Next ==
    \/ \E w \in Writers : \/ Step(w)
                          \/ WriteUnanswered(w)
                          \/ Fail(w)
    \/ Answered

Spec == Init /\ [][Next]_vars

----------------------------------------------------------------------------
\* However the writers interleave, the count never passes the limit
\* (pageWithinHostLimit).
LimitHolds == pages <= Limit

\* No update is lost: the record counts every writer that was told it took a
\* page, and beyond those only the writes whose answer was lost.
EveryGrantCounted == pages = Cardinality(Granted) + unanswered

\* A writer is only ever refused once the limit is used up, however long ago
\* it read the record.
RefusedOnlyWhenUsedUp ==
    (\E w \in Writers : stage[w] = "refused") => pages = Limit

\* The revision as a caller sees it: one step that takes a page or refuses it.
Allowance == INSTANCE PageAllowance WITH taken <- pages, granted <- Granted,
    refused <- {w \in Writers : stage[w] = "refused"}

\* The revisions implement the atomic allowance.
ImplementsAllowance == Allowance!Spec
=============================================================================
