----------------------------- MODULE VaultEngine -----------------------------
(***************************************************************************)
(* The transactions of the vault over its two storage engines.  pebblevault *)
(* takes one writer at a time and stages what it writes in a batch of its   *)
(* own; boltvault lets the database merge the calls that wait into one      *)
(* transaction, which starts over without a call whose closure fails, so a  *)
(* closure may run more than once.  Reads are of a snapshot.  Callbacks     *)
(* that a closure leaves for after the commit run when the commit is known. *)
(*                                                                          *)
(* The closures modelled are those of a caller that keeps two buckets       *)
(* together: a closure adds its entry to the log and counts it, or takes    *)
(* the entry it has out again.  A value is a number, as long as it is large.*)
(***************************************************************************)
EXTENDS Integers, FiniteSets, SequencesExt

CONSTANTS
    Writers, Readers,
    Total,         \* the key of the count
    None,          \* no value, no transaction, no view
    MaxCalls,      \* bound of the model: Update calls
    MaxCrashes     \* bound of the model

VARIABLES
    engine,     \* the engine the vault is opened with
    stored,     \* what is committed
    waiting,    \* calls the database has not put into a batch yet (bolt)
    groups,     \* groups of calls that wait for the write lock
    txn,        \* the write transaction, or None
    call,       \* where the Update call of each writer is
    calls,      \* Update calls made
    told,       \* callbacks that ran
    view,       \* the snapshot each reader reads, and what it read, or None
    crashes

vaultVars == <<engine, stored, waiting, groups, txn, call, calls, told, view, crashes>>

----------------------------------------------------------------------------
Buckets == {"count", "log"}
Keys == Writers \cup {Total}
KeyLength == 1
InLog == 0     \* the value of an entry of the log: it is as good as empty


\* A store: the entries of each bucket, and the tally kept beside them.
Store ==
    [entries : [Buckets -> [Keys -> Int \cup {None}]],
     tally   : [Buckets -> [entries : Int, bytes : Int]]]

ClosureSteps == {"read", "count", "note", "return"}

Groups == [calls : Seq(Writers), solo : BOOLEAN]

Transactions ==
    [group : Groups, at : Nat, step : ClosureSteps, seen : Int, staged : Store]

ViewsOf(contents) == [of : contents, read : Seq(Int)]

Holdings == [log : SUBSET Writers, count : Int, entries : Int]

ASSUME VaultAssumption ==
    /\ IsFiniteSet(Writers) /\ Total \notin Writers
    /\ MaxCalls \in Nat /\ MaxCrashes \in Nat
    /\ None \notin Int \cup Transactions \cup ViewsOf(Store) \cup ViewsOf(Holdings)

EmptyStore ==
    [entries |-> [b \in Buckets |-> [k \in Keys |-> None]],
     tally   |-> [b \in Buckets |-> [entries |-> 0, bytes |-> 0]]]

\* A record is a header and the payload.
RecordLength(value) == 1 + value

Larger(a, b) == IF a < b THEN b ELSE a

\* bolt keeps the number of a bucket's entries, pebble their bytes too.
AdjustedBy(tally, entries, bytes) ==
    [entries |-> Larger(tally.entries + entries, 0),
     bytes   |-> IF engine = "pebble" THEN Larger(tally.bytes + bytes, 0) ELSE 0]

\* A mutant: an entry whose payload is empty is taken for none.
HasPayload(value) == value # None /\ value # 0

IsHeld(value) == value # None

Put(store, b, k, new) ==
    LET old == store.entries[b][k] IN
    [entries |-> [store.entries EXCEPT ![b] = [@ EXCEPT ![k] = new]],
     tally   |-> [store.tally EXCEPT ![b] =
                    IF IsHeld(old) THEN AdjustedBy(@, 0, RecordLength(new) - RecordLength(old))
                                   ELSE AdjustedBy(@, 1, KeyLength + RecordLength(new))]]

Delete(store, b, k) ==
    LET old == store.entries[b][k] IN
    IF ~IsHeld(old) THEN store
    ELSE [entries |-> [store.entries EXCEPT ![b] = [@ EXCEPT ![k] = None]],
          tally   |-> [store.tally EXCEPT ![b] =
                         AdjustedBy(@, -1, -(KeyLength + RecordLength(old)))]]

CountIn(store) ==
    IF IsHeld(store.entries["count"][Total]) THEN store.entries["count"][Total] ELSE 0

LogIn(store) == {w \in Writers : IsHeld(store.entries["log"][w])}

----------------------------------------------------------------------------
\* A call that is not under way, one that waits for its closure to run, one
\* whose closure ran in the transaction, one that is committed.
Stages == {"idle", "called", "ran", "committed"}

NoCall == [stage |-> "idle", callbacks |-> 0]

VaultInit ==
    /\ engine \in {"pebble", "bolt"}
    /\ stored = EmptyStore
    /\ waiting = <<>> /\ groups = {} /\ txn = None
    /\ call = [w \in Writers |-> NoCall]
    /\ calls = 0 /\ told = [w \in Writers |-> 0]
    /\ view = [r \in Readers |-> None]
    /\ crashes = 0

\* Vault.Update reaches the engine: a pebble writer waits for the mutex, a bolt
\* writer for the batch to fill or its delay to end.
VaultCall(w) ==
    /\ call[w].stage = "idle" /\ calls < MaxCalls
    /\ call' = [call EXCEPT ![w].stage = "called"]
    /\ calls' = calls + 1
    /\ \/ /\ engine = "pebble"
          /\ groups' = groups \cup {[calls |-> <<w>>, solo |-> TRUE]}
          /\ UNCHANGED waiting
       \/ /\ engine = "bolt"
          /\ waiting' = Append(waiting, w)
          /\ UNCHANGED groups
    /\ UNCHANGED <<engine, stored, txn, told, view, crashes>>

TriggerBatch ==
    /\ waiting # <<>>
    /\ groups' = groups \cup {[calls |-> waiting, solo |-> FALSE]}
    /\ waiting' = <<>>
    /\ UNCHANGED <<engine, stored, txn, call, calls, told, view, crashes>>

\* The context of the caller is done by the time it has the mutex: its closure is
\* not called.
ContextDone(w) ==
    /\ engine = "pebble" /\ txn = None
    /\ [calls |-> <<w>>, solo |-> TRUE] \in groups
    /\ groups' = groups \ {[calls |-> <<w>>, solo |-> TRUE]}
    /\ call' = [call EXCEPT ![w] = NoCall]
    /\ UNCHANGED <<engine, stored, waiting, txn, calls, told, view, crashes>>

BeginWrite(g) ==
    /\ txn = None /\ g \in groups
    /\ groups' = groups \ {g}
    /\ txn' = [group |-> g, at |-> 1, step |-> "read", seen |-> 0, staged |-> stored]
    /\ UNCHANGED <<engine, stored, waiting, call, calls, told, view, crashes>>

\* The writer whose closure runs, in the transaction that is staged.
Running == txn.group.calls[txn.at]

InClosure(step) == txn # None /\ txn.at <= Len(txn.group.calls) /\ txn.step = step

ReadCount ==
    /\ InClosure("read")
    /\ txn' = [txn EXCEPT !.seen = CountIn(txn.staged), !.step = "count"]
    /\ UNCHANGED <<engine, stored, waiting, groups, call, calls, told, view, crashes>>

PutCount ==
    /\ InClosure("count")
    /\ LET change == IF Running \in LogIn(txn.staged) THEN -1 ELSE 1 IN
       txn' = [txn EXCEPT !.staged = Put(@, "count", Total, txn.seen + change),
                          !.step = "note"]
    /\ UNCHANGED <<engine, stored, waiting, groups, call, calls, told, view, crashes>>

PutEntry ==
    /\ InClosure("note")
    /\ txn' = [txn EXCEPT
          !.staged = IF Running \in LogIn(@) THEN Delete(@, "log", Running)
                     ELSE Put(@, "log", Running, InLog),
          !.step = "return"]
    /\ UNCHANGED <<engine, stored, waiting, groups, call, calls, told, view, crashes>>

\* A mutant: callbacks of a run that was rolled back are kept for the next.
KeptCallbacks(w) == call[w].callbacks + 1

\* The callbacks a run that returned left behind, in place of an earlier run's.
LeftCallbacks(w) == 1

ClosureReturns ==
    /\ InClosure("return")
    /\ call' = [call EXCEPT ![Running] =
                  [stage |-> "ran", callbacks |-> LeftCallbacks(Running)]]
    /\ txn' = [txn EXCEPT !.at = @ + 1, !.step = "read"]
    /\ UNCHANGED <<engine, stored, waiting, groups, calls, told, view, crashes>>

\* A closure that fails alone is rolled back and its caller told.  In a batch the
\* others start over without it, the last of them in its place, and it runs again
\* by itself.
ClosureFails ==
    LET group == txn.group.calls
        rest == [i \in 1 .. Len(group) - 1 |-> IF i = txn.at THEN group[Len(group)] ELSE group[i]]
    IN
    /\ \E step \in ClosureSteps : InClosure(step)
    /\ txn' = None
    /\ IF txn.group.solo
       THEN /\ call' = [call EXCEPT ![Running] = NoCall]
            /\ UNCHANGED groups
       ELSE /\ call' = [w \in Writers |->
                  IF w = Running
                  THEN [stage |-> "called",
                        callbacks |-> IF txn.step = "return" THEN LeftCallbacks(w) ELSE 0]
                  ELSE IF w \in Range(rest) THEN [call[w] EXCEPT !.stage = "called"] ELSE call[w]]
            /\ groups' = groups \cup {[calls |-> <<Running>>, solo |-> TRUE]}
                               \cup {g \in {[calls |-> rest, solo |-> FALSE]} : rest # <<>>}
    /\ UNCHANGED <<engine, stored, waiting, calls, told, view, crashes>>

AllRan == txn # None /\ txn.at > Len(txn.group.calls)

\* What is staged is stored, whole and durable.
Commit ==
    /\ AllRan
    /\ stored' = txn.staged
    /\ txn' = None
    /\ call' = [w \in Writers |-> IF call[w].stage = "ran"
                                  THEN [call[w] EXCEPT !.stage = "committed"] ELSE call[w]]
    /\ UNCHANGED <<engine, waiting, groups, calls, told, view, crashes>>

\* The storage refuses what is staged: every call in it gets the error.
CommitRefused ==
    /\ AllRan
    /\ txn' = None
    /\ call' = [w \in Writers |-> IF call[w].stage = "ran" THEN NoCall ELSE call[w]]
    /\ UNCHANGED <<engine, stored, waiting, groups, calls, told, view, crashes>>

\* Vault.Update goes on in its caller, when others may have the lock: it runs the
\* callbacks and returns.
RunAfterCommit(w) ==
    /\ call[w].stage = "committed"
    /\ told' = [told EXCEPT ![w] = @ + call[w].callbacks]
    /\ call' = [call EXCEPT ![w] = NoCall]
    /\ UNCHANGED <<engine, stored, waiting, groups, txn, calls, view, crashes>>

----------------------------------------------------------------------------
\* Reads: the count first and the length of the log after it.

OpenView(r) ==
    /\ view[r] = None
    /\ view' = [view EXCEPT ![r] = [of |-> stored, read |-> <<>>]]
    /\ UNCHANGED <<engine, stored, waiting, groups, txn, call, calls, told, crashes>>

ReadInView(r) ==
    /\ view[r] # None
    /\ \/ /\ Len(view[r].read) = 0
          /\ view' = [view EXCEPT ![r].read = Append(@, CountIn(view[r].of))]
       \/ /\ Len(view[r].read) = 1
          /\ view' = [view EXCEPT ![r].read = Append(@, view[r].of.tally["log"].entries)]
    /\ UNCHANGED <<engine, stored, waiting, groups, txn, call, calls, told, crashes>>

CloseView(r) ==
    /\ view[r] # None /\ Len(view[r].read) = 2
    /\ view' = [view EXCEPT ![r] = None]
    /\ UNCHANGED <<engine, stored, waiting, groups, txn, call, calls, told, crashes>>

----------------------------------------------------------------------------
\* The process ends: what is committed stays, and nobody is told any more.
Crash ==
    /\ crashes < MaxCrashes
    /\ crashes' = crashes + 1
    /\ waiting' = <<>> /\ groups' = {} /\ txn' = None
    /\ call' = [w \in Writers |-> NoCall]
    /\ view' = [r \in Readers |-> None]
    /\ UNCHANGED <<engine, stored, calls, told>>

VaultNext ==
    \/ \E w \in Writers : VaultCall(w) \/ ContextDone(w) \/ RunAfterCommit(w)
    \/ \E g \in groups : BeginWrite(g)
    \/ TriggerBatch
    \/ ReadCount \/ PutCount \/ PutEntry \/ ClosureReturns \/ ClosureFails
    \/ Commit \/ CommitRefused
    \/ \E r \in Readers : OpenView(r) \/ ReadInView(r) \/ CloseView(r)
    \/ Crash

VaultSpec == VaultInit /\ [][VaultNext]_vaultVars

----------------------------------------------------------------------------
HeldBy(store) ==
    [log |-> LogIn(store), count |-> CountIn(store), entries |-> store.tally["log"].entries]

Pending == {w \in Writers : call[w].stage \in {"called", "ran"}}

Owed == {w \in Writers : call[w].stage = "committed"}

Snapshots ==
    [r \in Readers |-> IF view[r] = None THEN None ELSE [view[r] EXCEPT !.of = HeldBy(@)]]

Promise == INSTANCE AtomicVault WITH
    contents <- HeldBy(stored), pending <- Pending, owed <- Owed, view <- Snapshots

\* Whatever the engine merges, starts over, rolls back or loses in a crash: calls
\* take effect whole and once, the count and the tally agree with the log, and the
\* callbacks of a call run once, of the run of its closure that was committed; and
\* what a view reads was stored at one moment.
ImplementsAtomicVault == Promise!Spec

RecordsIn(store, b) == {k \in Keys : store.entries[b][k] # None}

\* The bytes of the records, one by one.
BytesIn(store, b) ==
    UNION {{k} \X (1 .. KeyLength + RecordLength(store.entries[b][k])) :
              k \in RecordsIn(store, b)}

\* The bytes UsedBytes adds up, by which the node evicts, are those of the records
\* held, also while a transaction writes: empty payloads, overwritten values and
\* deleted keys are counted as what they are.
TalliesAgree ==
    LET stores == {stored} \cup {t.staged : t \in {txn} \ {None}} IN
    \A store \in stores, b \in Buckets :
        store.tally[b] = [entries |-> Cardinality(RecordsIn(store, b)),
                          bytes |-> IF engine = "pebble" THEN Cardinality(BytesIn(store, b)) ELSE 0]
=============================================================================
