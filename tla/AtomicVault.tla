---------------------------- MODULE AtomicVault -----------------------------
(***************************************************************************)
(* What the vault promises a caller that keeps two buckets together: the   *)
(* calls under way take effect whole, one after the other, at a moment at   *)
(* which the storage takes them; a call is told of its effect at most once  *)
(* and only after it; a reader sees the vault of one moment.  A crash       *)
(* forgets who was to be told, never what took effect.                      *)
(***************************************************************************)
EXTENDS Integers, FiniteSets, Sequences

CONSTANTS Writers, Readers, None

VARIABLES
    contents,   \* what the buckets hold
    pending,    \* writers whose call is under way
    owed,       \* writers whose call took effect and who are not told yet
    told,       \* how often each writer was told
    view        \* the contents each reader reads of and what it read, or None

vars == <<contents, pending, owed, told, view>>

\* The buckets of a log: its entries, how many the caller counted, and how many
\* the vault did.
Holding(log) ==
    [log |-> log, count |-> Cardinality(log), entries |-> Cardinality(log)]

Init ==
    /\ contents = Holding({})
    /\ pending = {} /\ owed = {}
    /\ told = [w \in Writers |-> 0]
    /\ view = [r \in Readers |-> None]

Ask(w) ==
    /\ w \notin pending \cup owed
    /\ pending' = pending \cup {w}
    /\ UNCHANGED <<contents, owed, told, view>>

Refuse(W) ==
    /\ W \subseteq pending
    /\ pending' = pending \ W
    /\ UNCHANGED <<contents, owed, told, view>>

TakeEffect(W) ==
    /\ W \subseteq pending
    /\ contents' = Holding((contents.log \ W) \cup (W \ contents.log))
    /\ pending' = pending \ W
    /\ owed' = owed \cup W
    /\ UNCHANGED <<told, view>>

Tell(w) ==
    /\ w \in owed
    /\ owed' = owed \ {w}
    /\ told' = [told EXCEPT ![w] = @ + 1]
    /\ UNCHANGED <<contents, pending, view>>

StartReading(r) ==
    /\ view[r] = None
    /\ view' = [view EXCEPT ![r] = [of |-> contents, read |-> <<>>]]
    /\ UNCHANGED <<contents, pending, owed, told>>

\* However often it reads the size of the log, it is that of one moment.
Read(r) ==
    /\ view[r] # None
    /\ view' = [view EXCEPT ![r].read = Append(@, Cardinality(view[r].of.log))]
    /\ UNCHANGED <<contents, pending, owed, told>>

EndReading(r) ==
    /\ view[r] # None
    /\ view' = [view EXCEPT ![r] = None]
    /\ UNCHANGED <<contents, pending, owed, told>>

Crash ==
    /\ pending' = {} /\ owed' = {}
    /\ view' = [r \in Readers |-> None]
    /\ UNCHANGED <<contents, told>>

Next ==
    \/ \E w \in Writers : Ask(w) \/ Tell(w)
    \/ \E W \in SUBSET Writers : Refuse(W) \/ TakeEffect(W)
    \/ \E r \in Readers : StartReading(r) \/ Read(r) \/ EndReading(r)
    \/ Crash

Spec == Init /\ [][Next]_vars
=============================================================================
