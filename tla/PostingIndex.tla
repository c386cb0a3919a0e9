---------------------------- MODULE PostingIndex ----------------------------
(* The stored postings (rwipostings) and the projection that lists the words *)
(* referencing each URL (urlreferences), which observes every arrival and    *)
(* every departure inside the caller's transaction.  An operator below is    *)
(* the net effect, within one transaction, of the calls the code makes for   *)
(* each posting of a set in turn.                                            *)
EXTENDS PostingIdentities

VARIABLES postings,    \* the posting bucket
          words,       \* urlreferences: <<url, word>> pairs
          referenced   \* urlreferences: URLs at least one posting references

indexVars == <<postings, words, referenced>>

IndexTypeOK ==
  /\ postings \subseteq Posting
  /\ words \subseteq URLs \X Words
  /\ referenced \subseteq URLs

IndexInit == postings = {} /\ words = {} /\ referenced = {}

Reference(p) == <<URLOf(p), WordOf(p)>>

(* PostingStored, then Admit, for every posting of a set: stored, and shown  *)
(* to the observers.                                                         *)
ReferencesStored(set) ==
  /\ words' = words \cup {Reference(p) : p \in set}
  /\ referenced' = referenced \cup {URLOf(p) : p \in set}

Admit(set) == postings' = postings \cup set /\ ReferencesStored(set)

(* Mutant: the URL is dropped whatever words remain. *)
ReferencesPurgedAtOnce(set) ==
  /\ words' = words \ {Reference(p) : p \in set}
  /\ referenced' = referenced \ {URLOf(p) : p \in set}

(* PostingPurged: a URL leaves `referenced` when the last word referencing   *)
(* it goes.  PurgePosting tells the observers even when nothing was deleted. *)
ReferencesPurged(set) ==
  LET remaining == words \ {Reference(p) : p \in set}
  IN  /\ words' = remaining
      /\ referenced' =
           referenced \ {u \in {URLOf(p) : p \in set} : \A r \in remaining : r[1] # u}

PurgePostings(set) == postings' = postings \ set /\ ReferencesPurged(set)

(* What eviction drops for a set of URLs: every word the projection lists.   *)
PostingsReferencing(urls) == {<<r[2], r[1]>> : r \in {x \in words : x[1] \in urls}}

=============================================================================
