----------------------------- MODULE SearchCases -----------------------------
(* Searches over every index of a few terms and documents: the operators of  *)
(* DocumentSearch are checked against what a search should find, and the     *)
(* peer that plans its searches by index abstracts against a search of all.  *)
EXTENDS DocumentSearch

CONSTANTS
    Postings,    \* postings a document may have of a term
    Queries,     \* sequences of terms
    Filters,     \* criteria but for the terms and the limits
    Limits,      \* numbers of results and spreads asked for
    Caps         \* bounds on the postings kept of a term (maxPostingsPerTerm)

\* The columns of a posting that a search reads.
PostingFields ==
    [hits : Nat, position : Nat, phrase : Nat, inPhrase : Nat,
     language : STRING, type : STRING, appearance : SUBSET STRING]

ASSUME SearchAssumption ==
    /\ Terms \subseteq Nat /\ Documents \subseteq Nat /\ IsFiniteSet(Documents)
    /\ Postings \subseteq PostingFields
    /\ Queries \subseteq Seq(Terms)
    /\ Limits \subseteq Int \X Int
    /\ \A filter \in Filters : filter.excluded \subseteq Terms

VARIABLES index, criteria, cap

searchVars == <<index, criteria, cap>>

DefaultSearchCount == 10

\* A request that names no number of results gets the default; a spread of zero
\* stands for any.
Criteria(query, filter, limits) ==
    [terms |-> query,
     maxResults |-> IF limits[1] <= 0 THEN DefaultSearchCount ELSE limits[1],
     maxTermSpread |-> limits[2],
     excluded |-> filter.excluded, required |-> filter.required,
     language |-> filter.language, site |-> filter.site, kind |-> filter.kind,
     strict |-> filter.strict, appearance |-> filter.appearance]

Requests == {Criteria(q, f, l) : q \in Queries, f \in Filters, l \in Limits}

NoPostings == [t \in Terms |-> <<>>]

SearchInit == index = NoPostings /\ criteria \in Requests /\ cap \in Caps

\* A document gets a posting of a term, or loses the one it has.
IndexChanges ==
    /\ \E t \in Terms, d \in Documents :
          \/ /\ d \notin DOMAIN index[t]
             /\ \E p \in Postings : index' = [index EXCEPT ![t] =
                   [e \in DOMAIN @ \cup {d} |-> IF e = d THEN p ELSE @[e]]]
          \/ /\ d \in DOMAIN index[t]
             /\ index' = [index EXCEPT ![t] = [e \in DOMAIN @ \ {d} |-> @[e]]]
    /\ UNCHANGED <<criteria, cap>>

----------------------------------------------------------------------------
NoCap == 0
Exact == CHOOSE kept \in KeptForSearch(index, criteria, NoCap) : TRUE

terms == Range(criteria.terms)

\* The documents the request describes: they hold every term by a posting it
\* admits, and hold none of the terms it excludes.
Described ==
    {d \in Documents :
        /\ \A t \in terms : d \in DOMAIN index[t] /\ Accepts(criteria, {}, d, index[t][d])
        /\ \A t \in criteria.excluded : d \notin DOMAIN index[t]}

Positions(d) == {index[t][d].position : t \in terms}

Distance(d) ==
    IF Len(criteria.terms) <= 1 THEN 0
    ELSE (CHOOSE most \in {p - q : p, q \in Positions(d)} :
             \A p, q \in Positions(d) : p - q <= most) \div (Len(criteria.terms) - 1)

\* Each occurrence counts, of a term that is asked for twice as well.
Hits(d) ==
    Cardinality(UNION {{i} \X (1 .. index[criteria.terms[i]][d].hits) : i \in DOMAIN criteria.terms})

Better(d, e) ==
    \/ Hits(d) > Hits(e)
    \/ Hits(d) = Hits(e) /\ Distance(d) < Distance(e)
    \/ Hits(d) = Hits(e) /\ Distance(d) = Distance(e) /\ d < e

Near == {d \in Described : criteria.maxTermSpread > 0 => Distance(d) <= criteria.maxTermSpread}

Rank(d) == Cardinality({e \in Near : Better(e, d)}) + 1

\* The query with its terms in every order.
Reordered ==
    LET places == DOMAIN criteria.terms
        orders == {p \in [places -> places] : \A i \in places : \E j \in places : p[j] = i}
    IN  {[i \in places |-> criteria.terms[p[i]]] : p \in orders}

\* What the join makes of the postings of a document.
Joined(match) ==
    <<match.occurrences, match.first, match.last, match.posting.hits,
      match.posting.position, match.posting.phrase, match.posting.inPhrase>>

\* A peer that joins the terms in another order builds the same posting for a
\* document, and finds the same documents.
JoinIgnoresTermOrder ==
    \A order \in Reordered :
        LET other == [criteria EXCEPT !.terms = order]
            mine == MatchesFor(criteria, Exact)
            theirs == MatchesFor(other, Exact)
        IN  /\ DocumentsFound(other, Exact) = DocumentsFound(criteria, Exact)
            /\ \A d \in DOMAIN mine : Joined(theirs[d]) = Joined(mine[d])

\* A search whose terms exceed no bound returns the documents the request
\* describes, the best of them first, as many as it asks for, in whatever order
\* it states its terms.  A request for no terms finds nothing.
FindsTheMostRelevant ==
    LET found == DocumentsFound(criteria, Exact) IN
    /\ \A i \in DOMAIN found : found[i] \in Near /\ Rank(found[i]) = i
    /\ \A d \in Near :
          terms # {} /\ Rank(d) <= criteria.maxResults => d \in Range(found)
    /\ JoinIgnoresTermOrder

\* The bound on the postings of a term costs documents, never correctness: what
\* is found is described and in its order, a document of which no term dropped its
\* posting is found if it is one of the best, and a search for one term still gets
\* documents as frequent as its best.
CapKeepsTheBest ==
    \A kept \in KeptForSearch(index, criteria, cap) :
        LET found == DocumentsFound(criteria, kept)
            exact == DocumentsFound(criteria, Exact)
        IN  /\ Range(found) \subseteq Near
            /\ \A i, j \in DOMAIN found : i < j => Better(found[i], found[j])
            /\ terms # {} =>
                 \A d \in Near :
                    (\A t \in terms : d \in DOMAIN kept[t]) /\ Rank(d) <= criteria.maxResults
                       => d \in Range(found)
            /\ Len(criteria.terms) = 1 =>
                 \A i \in DOMAIN found : Hits(found[i]) = Hits(exact[i])

\* A peer that intersects the abstracts of the queried terms plans for every
\* document a search of all terms would find, and for no other if the request
\* excludes none.  The abstract of the term with the most postings, which the node
\* chooses itself, leaves out none of them either.
AbstractsNameTheMatches ==
    /\ \A kept \in KeptForReport(index, criteria, NoCap, terms) :
          LET abstracts == AbstractsOfTerms(kept)
              planned == {d \in Documents : \A t \in terms : d \in abstracts[t]}
          IN  /\ Described \subseteq planned
              /\ criteria.excluded = {} => planned = Described
    /\ LET abstract == AbstractOfMostPostings(index, criteria, Exact) IN
       \A t \in DOMAIN abstract : Described \subseteq abstract[t]
=============================================================================
