--------------------------- MODULE DocumentSearch ---------------------------
(***************************************************************************)
(* One search pass over the posting index (documentsearch): which postings *)
(* of a term the criteria admit, how many of them are kept, the join of    *)
(* the terms' documents, their order, and the index abstracts by which a   *)
(* peer plans the searches that follow.                                    *)
(*                                                                         *)
(* Terms and documents are numbers in the order of their hashes.  A        *)
(* posting keeps the fields a search reads; its appearance is the set of   *)
(* traits it has.  An index maps each term to its postings by document.    *)
(***************************************************************************)
EXTENDS Integers, Sequences, FiniteSets, SequencesExt

CONSTANTS
    Terms,         \* words, by the order of their hashes
    Documents,     \* URLs, by the order of their hashes
    SiteOf,        \* the host hash of each document
    Unspecified    \* a criterion the request leaves open

\* Kinds of content a request can ask for; postings have a type of their own.
ContentKinds == {"any", "image", "audio", "video", "application"}

----------------------------------------------------------------------------
\* postingfilter: what one posting must be.

IsOfDocumentType(posting, kind) ==
    CASE kind = "any"         -> TRUE
      [] kind = "application" -> "application" \in posting.appearance
      [] OTHER                -> posting.type = kind

AppearsAsContentKind(posting, kind) == kind = "any" \/ kind \in posting.appearance

Accepts(criteria, excludedDocuments, document, posting) ==
    /\ criteria.language \in {Unspecified, posting.language}
    /\ criteria.required = {} \/ document \in criteria.required
    /\ document \notin excludedDocuments
    /\ criteria.site \in {Unspecified, SiteOf[document]}
    /\ IF criteria.strict THEN IsOfDocumentType(posting, criteria.kind)
                          ELSE AppearsAsContentKind(posting, criteria.kind)
    /\ \/ criteria.appearance = Unspecified
       \/ posting.appearance \cap criteria.appearance # {}

\* termpostings: the postings of one term that are considered at all.

DocumentsContaining(index, terms) == UNION {DOMAIN index[t] : t \in terms}

Accepted(index, criteria, excludedDocuments, term) ==
    {d \in DOMAIN index[term] : Accepts(criteria, excludedDocuments, d, index[term][d])}

\* A mutant: postings are kept in the order they are scanned.
FirstScanned(postings, documents, maxPostings) ==
    IF maxPostings <= 0 \/ Cardinality(documents) <= maxPostings THEN {documents}
    ELSE {{d \in documents : Cardinality({e \in documents : e < d}) < maxPostings}}

\* A term keeps its most frequent postings; the order of the scan decides which
\* of equally frequent ones, so any of these sets may be kept.
MostFrequent(postings, documents, maxPostings) ==
    IF maxPostings <= 0 \/ Cardinality(documents) <= maxPostings THEN {documents}
    ELSE {kept \in SUBSET documents :
            /\ Cardinality(kept) = maxPostings
            /\ \A d \in kept, e \in documents \ kept : postings[d].hits >= postings[e].hits}

PostingsHeld(index, term) == Cardinality(DOMAIN index[term])

----------------------------------------------------------------------------
\* documentmatch: the join of the terms, and the order of what it finds.

Lesser(a, b) == IF a < b THEN a ELSE b
Greater(a, b) == IF a > b THEN a ELSE b

PositionAbsent == 0

EarliestPosition(position, additional) ==
    IF PositionAbsent \in {position, additional} THEN Greater(position, additional)
    ELSE Lesser(position, additional)

PostingAcrossTerms(posting, additional) ==
    [posting EXCEPT
        !.position = EarliestPosition(@, additional.position),
        !.phrase = Lesser(@, additional.phrase),
        !.inPhrase =
            CASE posting.phrase > additional.phrase -> additional.inPhrase
              [] posting.phrase = additional.phrase -> Lesser(@, additional.inPhrase)
              [] OTHER -> @,
        !.hits = Greater(@, additional.hits)]

\* What the posting of the first term says of a document, and what the posting
\* of one term more makes of it.
MatchOfOneTerm(posting) ==
    [posting |-> posting, occurrences |-> posting.hits,
     first |-> posting.position, last |-> posting.position]

MatchAcrossTerms(match, posting) ==
    [posting |-> PostingAcrossTerms(match.posting, posting),
     occurrences |-> match.occurrences + posting.hits,
     first |-> Lesser(match.first, posting.position),
     last |-> Greater(match.last, posting.position)]

\* The matches of a document that holds every term, after each of them, by the
\* postings kept of it.
MatchAfterTerms(terms, kept, document) ==
    LET joined[n \in DOMAIN terms] ==
            IF n = 1 THEN MatchOfOneTerm(kept[terms[n]][document])
            ELSE MatchAcrossTerms(joined[n - 1], kept[terms[n]][document])
    IN  joined

Match(terms, kept, document) == MatchAfterTerms(terms, kept, document)[Len(terms)]

MatchesAcrossEveryTerm(terms, kept) ==
    IF terms = <<>> THEN <<>>
    ELSE LET holders == {d \in Documents :
                           \A i \in DOMAIN terms : d \in DOMAIN kept[terms[i]]}
         IN  [d \in holders |-> Match(terms, kept, d)]

TermSpread(match, termCount) ==
    IF termCount <= 1 THEN 0 ELSE (match.last - match.first) \div (termCount - 1)

MatchesWithinTermSpread(matches, maxTermSpread, termCount) ==
    IF maxTermSpread <= 0 THEN matches
    ELSE LET within == {d \in DOMAIN matches :
                          TermSpread(matches[d], termCount) <= maxTermSpread}
         IN  [d \in within |-> matches[d]]

\* A mutant: documents are ordered before the occurrences of the terms are added.
MoreFrequentPosting(matches, termCount, d, e) ==
    \/ matches[d].posting.hits > matches[e].posting.hits
    \/ matches[d].posting.hits = matches[e].posting.hits /\ d < e

\* More occurrences first, then less spread, then the order of the hashes.
MoreRelevant(matches, termCount, d, e) ==
    LET Spread(x) == TermSpread(matches[x], termCount) IN
    \/ matches[d].occurrences > matches[e].occurrences
    \/ /\ matches[d].occurrences = matches[e].occurrences
       /\ Spread(d) < Spread(e) \/ (Spread(d) = Spread(e) /\ d < e)

\* The order is total, so that the documents can be sorted in one way only.
RankedDocuments(matches, termCount) ==
    CHOOSE order \in [1 .. Cardinality(DOMAIN matches) -> DOMAIN matches] :
        \A i, j \in DOMAIN order :
            i < j => MoreRelevant(matches, termCount, order[i], order[j])

MostRelevantDocuments(matches, termCount, maxResults) ==
    LET ranked == RankedDocuments(matches, termCount) IN
    IF maxResults > 0 /\ Len(ranked) > maxResults
    THEN SubSeq(ranked, 1, maxResults) ELSE ranked

----------------------------------------------------------------------------
\* searchresult: the pass, by the postings kept of each term.

\* What the terms of a search may keep: a set of documents each.
KeptFor(index, criteria, excludedDocuments, cap, terms) ==
    LET Candidates(t) ==
            MostFrequent(index[t], Accepted(index, criteria, excludedDocuments, t), cap)
        choices == {c \in [terms -> UNION {Candidates(t) : t \in terms}] :
                      \A t \in terms : c[t] \in Candidates(t)}
    IN  {[t \in terms |-> [d \in choice[t] |-> index[t][d]]] : choice \in choices}

KeptForSearch(index, criteria, cap) ==
    KeptFor(index, criteria, DocumentsContaining(index, criteria.excluded), cap,
            Range(criteria.terms))

\* A mutant: a report forgets the kind of content that is asked for.
ReportOfAnyKind(index, criteria, cap, terms) ==
    KeptFor(index, [criteria EXCEPT !.kind = "any"], {}, cap, terms)

\* A report is of all documents, those the request excludes among them.
KeptForReport(index, criteria, cap, terms) == KeptFor(index, criteria, {}, cap, terms)

MatchesFor(criteria, kept) ==
    MatchesWithinTermSpread(MatchesAcrossEveryTerm(criteria.terms, kept),
                            criteria.maxTermSpread, Len(criteria.terms))

DocumentsFound(criteria, kept) ==
    MostRelevantDocuments(MatchesFor(criteria, kept), Len(criteria.terms), criteria.maxResults)

----------------------------------------------------------------------------
\* indexabstract: the documents held for a term, without their metadata.

TermWithMostPostings(index, terms) ==
    CHOOSE t \in terms : \A u \in terms \ {t} :
        \/ PostingsHeld(index, t) > PostingsHeld(index, u)
        \/ PostingsHeld(index, t) = PostingsHeld(index, u) /\ t < u

\* Asked for the term with the most postings: none for a query of one term, or
\* of documents named by the request.
AbstractOfMostPostings(index, criteria, kept) ==
    IF Len(criteria.terms) <= 1 \/ criteria.required # {} THEN <<>>
    ELSE LET term == TermWithMostPostings(index, Range(criteria.terms))
         IN  [t \in {term} |-> DOMAIN kept[t]]

AbstractsOfTerms(kept) == [t \in DOMAIN kept |-> DOMAIN kept[t]]
=============================================================================
