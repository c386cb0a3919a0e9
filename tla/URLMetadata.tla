---------------------------- MODULE URLMetadata -----------------------------
(* URL metadata (urlmeta) and the order eviction reads it in                 *)
(* (urlmetastaleness).  The order observes arrivals and departures of        *)
(* metadata inside the caller's transaction.                                 *)
EXTENDS PostingIdentities

CONSTANTS Ranks,         \* freshness ranks, a smaller one is staler
          URLsPerBatch   \* URLs one eviction transaction asks for

ASSUME RanksAssumption == Ranks \subseteq Nat /\ URLsPerBatch \in Nat \ {0}

VARIABLES urlMetadata,   \* URL -> the freshness its stored metadata carries
          order,         \* <<rank, url>>: the eviction order
          freshness      \* URL -> the rank the order holds for it

metadataVars == <<urlMetadata, order, freshness>>

Known == DOMAIN urlMetadata

PartialRanking(f) == DOMAIN f \subseteq URLs /\ \A u \in DOMAIN f : f[u] \in Ranks

MetadataTypeOK ==
  /\ PartialRanking(urlMetadata)
  /\ PartialRanking(freshness)
  /\ order \subseteq Ranks \X URLs

MetadataInit ==
  /\ urlMetadata = [u \in {} |-> 0]
  /\ freshness = [u \in {} |-> 0]
  /\ order = {}

Overwritten(f, rows) ==
  [u \in DOMAIN f \cup DOMAIN rows |-> IF u \in DOMAIN rows THEN rows[u] ELSE f[u]]

(* URLStored of the ranking: it adds an entry at the new rank, and leaves    *)
(* the entry at the rank the URL had before.                                 *)
RankStored(rows) ==
  /\ order' = order \cup {<<rows[u], u>> : u \in DOMAIN rows}
  /\ freshness' = Overwritten(freshness, rows)

(* Rows are stored, and the observers hear of each, whether or not the URL   *)
(* was known.                                                                *)
StoreRows(rows) == urlMetadata' = Overwritten(urlMetadata, rows) /\ RankStored(rows)

MissingURLs(urls) == urls \ Known

Staler(a, b) == a[1] < b[1] \/ (a[1] = b[1] /\ a[2] < b[2])

(* StalestURLs: the first entries of the order, a batch of them at most. *)
StalestEntries(entries) ==
  /\ entries \subseteq order
  /\ Cardinality(entries) <= URLsPerBatch
  /\ entries # order => Cardinality(entries) = URLsPerBatch
  /\ \A a \in entries, b \in order \ entries : Staler(a, b)

(* URLPurged of the ranking: it removes the entry it remembers for the URL.  *)
RankPurged(urls) ==
  /\ order' = order \ {<<freshness[u], u>> : u \in urls \cap DOMAIN freshness}
  /\ freshness' = [u \in DOMAIN freshness \ urls |-> freshness[u]]

(* Purge: only URLs whose metadata was there are deleted and shown to the    *)
(* observers.                                                                *)
PurgeURLs(urls) ==
  /\ urlMetadata' = [u \in Known \ urls |-> urlMetadata[u]]
  /\ RankPurged(urls \cap Known)

=============================================================================
