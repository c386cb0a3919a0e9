------------------------- MODULE PostingIdentities -------------------------
(* The keys every bucket of the node's vault is built from.  A posting is    *)
(* identified by the word it indexes and the URL it points to; its other     *)
(* fields never decide which bucket it is in, so they are left out.          *)
EXTENDS Naturals, FiniteSets

CONSTANTS Words,   \* word hashes
          URLs     \* URL hashes, numbers in the vault's byte order

ASSUME KeysAssumption == IsFiniteSet(Words) /\ IsFiniteSet(URLs) /\ URLs \subseteq Nat

(* postingIdentity: the key of a posting in every bucket. *)
Posting == Words \X URLs

WordOf(p) == p[1]
URLOf(p)  == p[2]

=============================================================================
