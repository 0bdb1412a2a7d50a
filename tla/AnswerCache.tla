------------------------------ MODULE AnswerCache ------------------------------
(****************************************************************************)
(* The semantic cache of answers and the changes of product data that       *)
(* empty it (src/services/semantic_cache.py, with its callers in the        *)
(* retrieval pipeline, the restock endpoint, ingestion and order            *)
(* execution).                                                              *)
(*                                                                          *)
(* A question stands for its cache key: the SHA-256 of the text, and every  *)
(* text within the similarity threshold of the vector search.  The product  *)
(* data are a version number; an entry remembers what the row does not hold: *)
(* the version its answer was written from, and whether the data changed    *)
(* while the turn that wrote it was at work.                                *)
(****************************************************************************)
EXTENDS Naturals

CONSTANTS
  Questions,    \* the keys
  MaxVersion,   \* bound on the changes of product data
  NoEntry       \* the absence of a row

ASSUME MaxVersionAssumption == MaxVersion \in Nat
ASSUME NoEntryAssumption ==
  NoEntry \notin [about : Questions, seen : Nat, overlap : BOOLEAN]

VARIABLES
  version,      \* committed price and stock of the products
  cache,        \* semantic_cache: question -> row
  change,       \* a change of product data: "none" or "committed"
  stays         \* history: an invalidation failed and the rows stayed

cacheVars == <<version, cache, change, stays>>

Entry == [about : Questions, seen : 0 .. MaxVersion, overlap : BOOLEAN]

CacheTypeOK ==
  /\ version \in 0 .. MaxVersion
  /\ cache \in [Questions -> Entry \union {NoEntry}]
  /\ change \in {"none", "committed"}
  /\ stays \in BOOLEAN

CacheInit ==
  /\ version = 0
  /\ cache = [q \in Questions |-> NoEntry]
  /\ change = "none"
  /\ stays = FALSE

Cached(q) == cache[q] # NoEntry

(****************************************************************************)
(* Prices or stock change: POST /admin/restock, an ingested product, an     *)
(* order that takes stock.                                                  *)
(****************************************************************************)
\* Mutant: the rows are left alone.
CommitForgets ==
  /\ version < MaxVersion
  /\ version' = version + 1
  /\ UNCHANGED <<cache, change, stays>>

\* The change is committed; the rows are deleted in a second transaction.
CommitChange ==
  /\ change = "none"
  /\ version < MaxVersion
  /\ version' = version + 1
  /\ change' = "committed"
  /\ UNCHANGED <<cache, stays>>

Invalidate ==
  /\ change = "committed"
  /\ cache' = [q \in Questions |-> NoEntry]
  /\ change' = "none"
  /\ UNCHANGED <<version, stays>>

\* The second transaction fails: order execution logs it, the restock
\* endpoint and ingestion raise after their commit.
InvalidationFails ==
  /\ change = "committed"
  /\ change' = "none"
  /\ stays' = TRUE
  /\ UNCHANGED <<version, cache>>

\* CACHE_TTL_SECONDS: a row older than that is no longer served.
Expire(q) ==
  /\ Cached(q)
  /\ cache' = [cache EXCEPT ![q] = NoEntry]
  /\ UNCHANGED <<version, change, stays>>

CacheNext ==
  \/ CommitChange
  \/ Invalidate
  \/ InvalidationFails
  \/ \E q \in Questions : Expire(q)
================================================================================
