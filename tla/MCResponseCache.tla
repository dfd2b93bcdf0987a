-------------------------- MODULE MCResponseCache --------------------------
(***************************************************************************)
(* ResponseCache on three keys and values of sizes 0..5 under a budget of  *)
(* 4: one value is empty, one fills the cache alone, one is oversize.      *)
(* The history variable used lists every key ever stored, most recent use  *)
(* first, and keeps those the cache has dropped.                           *)
(***************************************************************************)
EXTENDS ResponseCache

CONSTANTS Sizes

MCValues == [size : Sizes]

VARIABLE used

Touch(k) == used' = Fronted(used, k)

MCInit == CacheInit /\ used = <<>>

MCHit(k) == Hit(k) /\ Touch(k)
MCMiss(k) == Miss(k) /\ UNCHANGED used
MCPut(k, v) == Put(k, v) /\ IF Oversize(v) THEN UNCHANGED used ELSE Touch(k)

MCNext ==
  \E k \in Keys : MCHit(k) \/ MCMiss(k) \/ \E v \in Values : MCPut(k, v)

MCSpec == MCInit /\ [][MCNext]_<<cacheVars, used>>

(* Least recently used goes first: every cached key was used more recently  *)
(* than every key the cache has dropped, in the order the list says.        *)
KeepsMostRecent == IsPrefix(ll, used)

(* Eviction stops as soon as it may: putting back the entry dropped last    *)
(* would exceed the budget.                                                 *)
DropsNoMoreThanNeeded ==
  [][LET n == Len(ll')
     IN  (n < Len(used') /\ used'[n + 1] \in Cached)
           => bytes' + items[used'[n + 1]].size > MaxBytes]_<<cacheVars, used>>

=============================================================================
