--------------------------- MODULE ResponseCache ---------------------------
(***************************************************************************)
(* The byte-bounded LRU of internal/gateway/cache.go: request body ->      *)
(* response body.  The Go value keeps the same facts three times over: a   *)
(* map from key to list element, a list in recency order, and a running    *)
(* byte count.  They are three variables here too, and what is checked is  *)
(* that every sequence of Gets and Puts keeps them in step.                *)
(*                                                                         *)
(* Get and Put hold the cache's mutex from their first look at the map to  *)
(* their return, so each is one action.  The hit and miss counters are     *)
(* statistics and are left out; a key stands for the SHA-256 of a body.    *)
(***************************************************************************)
EXTENDS Naturals, Sequences, FiniteSets, FiniteSetsExt, SequencesExt, Functions

CONSTANTS
  Keys,       \* request bodies
  Values,     \* responses: records with a field size, their length in bytes
  MaxBytes    \* the budget

ASSUME CacheAssumption == MaxBytes \in Nat /\ \A v \in Values : v.size \in Nat

VARIABLES
  items,   \* map: cached key -> value
  ll,      \* list of keys, most recently used first
  bytes    \* running total

cacheVars == <<items, ll, bytes>>

Cached == DOMAIN items

SizesOf(m) == [k \in DOMAIN m |-> m[k].size]

(* The total a correct count must show. *)
BytesHeld == SumFunction(SizesOf(items))

-----------------------------------------------------------------------------

CacheInit == items = <<>> /\ ll = <<>> /\ bytes = 0

PositionOf(list, k) == CHOOSE i \in DOMAIN list : list[i] = k

(* A key already in the list moves to its front, another is pushed there. *)
Fronted(list, k) ==
  <<k>> \o IF Contains(list, k) THEN RemoveAt(list, PositionOf(list, k)) ELSE list

(* Mutant: a hit leaves the entry where it is (first in, first out). *)
StayInPlace(k) == IF Contains(ll, k) THEN ll ELSE <<k>> \o ll

MoveToFront(k) == Fronted(ll, k)

Hit(k) ==
  /\ k \in Cached
  /\ ll' = MoveToFront(k)
  /\ UNCHANGED <<items, bytes>>

Miss(k) == k \notin Cached /\ UNCHANGED cacheVars

Get(k) == Hit(k) \/ Miss(k)

(* The bytes of the last n keys of a list, under the map m. *)
TailBytes(m, list, n) ==
  SumFunctionOnSet([i \in DOMAIN list |-> m[list[i]].size],
                   (Len(list) - n + 1)..Len(list))

(* Mutant: the bound is off by one. *)
AtBudget(total) == total >= MaxBytes

OverBudget(total) == total > MaxBytes

(* Mutant: the loop runs at most once. *)
AtMostOneEviction(m, list, total) ==
  IF OverBudget(total) /\ list # <<>> THEN 1 ELSE 0

(* How often the eviction loop runs: it drops from the back until the count *)
(* is within budget or the list is empty.                                   *)
Evictions(m, list, total) ==
  Min({n \in 0..Len(list) :
         n = Len(list) \/ ~OverBudget(total - TailBytes(m, list, n))})

Oversize(v) == OverBudget(v.size)

(* Mutants: the size of the replaced entry is forgotten, or taken off twice. *)
NothingReplaced(k) == 0
ReplacedTwice(k) == IF k \in Cached THEN 2 * items[k].size ELSE 0

(* What the entry already under k contributes to the count. *)
Replaced(k) == IF k \in Cached THEN items[k].size ELSE 0

(* The entry goes to the front, the count is corrected by the difference,   *)
(* and the back is dropped while over budget.                               *)
Store(k, v) ==
  LET front   == MoveToFront(k)
      stored  == [x \in Cached \cup {k} |-> IF x = k THEN v ELSE items[x]]
      total   == bytes + v.size - Replaced(k)
      dropped == Evictions(stored, front, total)
      kept    == SubSeq(front, 1, Len(front) - dropped)
  IN  /\ ll'    = kept
      /\ items' = Restrict(stored, Range(kept))
      /\ bytes' = total - TailBytes(stored, front, dropped)

(* A response larger than the whole budget is not stored; an older one      *)
(* under the same key stays.                                                *)
Put(k, v) ==
  \/ ~Oversize(v) /\ Store(k, v)
  \/ Oversize(v) /\ UNCHANGED cacheVars

CacheNext == \E k \in Keys : Get(k) \/ \E v \in Values : Put(k, v)

CacheSpec == CacheInit /\ [][CacheNext]_cacheVars

-----------------------------------------------------------------------------

(* The shapes of the three variables. *)
CacheTypeOK ==
  /\ Cached \subseteq Keys /\ items \in [Cached -> Values]
  /\ ll \in Seq(Keys)
  /\ bytes \in Nat

(* Map, list and running count tell the same story after any sequence of    *)
(* hits, inserts, replacements and evictions: the list names every cached   *)
(* key exactly once and the count is the sum of the sizes stored.           *)
Consistent ==
  /\ Range(ll) = Cached /\ Len(ll) = Cardinality(Cached)
  /\ bytes = BytesHeld

(* The memory actually held, not just the count kept of it, is within the   *)
(* budget the constructor was given.                                        *)
WithinBudget == BytesHeld <= MaxBytes

=============================================================================
