----------------------------- MODULE RetryPath -----------------------------
(***************************************************************************)
(* The relay's one retry (internal/reaction/relay.go) as it travels: the   *)
(* worker for an archetype asks through internal/llm/client.go, whose      *)
(* request body depends on nothing but the archetype and the story, and    *)
(* the gateway answers a body it has answered before from its cache        *)
(* (ResponseCache.tla).  The answer reaches the client when the handler    *)
(* has returned, so after the Put.                                         *)
(*                                                                         *)
(* One story, so a body is an archetype.  The model's n-th answer is the   *)
(* sample n, at temperature 0.8: it parses or it does not.  Waiting out a  *)
(* saturated gateway is part of an attempt.                                *)
(***************************************************************************)
EXTENDS Naturals, Sequences

CONSTANTS
  Archetypes,
  Sizes,        \* lengths of the model's answers
  MaxBytes,     \* the cache's budget
  MaxSamples    \* bound: answers the model gives

VARIABLES
  attempts,   \* attempts[a]: what each attempt of the current Run came to
  sampled,    \* answers the model has given
  items, ll, bytes

cacheVars == <<items, ll, bytes>>
vars == <<attempts, sampled, cacheVars>>

Answers == [sample : 1..MaxSamples, parses : BOOLEAN, size : Sizes]

(* An attempt that ended without an answer, and so without a sample.        *)
NoAnswer == [sample |-> 0, parses |-> FALSE, size |-> 0]

Cache == INSTANCE ResponseCache WITH Keys <- Archetypes, Values <- Answers

Init ==
  /\ attempts = [a \in Archetypes |-> <<>>]
  /\ sampled = 0
  /\ Cache!CacheInit

(* The first attempt, or the second after a first that came to nothing.     *)
Attempt(a, outcome) ==
  /\ Len(attempts[a]) < 2
  /\ \A i \in DOMAIN attempts[a] : ~attempts[a][i].parses
  /\ attempts' = [attempts EXCEPT ![a] = Append(@, outcome)]

FromCache(a) ==
  /\ Cache!Hit(a)
  /\ Attempt(a, items[a])
  /\ UNCHANGED sampled

(* The body is new to the gateway: the model samples, and its answer, a     *)
(* response with status 200 whatever its text, is kept.                     *)
FromModel(a) ==
  /\ a \notin Cache!Cached
  /\ sampled < MaxSamples
  /\ sampled' = sampled + 1
  /\ \E parses \in BOOLEAN, size \in Sizes :
       LET answer == [sample |-> sampled', parses |-> parses, size |-> size]
       IN  Attempt(a, answer) /\ Cache!Put(a, answer)

Unanswered(a) ==
  /\ Attempt(a, NoAnswer)
  /\ UNCHANGED <<sampled, cacheVars>>

(* A later Run for the story asks again for an archetype still without a    *)
(* reaction.                                                                *)
NextRun(a) ==
  /\ Len(attempts[a]) = 2 /\ ~attempts[a][2].parses
  /\ attempts' = [attempts EXCEPT ![a] = <<>>]
  /\ UNCHANGED <<sampled, cacheVars>>

Next ==
  \E a \in Archetypes :
    FromCache(a) \/ FromModel(a) \/ Unanswered(a) \/ NextRun(a)

Spec == Init /\ [][Next]_vars

-----------------------------------------------------------------------------

(* "A malformed sample is a sample, not a property of the archetype, and    *)
(* re-rolling costs one generation": when the first answer does not parse,  *)
(* the retry is answered by another sample.                                 *)
RetryIsAFreshSample ==
  \A a \in Archetypes :
    (Len(attempts[a]) = 2 /\ attempts[a][1].sample > 0)
      => attempts[a][2].sample # attempts[a][1].sample

=============================================================================
