------------------------------- MODULE Relay -------------------------------
(***************************************************************************)
(* The reaction cache of internal/reaction/relay.go: Run, which asks the   *)
(* model for one reaction per (archetype, story) through a pool of         *)
(* goroutines, the bound by whole stories, and the file that survives a    *)
(* restart.                                                                *)
(*                                                                         *)
(* Two parts of the server call Run, the warm-up after an event and the    *)
(* population-wide generation, each from its own goroutine and under its   *)
(* own deadline.  A reaction's content does not matter here: the cache is  *)
(* the set of keys that have one.  Archetypes are asked for in any order.  *)
(* The process may crash at any moment and come back with what load finds. *)
(*                                                                         *)
(* The counters reset at the start of a Run are one step with the claim of *)
(* running, and those an archetype moves are one step with its outcome:    *)
(* only a progress poll could see them half moved, and none is modelled.   *)
(***************************************************************************)
EXTENDS Naturals, FiniteSets, FiniteSetsExt, Sequences, SequencesExt, Functions

CONSTANTS
  Callers,      \* goroutines that call Run
  Stories,      \* story fingerprints
  Archetypes,
  MaxStory,     \* r.maxStory
  Conc,         \* size of the pool
  None

ASSUME RelayAssumption ==
  /\ MaxStory \in Nat \ {0} /\ Conc \in Nat \ {0}
  /\ IsFiniteSet(Archetypes)
  /\ None \notin Stories

Keys == Archetypes \X Stories

(* A file: its entries, and whether they have been written to the end.      *)
File(keys) == [whole |-> TRUE, keys |-> keys]
Torn(keys) == [whole |-> FALSE, keys |-> keys]
NoFile == File({})

VARIABLES
  cache,     \* keys with a reaction
  order,     \* story fingerprints, oldest first
  running,   \* the flag that admits one Run
  pc,        \* pc[c]: where caller c is in Run
  story,     \* story[c]: what it runs for
  todo,      \* todo[c]: archetypes its loop has not reached
  asking,    \* asking[c]: archetype -> attempt number, the pool's goroutines
  expired,   \* expired[c]: its context is done
  total, done, failed,   \* progress counters
  file,      \* the cache file, empty if there is none
  tmp,       \* the temporary file beside it
  lastErr    \* "", "model" or "disk"

countVars == <<total, done, failed>>
diskVars  == <<file, tmp>>
runVars   == <<story, todo, asking, expired>>
vars == <<cache, order, running, pc, runVars, countVars, diskVars, lastErr>>

PCs == {"idle", "touch", "loop", "wait", "write", "writing", "rename", "end"}

Of(s) == {k \in Keys : k[2] = s}
StoriesIn(keys) == {k[2] : k \in keys}

-----------------------------------------------------------------------------
(* Start-up and the file *)

(* The story list as cut by the bound: the newest MaxStory.                 *)
Newest(list) ==
  SubSeq(list, Len(list) - Min({MaxStory, Len(list)}) + 1, Len(list))

Kept(keys, list) == {k \in keys : k[2] \in ToSet(list)}

(* What load reads: nothing from a file that does not parse.                *)
OnDisk == IF file.whole THEN file.keys ELSE {}

Init ==
  /\ cache = {} /\ order = <<>> /\ running = FALSE
  /\ pc = [c \in Callers |-> "idle"]
  /\ story = [c \in Callers |-> None]
  /\ todo = [c \in Callers |-> {}]
  /\ asking = [c \in Callers |-> <<>>]
  /\ expired = [c \in Callers |-> FALSE]
  /\ total = 0 /\ done = 0 /\ failed = 0
  /\ file = NoFile /\ tmp = NoFile
  /\ lastErr = ""

(* The process dies, and a new one starts and loads the file: its stories   *)
(* come back in the order the file happens to mention them, which is the    *)
(* iteration order of a map, and the bound applies.  A temporary file left  *)
(* behind is never read, so it is forgotten here.                           *)
Restart ==
  /\ \E list \in SetToSeqs(StoriesIn(OnDisk)) :
       /\ order' = Newest(list)
       /\ cache' = Kept(OnDisk, order')
  /\ lastErr' = IF ~file.whole THEN "disk" ELSE ""
  /\ running' = FALSE
  /\ pc' = [c \in Callers |-> "idle"]
  /\ story' = [c \in Callers |-> None]
  /\ todo' = [c \in Callers |-> {}]
  /\ asking' = [c \in Callers |-> <<>>]
  /\ expired' = [c \in Callers |-> FALSE]
  /\ total' = 0 /\ done' = 0 /\ failed' = 0
  /\ tmp' = NoFile
  /\ UNCHANGED file

-----------------------------------------------------------------------------
(* Run *)

Step(c, from, to) == pc[c] = from /\ pc' = [pc EXCEPT ![c] = to]

(* Mutant: the flag is not consulted. *)
AlwaysAdmitted == TRUE

Admitted == ~running

(* The flag is claimed; a caller that finds it taken is refused and leaves  *)
(* no trace.                                                                *)
Start(c, s, ids) ==
  /\ Admitted
  /\ Step(c, "idle", "touch")
  /\ running' = TRUE
  /\ story' = [story EXCEPT ![c] = s]
  /\ todo' = [todo EXCEPT ![c] = ids]
  /\ expired' = [expired EXCEPT ![c] = FALSE]
  /\ total' = Cardinality(ids) /\ done' = 0 /\ failed' = 0
  /\ lastErr' = ""
  /\ UNCHANGED <<cache, order, asking, diskVars>>

(* Mutants: the list forgets the story but its reactions stay; one reaction *)
(* of the story goes and the others stay.                                   *)
ForgetOnly(keys, list) == keys
DropOne(keys, list) ==
  IF keys = Kept(keys, list) THEN keys
  ELSE keys \ {CHOOSE k \in keys : k \notin Kept(keys, list)}

Survivors(keys, list) == Kept(keys, list)

(* A listed story goes to the back. *)
Promoted(list, s) ==
  LET i == CHOOSE i \in DOMAIN list : list[i] = s
  IN  Append(RemoveAt(list, i), s)

(* touchStory: a new one is added there, and past the bound the front goes  *)
(* with every reaction it has.                                              *)
Touch(c) ==
  LET s     == story[c]
      known == Contains(order, s)
  IN  /\ Step(c, "touch", "loop")
      /\ order' = IF known THEN Promoted(order, s) ELSE Newest(Append(order, s))
      /\ cache' = IF known THEN cache ELSE Survivors(cache, order')
      /\ UNCHANGED <<running, runVars, countVars, diskVars, lastErr>>

(* The context's deadline passes while the caller is in Run. *)
Expire(c) ==
  /\ pc[c] \in {"touch", "loop", "wait"} /\ ~expired[c]
  /\ expired' = [expired EXCEPT ![c] = TRUE]
  /\ UNCHANGED <<cache, order, running, pc, story, todo, asking, countVars, diskVars, lastErr>>

(* The goroutines in the pool, and the archetype the loop waits to admit.   *)
Pool(c) == {a \in DOMAIN asking[c] : asking[c][a] > 0}
Blocked(c) == \E a \in DOMAIN asking[c] : asking[c][a] = 0

(* The top of the loop, before its context check fails. *)
AtLoopTop(c, a) ==
  pc[c] = "loop" /\ a \in todo[c] /\ ~expired[c] /\ ~Blocked(c)

(* The loop meets an archetype that has a reaction. *)
FromCache(c, a) ==
  /\ AtLoopTop(c, a)
  /\ <<a, story[c]>> \in cache
  /\ todo' = [todo EXCEPT ![c] = @ \ {a}]
  /\ done' = done + 1
  /\ UNCHANGED <<cache, order, running, pc, story, asking, expired, total, failed, diskVars, lastErr>>

(* It meets one that has none, and waits for room in the pool... *)
Want(c, a) ==
  /\ AtLoopTop(c, a)
  /\ <<a, story[c]>> \notin cache
  /\ todo' = [todo EXCEPT ![c] = @ \ {a}]
  /\ asking' = [asking EXCEPT
       ![c] = [x \in DOMAIN @ \cup {a} |-> IF x = a THEN 0 ELSE @[x]]]
  /\ UNCHANGED <<cache, order, running, pc, story, expired, countVars, diskVars, lastErr>>

(* ...which may come after the context is done. *)
Ask(c, a) ==
  /\ a \in DOMAIN asking[c] /\ asking[c][a] = 0
  /\ Cardinality(Pool(c)) < Conc
  /\ asking' = [asking EXCEPT ![c][a] = 1]
  /\ UNCHANGED <<cache, order, running, pc, story, todo, expired, countVars, diskVars, lastErr>>

(* It is through, or stops because the context is done. *)
LeaveLoop(c) ==
  /\ ~Blocked(c)
  /\ todo[c] = {} \/ expired[c]
  /\ Step(c, "loop", "wait")
  /\ todo' = [todo EXCEPT ![c] = {}]
  /\ UNCHANGED <<cache, order, running, story, asking, expired, countVars, diskVars, lastErr>>

Dismiss(c, a) ==
  asking' = [asking EXCEPT ![c] = [x \in DOMAIN @ \ {a} |-> @[x]]]

(* The model answers with something that parses.  (The client's own answer  *)
(* to a saturated gateway, waiting and sending again, is inside the wait.)  *)
Answer(c, a) ==
  /\ a \in Pool(c)
  /\ Dismiss(c, a)
  /\ cache' = cache \cup {<<a, story[c]>>}
  /\ done' = done + 1
  /\ UNCHANGED <<order, running, pc, story, todo, expired, total, failed, diskVars, lastErr>>

(* An error while the context still stands: one retry. *)
Retry(c, a) ==
  /\ a \in Pool(c) /\ asking[c][a] = 1 /\ ~expired[c]
  /\ asking' = [asking EXCEPT ![c][a] = 2]
  /\ UNCHANGED <<cache, order, running, pc, story, todo, expired, countVars, diskVars, lastErr>>

(* The retry failed too, or there is no time for one. *)
Fail(c, a) ==
  /\ a \in Pool(c) /\ (asking[c][a] = 2 \/ expired[c])
  /\ Dismiss(c, a)
  /\ done' = done + 1 /\ failed' = failed + 1
  /\ lastErr' = "model"
  /\ UNCHANGED <<cache, order, running, pc, story, todo, expired, total, diskVars>>

(* Mutant: nobody waits for the pool. *)
NoWait(c) == TRUE

PoolEmpty(c) == asking[c] = <<>>

(* wg.Wait returns. *)
Collect(c) ==
  /\ PoolEmpty(c)
  /\ Step(c, "wait", "write")
  /\ UNCHANGED <<cache, order, running, runVars, countVars, diskVars, lastErr>>

-----------------------------------------------------------------------------
(* save, the last thing Run does while it still holds the flag *)

(* Mutant: the file itself is opened for writing. *)
InPlace == "file"

WriteTarget == "tmp"

Written(target, content) ==
  IF target = "tmp" THEN tmp' = content /\ UNCHANGED file
                    ELSE file' = content /\ UNCHANGED tmp

(* The entries are copied out and the file is opened... *)
BeginWrite(c) ==
  /\ Step(c, "write", "writing")
  /\ Written(WriteTarget, Torn(cache))
  /\ UNCHANGED <<cache, order, running, runVars, countVars, lastErr>>

(* ...and is complete. *)
EndWrite(c) ==
  /\ Step(c, "writing", "rename")
  /\ Written(WriteTarget, File(tmp.keys))
  /\ UNCHANGED <<cache, order, running, runVars, countVars, lastErr>>

(* The write or the rename fails: the error is recorded, the file is left.  *)
DiskFails(c) ==
  /\ Step(c, "writing", "end") \/ Step(c, "rename", "end")
  /\ lastErr' = "disk" /\ tmp' = NoFile
  /\ UNCHANGED <<cache, order, running, runVars, countVars, file>>

Rename(c) ==
  /\ Step(c, "rename", "end")
  /\ file' = tmp /\ tmp' = NoFile
  /\ UNCHANGED <<cache, order, running, runVars, countVars, lastErr>>

(* Mutant: only the return of a Run that saved gives up the flag. *)
StuckWithoutDisk == lastErr = "disk"

StillRunning == FALSE

(* The flag is given up on return, whatever happened. *)
Finish(c) ==
  /\ Step(c, "end", "idle")
  /\ running' = StillRunning
  /\ story' = [story EXCEPT ![c] = None]
  /\ expired' = [expired EXCEPT ![c] = FALSE]
  /\ UNCHANGED <<cache, order, todo, asking, countVars, diskVars, lastErr>>

-----------------------------------------------------------------------------

Work(c) ==
  \/ Touch(c) \/ LeaveLoop(c) \/ Collect(c)
  \/ \E a \in Archetypes :
       \/ FromCache(c, a) \/ Want(c, a) \/ Ask(c, a)
       \/ Answer(c, a) \/ Retry(c, a) \/ Fail(c, a)
  \/ BeginWrite(c) \/ EndWrite(c) \/ DiskFails(c)
  \/ Rename(c) \/ Finish(c)

Next ==
  \/ \E c \in Callers :
       \/ \E s \in Stories, ids \in SUBSET Archetypes : ids # {} /\ Start(c, s, ids)
       \/ Expire(c)
       \/ Work(c)
  \/ Restart

(* A goroutine that can step does; the client's timeout ends every call.    *)
(* Starts, deadlines and crashes are not fair.                              *)
Fairness == \A c \in Callers : WF_vars(Work(c))

Spec == Init /\ [][Next]_vars
FairSpec == Spec /\ Fairness

-----------------------------------------------------------------------------

TypeOK ==
  /\ cache \subseteq Keys /\ order \in Seq(Stories)
  /\ running \in BOOLEAN /\ pc \in [Callers -> PCs]
  /\ story \in [Callers -> Stories \cup {None}]
  /\ todo \in [Callers -> SUBSET Archetypes]
  /\ \A c \in Callers : DOMAIN asking[c] \subseteq Archetypes
  /\ {total, done, failed} \subseteq Nat
  /\ {file, tmp} \subseteq [whole : BOOLEAN, keys : SUBSET Keys]

(* The list and the cache agree on what there is to evict: every cached     *)
(* story is listed once, within the bound, so none can outlive its turn to  *)
(* be dropped; and the story being generated is always listed.              *)
StoriesTracked ==
  /\ StoriesIn(cache) \subseteq ToSet(order)
  /\ Len(order) <= MaxStory /\ IsInjective(order)
  /\ \A c \in Callers :
       pc[c] \notin {"idle", "touch"} => story[c] \in ToSet(order)

(* "Evicting half a story would leave a population where some archetypes    *)
(* have an opinion and some do not": short of a crash, a step takes all of  *)
(* a story's reactions or none, and never those of a story a Run is for.    *)
EvictsWholeStories ==
  [][\/ Restart
     \/ \A s \in Stories :
          \/ cache \cap Of(s) \subseteq cache'
          \/ cache' \cap Of(s) = {} /\ s \notin Range(story)]_vars

(* By the time a Run saves, every archetype it counted as done without a    *)
(* failure has its reaction in the cache, and unless its deadline passed it *)
(* has counted every archetype once.                                        *)
RunCountsEveryArchetype ==
  \A c \in Callers :
    pc[c] \in {"write", "writing", "rename", "end"} =>
      /\ done - failed <= Cardinality(cache \cap Of(story[c]))
      /\ ~expired[c] => done = total

(* A crash at any point of a save leaves the file as some earlier save      *)
(* left it, never a torn one.                                               *)
FileNeverTorn == file.whole

(* Between Runs the file holds exactly what the cache holds, unless the     *)
(* disk refused: a restart then loses nothing.                              *)
DurableBetweenRuns ==
  (~running /\ lastErr # "disk") => OnDisk = cache

(* The claim to be the one Run is always given up, so generation never      *)
(* refuses for good.                                                        *)
RunEnds == running ~> ~running

=============================================================================
