---------------------------- MODULE StateStream ----------------------------
(***************************************************************************)
(* The stream of persona flags: the dirty list and the frames of           *)
(* internal/sim/sim.go (repack, resync, Encode), the instance records of   *)
(* internal/world/world.go, and the page that keeps a copy of the flags    *)
(* (web/index.html, web/globe.js).                                         *)
(*                                                                         *)
(* A persona's 16 bits are one word.  The page has at most one poll and    *)
(* one load under way; each is served under the server's mutex, and a poll *)
(* then travels.  A viewer is any other page: the dirty list is one for    *)
(* all of them, and of a viewer only what it does to the list matters.     *)
(*                                                                         *)
(* synced is history, kept for NothingMissed: whether the page was told    *)
(* everything since it loaded and was given every frame since then.        *)
(***************************************************************************)
EXTENDS Naturals, FiniteSets

CONSTANTS
  People,
  Words,        \* what a persona's flags can be
  Blank,        \* the word 0
  AtRest,       \* the flags of the world at rest
  DeltaCost,    \* bytes of a delta record: 6
  FullCost,     \* bytes of a full record: 2
  None

ASSUME StreamAssumption ==
  /\ IsFiniteSet(People)
  /\ AtRest \in [People -> Words] /\ Blank \in Words
  /\ DeltaCost \in Nat /\ FullCost \in Nat
  /\ None \notin [People -> Words]

VARIABLES
  flags,      \* World.Flags
  lastFl,     \* Sim.lastFl
  dirty,      \* Sim.dirty, which inDirty marks
  shown,      \* the page's flags, None before it has loaded
  poll,       \* its /api/state request
  frame,      \* what that was answered with: some people's flags
  loading,    \* its /api/instances request is under way
  synced      \* history

simFlagVars == <<flags, lastFl, dirty>>
pollVars    == <<poll, frame>>
pageVars    == <<shown, pollVars, loading>>
streamVars  == <<simFlagVars, pageVars, synced>>

Frames == UNION {[S -> Words] : S \in SUBSET People}
Empty  == [i \in {} |-> None]

(* A request is not made, being written under the mutex, or on its way. *)
Requests == {"none", "writing", "sent"}

(* packAll: the first flags count as sent. *)
StreamInit ==
  /\ flags = AtRest /\ lastFl = AtRest /\ dirty = {}
  /\ shown = None
  /\ poll = "none" /\ frame = Empty
  /\ loading = FALSE
  /\ synced = FALSE

-----------------------------------------------------------------------------
(* The simulation's side, called under the mutex *)

Unsent(words) == {i \in People : words[i] # lastFl[i]}

Repack(words) ==
  /\ flags' = words
  /\ dirty' = dirty \cup Unsent(words)
  /\ UNCHANGED <<lastFl, pageVars, synced>>

(* Mutant: the list is emptied and not rebuilt. *)
NothingPending(words) == {}

Pending(words) == Unsent(words)

(* The list is rebuilt against the last flags acknowledged, which are not   *)
(* the zeros a page that has loaded since shows.                            *)
Resync(words) ==
  /\ flags' = words
  /\ dirty' = Pending(words)
  /\ UNCHANGED <<lastFl, pageVars, synced>>

Full == DeltaCost * Cardinality(dirty) >= FullCost * Cardinality(People)

(* Whichever frame is smaller. *)
Encoded == [i \in IF Full THEN People ELSE dirty |-> flags[i]]

(* What a frame sent to the end acknowledges: all of it, or what was dirty. *)
Acknowledge ==
  /\ lastFl' = [i \in People |-> IF Full \/ i \in dirty THEN flags[i] ELSE lastFl[i]]
  /\ dirty' = {}

-----------------------------------------------------------------------------
(* /api/state *)

(* The page polls if it has loaded and its last poll is over. *)
BeginState ==
  /\ shown # None /\ poll = "none"
  /\ poll' = "writing"
  /\ frame' = Encoded
  /\ UNCHANGED <<simFlagVars, shown, loading, synced>>

EndState ==
  /\ poll = "writing"
  /\ poll' = "sent"
  /\ Acknowledge
  /\ synced' = (synced \/ Full)
  /\ UNCHANGED <<flags, shown, frame, loading>>

(* Mutant: a frame that could not be written is acknowledged all the same. *)
AckAnyway == Acknowledge

OnFailure == UNCHANGED <<lastFl, dirty>>

(* The write fails, which acknowledges nothing; the page drops the poll.    *)
FailState ==
  /\ poll = "writing"
  /\ poll' = "none" /\ frame' = Empty
  /\ OnFailure
  /\ UNCHANGED <<flags, shown, loading, synced>>

Patched(copy, words) ==
  [i \in People |-> IF i \in DOMAIN words THEN words[i] ELSE copy[i]]

(* applyFrame. *)
ApplyFrame ==
  /\ poll = "sent"
  /\ shown' = Patched(shown, frame)
  /\ poll' = "none" /\ frame' = Empty
  /\ UNCHANGED <<simFlagVars, loading, synced>>

(* "Dropped frame": written by the server, lost to the page. *)
DropFrame ==
  /\ poll = "sent"
  /\ poll' = "none" /\ frame' = Empty
  /\ synced' = FALSE
  /\ UNCHANGED <<simFlagVars, shown, loading>>

(* Some other page's poll is served. *)
ServeViewer ==
  /\ Acknowledge
  /\ synced' = FALSE
  /\ UNCHANGED <<flags, pageVars>>

-----------------------------------------------------------------------------
(* /api/instances, which acknowledges nothing *)

BeginInstances ==
  /\ ~loading
  /\ loading' = TRUE
  /\ UNCHANGED <<simFlagVars, shown, pollVars, synced>>

(* The records arrive.  globe.load takes everyone's position from them and, *)
(* for everyone's flags, zeros; it does not read the flags they carry, so   *)
(* how long they travel does not matter.                                    *)
LoadInstances ==
  /\ loading
  /\ loading' = FALSE
  /\ shown' = [i \in People |-> Blank]
  /\ synced' = FALSE
  /\ UNCHANGED <<simFlagVars, pollVars>>

(* The load fails, at the server or on the way. *)
FailInstances ==
  /\ loading
  /\ loading' = FALSE
  /\ UNCHANGED <<simFlagVars, shown, pollVars, synced>>

-----------------------------------------------------------------------------

(* The requests that hold the mutex while they write to the network. *)
Writing == poll = "writing" \/ loading

StreamTypeOK ==
  /\ {flags, lastFl} \subseteq [People -> Words] /\ dirty \subseteq People
  /\ shown \in [People -> Words] \cup {None}
  /\ poll \in Requests /\ loading \in BOOLEAN
  /\ frame \in Frames
  /\ synced \in BOOLEAN

(* "The pending set is defined by the difference": whatever failed writes,  *)
(* half-done ticks and resets came before, everyone whose flags are not     *)
(* those last acknowledged is on the list.                                  *)
PendingIsDifference == Unsent(flags) \subseteq dirty

(* A page that has been given every frame since a full one told it all      *)
(* will be told what it shows wrong: once it has applied the frame on its   *)
(* way, everyone it shows otherwise than they are is on the dirty list.     *)
Arriving == IF poll = "sent" THEN frame ELSE Empty
NothingMissed ==
  synced => \A i \in People : Patched(shown, Arriving)[i] # flags[i] => i \in dirty

=============================================================================
