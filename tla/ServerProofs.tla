---------------------------- MODULE ServerProofs ----------------------------
(***************************************************************************)
(* For any population, ties, stories, requests and people's opinions, and  *)
(* for any cost of the two forms of a frame: the page that was given every *)
(* frame misses nothing, and only a story lights a feed.                   *)
(*                                                                         *)
(* Behind the first is that the dirty list holds whoever's flags differ    *)
(* from those last acknowledged, and that those are what such a page will  *)
(* show once it has applied the frame on its way.                          *)
(***************************************************************************)
EXTENDS Server, TLAPS

(* The inductive invariant of the stream.  Nothing changes under a frame    *)
(* that is being written.                                                   *)
Streamed ==
  /\ PendingIsDifference
  /\ poll = "writing" => frame = Encoded
  /\ synced => \A i \in People : Patched(shown, Arriving)[i] = lastFl[i]

-----------------------------------------------------------------------------
(* The stream *)

(* It starts with nothing to tell. *)
LEMMA StreamedInit == Init => Streamed
  BY DEF Init, StreamInit, Streamed, PendingIsDifference, Unsent

(* While no frame is being written, flags may change if the list follows.   *)
LEMMA Refreshed ==
  ASSUME Streamed, ~Writing, PendingIsDifference',
         UNCHANGED <<lastFl, pageVars, synced>>
  PROVE  Streamed'
<1>1. UNCHANGED <<lastFl, shown, poll, frame, synced>>
  BY DEF pageVars, pollVars
<1>2. poll' # "writing"
  BY <1>1 DEF Writing
<1>3. synced' => \A i \in People : Patched(shown, Arriving)'[i] = lastFl'[i]
  BY <1>1 DEF Streamed, Patched, Arriving
<1>4. QED
  BY <1>2, <1>3 DEF Streamed

(* A tick repacks into a list that follows. *)
LEMMA TickFollows ==
  ASSUME Streamed, Tick
  PROVE  Streamed'
<1>1. PICK s \in World!Ticks(sim, Ties) : Repack(FlagsFor(s))
  BY DEF Tick
<1>2. ~Writing
  BY DEF Tick, Free
<1>3. PendingIsDifference'
  BY <1>1 DEF Repack, PendingIsDifference, Unsent
<1>4. QED
  BY <1>1, <1>2, <1>3, Refreshed DEF Repack

(* Whoever resyncs, the list is rebuilt. *)
LEMMA ResyncFollows ==
  ASSUME Streamed, ~Writing, Resync(FlagsFor(sim'))
  PROVE  Streamed'
<1>1. PendingIsDifference'
  BY DEF Resync, Pending, PendingIsDifference, Unsent
<1>2. QED
  BY <1>1, Refreshed DEF Resync

(* What leaves the stream alone. *)
LEMMA StreamKept ==
  ASSUME Streamed, UNCHANGED streamVars
  PROVE  Streamed'
<1>1. UNCHANGED <<flags, lastFl, dirty, shown, poll, frame, synced>>
  BY DEF streamVars, simFlagVars, pageVars, pollVars
<1>2. QED
  BY <1>1 DEF Streamed, PendingIsDifference, Unsent, Encoded, Full, Patched, Arriving

(* A frame sent to the end: what it does not hold was acknowledged before.  *)
LEMMA EndFollows ==
  ASSUME Streamed, EndState
  PROVE  Streamed'
<1>1. frame = Encoded /\ UNCHANGED <<flags, shown, frame>> /\ poll' = "sent"
  BY DEF EndState, Streamed
<1>2. PendingIsDifference'
  BY <1>1 DEF EndState, Acknowledge, PendingIsDifference, Unsent, Streamed
<1>3. synced' => \A i \in People : Patched(shown, Arriving)'[i] = lastFl'[i]
  <2> SUFFICES ASSUME synced \/ Full, NEW i \in People
      PROVE  Patched(shown, Arriving)'[i] = lastFl'[i]
    BY DEF EndState
  <2>1. Arriving' = Encoded
    BY <1>1 DEF Arriving
  <2>2. Arriving = Empty
    BY DEF EndState, Arriving
  <2>3. CASE Full \/ i \in dirty
    BY <1>1, <2>1, <2>3 DEF EndState, Acknowledge, Encoded, Patched
  <2>4. CASE ~Full /\ i \notin dirty
    <3>1. Patched(shown, Empty)[i] = lastFl[i]
      BY <2>2, <2>4 DEF Streamed
    <3>2. shown[i] = lastFl[i]
      BY <3>1 DEF Patched, Empty
    <3>3. QED
      BY <1>1, <2>1, <2>4, <3>2 DEF EndState, Acknowledge, Encoded, Patched
  <2>5. QED
    BY <2>3, <2>4
<1>4. QED
  BY <1>1, <1>2, <1>3 DEF Streamed

(* A request taken up under the mutex. *)
LEMMA LockingFollows ==
  ASSUME Streamed, Free, Locking
  PROVE  Streamed'
<1>1. CASE BeginState
  <2>1. UNCHANGED <<flags, lastFl, dirty, shown, synced>> /\ frame' = Encoded
    BY <1>1 DEF BeginState, simFlagVars
  <2>2. frame' = Encoded'
    BY <2>1 DEF Encoded, Full
  <2>3. Arriving = Empty /\ Arriving' = Empty
    BY <1>1 DEF BeginState, Arriving
  <2>4. QED
    BY <2>1, <2>2, <2>3 DEF Streamed, PendingIsDifference, Unsent, Patched
<1>2. CASE ServeViewer
  <2>1. poll # "writing"
    BY DEF Free, Writing
  <2>2. PendingIsDifference'
    BY <1>2 DEF ServeViewer, Acknowledge, PendingIsDifference, Unsent, Streamed
  <2>3. QED
    BY <1>2, <2>1, <2>2 DEF ServeViewer, Streamed, pageVars, pollVars
<1>3. CASE BeginInstances
  BY <1>3 DEF BeginInstances, simFlagVars, pollVars, Streamed, PendingIsDifference,
              Unsent, Encoded, Full, Patched, Arriving
<1>4. QED
  BY <1>1, <1>2, <1>3 DEF Locking

(* What the network and the page do. *)
LEMMA NetworkFollows ==
  ASSUME Streamed,
         FailState \/ ApplyFrame \/ DropFrame \/ LoadInstances \/ FailInstances
  PROVE  Streamed'
<1>1. CASE FailState
  BY <1>1 DEF FailState, OnFailure, Streamed, PendingIsDifference, Unsent, Patched, Arriving
<1>2. CASE ApplyFrame
  <2>1. shown' = Patched(shown, frame) /\ Arriving = frame /\ Arriving' = Empty
    BY <1>2 DEF ApplyFrame, Arriving
  <2>2. \A i \in People : Patched(shown, Arriving)'[i] = Patched(shown, Arriving)[i]
    BY <2>1 DEF Patched, Empty
  <2>3. QED
    BY <1>2, <2>2 DEF ApplyFrame, simFlagVars, Streamed, PendingIsDifference, Unsent
<1>3. CASE DropFrame
  BY <1>3 DEF DropFrame, simFlagVars, Streamed, PendingIsDifference, Unsent
<1>4. CASE LoadInstances
  BY <1>4 DEF LoadInstances, simFlagVars, pollVars, Streamed, PendingIsDifference,
              Unsent, Encoded, Full
<1>5. CASE FailInstances
  BY <1>5 DEF FailInstances, simFlagVars, pollVars, Streamed, PendingIsDifference,
              Unsent, Encoded, Full, Patched, Arriving
<1>6. QED
  BY <1>1, <1>2, <1>3, <1>4, <1>5

(* Every step of the server keeps it. *)
LEMMA StreamedStep == Streamed /\ [Next]_vars => Streamed'
<1> SUFFICES ASSUME Streamed, [Next]_vars
    PROVE  Streamed'
  OBVIOUS
<1>1. CASE Tick
  BY <1>1, TickFollows
<1>2. CASE PanicTick
  BY <1>2, StreamKept DEF PanicTick
<1>3. CASE HandlerPanic
  BY <1>3, StreamKept DEF HandlerPanic
<1>4. CASE \E req \in Controls : Control(req)
  <2>1. PICK req \in Controls : Control(req)
    BY <1>4
  <2>2. ~Writing /\ (Resync(FlagsFor(sim')) \/ UNCHANGED streamVars)
    BY <2>1 DEF Control, Free
  <2>3. QED
    BY <2>2, ResyncFollows, StreamKept
<1>5. CASE \E ev \in News : Event(ev)
  BY <1>5, ResyncFollows DEF Event, Free
<1>6. CASE \E people \in Minds : Fold(people)
  BY <1>6, ResyncFollows DEF Fold, Free
<1>7. CASE Stream
  BY <1>7, EndFollows, LockingFollows, NetworkFollows DEF Stream
<1>8. CASE UNCHANGED vars
  BY <1>8, StreamKept DEF vars
<1>9. QED
  BY <1>1, <1>2, <1>3, <1>4, <1>5, <1>6, <1>7, <1>8 DEF Next

(* A page that was given every frame will be told what it shows wrong.      *)
THEOREM Missed == Spec => []NothingMissed
<1>1. Streamed => NothingMissed
  <2> SUFFICES ASSUME Streamed, synced, NEW i \in People,
                      Patched(shown, Arriving)[i] # flags[i]
      PROVE  i \in dirty
    BY DEF NothingMissed
  <2>1. flags[i] # lastFl[i]
    BY DEF Streamed
  <2>2. QED
    BY <2>1 DEF Streamed, PendingIsDifference, Unsent
<1>2. QED
  BY <1>1, StreamedInit, StreamedStep, PTL DEF Spec

-----------------------------------------------------------------------------
(* The simulation *)

(* A tick of the layer leaves it a layer, and a quiet one as it was.        *)
LEMMA AdvancesTyped ==
  ASSUME NEW m \in World!MediaStates, NEW spreading, NEW unaware \in SUBSET People,
         NEW o \in World!Advances(m, spreading, unaware, MaxPosts)
  PROVE  o.media \in World!MediaStates /\ (m.hot = {} => o.media = m)
<1>1. CASE World!Live(m)
  <2> DEFINE engaged == {p \in Platforms : Member[p] \cap spreading # {}}
             reach   == (UNION {Member[p] : p \in engaged}) \cap unaware
             posts   == UNION {[r -> 1..MaxPosts] : r \in SUBSET reach}
  <2> PICK h \in SUBSET (m.hot \cup engaged), n \in posts : o = World!Outcome(m, h, n)
    BY <1>1 DEF World!Advances, World!Dark
  <2>1. o.media = [m EXCEPT !.hot = h, !.exposed = DOMAIN n, !.stepped = TRUE]
    BY DEF World!Outcome
  <2>2. h \subseteq Platforms
    BY DEF World!MediaStates
  <2>3. DOMAIN n \subseteq People
    OBVIOUS
  <2>4. m.hot # {}
    BY <1>1 DEF World!Live, World!Quiet
  <2>5. QED
    BY <2>1, <2>2, <2>3, <2>4 DEF World!MediaStates
<1>2. CASE ~World!Live(m)
  <2>1. o.media = m
    BY <1>2 DEF World!Advances, World!Dark
  <2>2. QED
    BY <2>1
<1>3. QED
  BY <1>1, <1>2

(* What Server asks of a simulation. *)
Sound(s) == s \in World!Sims /\ s.tired \subseteq s.heard

(* A tick of the simulation leaves it one, and quiet feeds as they were.    *)
LEMMA TicksTyped ==
  ASSUME NEW s, Sound(s), NEW t \in World!Ticks(s, Ties)
  PROVE  Sound(t) /\ (s.media.hot = {} => t.media = s.media)
<1>1. \E o \in World!Advances(s.media, s.heard \ s.tired, People \ s.heard, MaxPosts) :
        \E new \in SUBSET World!CanHear(s, Ties, o.shown) :
          \E late \in SUBSET (IF Fatigue THEN s.heard ELSE {}) :
            t = World!Ticked(s, o.media, new, late)
  <2> DEFINE lates  == SUBSET (IF Fatigue THEN s.heard ELSE {})
             L(o, n) == {World!Ticked(s, o.media, n, l) : l \in lates}
             A(o)   == UNION {L(o, n) : n \in SUBSET World!CanHear(s, Ties, o.shown)}
             outs   == World!Advances(s.media, s.heard \ s.tired, People \ s.heard, MaxPosts)
  <2>1. t \in UNION {A(o) : o \in outs}
    BY DEF World!Ticks
  <2>2. PICK o \in outs : t \in A(o)
    BY <2>1
  <2>3. PICK n \in SUBSET World!CanHear(s, Ties, o.shown) : t \in L(o, n)
    BY <2>2
  <2>4. QED
    BY <2>3
<1> PICK o \in World!Advances(s.media, s.heard \ s.tired, People \ s.heard, MaxPosts) :
      \E new \in SUBSET World!CanHear(s, Ties, o.shown) :
        \E late \in SUBSET (IF Fatigue THEN s.heard ELSE {}) :
          t = World!Ticked(s, o.media, new, late)
  BY <1>1
<1> PICK new \in SUBSET World!CanHear(s, Ties, o.shown) :
      \E late \in SUBSET (IF Fatigue THEN s.heard ELSE {}) :
        t = World!Ticked(s, o.media, new, late)
  OBVIOUS
<1> PICK late \in SUBSET (IF Fatigue THEN s.heard ELSE {}) :
      t = World!Ticked(s, o.media, new, late)
  OBVIOUS
<1>2. /\ o.media \in World!MediaStates
      /\ s.media.hot = {} => o.media = s.media
  BY AdvancesTyped DEF Sound, World!Sims
<1>3. new \subseteq People /\ late \subseteq s.heard
  BY DEF World!CanHear
<1>4. World!Opinions(s, o.media) \subseteq People
  BY DEF World!Opinions
<1>5. (IF DayNight THEN World!WrapHour(s.hour + 1) ELSE s.hour) \in Nat
  BY ServerAssumption DEF Sound, World!Sims, World!WrapHour
<1>6. QED
  BY <1>1, <1>2, <1>3, <1>4, <1>5 DEF World!Ticked, Sound, World!Sims

(* So does a tick cut short by a panic. *)
LEMMA PanicTyped ==
  ASSUME Sound(sim), PanicTick
  PROVE  Sound(sim') /\ (sim.media.hot = {} => sim'.media = sim.media)
<1>1. PICK s \in World!Ticks(sim, Ties) :
        sim' \in {sim, [sim EXCEPT !.media = s.media],
                  [s EXCEPT !.hour = sim.hour, !.stirred = sim.stirred], s}
  BY DEF PanicTick
<1>2. Sound(s) /\ (sim.media.hot = {} => s.media = sim.media)
  BY TicksTyped
<1>3. CASE sim' = [sim EXCEPT !.media = s.media]
  BY <1>2, <1>3 DEF Sound, World!Sims
<1>4. CASE sim' = [s EXCEPT !.hour = sim.hour, !.stirred = sim.stirred]
  BY <1>2, <1>4 DEF Sound, World!Sims
<1>5. QED
  BY <1>1, <1>2, <1>3, <1>4

(* Nor do requests and reactions light a feed: only a story does.           *)
LEMMA ControlTyped ==
  ASSUME Sound(sim), NEW req \in Controls, Control(req)
  PROVE  Sound(sim') /\ (sim.media.hot = {} => sim'.media.hot = {})
<1>1. req.media \in BOOLEAN \cup {Absent}
  BY ServerAssumption
<1>2. /\ Sound(Switched(sim, req.media))
      /\ sim.media.hot = {} => Switched(sim, req.media).media.hot = {}
  <2>1. CASE req.media = Absent
    BY <2>1 DEF Switched
  <2>2. CASE req.media # Absent
    <3>1. Switched(sim, req.media)
            = [sim EXCEPT !.media = World!SetEnabled(sim.media, req.media)]
      BY <2>2 DEF Switched, Sound, World!Sims
    <3>2. /\ World!SetEnabled(sim.media, req.media) \in World!MediaStates
          /\ sim.media.hot = {} => World!SetEnabled(sim.media, req.media).hot = {}
      BY DEF World!SetEnabled, Sound, World!Sims, World!MediaStates
    <3>3. QED
      BY <3>1, <3>2 DEF Sound, World!Sims
  <2>3. QED
    BY <2>1, <2>2
<1>3. \A s : Sound(s) => Sound(World!Reset(s)) /\ World!Reset(s).media.hot = {}
  BY ServerAssumption DEF Sound, World!Sims, World!Reset, World!ResetMedia,
                          World!OwnThresholds, World!MediaStates
<1>4. QED
  BY <1>2, <1>3 DEF Control

(* A story: the seeds hear it, and every feed may light. *)
LEMMA EventTyped ==
  ASSUME Sound(sim), NEW ev \in News, Event(ev)
  PROVE  Sound(sim')
<1>1. /\ ev.seeds \subseteq People /\ ev.carriers \subseteq People
      /\ ev.difficulty \in Nat /\ ev.hour \in 0..HoursPerDay /\ ev.lit \subseteq Platforms
  BY ServerAssumption DEF World!Events
<1>2. World!Ignite(sim.media, ev.lit) \in World!MediaStates
  BY <1>1 DEF World!Ignite, Sound, World!Sims, World!MediaStates
<1>3. /\ (IF DayNight /\ ev.hour # World!NoHour THEN ev.hour ELSE sim.hour) \in Nat
      /\ (IF ev.difficulty > 0 THEN ev.difficulty ELSE sim.scale) \in Nat
  BY <1>1, ServerAssumption DEF Sound, World!Sims
<1>4. sim' = World!Inject(sim, ev)
  BY DEF Event
<1>5. World!Inject(sim, ev) \in World!Sims
  BY <1>1, <1>2, <1>3 DEF World!Inject, World!Broadcast, Sound, World!Sims
<1>6. World!Inject(sim, ev).tired = sim.tired /\ sim.heard \subseteq World!Inject(sim, ev).heard
  BY DEF World!Inject, Sound, World!Sims
<1>7. QED
  BY <1>4, <1>5, <1>6 DEF Sound

LEMMA FoldTyped ==
  ASSUME Sound(sim), NEW people \in Minds, Fold(people)
  PROVE  Sound(sim') /\ sim'.media = sim.media
<1>1. people \subseteq People
  BY ServerAssumption
<1>2. QED
  BY <1>1 DEF Fold, World!ApplyReactions, Sound, World!Sims

(* It starts at rest. *)
LEMMA SoundInit == Init => Sound(sim)
  BY ServerAssumption
     DEF Init, Sound, World!Rest, World!Sims, World!NewMedia, World!MediaStates

(* What a step does to the simulation: it stays one, and its feeds quiet    *)
(* unless the step is a story.                                              *)
LEMMA SoundStep ==
  ASSUME Sound(sim), [Next]_vars
  PROVE  /\ Sound(sim')
         /\ sim.media.hot = {} /\ sim'.media.hot # {} => \E ev \in News : Event(ev)
<1>1. CASE Tick
  BY <1>1, TicksTyped DEF Tick
<1>2. CASE PanicTick
  BY <1>2, PanicTyped
<1>3. CASE HandlerPanic
  BY <1>3 DEF HandlerPanic
<1>4. CASE \E req \in Controls : Control(req)
  BY <1>4, ControlTyped
<1>5. CASE \E ev \in News : Event(ev)
  BY <1>5, EventTyped
<1>6. CASE \E people \in Minds : Fold(people)
  BY <1>6, FoldTyped
<1>7. CASE Stream \/ UNCHANGED vars
  BY <1>7 DEF Stream, vars, serverVars
<1>8. QED
  BY <1>1, <1>2, <1>3, <1>4, <1>5, <1>6, <1>7 DEF Next

(* Ticks, whole or cut short, switches, resets and reactions light no feed. *)
THEOREM Lit == Spec => LitByNews
<1>1. Sound(sim) /\ [Next]_vars => Sound(sim)'
  BY SoundStep DEF Sound
<1>2. Sound(sim) /\ [Next]_vars =>
        [sim.media.hot = {} /\ sim'.media.hot # {} => \E ev \in News : Event(ev)]_vars
  BY SoundStep
<1>3. QED
  BY <1>1, <1>2, SoundInit, PTL DEF Spec, LitByNews

-----------------------------------------------------------------------------
(* Types *)

(* The words of a simulation are words. *)
LEMMA FlagsTyped ==
  ASSUME NEW s, Sound(s)
  PROVE  FlagsFor(s) \in [People -> Words]
<1>1. ASSUME NEW i \in People
      PROVE  <<i \in s.heard, s.media.enabled /\ i \in s.media.exposed>> \in Words
  <2>1. (i \in s.heard) \in BOOLEAN
    OBVIOUS
  <2>2. (s.media.enabled /\ i \in s.media.exposed) \in BOOLEAN
    OBVIOUS
  <2>3. QED
    BY <2>1, <2>2, ServerAssumption
<1>2. QED
  BY <1>1 DEF FlagsFor

(* A frame is some people's words, and acknowledging it keeps them words.   *)
LEMMA EncodedTyped ==
  ASSUME StreamTypeOK
  PROVE  /\ Encoded \in Frames
         /\ Acknowledge => lastFl' \in [People -> Words] /\ dirty' \subseteq People
<1>1. flags \in [People -> Words] /\ lastFl \in [People -> Words] /\ dirty \subseteq People
  BY DEF StreamTypeOK
<1>2. Encoded \in Frames
  <2> DEFINE S == IF Full THEN People ELSE dirty
  <2>1. S \in SUBSET People /\ Encoded \in [S -> Words]
    BY <1>1 DEF Encoded
  <2>2. QED
    BY <2>1 DEF Frames
<1>3. Acknowledge => lastFl' \in [People -> Words] /\ dirty' \subseteq People
  BY <1>1 DEF Acknowledge
<1>4. QED
  BY <1>2, <1>3

LEMMA EmptyIsFrame == Empty \in Frames
  BY DEF Empty, Frames

(* A page that polls has loaded. *)
Loaded == poll # "none" => shown # None

LEMMA RefreshTyped ==
  ASSUME StreamTypeOK, Loaded, flags' \in [People -> Words], dirty' \subseteq People,
         UNCHANGED <<lastFl, pageVars, synced>>
  PROVE  StreamTypeOK' /\ Loaded'
  BY DEF StreamTypeOK, Loaded, pageVars, pollVars

LEMMA StreamKeptTyped ==
  ASSUME StreamTypeOK, Loaded, UNCHANGED streamVars
  PROVE  StreamTypeOK' /\ Loaded'
  BY DEF StreamTypeOK, Loaded, streamVars, simFlagVars, pageVars, pollVars

(* Every step of a request does. *)
LEMMA StreamTyped ==
  ASSUME StreamTypeOK, Loaded, Stream
  PROVE  StreamTypeOK' /\ Loaded'
<1> USE DEF Requests
<1>1. CASE BeginState
  BY <1>1, EncodedTyped DEF BeginState, StreamTypeOK, Loaded, simFlagVars
<1>2. CASE EndState
  BY <1>2, EncodedTyped DEF EndState, StreamTypeOK, Loaded, Full
<1>3. CASE FailState
  BY <1>3, EmptyIsFrame DEF FailState, OnFailure, StreamTypeOK, Loaded
<1>4. CASE ApplyFrame
  <2>1. frame \in Frames /\ shown \in [People -> Words]
    BY <1>4 DEF ApplyFrame, StreamTypeOK, Loaded
  <2>2. Patched(shown, frame) \in [People -> Words]
    <3>1. PICK S \in SUBSET People : frame \in [S -> Words]
      BY <2>1 DEF Frames
    <3>2. QED
      BY <2>1, <3>1 DEF Patched
  <2>3. QED
    BY <1>4, <2>2, EmptyIsFrame DEF ApplyFrame, StreamTypeOK, Loaded, simFlagVars
<1>5. CASE DropFrame
  BY <1>5, EmptyIsFrame DEF DropFrame, StreamTypeOK, Loaded, simFlagVars
<1>6. CASE ServeViewer
  BY <1>6, EncodedTyped DEF ServeViewer, StreamTypeOK, Loaded, pageVars, pollVars
<1>7. CASE BeginInstances \/ FailInstances
  BY <1>7 DEF BeginInstances, FailInstances, StreamTypeOK, Loaded, simFlagVars, pollVars
<1>8. CASE LoadInstances
  <2>1. shown' \in [People -> Words] /\ shown' # None
    BY <1>8, StreamAssumption DEF LoadInstances
  <2>2. QED
    BY <1>8, <2>1 DEF LoadInstances, StreamTypeOK, Loaded, simFlagVars, pollVars
<1>9. QED
  BY <1>1, <1>2, <1>3, <1>4, <1>5, <1>6, <1>7, <1>8 DEF Stream, Locking

LEMMA TypesInit == Init => ServerTypeOK /\ Loaded
<1> SUFFICES ASSUME Init PROVE ServerTypeOK /\ Loaded
  OBVIOUS
<1>1. Sound(sim)
  BY SoundInit
<1>2. StreamTypeOK /\ Loaded
  BY StreamAssumption, EmptyIsFrame
     DEF Init, StreamInit, StreamTypeOK, Loaded, Requests
<1>3. running = FALSE /\ steps = 0 /\ wedged = FALSE
  BY DEF Init
<1>4. steps \in 0..MaxSteps
  BY <1>3, ServerAssumption
<1>5. QED
  BY <1>1, <1>2, <1>3, <1>4 DEF ServerTypeOK, Sound

(* The clock and its switches. *)
LEMMA ClockTyped ==
  ASSUME ServerTypeOK, [Next]_vars
  PROVE  running' \in BOOLEAN /\ steps' \in 0..MaxSteps /\ wedged' \in BOOLEAN
<1> USE DEF ServerTypeOK
<1>1. Spend => steps' \in 0..MaxSteps
  BY ServerAssumption DEF Spend
<1>2. CASE Tick \/ PanicTick
  BY <1>1, <1>2 DEF Tick, PanicTick
<1>3. CASE \E req \in Controls : Control(req)
  <2>1. PICK req \in Controls : Control(req)
    BY <1>3
  <2>2. req.running \in BOOLEAN \cup {Absent} /\ req.step \in Nat
    BY ServerAssumption
  <2>3. QED
    BY <2>1, <2>2, ServerAssumption DEF Control
<1>4. CASE HandlerPanic \/ (\E ev \in News : Event(ev)) \/ \E people \in Minds : Fold(people)
  BY <1>4 DEF HandlerPanic, Event, Fold
<1>5. CASE Stream \/ UNCHANGED vars
  BY <1>5 DEF Stream, vars, serverVars
<1>6. QED
  BY <1>2, <1>3, <1>4, <1>5 DEF Next

LEMMA TypesStep ==
  ASSUME ServerTypeOK, Loaded, [Next]_vars
  PROVE  ServerTypeOK' /\ Loaded'
<1>1. Sound(sim) /\ StreamTypeOK
  BY DEF ServerTypeOK, Sound
<1>2. Sound(sim')
  BY <1>1, SoundStep
<1>3. FlagsFor(sim') \in [People -> Words]
  BY <1>2, FlagsTyped
<1>4. Resync(FlagsFor(sim')) => StreamTypeOK' /\ Loaded'
  <2>1. Pending(FlagsFor(sim')) \subseteq People
    BY DEF Pending, Unsent
  <2>2. QED
    BY <1>1, <1>3, <2>1, RefreshTyped DEF Resync
<1>5. StreamTypeOK' /\ Loaded'
  <2>1. CASE Tick
    <3>1. PICK s \in World!Ticks(sim, Ties) : sim' = s /\ Repack(FlagsFor(s))
      BY <2>1 DEF Tick
    <3>2. dirty' \subseteq People /\ flags' \in [People -> Words]
      BY <1>1, <1>3, <3>1 DEF Repack, Unsent, StreamTypeOK
    <3>3. QED
      BY <1>1, <3>1, <3>2, RefreshTyped DEF Repack
  <2>2. CASE PanicTick \/ HandlerPanic
    BY <1>1, <2>2, StreamKeptTyped DEF PanicTick, HandlerPanic
  <2>3. CASE \E req \in Controls : Control(req)
    BY <1>1, <1>4, <2>3, StreamKeptTyped DEF Control
  <2>4. CASE (\E ev \in News : Event(ev)) \/ \E people \in Minds : Fold(people)
    BY <1>4, <2>4 DEF Event, Fold
  <2>5. CASE Stream
    BY <1>1, <2>5, StreamTyped
  <2>6. CASE UNCHANGED vars
    BY <1>1, <2>6, StreamKeptTyped DEF vars
  <2>7. QED
    BY <2>1, <2>2, <2>3, <2>4, <2>5, <2>6 DEF Next
<1>6. QED
  BY <1>2, <1>5, ClockTyped DEF ServerTypeOK, Sound

(* The type invariant. *)
THEOREM Types == Spec => []ServerTypeOK
  BY TypesInit, TypesStep, PTL DEF Spec

=============================================================================
