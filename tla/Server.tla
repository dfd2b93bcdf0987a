------------------------------- MODULE Server -------------------------------
(***************************************************************************)
(* The server of cmd/populace: one mutex over the simulation, the tick     *)
(* loop of resilience.go, and the handlers of main.go that change the      *)
(* simulation or stream it.  Composes the simulation of module Simulation  *)
(* with the flag stream of StateStream.                                    *)
(*                                                                         *)
(* What happens under the mutex is one step, but for writing to the        *)
(* network: /api/state and /api/instances hold the mutex until their       *)
(* client has taken the bytes or is gone.  Every other handler reads and   *)
(* lets go.  The loop's sleeps are not timed: between two ticks anything   *)
(* may happen.                                                             *)
(***************************************************************************)
EXTENDS StateStream

CONSTANTS
  Platforms, Member, MaxPosts, DayNight, HoursPerDay, StartHour, Fatigue,
  Ties,           \* the graph
  News,           \* the stories that may break
  Minds,          \* the sets of people a batch of reactions is about
  Controls,       \* the requests to /api/control
  MaxSteps        \* srv.steps is never asked above it: bound

VARIABLES
  sim,        \* srv.s
  running,    \* srv.running
  steps,      \* srv.steps
  wedged      \* a handler panicked holding the mutex

serverVars == <<sim, running, steps, wedged>>
vars == <<serverVars, streamVars>>

World == INSTANCE Simulation

(* flagsFor: whether a person has heard, and whether a feed reached them.   *)
FlagsFor(s) ==
  [i \in People |-> <<i \in s.heard, s.media.enabled /\ i \in s.media.exposed>>]

(* A field a control request leaves out. *)
Absent == None

ASSUME ServerAssumption ==
  /\ BOOLEAN \X BOOLEAN \subseteq Words
  /\ News \subseteq World!Events
  /\ Minds \subseteq SUBSET People
  /\ MaxSteps \in Nat /\ StartHour \in Nat /\ HoursPerDay \in Nat \ {0}
  /\ Controls \subseteq [running : BOOLEAN \cup {Absent}, step : Nat,
                          media : BOOLEAN \cup {Absent}, reset : BOOLEAN]

Init ==
  /\ StreamInit
  /\ sim = World!Rest
  /\ running = FALSE /\ steps = 0
  /\ wedged = FALSE

(* Nobody holds the mutex. *)
Free == ~wedged /\ ~Writing

-----------------------------------------------------------------------------
(* The tick loop *)

(* Mutant: a paused clock does not look at its budget. *)
RunningOnly == running

Due == running \/ steps > 0

(* Mutant: a tick of a running clock is taken from the budget too. *)
SpendAlways == steps' = steps - 1

Spend == steps' = IF steps > 0 THEN steps - 1 ELSE 0

Tick ==
  /\ Free /\ Due
  /\ Spend
  /\ \E s \in World!Ticks(sim, Ties) : sim' = s /\ Repack(FlagsFor(s))
  /\ UNCHANGED <<running, wedged>>

(* A panic in what the tick does on its own goroutine: the deferred unlock  *)
(* frees the mutex, the step is spent, and the simulation stays where it    *)
(* got to, with no flags repacked.                                          *)
PanicTick ==
  /\ Free /\ Due
  /\ Spend
  /\ \E s \in World!Ticks(sim, Ties) :
       sim' \in {sim, [sim EXCEPT !.media = s.media],
                 [s EXCEPT !.hour = sim.hour, !.stirred = sim.stirred], s}
  /\ UNCHANGED <<running, wedged, streamVars>>

-----------------------------------------------------------------------------
(* Handlers that change the simulation *)

Switched(s, on) ==
  IF on = Absent THEN s ELSE [s EXCEPT !.media = World!SetEnabled(@, on)]

(* /api/control, fields in the order the handler looks at them.  A switched *)
(* layer repacks nothing; a reset takes back the steps of its own request.  *)
Control(req) ==
  /\ Free
  /\ steps + req.step <= MaxSteps
  /\ running' = IF req.running = Absent THEN running ELSE req.running
  /\ IF req.reset
     THEN /\ sim' = World!Reset(Switched(sim, req.media))
          /\ Resync(FlagsFor(sim'))
          /\ steps' = 0
     ELSE /\ sim' = Switched(sim, req.media)
          /\ steps' = steps + req.step
          /\ UNCHANGED streamVars
  /\ UNCHANGED wedged

(* /api/event; what it asks of the model is in Chat and Relay. *)
Event(ev) ==
  /\ Free
  /\ sim' = World!Inject(sim, ev)
  /\ Resync(FlagsFor(sim'))
  /\ UNCHANGED <<running, steps, wedged>>

(* /api/generate's flush: a batch of reactions, for whatever story is on.   *)
Fold(people) ==
  /\ Free
  /\ sim' = World!ApplyReactions(sim, people)
  /\ Resync(FlagsFor(sim'))
  /\ UNCHANGED <<running, steps, wedged>>

(* A handler that unlocks at its end and not in a defer panics: the HTTP    *)
(* layer recovers, and nobody ever unlocks.                                 *)
HandlerPanic ==
  /\ Free
  /\ wedged' = TRUE
  /\ UNCHANGED <<sim, running, steps, streamVars>>

-----------------------------------------------------------------------------
(* Handlers that stream it, and the network *)

Locking == BeginState \/ ServeViewer \/ BeginInstances
Stream ==
  /\ \/ Free /\ Locking
     \/ EndState \/ FailState \/ ApplyFrame \/ DropFrame
     \/ LoadInstances \/ FailInstances
  /\ UNCHANGED serverVars

Next ==
  \/ Tick \/ PanicTick \/ HandlerPanic
  \/ \E req \in Controls : Control(req)
  \/ \E ev \in News : Event(ev)
  \/ \E people \in Minds : Fold(people)
  \/ Stream

(* sync.Mutex hands itself to who has waited for a millisecond, so the loop *)
(* and a poll each get it though others keep asking, and a tick does not    *)
(* panic every time.  A client takes its bytes or its connection breaks,    *)
(* and does not break every time.                                           *)
Fairness ==
  /\ SF_vars(Tick)
  /\ SF_vars(Free /\ BeginState /\ UNCHANGED serverVars)
  /\ SF_vars(EndState /\ UNCHANGED serverVars)
  /\ WF_vars((LoadInstances \/ FailInstances) /\ UNCHANGED serverVars)
  /\ WF_vars((ApplyFrame \/ DropFrame) /\ UNCHANGED serverVars)

Spec == Init /\ [][Next]_vars /\ Fairness

-----------------------------------------------------------------------------

ServerTypeOK ==
  /\ StreamTypeOK
  /\ sim \in World!Sims /\ sim.tired \subseteq sim.heard
  /\ running \in BOOLEAN /\ steps \in 0..MaxSteps /\ wedged \in BOOLEAN

(* Nothing is on a feed until a story breaks: whatever is switched, ticked, *)
(* reset or interrupted, a quiet layer is lit by an event only.             *)
LitByNews ==
  [][sim.media.hot = {} /\ sim'.media.hot # {} => \E ev \in News : Event(ev)]_vars

(* What the page shows catches up: while it is given every frame, somebody  *)
(* it goes on showing wrong is somebody whose flags go on changing, however *)
(* the simulation and the other pages go on, and whatever ticks panic.      *)
Behind(i) == synced /\ ~wedged /\ shown[i] # flags[i]
CatchesUp ==
  \A i \in People : <>[]Behind(i) => []<><<flags'[i] # flags[i]>>_flags

(* A paused clock takes the steps it was asked for, whatever ticks panic,   *)
(* writes are slow and requests come in, unless a handler panicked under    *)
(* the mutex.  That every write ends, one way or the other, is assumed: the *)
(* code waits for as long as a client keeps its connection and reads        *)
(* nothing.                                                                 *)
StepsAreTaken == steps = MaxSteps ~> steps < MaxSteps \/ wedged

=============================================================================
