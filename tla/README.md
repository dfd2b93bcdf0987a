# Populace, specified

Populace simulates how a story spreads through a synthetic population. A server
holds the world and advances it on a clock; a language model, reached through a
gateway, says how each archetype of person reacts and writes the chat of six
friends; a browser draws the result. This directory holds TLA+ specifications
of its concurrent and stateful parts, the TLC configurations that check them on
small instances, and TLAPS proofs.

`PROJECT.json` maps each definition to the lines it stands for, and lists the
runs, the mutants, the findings, the hazards and the theorems.

    tlc -workers 2 -config MCGateway.cfg MCGateway    # one run
    tlapm GatewayProofs.tla                           # the proofs

## 1. The system

| Part (under `src/`) | State it keeps | Operations | What is hard, and what must hold |
|---|---|---|---|
| Gateway: `internal/gateway/gateway.go` | two channels as token pools, waiting and in-flight gauges, tallies, the cache | completions handler (admit, forward, cache, release), health, stats | Handlers race on channels and atomics, and give up waiting. Tokens and gauges must balance on every path, batch must leave room, a request must end whatever others do, clients that stop reading included |
| Response cache: `gateway/cache.go` | map, recency list, byte count | Get, Put | Three structures must agree; the budget holds; the least recently used goes first |
| Rate limiter: `gateway/limit.go` | a bucket per client | Allow | Refill at the boundary, the growth of the map |
| Model client: `internal/llm/client.go` | none | Complete | Retries of refused calls inside a deadline |
| Relay: `internal/reaction/relay.go` | reactions by archetype and story, order of stories, counters, `running`, the file | Run with its workers, Get, Snapshot, Progress, load, save | A pool of workers, deadlines, eviction by whole stories, crash while saving, giving up the claim to run |
| Dialogue: `reaction/dialogue.go` | none | write and parse a dialogue | What it lets through must be playable |
| Group chat: `internal/sim/cohort.go` | friends, messages, script, cursor, stall clock | Observe, NewScript, InstallModelScript, Reset | A late dialogue, a reroll, a speaker who never hears; replies point at messages that scroll away |
| Contagion: `sim/contagion.go`, `sim/reactions.go` | states in two buffers, clocks, thresholds, feed credit | AdvanceWith, Decay, seedings, Reset, ApplyReactions | Parallel evaluation must be synchronous; clocks across seeding and reset |
| Media: `sim/media.go` | a score per platform, who was exposed, on or off | Ignite, Advance, SetEnabled, Reset | Two short-circuits; stale exposure while quiet; switching it on in mid-story |
| Opinions: `sim/opinion.go` | two buffers of opinions, priors | StepWith, Settle, Broadcast | Synchronous numeric iteration |
| Step and stream: `sim/sim.go`, `daynight.go` | tick, hour, packed flags, changed list, all of the above | Inject, Advance, Reset, Encode | Order within a tick; deltas shared by clients that miss ticks |
| Graph: `sim/graph.go` | compressed adjacency | BuildGraph | Workers fill each other's rows through atomic cursors; the result must not depend on the schedule |
| Aggregates: `sim/stats.go`, `street.go` | a ring of samples, baselines | Breakdown, History | The ring at its limit |
| Server: `cmd/populace` | the simulation under one mutex, the story, the relay, pause and speed | HTTP handlers, the tick loop, generation goroutines | Goroutines that act after a wait; panics under the mutex; writing to the network under it. What is asked of the clock is done, and what the page shows catches up |
| Experiments: `internal/experiment` | running flag, progress, last result | Run, Progress | One at a time, cancellation between arms, arms that must start alike |
| Population: `internal/world` | none after construction | Generate | Pure sampling |
| Browser: `web/` | what it last drew | load, poll, rendering | Its reading of deltas: what a page misses it misses until it changes again |

How they meet: a POST of an event locks the server, injects the story (opinions
of broadcasters, seeding of the contagion, ignition of the media, a new script
for the chat) and starts a goroutine that warms the relay for the friends'
archetypes and then asks for a dialogue, which it installs under the mutex if
the story is still the same. Asking the model for the whole population is a
second goroutine through the same relay, whose answers lower thresholds and
move priors in batches. Both goroutines go through the model client and the
gateway; the friends' turns are released by the tick loop, one per tick.

A tick evaluates the feeds, then a round of the contagion on what they showed,
then opinions, the clock, the chat, and packs everybody's flags anew, noting who
changed. Pages poll for the changes; the list of them is one for all pages and
is emptied by any frame written to its end. The experiment runner has
populations, graphs and simulations of its own, and shares with the server only
the code.

## 2. The modules

| Module | Models | Over |
|---|---|---|
| `Admission` | what admission control promises: at most `MaxInFlight` calls, at most `BatchCap` of them batch | |
| `ResponseCache` | `Cache.Get`, `Cache.Put` | |
| `ResponseCacheProofs` | theorems about `ResponseCache` and its history in `MCResponseCache` | |
| `Gateway` | the completions handler, step by step | `ResponseCache`; implements `Admission` |
| `GatewayProofs` | theorems about `Gateway` | |
| `Relay` | `Relay.Run`, its workers, story order, save, load, crash | |
| `RelayProofs` | theorems about `Relay` | |
| `RetryPath` | the relay's retry through the gateway's cache | `ResponseCache` |
| `Chat` | the group chat, and the handlers and goroutines that act on it | |
| `ChatProofs` | theorems about `Chat` | |
| `Cascade` | what a contagion promises: everybody decides at once | |
| `Contagion` | the evaluation of a round node by node, decay, seeding, reactions, reset | implements `Cascade` |
| `ContagionProofs` | theorems about `Contagion` | |
| `Media` | the media layer, as operators on its state | |
| `Simulation` | `Inject`, `ApplyReactions`, `Advance`, `Reset`, as operators on the state of a simulation | `Media` |
| `StateStream` | packing, the list of the changed, both forms of a frame, the page's copy, loading it | |
| `Server` | the mutex, the tick loop and its panics, the handlers that change or stream the simulation | `StateStream`, `Simulation` (as `World`) |
| `ServerProofs` | theorems about `Server` | |
| `GraphBuild` | `BuildGraph`: two passes over shared arrays, rows sorted | |
| `Experiment` | `Runner.Run` | `GraphBuild`, `Simulation` |
| `ExperimentProofs` | theorems about `Experiment` and, in it, `GraphBuild` | |
| `DataLemmas` | induction, sums over sets and sequences without an element: lemmas the proofs share | |

`MC*.tla` give small instances; `RetryPath` needs none.

### Gateway
`pc[r]` is the next step of the handler of `r` that another goroutine can see.
The channels are their lengths (`slots`, `batch`), the atomics are numbers.
Reading the waiting counter (`check`), adding to it (`enqueue`), the two channel
sends, the gauge, the deferred decrement and the three steps of `release` are
separate actions, because the code makes none of them one. A handler blocked on
a channel may instead give up, for the deadline or for a client that is gone;
both do the same to this state. The model server is external: it answers a
whole response, a stream or nothing. An answer, from the cache or the model, and
each chunk of a stream is written to the client, and how long that takes is the
client's affair: at `hit` and `writing` the handler waits, holding in the second
case a slot, until the client reads on or is gone (`ClientMoves`). An error page
fits the connection's buffer and holds nobody up. A request turned away before
the cache is asked touches none of this state.

### ResponseCache
The map is `items`, the recency list `ll`, the running byte count `bytes`. Both
operations hold the cache's mutex throughout, so each is one action.

### Relay
The key of a reaction is its archetype and its story; its content does not
matter, so the cache is a set of keys. A caller's pool is `todo` and `asking`;
the retry is part of what a worker is at. Saving is three steps (write begun,
written, renamed), each of which a crash may follow; writing may fail too.
`Restart` loses everything but the file and loads it, stories in any order.

### RetryPath
An attempt sends a body that depends on the archetype and the story only. The
gateway answers it from its cache or asks the model, whose answer, well formed
or not, it caches with its status 200.

### Chat
All access to the simulation is under the server's mutex, so a tick, a handler
and each locked part of a goroutine is one action; the wait for the model
between two locked parts is what interleaves. A persona is told apart by whether
it has heard, a text by who wrote it, for which friends and as which turn.
Message ids and turn numbers are kept as the code keeps them, since the threads
depend on them; `-1` in the code is `0` here.

### Contagion
`BeginRound`, then `Adopt(i)` or `Pass(i)` for everybody in any order, and `EndRound` are `AdvanceWith`:
workers share the state they read and write only entries of their own. The
caller holds the mutex for the round, so nothing else acts within it. Thresholds
and difficulties are percentages. Which people a seeding picks, who is awake and
who is lucky in a simple contagion are left open; what a platform shows is a
number per person, taken from a small set.

### Media and Simulation
These two have no variables of their own: a simulation is a value, changed by
one operator per method, so that the server, which has one for ever, and the
experiment, which makes one per replicate, apply the same definitions. A
platform's score either counts (above the `1e-4` of `quiet`) or does not; a
story lights the platforms it is salient enough for (`lit`), which may be none;
engagement may raise it and decay lower it, on whatever platform somebody is
spreading on, and only lowers it elsewhere. Opinions are at the rest they settle
at, or not: `stirred` is who may be off it. `Contagion` has a round person by
person; `Ticks` has everything that may come of one (who adopts is unaware and
has a tie to a spreader or a feed that confirms; who tires has adopted), so what
holds here holds for every draw of the random numbers and every hour of the day.
`lowered`, `scale` and the two `stepped` (the step counters of the contagion and
of the media layer, which seed the draws, are zero or not) are what reactions,
events and ticks leave behind, and what a reset must undo.

### StateStream
A person's sixteen bits are one word. `EndState` and `FailState` are the two
ways `Encode` ends; the frame was built before either, while the mutex kept
everything still. The page, external to Go but in the repository, polls once at
a time; a frame that reached it is applied, one that was lost on the way is
dropped, and in both cases the server takes it as seen. Another page is
`ServeViewer`: the whole of its poll matters only in what it does to the list.
Loading a page puts zeros for everybody's flags (`globe.js:485`), whatever the
records carry. `synced` is history and guards nothing.

### Server
Every handler but two does what it does under the mutex in one action. `/api/state`
and `/api/instances` write to the network under it, and are two: while one is
writing (`Writing`) nobody else is `Free` to act. `PanicTick` leaves the
simulation at any of the points between the parts of `Advance`, spends the step
and packs no flags. `HandlerPanic` is a panic in a handler that unlocks at its
end: the HTTP layer recovers, the mutex stays locked, and nothing that needs it
happens again. Of a person's word the module keeps whether they have heard and
whether a feed reached them; control requests have the fields the handler
looks at and leave any of them out. What the goroutines of an event do with
the model is in `Chat` and `Relay`; here their batches of reactions are `Fold`.

### GraphBuild
Each atomic add, and each write to a slot claimed by one, is an action of a
worker, which walks its own chunk. A node's proposals are a constant, being a
function of the seed in both passes. On one processor the code runs a pass in
place, which is the case of one worker.

### Experiment
`stage` is where `Run` is. A replicate builds a graph (all of `GraphBuild`), and
on it each arm resets, tells its story, applies its reactions and ticks. The
context may expire at any step and is looked at where the code does. A sample
stands for the number as the pair of what it was measured on: which world, and
the state it started from (`began`, history).

## 3. The runs

| Run | States | Shows |
|---|---|---|
| `gateway` | 45,784 | `Accounted`, `ReleaseNeverBlocks`, `InteractiveRoom`, `CacheHoldsAnswers`; it implements `Admission`; `EveryRequestEnds` |
| `gateway_waiting` | violation | two handlers pass the check of `MaxWaiting` together |
| `cache` | 349 | `Consistent`, `WithinBudget`, `KeepsMostRecent`, `DropsNoMoreThanNeeded` |
| `relay` | 35,675 | `StoriesTracked`, `EvictsWholeStories`, `RunCountsEveryArchetype`, `FileNeverTorn`, `DurableBetweenRuns` |
| `relay_ends` | 11,695 | `RunEnds` |
| `retry_sample` | violation | the retry reads the same malformed text again |
| `chat` | 97,864 | `Threaded`, `OneAuthor`, `SpeakersHaveHeard`, `ExchangeEnds` |
| `chat_opener` | violation | turns of friends who have heard are passed over when the opener was |
| `chat_reroll` | violation | friends say lines written for the friends before them |
| `contagion` | 181,753 | `ClocksFit`, `StalledIsFinal`, `FeedCredit`; it implements `Cascade` |
| `live` | 230,100 | `NothingMissed`, `LitByNews`, `CatchesUp`, `StepsAreTaken` |
| `experiment` | 74,581 | `CursorsFit`, `GraphIsProposed`, `ArmsArePaired`, `ResultAddsUp`, `RunnerFreed` |

What the less obvious ones say. *gateway*: a request that does not end is one its
own client has stopped reading; clients that never read again may hold every
slot, and those behind them are still turned away and give back what they took
(`EveryRequestEnds`). *contagion*: the feed is credited only with people it
showed something in that round and whom peers could not have convinced in it;
the credit lasts until a reset forgets the adoption, and nobody handed a story is
credited for it (`FeedCredit`). It is not what the feed *did*: a simple
contagion credits peers as soon as there is one (section 5). *live*: a page given every frame since a full one is wrong
only about people on the list of those to be sent, whatever writes fail, ticks
panic and resets come between (`NothingMissed`); people it goes on showing wrong
are people who go on changing (`CatchesUp`); a quiet feed is lit by a story and
nothing else (`LitByNews`); a paused clock takes the steps asked of it unless a
handler has panicked under the mutex, if every write to a client ends
(`StepsAreTaken`). *experiment*: a cursor
stays within its row and the rows come out as proposed, on every schedule
(`CursorsFit`, `GraphIsProposed`); all arms of a replicate start from the same
state and a cut result subtracts only like from like (`ArmsArePaired`), quotes
as many runs as it has samples (`ResultAddsUp`), and the runner is free again
(`RunnerFreed`).

**Bounds.** *gateway*: two requests of each lane over one reserved and one
shared slot, and room for one waiter: each lane fills, queues and sheds, and
requests are sent again without end. A one-byte cache with answers of one and
two bytes meets a hit, an eviction and an oversize answer. *cache*: sizes 0, 1,
2, 4 and 5 under a budget of 4 over three keys: empty, full alone, too big, and
evictions of one and of several. Nothing bounds the length of a history. *relay*: three
stories for two places, two archetypes, two callers, a pool of two; the smallest
in which a story is evicted, comes back and a second call is refused.
Symmetry is used for safety only, never in `relay_ends`. *chat*: cohorts of
two, histories of two messages, a stall limit of two ticks. `MaxActs`,
`MaxTurns`, `MaxTangents` and `MaxChatter` bound the handlers called, the turns
of a dialogue, the turns of a canned script that wander off, and the lines of
friends whose opinion moves; two handlers are the least that lets a dialogue
come back too late. *contagion*: a triangle, which reinforces itself; somebody
tied to one corner, who needs a feed; somebody without ties, whom only a feed
reaches. `MaxStep` 3 is a round more than an adopter spreads for, and resets
start the count again. `Floor` is 25% instead of 1%, so that reactions reach it
in two applications instead of five. *live*: two people, of whom one is handed
the story and the other only sees it on the platform both are on, and a second
story that is too dull for the platform; what a delta
costs per person against a full frame is 4 to 3 instead of 6 to 2, so that one
changed person goes as a delta and two as a full frame, as they would with two
of seven and three of seven. One step may be asked for at a time (`MaxSteps`), a feed shows one
post (`MaxPosts`), the day has one hour, nobody tires, and a batch of reactions
is about nobody: it moves thresholds and opinions, which these flags do not
show, so all it does here is to rebuild the list. Nothing bounds the length of a
history: polls, loads, stories, resets and panics come without end.
*experiment*: four people in two chunks; two propose the same tie and one
proposes it twice, so that rows hold duplicates, and one is proposed to by
everybody. Two designs, one of two replicates with two arms and two rounds, one
of a replicate with three arms, in any number and order; the arm that moves all
it can (reactions, a broadcaster, a difficulty and an hour) runs before and
after one that moves little, and after one whose story lights no platform. Days of two hours, so that the clock wraps.

**Deadlock** is checked except in `retry_sample`, where a run of the relay
comes to its end and the module has nothing after it, and in `live`, where a
panic of a handler under the mutex does stop everything.

**Fairness.** *Gateway*: weak fairness of each handler in what does not depend on
its client. A goroutine that can step is scheduled, the two channel sends have
the wait deadline to fall back on, and the call to the model server has a
timeout; as this ends a stream however many chunks have come, the end of a
stream is strongly fair. A write to the client has no deadline, by choice
(`cmd/gateway/main.go:73`), so nothing is assumed of it: a client may read at
once, late or never. No fairness between handlers is assumed, nor that clients
send. *Relay*: weak fairness of each caller's work,
for the same reason: the client ends every call. Starting a run, an expired
deadline and a crash are not fair. *Chat*: weak fairness of the tick, which a
ticker drives; nothing makes anybody hear a story, so the exchange that ends
ends by the stall limit if it must. *Server*: `sync.Mutex` hands itself to
whoever has waited for a millisecond, so the tick loop and a poll get it
however often others ask: strong fairness of the tick and of a poll's beginning.
It is of the tick that does not panic, and of the write that does not fail: they
fail any number of times, but not every time for ever. A load ends and a frame
arrives or is lost (weak fairness); this is the assumption that a client takes
its bytes or its connection breaks, which the code does not enforce (section 5).
No handler, story, switch or reset is fair. *Experiment*: weak fairness of
`Progress`, as `Run` is computation on goroutines of its own.

**Mutants.** Before some definitions stands a mutant, a plausible bug in the
code it models; each property of a passing run is violated when one of them
takes the definition's place.

## 4. What is proved

`GatewayProofs` proves, for any finite set of requests, any lanes and bodies
and any `1 <= BatchCap <= MaxInFlight` (what the defaults of the configuration
leave; see `CapAssumption` and `GatewayAssumption`):

- `Accounting`: `Spec => [](TypeOK /\ Accounted)`;
- `Releases`: `Spec => []ReleaseNeverBlocks`;
- `Reservation`: `Spec => []InteractiveRoom`;
- `Refinement`: `Spec => ImplementsAdmission`;
- `Answers`: `Spec => []CacheHoldsAnswers`, and `Types`, for `TypeOK` alone;
- `UsesTheCache`: `Spec => Cache!CacheSpec`.

The inductive invariant is `TypeOK /\ Accounted`: each channel and gauge equals
the number of handlers between taking and giving back. The counts alone would
not do, for nothing would keep an interactive request from the steps that
return a batch token; `TypeOK` says that only batch traffic goes there.
`CountMove` says what one handler's step from a place to another does to the
number of handlers in a set of places; `StepIInv` turns that into the
invariant, once for all actions, and `NextIInv` applies it to each. That
release never blocks follows as the handler is itself in the count. The
reservation follows from two counts: the slots held by batch are no more than
its tokens, and the slots of the two lanes add up. For the refinement a slot
taken is an `Enter`, a slot freed a `Leave`, and every other step a stutter.
`UsesTheCache` says that the handlers, of all they do, use the cache only by its
operations, so the theorems about it hold inside the gateway; `Answers` follows
from there, as eviction only takes entries away and a handler puts nothing but a
whole answer under its own body.

`ResponseCacheProofs` proves, for any keys, any sizes and any budget
(`CacheAssumption`), over `CacheSpec` and, for the last two, over that
specification with the history of uses in `MCResponseCache`, which adds no
behaviour (`HistoryFollows`: `MCSpec => CacheSpec`):

- `CacheTypes`, `CacheIsConsistent`, `BudgetIsKept`: `CacheSpec => []Inv` for
  `CacheTypeOK`, `Consistent` and `WithinBudget`;
- `MostRecentStay`: `MCSpec => []KeepsMostRecent`;
- `EvictsOnlyWhenItMust`: `MCSpec => DropsNoMoreThanNeeded`.

The count of bytes is a sum over the map, and an insertion, a replacement and an
eviction each change one term of it. The code evicts in a loop, which the
operation states as the least number of entries whose dropping brings the count
within the budget. That there is one, and that it is least, is where both bounds
come from: what is left fits, so the budget is kept, and with one entry more it
would not, so none was dropped too many.

`ContagionProofs` proves, for any finite population with any ties (symmetric or
not), any feeds, sleepers, places and difficulties, any `TransmitFor` (0, for
ever, included) and any `MinReinforce` of at least one (`ContagionAssumption`):

- `Clocks`: `Spec => [](TypeOK /\ ClocksFit)`, and `Types`, for `TypeOK` alone;
- `Stalled`: `Spec => StalledIsFinal`;
- `Credit`: `Spec => FeedCredit`, in every order of evaluation;
- `Synchronous`: `Spec => ImplementsCascade`.

The inductive invariant `IInv` adds to the types what is true in the middle of
a round. `Clocked` is `ClocksFit` for one person, except that somebody the
round has just convinced is dated and not yet an adopter. `Judged` says of
everybody the round has reached that what was written for them is a verdict on
the state before the round, and of everybody else that nothing was written:
this is what the abstract round needs when the buffers are swapped, and it
holds in any order of evaluation as a verdict reads nothing an evaluation
writes (`VerdictKept`). A round without adoptions leaves the buffer as it was;
so `Stalled` needs of the end of the round only that tiring takes peers away,
and of the round itself that all were judged and none convinced. `Credit`
needs that whoever is credited has adopted at some step (`IInv` dates them), so
that only `Reset` can take credit away and nobody it leaves unaware has any: a
seeding, which looks at no credit, then hands the story to nobody who has. For the refinement a person's age is computed
from state and clock (`AgeIs`); `EndRound` is the abstract round, `Inject` its
`Break`, reactions and resets are its `Rethink`, and beginning a round and
evaluating in it are stutters.

`ServerProofs` proves, for any finite population, ties, platforms, stories,
requests and batches, any words and any costs of the two forms of a frame
(`StreamAssumption`, `ServerAssumption` and those of `Simulation` and `Media`):

- `Missed`: `Spec => []NothingMissed`;
- `Lit`: `Spec => LitByNews`;
- `Types`: `Spec => []ServerTypeOK`.

`NothingMissed` is not inductive: it says nothing of what was acknowledged. The
invariant `Streamed` goes through it: whoever's flags are not those last
acknowledged is on the list (`PendingIsDifference`); a frame being written is
what would be encoded now, since nobody else holds the mutex; and what a synced
page will show once the frame on its way is applied *is* what was acknowledged.
Then a write that fails, which acknowledges nothing, and a reset, which rebuilds
the list, keep it for the same reason. `Lit` needs only that a simulation stays
one (`Sound`): each operator is shown to leave a quiet layer quiet, `Ignite`
apart. `Types` adds that a page that polls has loaded.

`RelayProofs` proves, for any callers and stories, finitely many archetypes, any
pool and any bound on stories that is not zero (`RelayAssumption`; the code's is
`MaxStories`, 40):

- `Types`, `Tracked`, `NeverTorn`, `Durable`: `Spec => []Inv` for `TypeOK`,
  `StoriesTracked`, `FileNeverTorn` and `DurableBetweenRuns`;
- `WholeStories`: `Spec => EvictsWholeStories`;
- `EveryArchetype`: `Spec => []RunCountsEveryArchetype`;
- `OneRun`: `Spec => []OneAtATime`, which the others rest on: one caller at most
  is past the flag.

None of them is inductive alone. `Solo` says that one caller at most is in `Run`
and holds the flag; so an eviction meets one story in progress, the one just
listed, and the cache does not move under a save (`Saved`: from the copy on, the
temporary file has the keys of the cache). `Fits` says that the file mentions no
more stories than the bound, since what was renamed was a cache whose stories
were listed (`ListedFew`); so the bound cuts nothing at a restart, and what comes
back is what was saved, in whatever order. The list is kept free of duplicates
by facts about positions (`NewestKeeps`, `PromotedKeeps`). For the counters, a
step invariant names the archetypes answered so far (`Tally`): those, the ones
in the pool and the ones ahead of the loop are disjoint, and their sizes add up.

`ChatProofs` proves, for any draws of any number of friends, any people and
stories, any canned script and any dialogue the parser lets through, any stall
limit and any bound on the history of at least one (`ChatAssumption`), and
whatever the bounds on handlers and turns that TLC needs are:

- `Types`: `Spec => []TypeOK`;
- `StaysThreaded`: `Spec => []Threaded`;
- `OneAuthorEach`: `Spec => []OneAuthor`;
- `OnlyHearersSpeak`: `Spec => []SpeakersHaveHeard`;
- `NeverRewritten`: `Spec => NothingRewritten`, which no run states: a line that
  can be read is never changed, nor another put under its id.

Three of these need one another's supports. `Landing` ties the script to the
history: a turn that has landed is before the cursor, and its message, while it
is kept, is by the script's author and replies to where the turn it answers has
landed. Nothing said later disturbs that, as every later line has an id that was
not given out before (`WhatIsSaid`, `LandingsStay`). `Telling` says what makes a
late dialogue harmless: no line is of a telling after the script's, and none of
the same one was said while the cursor is at the first turn, which is when
`InstallModelScript` may still replace the script. `CannedProper` and
`DialogueProper` are facts about the two writers: a turn answers one before it.

`ExperimentProofs` proves, for any designs, graph, workers and people
(`ExperimentAssumption` and those of the modules below):

- `Paired`: `Spec => []ArmsArePaired`;
- `AddsUp`: `Spec => []ResultAddsUp`;
- `CursorsStay`: `Spec => []CursorsFit`;
- `GraphIsRight`: `Spec => []GraphIsProposed`;
- `Types`: `Spec => []ExperimentTypeOK`.

For `Paired` the invariant counts: an arm has as many samples as replicates are
done, those already run in this replicate one more, unless the run was cut, after
which no arm runs (`Counted`); so the sample an arm adds is in the place of its
replicate. That it started from rest is `ResetIsRest`, which needs the layer to
be on, the one thing a reset keeps; `On` says that no story, reaction or tick
switches it. `AddsUp` adds that the count of runs is the sum of the samples
(`Books`), through the arms of each replicate.

For the graph, `BuildIInv` says what every schedule keeps of the two passes. Their
work falls into pieces (`Items`): a node's slots for all it proposes, claimed at
once in its own row, and for each proposal a slot in the row of whom it goes to.
`Weight(i)` is how many slots of row `i` a piece takes. While pass 1 runs, the
capacity of a row is the weight of the pieces done; when it ends, that of all, so
the rows that the prefix sums lay out have room for exactly what will be claimed
(`Fitting`). While pass 2 runs, a cursor is its row's start plus the weight of
the pieces claimed (`Sized`), and a claimed slot is either written with a tie
(`Filled`) or owed by the one worker that has claimed it and not written it yet
(`Owing`). A claim takes slots nobody owes or has written (`ClaimRowPlaces`,
`PlaceForwardPlaces`, `PlaceReversePlaces`); when all workers are done nothing is
owed, so every slot holds a tie and every tie has its slots (`EndPlaceKeeps`).
`CursorsFit` follows as the weight of a part is at most that of the whole.

`DataLemmas` is what these share: induction over the naturals and over finite
sets, stated with a set in the place of the predicate, which the provers can
instantiate; from it, sums over finite sets (an element more, a part, two parts,
a renaming, a bound); and what becomes of a sequence when an element is removed
or put in front.

Only model-checked: liveness (`EveryRequestEnds`, `RunEnds`, `ExchangeEnds`,
`CatchesUp`, `StepsAreTaken`, `RunnerFreed`), which is about fairness and enabled
steps and out of the prover's reach. Every safety and action property of a
passing run is a theorem.

## 5. What the code does that its comments do not say

- `gateway_waiting`: more than `MaxWaiting` may queue (`gateway.go:285`).
- `retry_sample`: the retry is answered from the cache (`relay.go:264`).
- `chat_opener`: with the opener passed over, so is everything (`cohort.go:783`).
- `chat_reroll`: a dialogue outlives the friends it was written for
  (`main.go:403`).

No run states the following, as the code makes no claim to hold them to, or the
claim is not one of a state or a step. The modules do as the code does.

The page:
- It sets everybody's flags to zeros when it loads (`globe.js:485`), though the
  records it loads carry them; a world at rest has changed nobody since, so its
  first polls return deltas of nobody and the page shows everybody unaware,
  against the topic and no broadcaster, until people change or a full frame
  comes.
- `sim.go:377` speaks of "what the client last saw". It is what any client was
  last sent: with two pages open each takes changes the other misses, and a
  frame lost on the way is not sent again.
- Who was exposed at the last live tick stays marked, and packed, while the
  layer is quiet (`media.go:81` says "this tick").

The server:
- A panic under the mutex in a handler without a deferred unlock leaves it
  locked, while the answer says "the simulation is still running"
  (`resilience.go:46`).
- A panic on a goroutine of `parallel` is recovered nowhere and ends the
  process, against `resilience.go:25`. The modules have no such step: nothing is
  persisted but the relay's file.
- `/api/state` and `/api/instances` write under the mutex and the server has no
  write timeout (`main.go:215`), so a client that reads nothing stops the clock.
- Switched off and on in mid-story the layer stays quiet until the next story:
  `SetEnabled` zeroes the scores, and nothing but `Ignite` lights one that
  nobody engages with. `main.go:466` offers it as an A/B "from this tick
  forward".
- `quiet` argues that a score "only decays after" Ignite (`media.go:278`);
  engagement raises it. The conclusion holds: a score at zero is not evaluated.
- A late batch of reactions is folded into whatever story is on by then, and a
  reset does not forget the story on the server's side.
- The experiment handler reads the last headline without the mutex
  (`main.go:931`), and looks reactions up under a story without a stance.

The rest:
- A client of the gateway that stops reading keeps its handler and, unless the
  answer is a cached one, its slot until its connection breaks (`gateway.go:250`,
  `gateway.go:268`); `cmd/gateway/main.go:73` gives the reason for having no write
  timeout. As many such clients as there are slots stop the gateway for everybody,
  who are turned away after the wait deadline.
- A simple contagion draws against peers and feed together and credits the feed
  only if there was no peer at all (`contagion.go:238`), so the feed's share leaves
  out adoptions that its confirmations tipped.
- Hearing is not per story; an event without a difficulty keeps the last one; a
  run of the relay that fails throughout may evict a story that had reactions; a
  restart forgets which story was used last.
- A closed channel is said to count "exactly like an ordinary tie"
  (`media.go:513`), but one post is worth `int(0.9 * sqrt 1)`, nothing.
- The rate limiter reads the time before it takes its lock (`limit.go:33`), so
  of two requests of a client the later may be counted first and the other lose
  what refills between them.

## 6. Not modelled, and the plan

Left out for good: the numbers of the opinion dynamics and of the statistics
(real arithmetic), sampling of personas, prompts and their parsing, rendering,
deployment, and what is left of the two `main` programs, which parses flags,
serves what it reads and waits. Of `Server`, the lengths of the loop's sleeps
and its backoff; of `Gateway`, authentication and the handlers that report.

To come, in this order:

1. `Limiter`, over integer ticks with the reading of the clock apart from the
   lock, and the retries of the model client with it.
2. The baselines a snapshot is quoted against and the ring of samples.
3. `Chat` and `Relay` as parts of `Server`'s goroutines, so that what a reset
   does to a warm-up in flight is one model.

Proofs to come: that a build of the graph implements, in one step, the map from
proposals to rows that the experiment uses it for; and of whatever the plan above
adds. No module declares a RECURSIVE operator (sums are folds, lists recursive
functions), so that they can be proved about.
