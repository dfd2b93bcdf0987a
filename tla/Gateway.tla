------------------------------ MODULE Gateway ------------------------------
(***************************************************************************)
(* The completions handler of internal/gateway/gateway.go.                 *)
(*                                                                         *)
(* One handler goroutine per request; pc[r] is the next thing it does that *)
(* another goroutine can see.  The two channels are their lengths (slots,  *)
(* batch), the atomics are numbers.  The admission check, the increment of *)
(* the waiting counter, the two channel operations and each of the three   *)
(* steps of release are separate actions, since nothing in the code makes  *)
(* them one.  The response cache is ResponseCache.tla, whose Get and Put   *)
(* run under the cache's own mutex and are called here as they are.        *)
(*                                                                         *)
(* A request that auth, the method check or the body read turns away       *)
(* touches none of this state and is not modelled; neither are the tallies *)
(* served, shed and errs, or the token-rate window.  When its handler      *)
(* returns, r may be sent again.                                           *)
(*                                                                         *)
(* An answer is written to a client that may stop reading.  The server has *)
(* no write timeout, so the handler then stays at its write, with all that *)
(* it holds, until the client reads on or its connection breaks.  The      *)
(* short error pages fit the connection's buffer and hold nobody up.       *)
(***************************************************************************)
EXTENDS Naturals, FiniteSets

CONSTANTS
  Requests,      \* the requests clients send, each any number of times
  LaneOf,        \* the X-Populace-Lane of each
  BodyOf,        \* the body of each
  Bodies,        \* request bodies
  Streaming,     \* those that ask for a stream
  Sizes,         \* lengths of the model server's responses
  MaxInFlight,   \* cap(g.slots)
  BatchCap,      \* cap(g.batch)
  MaxWaiting,    \* "shed beyond this many queued, per lane"
  MaxBytes       \* the cache's budget

Lanes == {"interactive", "batch"}

(* What Config.defaults guarantees of the two capacities: both positive and *)
(* BatchCap no larger than MaxInFlight (equal is allowed).                  *)
ASSUME CapAssumption ==
  /\ MaxInFlight \in Nat /\ BatchCap \in Nat
  /\ 1 <= BatchCap /\ BatchCap <= MaxInFlight

ASSUME GatewayAssumption ==
  /\ IsFiniteSet(Requests)
  /\ LaneOf \in [Requests -> Lanes] /\ BodyOf \in [Requests -> Bodies]
  /\ Streaming \subseteq Bodies /\ Sizes \subseteq Nat
  /\ MaxWaiting \in Nat /\ MaxBytes \in Nat

Statuses == {"ok", "error"}

(* A whole response of the model server: what it answers, its HTTP status,  *)
(* its length.                                                              *)
Responses == [body : Bodies, status : Statuses, size : Sizes]

VARIABLES
  pc,        \* pc[r]: where r's handler is
  slots,     \* len(g.slots)
  batch,     \* len(g.batch)
  inFlight,  \* g.inFlight
  waiting,   \* g.waiting
  items, ll, bytes  \* g.cache

Cache == INSTANCE ResponseCache WITH Keys <- Bodies, Values <- Responses

tokenVars   == <<slots, batch>>
gaugeVars   == <<inFlight, waiting>>
cacheVars   == <<items, ll, bytes>>
vars == <<pc, tokenVars, gaugeVars, cacheVars>>

(* Where a handler can be, in program order. *)
PCs == {"idle",       \* no request
        "lookup",     \* about to ask the cache
        "hit",        \* writing a cached answer to the client
        "check",      \* admit: about to read waiting[lane]
        "enqueue",    \* about to add itself to waiting[lane]
        "batchWait",  \* blocked on g.batch
        "slotWait",   \* blocked on g.slots
        "giveBack",   \* gave up on a slot: about to return the batch token
        "gauge",      \* has a slot, about to count itself in flight
        "admitted",   \* about to leave waiting[lane] (deferred), let through
        "refused",    \* about to leave waiting[lane] (deferred), shed
        "upstream",   \* the call to the model server, or its next chunk
        "writing",    \* writing an answer or a chunk to the client
        "freeSlot",   \* release: slot,
        "uncount",    \* release: gauge,
        "freeBatch"}  \* release: batch token

-----------------------------------------------------------------------------

Init ==
  /\ pc = [r \in Requests |-> "idle"]
  /\ slots = 0 /\ batch = 0
  /\ inFlight = 0
  /\ waiting = [l \in Lanes |-> 0]
  /\ Cache!CacheInit

Goto(r, from, to) == pc[r] = from /\ pc' = [pc EXCEPT ![r] = to]

(* A request arrives. *)
Arrive(r) ==
  /\ Goto(r, "idle", "lookup")
  /\ UNCHANGED <<tokenVars, gaugeVars, cacheVars>>

(* A stream bypasses the cache. *)
Bypass(r) ==
  /\ BodyOf[r] \in Streaming
  /\ Goto(r, "lookup", "check")
  /\ UNCHANGED <<tokenVars, gaugeVars, cacheVars>>

AnswerFromCache(r) ==
  /\ BodyOf[r] \notin Streaming
  /\ Goto(r, "lookup", "hit")
  /\ Cache!Hit(BodyOf[r])
  /\ UNCHANGED <<tokenVars, gaugeVars>>

MissCache(r) ==
  /\ BodyOf[r] \notin Streaming
  /\ Goto(r, "lookup", "check")
  /\ Cache!Miss(BodyOf[r])
  /\ UNCHANGED <<tokenVars, gaugeVars>>

-----------------------------------------------------------------------------
(* admit *)

Full(l) == waiting[l] >= MaxWaiting

(* Too many wait on this lane: 503 at once. *)
ShedAtDoor(r) ==
  /\ Full(LaneOf[r])
  /\ Goto(r, "check", "idle")
  /\ UNCHANGED <<tokenVars, gaugeVars, cacheVars>>

PassDoor(r) ==
  /\ ~Full(LaneOf[r])
  /\ Goto(r, "check", "enqueue")
  /\ UNCHANGED <<tokenVars, gaugeVars, cacheVars>>

(* Mutant: everyone queues for a slot first, without the reservation. *)
NoReservation(l) == "slotWait"

(* The reservation comes first for batch traffic. *)
FirstQueue(l) == IF l = "batch" THEN "batchWait" ELSE "slotWait"

Enqueue(r) ==
  /\ Goto(r, "enqueue", FirstQueue(LaneOf[r]))
  /\ waiting' = [waiting EXCEPT ![LaneOf[r]] = @ + 1]
  /\ UNCHANGED <<tokenVars, inFlight, cacheVars>>

TakeBatchToken(r) ==
  /\ batch < BatchCap
  /\ Goto(r, "batchWait", "slotWait")
  /\ batch' = batch + 1
  /\ UNCHANGED <<slots, gaugeVars, cacheVars>>

TakeSlot(r) ==
  /\ slots < MaxInFlight
  /\ Goto(r, "slotWait", "gauge")
  /\ slots' = slots + 1
  /\ UNCHANGED <<batch, gaugeVars, cacheVars>>

(* ctx.Done in the first select: the wait deadline, or the client went away. *)
GiveUpOnToken(r) ==
  /\ Goto(r, "batchWait", "refused")
  /\ UNCHANGED <<tokenVars, gaugeVars, cacheVars>>

(* Mutant: the token taken is not returned when the slot never comes. *)
KeepToken(l) == "refused"

AfterGivingUp(l) == IF l = "batch" THEN "giveBack" ELSE "refused"

(* ctx.Done in the second select. *)
GiveUpOnSlot(r) ==
  /\ Goto(r, "slotWait", AfterGivingUp(LaneOf[r]))
  /\ UNCHANGED <<tokenVars, gaugeVars, cacheVars>>

(* Receiving from g.batch would block were it empty. *)
GiveTokenBack(r) ==
  /\ batch > 0
  /\ Goto(r, "giveBack", "refused")
  /\ batch' = batch - 1
  /\ UNCHANGED <<slots, gaugeVars, cacheVars>>

CountIn(r) ==
  /\ Goto(r, "gauge", "admitted")
  /\ inFlight' = inFlight + 1
  /\ UNCHANGED <<tokenVars, waiting, cacheVars>>

(* The deferred decrement, on both ways out of admit. *)
LeaveQueue(r) ==
  /\ \/ Goto(r, "admitted", "upstream")
     \/ Goto(r, "refused", "idle")
  /\ waiting' = [waiting EXCEPT ![LaneOf[r]] = @ - 1]
  /\ UNCHANGED <<tokenVars, inFlight, cacheVars>>

-----------------------------------------------------------------------------
(* the call to the model server *)

(* No request could be built, no connection, the call timeout, the client's *)
(* departure, a body that broke off, or the end of a stream.                *)
UpstreamEnds(r) ==
  /\ Goto(r, "upstream", "freeSlot")
  /\ UNCHANGED <<tokenVars, gaugeVars, cacheVars>>

(* A whole answer is read, or a chunk of a stream. *)
UpstreamSends(r) ==
  /\ Goto(r, "upstream", "writing")
  /\ UNCHANGED <<tokenVars, gaugeVars, cacheVars>>

-----------------------------------------------------------------------------
(* the client, at the end of a write: it has read on, or is gone *)

HitWritten(r) ==
  /\ Goto(r, "hit", "idle")
  /\ UNCHANGED <<tokenVars, gaugeVars, cacheVars>>

(* Mutant: whatever came back is stored. *)
StoreAny(status) == TRUE

Storable(status) == status = "ok"

(* Whether the write of an answer failed is not looked at, and a 200 is     *)
(* kept either way.  Its status and size were settled when it was read;     *)
(* nobody sees them before the Put.                                         *)
AnswerWritten(r) ==
  /\ BodyOf[r] \notin Streaming
  /\ Goto(r, "writing", "freeSlot")
  /\ \E st \in Statuses, sz \in Sizes :
       IF Storable(st)
       THEN Cache!Put(BodyOf[r], [body |-> BodyOf[r], status |-> st, size |-> sz])
       ELSE UNCHANGED cacheVars
  /\ UNCHANGED <<tokenVars, gaugeVars>>

(* A stream goes on to its next chunk, unless the write failed. *)
ChunkWritten(r) ==
  /\ BodyOf[r] \in Streaming
  /\ Goto(r, "writing", "upstream") \/ Goto(r, "writing", "freeSlot")
  /\ UNCHANGED <<tokenVars, gaugeVars, cacheVars>>

-----------------------------------------------------------------------------
(* release, deferred *)

FreeSlot(r) ==
  /\ slots > 0
  /\ Goto(r, "freeSlot", "uncount")
  /\ slots' = slots - 1
  /\ UNCHANGED <<batch, gaugeVars, cacheVars>>

(* Mutant: the batch token is returned by interactive requests too. *)
AlwaysFreeBatch(l) == "freeBatch"

AfterUncount(l) == IF l = "batch" THEN "freeBatch" ELSE "idle"

CountOut(r) ==
  /\ Goto(r, "uncount", AfterUncount(LaneOf[r]))
  /\ inFlight' = inFlight - 1
  /\ UNCHANGED <<tokenVars, waiting, cacheVars>>

FreeBatch(r) ==
  /\ batch > 0
  /\ Goto(r, "freeBatch", "idle")
  /\ batch' = batch - 1
  /\ UNCHANGED <<slots, gaugeVars, cacheVars>>

-----------------------------------------------------------------------------

(* The handler's own steps, once a request is there. *)
Handle(r) ==
  \/ Bypass(r) \/ AnswerFromCache(r) \/ MissCache(r)
  \/ ShedAtDoor(r) \/ PassDoor(r) \/ Enqueue(r)
  \/ TakeBatchToken(r) \/ TakeSlot(r)
  \/ GiveUpOnToken(r) \/ GiveUpOnSlot(r) \/ GiveTokenBack(r)
  \/ CountIn(r) \/ LeaveQueue(r)
  \/ UpstreamEnds(r) \/ UpstreamSends(r)
  \/ FreeSlot(r) \/ CountOut(r) \/ FreeBatch(r)

(* What the handler must wait for its client to do. *)
ClientMoves(r) == HitWritten(r) \/ AnswerWritten(r) \/ ChunkWritten(r)

Next == \E r \in Requests : Arrive(r) \/ Handle(r) \/ ClientMoves(r)

(* A handler that can always step does: goroutines are scheduled, the two   *)
(* selects in admit always have the wait deadline to fall back on, and the  *)
(* HTTP client's timeout ends every call.  For a stream it does so however  *)
(* many chunks have come, which is the strong part.  Arrivals are not fair, *)
(* and neither are clients: one may leave an answer unread for good.        *)
Fairness ==
  \A r \in Requests :
    /\ WF_vars(Handle(r))
    /\ BodyOf[r] \in Streaming => SF_vars(UpstreamEnds(r))

Spec == Init /\ [][Next]_vars
FairSpec == Spec /\ Fairness

-----------------------------------------------------------------------------

At(places) == {r \in Requests : pc[r] \in places}
OfLane(l) == {r \in Requests : LaneOf[r] = l}

(* Where a handler holds a slot, holds a batch token (batch traffic only),  *)
(* is counted in flight, is counted waiting.                                *)
SlotPCs  == {"gauge", "admitted", "upstream", "writing", "freeSlot"}
TokenPCs == {"slotWait", "giveBack", "uncount", "freeBatch"} \cup SlotPCs
GaugePCs == {"admitted", "upstream", "writing", "freeSlot", "uncount"}
QueuePCs == {"batchWait", "slotWait", "giveBack", "gauge", "admitted", "refused"}

HoldsSlot  == At(SlotPCs)
HoldsToken == OfLane("batch") \cap At(TokenPCs)
InGauge    == At(GaugePCs)
InQueue(l) == OfLane(l) \cap At(QueuePCs)

BatchOnly == {"batchWait", "giveBack", "freeBatch"}

(* Types, and that only batch traffic goes where tokens are handled.        *)
TypeOK ==
  /\ pc \in [Requests -> PCs]
  /\ \A r \in Requests : pc[r] \in BatchOnly => LaneOf[r] = "batch"
  /\ slots \in 0..MaxInFlight /\ batch \in 0..BatchCap
  /\ inFlight \in Nat
  /\ waiting \in [Lanes -> Nat]

(* Nothing is lost or returned twice on any path through admit and release, *)
(* the early outs included: each channel and gauge equals the number of     *)
(* handlers that are between taking and giving back.                        *)
Accounted ==
  /\ slots = Cardinality(HoldsSlot)
  /\ batch = Cardinality(HoldsToken)
  /\ inFlight = Cardinality(InGauge)
  /\ \A l \in Lanes : waiting[l] = Cardinality(InQueue(l))

(* Giving back never blocks: the channel received from is not empty.        *)
ReleaseNeverBlocks ==
  \A r \in Requests :
    /\ pc[r] = "freeSlot" => slots > 0
    /\ pc[r] \in {"freeBatch", "giveBack"} => batch > 0

(* "An interactive request never has to wait behind a full house of batch   *)
(* work": as long as interactive traffic itself leaves one of the           *)
(* unreserved slots alone, a slot is free.                                  *)
InteractiveRoom ==
  Cardinality(HoldsSlot \cap OfLane("interactive")) < MaxInFlight - BatchCap
    => slots < MaxInFlight

(* The cache only ever holds 200 answers to the very body they are keyed    *)
(* under, never a stream, never an error page; this is what the handler's   *)
(* calls of Put have to guarantee, since Get looks no further.              *)
CacheHoldsAnswers ==
  \A b \in Cache!Cached :
    b \notin Streaming /\ items[b].body = b /\ items[b].status = "ok"

(* Admission control implements what Admission.tla promises. *)
HoldsSlotOn(l) == HoldsSlot \cap OfLane(l)
Adm == INSTANCE Admission WITH holding <- [l \in Lanes |-> HoldsSlotOn(l)]
ImplementsAdmission == Adm!AdmSpec

(* Whoever asks is answered, or shed, whatever the others do: even with     *)
(* every slot in the hands of clients that have stopped reading, whoever is *)
(* left waiting is turned away, and none is kept from its cleanup.  A       *)
(* request that does not end is one its own client leaves unread for good.  *)
LeftUnread(r) == pc[r] \in {"hit", "writing"}
EveryRequestEnds ==
  \A r \in Requests : (pc[r] # "idle" ~> pc[r] = "idle") \/ <>[]LeftUnread(r)

(* "shed beyond this many queued, per lane" (the MaxWaiting field). *)
WaitingBounded == \A l \in Lanes : waiting[l] <= MaxWaiting

=============================================================================
