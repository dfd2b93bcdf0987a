--------------------------- MODULE GatewayProofs ---------------------------
(***************************************************************************)
(* For any finite set of requests and any capacities: the channels and     *)
(* gauges of the gateway count exactly the handlers between taking and     *)
(* giving back (Accounted, the inductive invariant together with TypeOK);  *)
(* hence giving back never blocks, interactive traffic always finds room,  *)
(* and every behaviour is one of Admission.tla.                            *)
(***************************************************************************)
EXTENDS Gateway, FiniteSetTheorems, TLAPS

(* The inductive invariant: the types, which also keep interactive traffic *)
(* away from the tokens, and what each channel and gauge counts.           *)
IInv == TypeOK /\ Accounted

(* One element more, one element less. *)
LEMMA CountOne ==
  ASSUME NEW S \in SUBSET Requests, NEW r \in Requests
  PROVE  /\ Cardinality(S) \in Nat
         /\ r \notin S => Cardinality(S \cup {r}) = Cardinality(S) + 1
         /\ r \in S => Cardinality(S \ {r}) = Cardinality(S) - 1
<1>1. IsFiniteSet(S)
  BY GatewayAssumption, FS_Subset
<1>2. QED
  BY <1>1, FS_CardinalityType, FS_AddElement, FS_RemoveElement

(* A subset counts no more than the whole. *)
LEMMA CountLess ==
  ASSUME NEW S \in SUBSET Requests, NEW T \in SUBSET S
  PROVE  Cardinality(T) \in Nat /\ Cardinality(S) \in Nat
         /\ Cardinality(T) <= Cardinality(S)
<1>1. IsFiniteSet(S) /\ IsFiniteSet(T)
  BY GatewayAssumption, FS_Subset
<1>2. QED
  BY <1>1, FS_CardinalityType, FS_Subset

(* What a step of r from one place to another does to the number of         *)
(* handlers, among those of a set L, that are at given places.              *)
LEMMA CountMove ==
  ASSUME TypeOK, NEW r \in Requests, NEW from, NEW to, Goto(r, from, to),
         NEW places, NEW L \in SUBSET Requests
  PROVE  LET before == Cardinality(L \cap At(places))
             after  == Cardinality(L \cap At(places)')
         IN  /\ before \in Nat /\ after \in Nat
             /\ (r \notin L \/ (from \in places <=> to \in places)) => after = before
             /\ (r \in L /\ from \notin places /\ to \in places) => after = before + 1
             /\ (r \in L /\ from \in places /\ to \notin places) => after = before - 1
<1> DEFINE S == L \cap At(places)
           T == L \cap At(places)'
<1>1. S \in SUBSET Requests /\ T \in SUBSET Requests
  BY DEF At
<1>2. r \in At(places) <=> from \in places
  BY DEF At, Goto
<1>3. At(places)' = IF to \in places THEN At(places) \cup {r} ELSE At(places) \ {r}
  BY DEF TypeOK, Goto, At
<1>4. Cardinality(S) \in Nat /\ Cardinality(T) \in Nat
  BY <1>1, CountOne
<1>5. CASE r \notin L \/ (from \in places <=> to \in places)
  <2>1. T = S
    BY <1>2, <1>3, <1>5
  <2>2. QED
    BY <1>4, <1>5, <2>1
<1>6. CASE r \in L /\ from \notin places /\ to \in places
  <2>1. T = S \cup {r} /\ r \notin S
    BY <1>2, <1>3, <1>6
  <2>2. QED
    BY <1>1, <1>4, <1>6, <2>1, CountOne
<1>7. CASE r \in L /\ from \in places /\ to \notin places
  <2>1. T = S \ {r} /\ r \in S
    BY <1>2, <1>3, <1>7
  <2>2. QED
    BY <1>1, <1>4, <1>7, <2>1, CountOne
<1>8. QED
  BY <1>5, <1>6, <1>7

(* The four counts of Accounted, in the form CountMove speaks of.           *)
LEMMA Counts ==
  /\ HoldsSlot = Requests \cap At(SlotPCs)
  /\ InGauge = Requests \cap At(GaugePCs)
  /\ HoldsSlot' = Requests \cap At(SlotPCs)'
  /\ InGauge' = Requests \cap At(GaugePCs)'
  /\ HoldsToken = OfLane("batch") \cap At(TokenPCs)
  /\ HoldsToken' = OfLane("batch") \cap At(TokenPCs)'
  /\ \A l : InQueue(l) = OfLane(l) \cap At(QueuePCs)
  /\ \A l : InQueue(l)' = OfLane(l) \cap At(QueuePCs)'
  /\ \A l : OfLane(l) \in SUBSET Requests
BY DEF HoldsSlot, InGauge, HoldsToken, InQueue, At, OfLane

(* At the start nobody holds or waits for anything.                         *)
THEOREM InitIInv == Init => IInv
<1>1. SUFFICES ASSUME Init PROVE IInv
  OBVIOUS
<1>2. /\ HoldsSlot = {} /\ HoldsToken = {} /\ InGauge = {}
      /\ \A l \in Lanes : InQueue(l) = {}
  BY <1>1 DEF Init, HoldsSlot, HoldsToken, InGauge, InQueue, At,
            SlotPCs, TokenPCs, GaugePCs, QueuePCs
<1>3. Cardinality({}) = 0
  BY FS_EmptySet
<1>4. Accounted
  BY <1>1, <1>2, <1>3 DEF Init, Accounted
<1>5. TypeOK
  BY <1>1, CapAssumption DEF Init, TypeOK, PCs, BatchOnly
<1>6. QED
  BY <1>4, <1>5 DEF IInv

(* CountMove for the queue of a lane.                                       *)
LEMMA QueueMove ==
  ASSUME TypeOK, NEW r \in Requests, NEW from, NEW to, Goto(r, from, to), NEW l
  PROVE  /\ Cardinality(InQueue(l)) \in Nat /\ Cardinality(InQueue(l)') \in Nat
         /\ (l # LaneOf[r] \/ (from \in QueuePCs <=> to \in QueuePCs))
              => Cardinality(InQueue(l)') = Cardinality(InQueue(l))
         /\ (l = LaneOf[r] /\ from \notin QueuePCs /\ to \in QueuePCs)
              => Cardinality(InQueue(l)') = Cardinality(InQueue(l)) + 1
         /\ (l = LaneOf[r] /\ from \in QueuePCs /\ to \notin QueuePCs)
              => Cardinality(InQueue(l)') = Cardinality(InQueue(l)) - 1
<1>1. OfLane(l) \in SUBSET Requests /\ (r \in OfLane(l) <=> LaneOf[r] = l)
  BY DEF OfLane
<1>2. /\ InQueue(l) = OfLane(l) \cap At(QueuePCs)
      /\ InQueue(l)' = OfLane(l) \cap At(QueuePCs)'
  BY DEF InQueue, OfLane
<1> DEFINE L == OfLane(l)
<1>3. /\ Cardinality(L \cap At(QueuePCs)) \in Nat
      /\ Cardinality(L \cap At(QueuePCs)') \in Nat
      /\ (r \notin L \/ (from \in QueuePCs <=> to \in QueuePCs))
           => Cardinality(L \cap At(QueuePCs)') = Cardinality(L \cap At(QueuePCs))
      /\ (r \in L /\ from \notin QueuePCs /\ to \in QueuePCs)
           => Cardinality(L \cap At(QueuePCs)') = Cardinality(L \cap At(QueuePCs)) + 1
      /\ (r \in L /\ from \in QueuePCs /\ to \notin QueuePCs)
           => Cardinality(L \cap At(QueuePCs)') = Cardinality(L \cap At(QueuePCs)) - 1
  <2> HIDE DEF L
  <2>1. QED
    BY <1>1, CountMove DEF L
<1>4. QED
  BY <1>1, <1>2, <1>3

(* A step of r between two places keeps the invariant when each counter     *)
(* changes by what the places call for.                                     *)
LEMMA StepIInv ==
  ASSUME IInv, NEW r \in Requests, NEW from \in PCs, NEW to \in PCs,
         Goto(r, from, to), to \in BatchOnly => LaneOf[r] = "batch",
         slots' \in 0..MaxInFlight, batch' \in 0..BatchCap,
         waiting' \in [Lanes -> Int], inFlight' \in Int,
         slots' = slots + (IF to \in SlotPCs THEN 1 ELSE 0)
                        - (IF from \in SlotPCs THEN 1 ELSE 0),
         inFlight' = inFlight + (IF to \in GaugePCs THEN 1 ELSE 0)
                              - (IF from \in GaugePCs THEN 1 ELSE 0),
         LaneOf[r] = "batch" =>
           batch' = batch + (IF to \in TokenPCs THEN 1 ELSE 0)
                          - (IF from \in TokenPCs THEN 1 ELSE 0),
         LaneOf[r] # "batch" => batch' = batch,
         \A l \in Lanes :
           waiting'[l] = IF l = LaneOf[r]
                         THEN waiting[l] + (IF to \in QueuePCs THEN 1 ELSE 0)
                                         - (IF from \in QueuePCs THEN 1 ELSE 0)
                         ELSE waiting[l]
  PROVE  IInv'
<1>1. TypeOK /\ Accounted
  BY DEF IInv
<1>2. \A l : r \in OfLane(l) <=> LaneOf[r] = l
  BY DEF OfLane
<1>3. slots' = Cardinality(HoldsSlot')
  BY <1>1, CountMove, Counts DEF Accounted
<1>4. inFlight' = Cardinality(InGauge') /\ inFlight' \in Nat
  <2>1. /\ Cardinality(InGauge) \in Nat /\ Cardinality(InGauge') \in Nat
        /\ (r \notin Requests \/ (from \in GaugePCs <=> to \in GaugePCs))
             => Cardinality(InGauge') = Cardinality(InGauge)
        /\ (from \notin GaugePCs /\ to \in GaugePCs)
             => Cardinality(InGauge') = Cardinality(InGauge) + 1
        /\ (from \in GaugePCs /\ to \notin GaugePCs)
             => Cardinality(InGauge') = Cardinality(InGauge) - 1
    BY <1>1, CountMove, Counts
  <2>2. QED
    BY <1>1, <2>1 DEF Accounted
<1>5. batch' = Cardinality(HoldsToken')
  BY <1>1, <1>2, CountMove, Counts DEF Accounted
<1>6. ASSUME NEW l \in Lanes
      PROVE  waiting'[l] = Cardinality(InQueue(l)') /\ waiting'[l] \in Nat
  <2>1. /\ Cardinality(InQueue(l)) \in Nat /\ Cardinality(InQueue(l)') \in Nat
        /\ (l # LaneOf[r] \/ (from \in QueuePCs <=> to \in QueuePCs))
             => Cardinality(InQueue(l)') = Cardinality(InQueue(l))
        /\ (l = LaneOf[r] /\ from \notin QueuePCs /\ to \in QueuePCs)
             => Cardinality(InQueue(l)') = Cardinality(InQueue(l)) + 1
        /\ (l = LaneOf[r] /\ from \in QueuePCs /\ to \notin QueuePCs)
             => Cardinality(InQueue(l)') = Cardinality(InQueue(l)) - 1
    BY <1>1, QueueMove
  <2>2. waiting[l] = Cardinality(InQueue(l))
    BY <1>1 DEF Accounted
  <2>3. QED
    BY <2>1, <2>2
<1>7. /\ pc' \in [Requests -> PCs]
      /\ \A x \in Requests : pc'[x] \in BatchOnly => LaneOf[x] = "batch"
  BY <1>1 DEF TypeOK, Goto
<1>8. TypeOK'
  BY <1>4, <1>6, <1>7 DEF TypeOK
<1>9. Accounted'
  BY <1>3, <1>4, <1>5, <1>6 DEF Accounted
<1>10. QED
  BY <1>8, <1>9 DEF IInv

(* A step that touches no counter, between places alike to all of them.     *)
LEMMA QuietIInv ==
  ASSUME IInv, NEW r \in Requests, NEW from \in PCs, NEW to \in PCs,
         Goto(r, from, to), to \in BatchOnly => LaneOf[r] = "batch",
         UNCHANGED <<tokenVars, gaugeVars>>,
         from \in SlotPCs <=> to \in SlotPCs,
         from \in GaugePCs <=> to \in GaugePCs,
         from \in QueuePCs <=> to \in QueuePCs,
         LaneOf[r] = "batch" => (from \in TokenPCs <=> to \in TokenPCs)
  PROVE  IInv'
<1>1. /\ slots' = slots /\ batch' = batch /\ inFlight' = inFlight /\ waiting' = waiting
      /\ slots \in 0..MaxInFlight /\ batch \in 0..BatchCap
      /\ inFlight \in Nat /\ waiting \in [Lanes -> Nat]
  BY DEF IInv, TypeOK, tokenVars, gaugeVars
<1>2. /\ slots \in Int /\ batch \in Int /\ inFlight \in Int
      /\ \A l \in Lanes : waiting[l] \in Int
      /\ waiting' \in [Lanes -> Int]
  BY <1>1, CapAssumption
<1>3. QED
  BY <1>1, <1>2, StepIInv

(* No step loses or invents a slot, a token or a count.                     *)
LEMMA NextIInv == IInv /\ [Next]_vars => IInv'
<1>1. ASSUME IInv, NEW r \in Requests, Arrive(r) \/ Handle(r) \/ ClientMoves(r)
      PROVE  IInv'
  <2> USE <1>1 DEF PCs, BatchOnly, SlotPCs, GaugePCs, QueuePCs, TokenPCs
  <2>0. /\ slots \in 0..MaxInFlight /\ batch \in 0..BatchCap
        /\ inFlight \in Nat /\ waiting \in [Lanes -> Nat]
        /\ LaneOf[r] \in Lanes
        /\ MaxInFlight \in Nat /\ BatchCap \in Nat
        /\ pc[r] \in BatchOnly => LaneOf[r] = "batch"
    BY CapAssumption, GatewayAssumption DEF IInv, TypeOK
  <2>1. CASE Arrive(r)
    BY <2>1, QuietIInv DEF Arrive
  <2>2. CASE Bypass(r)
    BY <2>2, QuietIInv DEF Bypass
  <2>3. CASE AnswerFromCache(r)
    BY <2>3, QuietIInv DEF AnswerFromCache
  <2>4. CASE MissCache(r)
    BY <2>4, QuietIInv DEF MissCache
  <2>5. CASE ShedAtDoor(r)
    BY <2>5, QuietIInv DEF ShedAtDoor
  <2>6. CASE PassDoor(r)
    BY <2>6, QuietIInv DEF PassDoor
  <2>7. CASE GiveUpOnToken(r)
    BY <2>7, QuietIInv DEF GiveUpOnToken
  <2>8. CASE UpstreamEnds(r)
    BY <2>8, QuietIInv DEF UpstreamEnds
  <2>9. CASE UpstreamSends(r)
    BY <2>9, QuietIInv DEF UpstreamSends
  <2>10. CASE Enqueue(r)
    <3>1. /\ Goto(r, "enqueue", FirstQueue(LaneOf[r]))
          /\ slots' = slots /\ batch' = batch /\ inFlight' = inFlight
          /\ waiting' = [waiting EXCEPT ![LaneOf[r]] = @ + 1]
      BY <2>10 DEF Enqueue, tokenVars
    <3>2. CASE LaneOf[r] = "batch"
      BY <2>0, <3>1, <3>2, StepIInv DEF FirstQueue
    <3>3. CASE LaneOf[r] # "batch"
      BY <2>0, <3>1, <3>3, StepIInv DEF FirstQueue
    <3>4. QED
      BY <3>2, <3>3
  <2>11. CASE TakeBatchToken(r)
    <3>1. LaneOf[r] = "batch"
      BY <2>0, <2>11 DEF TakeBatchToken, Goto
    <3>2. QED
      BY <2>0, <2>11, <3>1, StepIInv DEF TakeBatchToken, gaugeVars
  <2>12. CASE TakeSlot(r)
    BY <2>0, <2>12, StepIInv DEF TakeSlot, gaugeVars
  <2>13. CASE GiveUpOnSlot(r)
    <3>1. CASE LaneOf[r] = "batch"
      BY <2>13, <3>1, QuietIInv DEF GiveUpOnSlot, AfterGivingUp
    <3>2. CASE LaneOf[r] # "batch"
      BY <2>13, <3>2, QuietIInv DEF GiveUpOnSlot, AfterGivingUp
    <3>3. QED
      BY <3>1, <3>2
  <2>14. CASE GiveTokenBack(r)
    <3>1. LaneOf[r] = "batch"
      BY <2>0, <2>14 DEF GiveTokenBack, Goto
    <3>2. QED
      BY <2>0, <2>14, <3>1, StepIInv DEF GiveTokenBack, gaugeVars
  <2>15. CASE CountIn(r)
    BY <2>0, <2>15, StepIInv DEF CountIn, tokenVars
  <2>16. CASE LeaveQueue(r)
    <3>1. CASE Goto(r, "admitted", "upstream")
      BY <2>0, <2>16, <3>1, StepIInv DEF LeaveQueue, tokenVars
    <3>2. CASE Goto(r, "refused", "idle")
      BY <2>0, <2>16, <3>2, StepIInv DEF LeaveQueue, tokenVars
    <3>3. QED
      BY <2>16, <3>1, <3>2 DEF LeaveQueue
  <2>17. CASE FreeSlot(r)
    BY <2>0, <2>17, StepIInv DEF FreeSlot, gaugeVars
  <2>18. CASE CountOut(r)
    <3>1. CASE LaneOf[r] = "batch"
      BY <2>0, <2>18, <3>1, StepIInv DEF CountOut, AfterUncount, tokenVars
    <3>2. CASE LaneOf[r] # "batch"
      BY <2>0, <2>18, <3>2, StepIInv DEF CountOut, AfterUncount, tokenVars
    <3>3. QED
      BY <3>1, <3>2
  <2>19. CASE FreeBatch(r)
    <3>1. LaneOf[r] = "batch"
      BY <2>0, <2>19 DEF FreeBatch, Goto
    <3>2. QED
      BY <2>0, <2>19, <3>1, StepIInv DEF FreeBatch, gaugeVars
  <2>20. CASE HitWritten(r)
    BY <2>20, QuietIInv DEF HitWritten
  <2>21. CASE AnswerWritten(r)
    BY <2>21, QuietIInv DEF AnswerWritten
  <2>22. CASE ChunkWritten(r)
    <3>1. CASE Goto(r, "writing", "upstream")
      BY <2>22, <3>1, QuietIInv DEF ChunkWritten
    <3>2. CASE Goto(r, "writing", "freeSlot")
      BY <2>22, <3>2, QuietIInv DEF ChunkWritten
    <3>3. QED
      BY <2>22, <3>1, <3>2 DEF ChunkWritten
  <2>23. QED
    BY <2>1, <2>2, <2>3, <2>4, <2>5, <2>6, <2>7, <2>8, <2>9, <2>10, <2>11, <2>12, <2>13, <2>14, <2>15, <2>16, <2>17, <2>18, <2>19, <2>20, <2>21, <2>22
       DEF Handle, ClientMoves
<1>2. IInv /\ UNCHANGED vars => IInv'
  BY DEF IInv, TypeOK, Accounted, HoldsSlot, HoldsToken, InGauge, InQueue, At,
         OfLane, vars, tokenVars, gaugeVars
<1>3. QED
  BY <1>1, <1>2 DEF Next

(* Nothing is lost or returned twice, for any number of requests.           *)
THEOREM Accounting == Spec => [](TypeOK /\ Accounted)
<1>1. Init => IInv
  BY InitIInv
<1>2. IInv /\ [Next]_vars => IInv'
  BY NextIInv
<1>3. IInv => TypeOK /\ Accounted
  BY DEF IInv
<1>4. QED
  BY <1>1, <1>2, <1>3, PTL DEF Spec

(* The types, and that only batch traffic ever handles batch tokens.        *)
THEOREM Types == Spec => []TypeOK
BY Accounting, PTL

-----------------------------------------------------------------------------

(* A set of requests with a member does not count zero.                     *)
LEMMA CountMember ==
  ASSUME NEW S \in SUBSET Requests, NEW r \in S
  PROVE  Cardinality(S) > 0
<1>1. Cardinality(S) \in Nat /\ Cardinality(S \ {r}) \in Nat
      /\ Cardinality(S \ {r}) = Cardinality(S) - 1
  BY CountOne
<1>2. QED
  BY <1>1

(* Whoever is about to receive from a channel is one of those it counts.    *)
LEMMA IInvReleases == IInv => ReleaseNeverBlocks
<1>1. SUFFICES ASSUME IInv, NEW r \in Requests
               PROVE  /\ pc[r] = "freeSlot" => slots > 0
                      /\ pc[r] \in {"freeBatch", "giveBack"} => batch > 0
  BY DEF ReleaseNeverBlocks
<1>2. HoldsSlot \in SUBSET Requests /\ HoldsToken \in SUBSET Requests
  BY DEF HoldsSlot, HoldsToken, At, OfLane
<1>3. slots = Cardinality(HoldsSlot) /\ batch = Cardinality(HoldsToken)
  BY <1>1 DEF IInv, Accounted
<1>4. ASSUME pc[r] = "freeSlot" PROVE slots > 0
  <2>1. r \in HoldsSlot
    BY <1>4 DEF HoldsSlot, At, SlotPCs
  <2>2. QED
    BY <1>2, <1>3, <2>1, CountMember
<1>5. ASSUME pc[r] \in {"freeBatch", "giveBack"} PROVE batch > 0
  <2>1. r \in HoldsToken
    BY <1>1, <1>5 DEF IInv, TypeOK, BatchOnly, HoldsToken, At, OfLane, TokenPCs
  <2>2. QED
    BY <1>2, <1>3, <2>1, CountMember
<1>6. QED
  BY <1>4, <1>5

(* Batch traffic on a slot also holds a token, and there are BatchCap.      *)
LEMMA BatchWithinCap ==
  ASSUME IInv
  PROVE  /\ HoldsSlotOn("batch") \in SUBSET HoldsToken
         /\ Cardinality(HoldsSlotOn("batch")) <= BatchCap
<1>1. HoldsSlotOn("batch") \in SUBSET HoldsToken /\ HoldsToken \in SUBSET Requests
  BY DEF HoldsSlotOn, HoldsSlot, HoldsToken, At, OfLane, TokenPCs
<1>2. Cardinality(HoldsToken) <= BatchCap
  BY CapAssumption DEF IInv, Accounted, TypeOK
<1>3. QED
  BY <1>1, <1>2, CountLess, CapAssumption

(* Slots are held by one lane or the other.                                 *)
LEMMA SlotsByLane ==
  ASSUME IInv
  PROVE  /\ HoldsSlot = HoldsSlotOn("interactive") \cup HoldsSlotOn("batch")
         /\ Cardinality(HoldsSlotOn("interactive")) \in Nat
         /\ Cardinality(HoldsSlotOn("batch")) \in Nat
         /\ slots = Cardinality(HoldsSlotOn("interactive"))
                     + Cardinality(HoldsSlotOn("batch"))
<1> DEFINE I == HoldsSlotOn("interactive")
           B == HoldsSlotOn("batch")
<1>1. HoldsSlot = I \cup B /\ I \cap B = {}
  BY GatewayAssumption DEF HoldsSlotOn, HoldsSlot, At, OfLane, Lanes
<1>2. I \in SUBSET Requests /\ B \in SUBSET Requests
  BY DEF HoldsSlotOn, HoldsSlot, At
<1>3. IsFiniteSet(I) /\ IsFiniteSet(B)
  BY <1>2, GatewayAssumption, FS_Subset
<1>4. Cardinality(I \cup B) = Cardinality(I) + Cardinality(B) - Cardinality(I \cap B)
  BY <1>3, FS_Union
<1>5. Cardinality(I \cap B) = 0
  BY <1>1, FS_EmptySet
<1>6. Cardinality(I) \in Nat /\ Cardinality(B) \in Nat
  BY <1>3, FS_CardinalityType
<1>7. QED
  BY <1>1, <1>4, <1>5, <1>6 DEF IInv, Accounted

(* Batch holds at most its share, so a full house needs interactive traffic *)
(* on all the rest.                                                         *)
LEMMA IInvRoom == IInv => InteractiveRoom
<1>1. SUFFICES ASSUME IInv,
                      Cardinality(HoldsSlotOn("interactive")) < MaxInFlight - BatchCap
               PROVE  slots < MaxInFlight
  BY DEF InteractiveRoom, HoldsSlotOn
<1>2. QED
  BY <1>1, SlotsByLane, BatchWithinCap, CapAssumption

(* A handler that gives back a slot or a token is never kept waiting.       *)
THEOREM Releases == Spec => []ReleaseNeverBlocks
<1>1. Init => IInv
  BY InitIInv
<1>2. IInv /\ [Next]_vars => IInv'
  BY NextIInv
<1>3. IInv => ReleaseNeverBlocks
  BY IInvReleases
<1>4. QED
  BY <1>1, <1>2, <1>3, PTL DEF Spec

(* "An interactive request never has to wait behind a full house of batch   *)
(* work", for every capacity and every number of requests.                  *)
THEOREM Reservation == Spec => []InteractiveRoom
<1>1. Init => IInv
  BY InitIInv
<1>2. IInv /\ [Next]_vars => IInv'
  BY NextIInv
<1>3. IInv => InteractiveRoom
  BY IInvRoom
<1>4. QED
  BY <1>1, <1>2, <1>3, PTL DEF Spec

-----------------------------------------------------------------------------
(* Refinement: a slot taken is an Enter, a slot freed a Leave, and every    *)
(* other step of the handler leaves the abstract state alone.               *)

(* What the abstract admission control holds, read off the handlers.        *)
holdingNow == [l \in Lanes |-> HoldsSlotOn(l)]

(* The abstract house is the set of handlers that hold a slot.              *)
LEMMA AtServerIs == Adm!AtServer = HoldsSlot
BY GatewayAssumption DEF Adm!AtServer, HoldsSlotOn, HoldsSlot, At, OfLane, Lanes

(* A step that stays on one side of the slot channel is a stutter.          *)
LEMMA Stutters ==
  ASSUME TypeOK, NEW r \in Requests, NEW from, NEW to, Goto(r, from, to),
         from \in SlotPCs <=> to \in SlotPCs
  PROVE  holdingNow' = holdingNow
<1>1. At(SlotPCs)' = At(SlotPCs)
  BY DEF TypeOK, Goto, At
<1>2. QED
  BY <1>1 DEF holdingNow, HoldsSlotOn, HoldsSlot, OfLane

(* Sending on the slot channel is an Enter: the channel bounds the house,   *)
(* and the token a batch handler holds by then bounds its lane.             *)
LEMMA TakeSlotEnters ==
  ASSUME IInv, NEW r \in Requests, TakeSlot(r)
  PROVE  Adm!Enter(r, LaneOf[r])
<1>1. TypeOK /\ LaneOf[r] \in Lanes
  BY GatewayAssumption DEF IInv
<1>2. r \notin HoldsSlot
  BY DEF TakeSlot, Goto, HoldsSlot, At, SlotPCs
<1>3. Cardinality(HoldsSlot) < MaxInFlight
  BY DEF TakeSlot, IInv, Accounted
<1>4. HoldsSlot' = HoldsSlot \cup {r}
  BY <1>1 DEF TakeSlot, Goto, TypeOK, HoldsSlot, At, SlotPCs
<1>5. ASSUME LaneOf[r] = "batch"
      PROVE  Cardinality(HoldsSlotOn("batch")) < BatchCap
  <2>1. /\ HoldsSlotOn("batch") \cup {r} \in SUBSET HoldsToken
        /\ HoldsToken \in SUBSET Requests
        /\ HoldsSlotOn("batch") \in SUBSET Requests
        /\ r \notin HoldsSlotOn("batch")
    BY <1>5 DEF TakeSlot, Goto, HoldsSlotOn, HoldsSlot, HoldsToken, At, OfLane,
                TokenPCs, SlotPCs
  <2>2. Cardinality(HoldsSlotOn("batch") \cup {r}) <= Cardinality(HoldsToken)
    BY <2>1, CountLess
  <2>3. /\ Cardinality(HoldsSlotOn("batch") \cup {r})
             = Cardinality(HoldsSlotOn("batch")) + 1
        /\ Cardinality(HoldsSlotOn("batch")) \in Nat
    BY <2>1, CountOne
  <2>4. Cardinality(HoldsToken) <= BatchCap
    BY CapAssumption DEF IInv, Accounted, TypeOK
  <2>5. Cardinality(HoldsToken) \in Nat
    BY <2>1, CountOne
  <2>6. QED
    BY <2>2, <2>3, <2>4, <2>5, CapAssumption
<1>6. holdingNow' = [holdingNow EXCEPT ![LaneOf[r]] = @ \cup {r}]
  BY <1>1, <1>4 DEF holdingNow, HoldsSlotOn, OfLane
<1>7. r \notin Adm!AtServer /\ Cardinality(Adm!AtServer) < MaxInFlight
  BY <1>2, <1>3, AtServerIs
<1>8. holdingNow["batch"] = HoldsSlotOn("batch")
  BY DEF holdingNow, Lanes
<1>9. LaneOf[r] = "batch" => Cardinality(holdingNow["batch"]) < BatchCap
  BY <1>5, <1>8
<1>10. QED
  BY <1>6, <1>7, <1>9 DEF Adm!Enter, holdingNow, Adm!Cardinality, Cardinality

(* Receiving from the slot channel is a Leave.                              *)
LEMMA FreeSlotLeaves ==
  ASSUME IInv, NEW r \in Requests, FreeSlot(r)
  PROVE  Adm!Leave(r, LaneOf[r])
<1>1. TypeOK /\ LaneOf[r] \in Lanes
  BY GatewayAssumption DEF IInv
<1>2. r \in HoldsSlotOn(LaneOf[r])
  BY DEF FreeSlot, Goto, HoldsSlotOn, HoldsSlot, At, OfLane, SlotPCs
<1>3. HoldsSlot' = HoldsSlot \ {r}
  BY <1>1 DEF FreeSlot, Goto, TypeOK, HoldsSlot, At, SlotPCs
<1>4. holdingNow' = [holdingNow EXCEPT ![LaneOf[r]] = @ \ {r}]
  BY <1>1, <1>3 DEF holdingNow, HoldsSlotOn, OfLane
<1>5. QED
  BY <1>1, <1>2, <1>4 DEF Adm!Leave, holdingNow, Lanes

(* Every step of a handler is an abstract step or leaves holding alone.     *)
LEMMA StepRefines == IInv /\ [Next]_vars => [Adm!AdmNext]_holdingNow
<1>1. ASSUME IInv, NEW r \in Requests, Arrive(r) \/ Handle(r) \/ ClientMoves(r)
      PROVE  Adm!AdmNext \/ UNCHANGED holdingNow
  <2>1. TypeOK /\ LaneOf[r] \in Adm!Lanes
    BY <1>1, GatewayAssumption DEF IInv, Lanes, Adm!Lanes
  <2>2. CASE TakeSlot(r)
    BY <1>1, <2>1, <2>2, TakeSlotEnters DEF Adm!AdmNext
  <2>3. CASE FreeSlot(r)
    BY <1>1, <2>1, <2>3, FreeSlotLeaves DEF Adm!AdmNext
  <2>4. CASE ~TakeSlot(r) /\ ~FreeSlot(r)
    <3>1. PICK from, to : Goto(r, from, to) /\ (from \in SlotPCs <=> to \in SlotPCs)
      <4> USE DEF SlotPCs
      <4>1. CASE Arrive(r) \/ Bypass(r) \/ AnswerFromCache(r) \/ MissCache(r)
                 \/ ShedAtDoor(r) \/ PassDoor(r) \/ TakeBatchToken(r)
        BY <4>1 DEF Arrive, Bypass, AnswerFromCache, MissCache, ShedAtDoor, PassDoor,
                    TakeBatchToken
      <4>2. CASE Enqueue(r) \/ GiveUpOnToken(r) \/ GiveUpOnSlot(r)
                 \/ GiveTokenBack(r) \/ CountIn(r) \/ LeaveQueue(r)
        BY <4>2 DEF Enqueue, FirstQueue, GiveUpOnToken, GiveUpOnSlot, AfterGivingUp,
                    GiveTokenBack, CountIn, LeaveQueue
      <4>3. CASE UpstreamEnds(r) \/ UpstreamSends(r) \/ CountOut(r) \/ FreeBatch(r)
        BY <4>3 DEF UpstreamEnds, UpstreamSends, CountOut, AfterUncount, FreeBatch
      <4>4. CASE ClientMoves(r)
        BY <4>4 DEF ClientMoves, HitWritten, AnswerWritten, ChunkWritten
      <4>5. QED
        BY <1>1, <2>4, <4>1, <4>2, <4>3, <4>4 DEF Handle
    <3>2. QED
      BY <2>1, <3>1, Stutters
  <2>5. QED
    BY <2>2, <2>3, <2>4
<1>2. UNCHANGED vars => UNCHANGED holdingNow
  BY DEF vars, holdingNow, HoldsSlotOn, HoldsSlot, At, OfLane
<1>3. QED
  BY <1>1, <1>2 DEF Next

(* The handler with its channels and counters implements admission control  *)
(* as Admission.tla states it.                                              *)
THEOREM Refinement == Spec => ImplementsAdmission
<1>1. Init => Adm!AdmInit
  BY GatewayAssumption
  DEF Init, Adm!AdmInit, Adm!Lanes, Lanes, HoldsSlotOn, HoldsSlot, At, OfLane, SlotPCs
<1>2. Init => IInv
  BY InitIInv
<1>3. IInv /\ [Next]_vars => IInv'
  BY NextIInv
<1>4. IInv /\ [Next]_vars => [Adm!AdmNext]_holdingNow
  BY StepRefines
<1>5. QED
  BY <1>1, <1>2, <1>3, <1>4, PTL DEF Spec, ImplementsAdmission, Adm!AdmSpec, holdingNow

-----------------------------------------------------------------------------
(* The cache *)

(* What is proved of the cache, at the gateway's bodies and responses. *)
CacheOf == INSTANCE ResponseCacheProofs
             WITH Keys <- Bodies, Values <- Responses, used <- ll

LEMMA CacheAssumed == MaxBytes \in Nat /\ \A v \in Responses : v.size \in Nat
BY GatewayAssumption DEF Responses

(* The cache the handler calls is the one the proofs are about: the two     *)
(* instances define the same operations.                                    *)
LEMMA SameCache ==
  /\ Cache!CacheInit <=> CacheOf!CacheInit
  /\ Cache!Cached = CacheOf!Cached
  /\ \A b \in Bodies : /\ Cache!Hit(b) <=> CacheOf!Hit(b)
                       /\ \A v \in Responses : /\ Cache!Store(b, v) <=> CacheOf!Store(b, v)
                                               /\ Cache!Oversize(v) <=> CacheOf!Oversize(v)
<1>1. \A list, k : Cache!Fronted(list, k) = CacheOf!Fronted(list, k)
  BY DEF Cache!Fronted, CacheOf!Fronted, Cache!PositionOf, CacheOf!PositionOf,
         Cache!Contains, CacheOf!Contains, Cache!RemoveAt, CacheOf!RemoveAt
<1>2. \A f, S : Cache!SumFunctionOnSet(f, S) = CacheOf!SumFunctionOnSet(f, S)
  BY DEF Cache!SumFunctionOnSet, CacheOf!SumFunctionOnSet,
         Cache!FoldFunctionOnSet, CacheOf!FoldFunctionOnSet,
         Cache!MapThenFoldSet, CacheOf!MapThenFoldSet
<1>3. \A m, list, n : Cache!TailBytes(m, list, n) = CacheOf!TailBytes(m, list, n)
  BY <1>2 DEF Cache!TailBytes, CacheOf!TailBytes
<1>4. \A m, list, total : Cache!Evictions(m, list, total) = CacheOf!Evictions(m, list, total)
  BY <1>3 DEF Cache!Evictions, CacheOf!Evictions, Cache!OverBudget, CacheOf!OverBudget,
              Cache!Min, CacheOf!Min
<1>5. \A f, S : /\ Cache!Restrict(f, S) = CacheOf!Restrict(f, S)
                /\ Cache!Range(f) = CacheOf!Range(f)
  BY DEF Cache!Restrict, CacheOf!Restrict, Cache!Range, CacheOf!Range
<1>6. \A k : /\ Cache!MoveToFront(k) = CacheOf!MoveToFront(k)
             /\ Cache!Replaced(k) = CacheOf!Replaced(k)
  BY <1>1 DEF Cache!MoveToFront, CacheOf!MoveToFront, Cache!Replaced, CacheOf!Replaced,
              Cache!Cached, CacheOf!Cached
<1>7. Cache!Cached = CacheOf!Cached
  BY DEF Cache!Cached, CacheOf!Cached
<1>8. Cache!CacheInit <=> CacheOf!CacheInit
  BY DEF Cache!CacheInit, CacheOf!CacheInit
<1>9. ASSUME NEW b \in Bodies PROVE Cache!Hit(b) <=> CacheOf!Hit(b)
  BY <1>6, <1>7 DEF Cache!Hit, CacheOf!Hit
<1>10. ASSUME NEW b \in Bodies, NEW v \in Responses
       PROVE  Cache!Store(b, v) <=> CacheOf!Store(b, v)
  BY <1>3, <1>4, <1>5, <1>6, <1>7 DEF Cache!Store, CacheOf!Store
<1>11. \A v : Cache!Oversize(v) <=> CacheOf!Oversize(v)
  BY DEF Cache!Oversize, CacheOf!Oversize, Cache!OverBudget, CacheOf!OverBudget
<1>12. QED
  BY <1>7, <1>8, <1>9, <1>10, <1>11

(* What a step does to the cache: nothing, a Get or a Put of an answer to a *)
(* body that is not a stream.                                               *)
LEMMA CacheSteps ==
  ASSUME NEW r \in Requests, Arrive(r) \/ Handle(r) \/ ClientMoves(r)
  PROVE  \/ UNCHANGED cacheVars
         \/ \E b \in Bodies : Cache!Hit(b)
         \/ \E b \in Bodies \ Streaming, v \in Responses :
              v.body = b /\ v.status = "ok" /\ Cache!Put(b, v)
<1>1. CASE AnswerFromCache(r)
  BY <1>1, GatewayAssumption DEF AnswerFromCache
<1>2. CASE AnswerWritten(r)
  <2>1. PICK st \in Statuses, sz \in Sizes :
          IF Storable(st)
          THEN Cache!Put(BodyOf[r], [body |-> BodyOf[r], status |-> st, size |-> sz])
          ELSE UNCHANGED cacheVars
    BY <1>2 DEF AnswerWritten
  <2>2. BodyOf[r] \in Bodies \ Streaming
    BY <1>2, GatewayAssumption DEF AnswerWritten
  <2>3. [body |-> BodyOf[r], status |-> st, size |-> sz] \in Responses
    BY <2>2 DEF Responses
  <2>4. QED
    BY <2>1, <2>2, <2>3 DEF Storable
<1>3. CASE ~AnswerFromCache(r) /\ ~AnswerWritten(r)
  <2>1. CASE Arrive(r) \/ Bypass(r) \/ ShedAtDoor(r) \/ PassDoor(r) \/ Enqueue(r)
               \/ TakeBatchToken(r) \/ TakeSlot(r) \/ GiveUpOnToken(r)
    BY <2>1 DEF Arrive, Bypass, ShedAtDoor, PassDoor, Enqueue, TakeBatchToken, TakeSlot,
                GiveUpOnToken
  <2>2. CASE GiveUpOnSlot(r) \/ GiveTokenBack(r) \/ CountIn(r) \/ LeaveQueue(r)
               \/ UpstreamEnds(r) \/ UpstreamSends(r) \/ FreeSlot(r) \/ CountOut(r)
               \/ FreeBatch(r)
    BY <2>2 DEF GiveUpOnSlot, GiveTokenBack, CountIn, LeaveQueue, UpstreamEnds,
                UpstreamSends, FreeSlot, CountOut, FreeBatch
  <2>3. CASE MissCache(r)
    BY <2>3 DEF MissCache, Cache!Miss, Cache!cacheVars, cacheVars
  <2>4. CASE HitWritten(r) \/ ChunkWritten(r)
    BY <2>4 DEF HitWritten, ChunkWritten
  <2>5. QED
    BY <1>3, <2>1, <2>2, <2>3, <2>4 DEF Handle, ClientMoves
<1>4. QED
  BY <1>1, <1>2, <1>3

(* What is cached is in order, and is what Get may return unseen. *)
AnswersIInv == CacheOf!CacheIInv /\ CacheHoldsAnswers

LEMMA NextAnswers == AnswersIInv /\ [Next]_vars => AnswersIInv'
<1>1. ASSUME AnswersIInv, UNCHANGED cacheVars PROVE AnswersIInv'
  <2>1. UNCHANGED CacheOf!cacheVars
    BY <1>1 DEF cacheVars, CacheOf!cacheVars
  <2>2. CacheOf!CacheIInv'
    BY <1>1, <2>1, CacheAssumed, CacheOf!UnchangedKeeps DEF AnswersIInv
  <2>3. CacheHoldsAnswers'
    BY <1>1 DEF AnswersIInv, CacheHoldsAnswers, Cache!Cached, cacheVars
  <2>4. QED
    BY <2>2, <2>3 DEF AnswersIInv
<1>2. ASSUME AnswersIInv, NEW b \in Bodies, Cache!Hit(b) PROVE AnswersIInv'
  <2>1. CacheOf!CacheIInv'
    BY <1>2, CacheAssumed, SameCache, CacheOf!HitKeeps DEF AnswersIInv
  <2>2. items' = items
    BY <1>2 DEF Cache!Hit
  <2>3. CacheHoldsAnswers'
    BY <1>2, <2>2 DEF AnswersIInv, CacheHoldsAnswers, Cache!Cached
  <2>4. QED
    BY <2>1, <2>3 DEF AnswersIInv
<1>3. ASSUME AnswersIInv, NEW b \in Bodies \ Streaming, NEW v \in Responses,
             v.body = b, v.status = "ok", Cache!Put(b, v)
      PROVE  AnswersIInv'
  <2>1. CASE Cache!Oversize(v)
    BY <1>1, <1>3, <2>1 DEF Cache!Put, Cache!cacheVars, cacheVars
  <2>2. CASE ~Cache!Oversize(v)
    <3>1. CacheOf!CacheIInv /\ ~CacheOf!Oversize(v) /\ CacheOf!Store(b, v)
      BY <1>3, <2>2, SameCache DEF AnswersIInv, Cache!Put
    <3>2. /\ CacheOf!CacheIInv'
          /\ \A x \in CacheOf!Cached' : /\ x \in CacheOf!Cached \cup {b}
                                        /\ items'[x] = CacheOf!Stored(b, v)[x]
      BY <3>1, CacheAssumed, CacheOf!StoreDoes
    <3>3. CacheHoldsAnswers'
      <4> SUFFICES ASSUME NEW x \in DOMAIN items'
                   PROVE  x \notin Streaming /\ items'[x].body = x /\ items'[x].status = "ok"
        BY DEF CacheHoldsAnswers, Cache!Cached
      <4>1. x \in DOMAIN items \cup {b} /\ items'[x] = IF x = b THEN v ELSE items[x]
        BY <3>2 DEF CacheOf!Cached, CacheOf!Stored
      <4>2. QED
        BY <1>3, <4>1 DEF AnswersIInv, CacheHoldsAnswers, Cache!Cached
    <3>4. QED
      BY <3>2, <3>3 DEF AnswersIInv
  <2>3. QED
    BY <2>1, <2>2
<1>4. UNCHANGED vars => UNCHANGED cacheVars
  BY DEF vars
<1>5. QED
  BY <1>1, <1>2, <1>3, <1>4, CacheSteps DEF Next

(* What the gateway serves from its cache is a 200 answer to the very body  *)
(* asked, never a stream and never an error page.                           *)
THEOREM Answers == Spec => []CacheHoldsAnswers
<1>1. Init => AnswersIInv
  <2> SUFFICES ASSUME Init PROVE AnswersIInv
    OBVIOUS
  <2>1. CacheOf!CacheInit
    BY SameCache DEF Init
  <2>2. CacheOf!CacheIInv /\ Cache!Cached = {}
    BY <2>1, CacheAssumed, SameCache, CacheOf!InitHolds
  <2>3. QED
    BY <2>2 DEF AnswersIInv, CacheHoldsAnswers
<1>2. AnswersIInv => CacheHoldsAnswers
  BY DEF AnswersIInv
<1>3. QED
  BY <1>1, <1>2, NextAnswers, PTL DEF Spec

(* The handlers together use the cache as ResponseCache allows: whatever    *)
(* their number and their order, what they do to it is a sequence of Gets   *)
(* and Puts, so all that is proved of CacheSpec holds inside the gateway.   *)
THEOREM UsesTheCache == Spec => Cache!CacheSpec
<1>1. Init => Cache!CacheInit
  BY DEF Init
<1>2. [Next]_vars => [Cache!CacheNext]_(Cache!cacheVars)
  <2>1. ASSUME NEW r \in Requests, Arrive(r) \/ Handle(r) \/ ClientMoves(r)
        PROVE  [Cache!CacheNext]_(Cache!cacheVars)
    BY <2>1, CacheSteps DEF Cache!CacheNext, Cache!Get, Cache!cacheVars, cacheVars
  <2>2. UNCHANGED vars => UNCHANGED Cache!cacheVars
    BY DEF vars, cacheVars, Cache!cacheVars
  <2>3. QED
    BY <2>1, <2>2 DEF Next
<1>3. QED
  BY <1>1, <1>2, PTL DEF Spec, Cache!CacheSpec

=============================================================================
