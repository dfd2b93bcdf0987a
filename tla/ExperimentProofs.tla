-------------------------- MODULE ExperimentProofs --------------------------
(***************************************************************************)
(* For any designs, worlds, stories, reactions and platforms, any number   *)
(* of workers, and a context that expires anywhere: the arms of an         *)
(* experiment are paired, its books add up, and the graph its world is     *)
(* joined by is the one its nodes proposed.                                *)
(*                                                                         *)
(* Pairing needs where each arm's count of samples stands at each place of *)
(* Run, and that nothing an arm does to the simulation outlives the reset  *)
(* before the next: all of it is undone but whether the layer is on, which *)
(* nothing in an experiment switches.  The graph needs whose every slot    *)
(* is: written for a proposal already placed, owed to one that a worker is *)
(* in the middle of placing, or yet to be claimed.                         *)
(***************************************************************************)
EXTENDS Experiment, DataLemmas

-----------------------------------------------------------------------------
(* The simulation *)

(* A simulation whose media layer is on, in which only those tire of the    *)
(* story who have heard it.                                                 *)
On(s) == s \in Sims /\ s.media.enabled = TRUE /\ s.tired \subseteq s.heard

LEMMA RestOn == On(Rest)
  BY SimulationAssumption DEF On, Rest, Sims, NewMedia, MediaStates

(* A reset brings back the simulation as it was made. *)
LEMMA ResetIsRest ==
  ASSUME NEW s, On(s)
  PROVE  Reset(s) = Rest
<1>1. s.media \in MediaStates
  BY DEF On, Sims
<1>2. ResetMedia(s.media) = NewMedia
  <2>1. /\ ResetMedia(s.media) \in MediaStates
        /\ ResetMedia(s.media).enabled = TRUE
        /\ ResetMedia(s.media).hot = {} /\ ResetMedia(s.media).exposed = {}
        /\ ResetMedia(s.media).stepped = FALSE
    BY <1>1 DEF ResetMedia, MediaStates, On
  <2>2. PICK e \in BOOLEAN, h \in SUBSET Platforms, x \in SUBSET People, d \in BOOLEAN :
          ResetMedia(s.media) = [enabled |-> e, hot |-> h, exposed |-> x, stepped |-> d]
    BY <2>1 DEF MediaStates
  <2>3. QED
    BY <2>1, <2>2 DEF NewMedia
<1>3. QED
  BY <1>2 DEF Reset, Rest, OwnThresholds

LEMMA InjectOn ==
  ASSUME NEW s, On(s), NEW ev \in Events
  PROVE  On(Inject(s, ev))
<1>1. /\ ev.seeds \subseteq People /\ ev.carriers \subseteq People
      /\ ev.difficulty \in Nat /\ ev.hour \in 0..HoursPerDay /\ ev.lit \subseteq Platforms
  BY DEF Events
<1>2. Ignite(s.media, ev.lit) \in MediaStates /\ Ignite(s.media, ev.lit).enabled = TRUE
  BY <1>1 DEF Ignite, On, Sims, MediaStates
<1>3. /\ (IF DayNight /\ ev.hour # NoHour THEN ev.hour ELSE s.hour) \in Nat
      /\ (IF ev.difficulty > 0 THEN ev.difficulty ELSE s.scale) \in Nat
  BY <1>1, SimulationAssumption DEF On, Sims
<1>4. QED
  BY <1>1, <1>2, <1>3 DEF Inject, Broadcast, On, Sims

LEMMA ReactionsOn ==
  ASSUME NEW s, On(s), NEW people \in SUBSET People
  PROVE  On(ApplyReactions(s, people))
  BY DEF ApplyReactions, On, Sims

(* A tick of the layer does not switch it. *)
LEMMA AdvancesOn ==
  ASSUME NEW m \in MediaStates, m.enabled = TRUE,
         NEW spreading, NEW unaware \in SUBSET People,
         NEW o \in Advances(m, spreading, unaware, MaxPosts)
  PROVE  o.media \in MediaStates /\ o.media.enabled = TRUE
<1>1. CASE Live(m)
  <2> DEFINE engaged == {p \in Platforms : Member[p] \cap spreading # {}}
             reached == (UNION {Member[p] : p \in engaged}) \cap unaware
             posts   == UNION {[r -> 1..MaxPosts] : r \in SUBSET reached}
  <2> PICK h \in SUBSET (m.hot \cup engaged), n \in posts : o = Outcome(m, h, n)
    BY <1>1 DEF Advances, Dark
  <2>1. o.media = [m EXCEPT !.hot = h, !.exposed = DOMAIN n, !.stepped = TRUE]
    BY DEF Outcome
  <2>2. h \subseteq Platforms
    BY DEF MediaStates
  <2>3. DOMAIN n \subseteq People
    OBVIOUS
  <2>4. QED
    BY <2>1, <2>2, <2>3 DEF MediaStates
<1>2. CASE ~Live(m)
  BY <1>2 DEF Advances, Dark
<1>3. QED
  BY <1>1, <1>2

LEMMA TickedOn ==
  ASSUME NEW s, On(s), NEW m \in MediaStates, m.enabled = TRUE,
         NEW new \in SUBSET People, NEW late \in SUBSET s.heard
  PROVE  On(Ticked(s, m, new, late))
<1>1. Opinions(s, m) \subseteq People
  BY DEF Opinions
<1>2. (IF DayNight THEN WrapHour(s.hour + 1) ELSE s.hour) \in Nat
  BY SimulationAssumption DEF On, Sims, WrapHour
<1>3. QED
  BY <1>1, <1>2 DEF Ticked, On, Sims

LEMMA TicksOn ==
  ASSUME NEW s, On(s), NEW ties, NEW t \in Ticks(s, ties)
  PROVE  On(t)
<1> DEFINE lates   == SUBSET (IF Fatigue THEN s.heard ELSE {})
           T(o, n) == {Ticked(s, o.media, n, l) : l \in lates}
           A(o)    == UNION {T(o, n) : n \in SUBSET CanHear(s, ties, o.shown)}
           outs    == Advances(s.media, s.heard \ s.tired, People \ s.heard, MaxPosts)
<1>1. t \in UNION {A(o) : o \in outs}
  BY DEF Ticks
<1>2. PICK o \in outs : t \in A(o)
  BY <1>1
<1>3. PICK n \in SUBSET CanHear(s, ties, o.shown) : t \in T(o, n)
  BY <1>2
<1>4. PICK l \in lates : t = Ticked(s, o.media, n, l)
  BY <1>3
<1>5. o.media \in MediaStates /\ o.media.enabled = TRUE
  BY AdvancesOn DEF On, Sims
<1>6. n \subseteq People /\ l \subseteq s.heard
  BY DEF CanHear, On, Sims
<1>7. QED
  BY <1>4, <1>5, <1>6, TickedOn

-----------------------------------------------------------------------------
(* The samples *)

(* How many samples arm a has, short of an experiment that was cut. *)
Due(a) ==
  IF stage = "building" \/ (stage \in {"arms", "rounds"} /\ a >= arm)
  THEN rep - 1 ELSE rep

(* A sample of the j-th world, taken from rest. *)
Fair(j) == [world |-> j, start |-> Rest]

Samples == [world : Nat, start : {Rest}]

(* Where Run is, and what it has. *)
Placed ==
  /\ rep \in Nat /\ arm \in Nat \ {0}
  /\ stage # "idle" => cfg \in Designs /\ DOMAIN reach = DOMAIN cfg.arms
  /\ stage \in {"building", "arms", "rounds"} => rep > 0
  /\ stage \in {"arms", "rounds"} => On(sim)
  /\ stage = "rounds" => arm \in DOMAIN cfg.arms /\ began = Rest

Counted ==
  stage # "idle" =>
    \A a \in DOMAIN reach :
      (stage = "replicates" => ~expired) => Len(reach[a]) = Due(a)

Sampled ==
  /\ reach \in Seq(Seq(Samples))
  /\ \A a \in DOMAIN reach : \A j \in DOMAIN reach[a] : reach[a][j] = Fair(j)

Kept ==
  last # None => \A a \in DOMAIN last.diffs : \A j \in DOMAIN last.diffs[a] :
    last.diffs[a][j][1] = last.diffs[a][j][2]

IInv == Placed /\ Counted /\ Sampled /\ Kept

LEMMA IInvInit == Init => IInv
  BY DEF Init, IInv, Placed, Counted, Sampled, Kept

-----------------------------------------------------------------------------
(* The steps *)

(* An arm of a design is a story and people. *)
LEMMA ArmTyped ==
  ASSUME NEW d \in Designs, NEW a \in DOMAIN d.arms
  PROVE  /\ d.arms[a].story \in Events
         /\ d.arms[a].reactions # None => d.arms[a].reactions \in SUBSET People
<1>1. d.arms \in Seq(Arms) /\ People = Nodes
  BY ExperimentAssumption
<1>2. d.arms[a] \in Arms
  BY <1>1
<1>3. /\ d.arms[a].story \in Events
      /\ d.arms[a].reactions \in (SUBSET Nodes) \cup {None}
  BY <1>2 DEF Arms
<1>4. d.arms[a].reactions \in SUBSET Nodes \/ d.arms[a].reactions = None
  BY <1>3
<1>5. QED
  BY <1>1, <1>3, <1>4

(* The first arm of a design is 1. *)
LEMMA ArmsNumbered ==
  ASSUME NEW d \in Designs
  PROVE  DOMAIN d.arms = 1..Len(d.arms) /\ Len(d.arms) \in Nat
  BY ExperimentAssumption

LEMMA BeginKeeps == ASSUME IInv, NEW d \in Designs, Begin(d) PROVE IInv'
<1>1. /\ stage' = "replicates" /\ cfg' = d /\ rep' = 0 /\ expired' = FALSE
      /\ reach' = [a \in DOMAIN d.arms |-> <<>>] /\ arm' = arm /\ last' = last
  BY DEF Begin
<1>2. Placed'
  BY <1>1 DEF IInv, Placed
<1>3. Counted'
  BY <1>1 DEF Counted, Due
<1>4. Sampled'
  <2>1. reach' \in [1..Len(d.arms) -> Seq(Samples)] /\ Len(d.arms) \in Nat
    BY <1>1, ArmsNumbered
  <2>2. reach' \in Seq(Seq(Samples))
    BY <2>1, SeqDef
  <2>3. QED
    BY <1>1, <2>2 DEF Sampled
<1>5. Kept'
  BY <1>1 DEF IInv, Kept
<1>6. QED
  BY <1>2, <1>3, <1>4, <1>5 DEF IInv

(* What leaves the samples and the result alone. *)
LEMMA SamplesKept ==
  ASSUME Sampled, Kept, UNCHANGED <<reach, last>>
  PROVE  Sampled' /\ Kept'
  BY DEF Sampled, Kept

LEMMA ExpireKeeps == ASSUME IInv, Expire PROVE IInv'
<1>1. Placed'
  BY DEF Expire, IInv, Placed
<1>2. Counted'
  BY DEF Expire, IInv, Counted, Due
<1>3. QED
  BY <1>1, <1>2, SamplesKept DEF Expire, IInv, runnerVars

LEMMA NextReplicateKeeps == ASSUME IInv, NextReplicate PROVE IInv'
<1>1. Placed'
  BY DEF NextReplicate, IInv, Placed
<1>2. Counted'
  BY DEF NextReplicate, IInv, Placed, Counted, Due
<1>3. QED
  BY <1>1, <1>2, SamplesKept DEF NextReplicate, IInv, runnerVars

LEMMA BuildKeeps == ASSUME IInv, Build PROVE IInv'
<1>1. UNCHANGED <<runnerVars, localVars>>
  BY DEF Build
<1>2. QED
  BY <1>1 DEF runnerVars, localVars, IInv, Placed, Counted, Due, Sampled, Kept

LEMMA BuiltKeeps == ASSUME IInv, Built PROVE IInv'
<1>1. Placed'
  BY RestOn DEF Built, IInv, Placed
<1>2. Counted'
  <2> SUFFICES ASSUME NEW a \in DOMAIN reach
      PROVE  Len(reach[a]) = Due(a)'
    BY DEF Built, Counted
  <2>1. a >= 1
    BY ArmsNumbered DEF Built, IInv, Placed
  <2>2. Len(reach[a]) = Due(a)
    BY DEF Built, IInv, Counted
  <2>3. QED
    BY <2>1, <2>2 DEF Built, Due
<1>3. QED
  BY <1>1, <1>2, SamplesKept DEF Built, IInv, runnerVars

(* An arm begins at rest, whatever the arms before it did. *)
LEMMA BeginArmKeeps == ASSUME IInv, BeginArm PROVE IInv'
<1>1. On(sim) /\ cfg \in Designs /\ arm \in DOMAIN cfg.arms
  BY DEF BeginArm, IInv, Placed
<1>2. Reset(sim) = Rest /\ On(Rest)
  BY <1>1, ResetIsRest, RestOn
<1>3. On(Inject(Reset(sim), cfg.arms[arm].story))
  BY <1>1, <1>2, InjectOn, ArmTyped
<1>4. On(sim')
  BY <1>1, <1>3, ReactionsOn, ArmTyped DEF BeginArm
<1>5. Placed'
  BY <1>1, <1>2, <1>4 DEF BeginArm, IInv, Placed
<1>6. Counted'
  BY DEF BeginArm, IInv, Counted, Due
<1>7. QED
  BY <1>5, <1>6, SamplesKept DEF BeginArm, IInv, runnerVars

LEMMA RoundKeeps == ASSUME IInv, Round PROVE IInv'
<1>1. On(sim')
  BY TicksOn DEF Round, IInv, Placed
<1>2. Placed'
  BY <1>1 DEF Round, IInv, Placed
<1>3. Counted'
  BY DEF Round, IInv, Counted, Due
<1>4. QED
  BY <1>2, <1>3, SamplesKept DEF Round, IInv, runnerVars

(* The arm's sample is of this replicate's world, and from rest. *)
LEMMA EndArmKeeps == ASSUME IInv, EndArm PROVE IInv'
<1>1. /\ stage = "rounds" /\ stage' = "arms" /\ arm' = arm + 1 /\ rep' = rep
      /\ reach' = [reach EXCEPT ![arm] = Append(reach[arm], [world |-> rep, start |-> began])]
      /\ UNCHANGED <<last, cfg, sim>>
  BY DEF EndArm
<1>2. /\ rep \in Nat /\ rep > 0 /\ arm \in Nat \ {0}
      /\ arm \in DOMAIN reach /\ began = Rest
      /\ cfg \in Designs /\ DOMAIN reach = DOMAIN cfg.arms
      /\ DOMAIN reach \subseteq Nat
  BY <1>1, ArmsNumbered DEF IInv, Placed
<1>3. Placed'
  BY <1>1, <1>2 DEF IInv, Placed
<1>4. /\ reach[arm] \in Seq(Samples) /\ Len(reach[arm]) = rep - 1
      /\ \A j \in 1..(rep - 1) : reach[arm][j] = Fair(j)
  BY <1>1, <1>2 DEF IInv, Sampled, Counted, Due
<1>5. Fair(rep) \in Samples /\ Fair(rep) = [world |-> rep, start |-> began]
  BY <1>2 DEF Fair, Samples
<1>6. DOMAIN reach' = DOMAIN reach /\ reach'[arm] = Append(reach[arm], Fair(rep))
  BY <1>1, <1>2, <1>5
<1>7. /\ reach'[arm] \in Seq(Samples) /\ Len(reach'[arm]) = rep
      /\ \A j \in 1..rep : reach'[arm][j] = Fair(j)
  BY <1>2, <1>4, <1>5, <1>6
<1>8. \A a \in DOMAIN reach : a # arm => reach'[a] = reach[a]
  BY <1>1, <1>2
<1>9. Counted'
  <2> SUFFICES ASSUME NEW a \in DOMAIN reach
      PROVE  Len(reach'[a]) = Due(a)'
    BY <1>6 DEF Counted
  <2>1. CASE a = arm
    BY <1>1, <1>2, <1>7, <2>1 DEF Due
  <2>2. CASE a # arm
    BY <1>1, <1>2, <1>8, <2>2 DEF IInv, Counted, Due
  <2>3. QED
    BY <2>1, <2>2
<1>10. Sampled'
  <2>1. reach' \in Seq(Seq(Samples))
    BY <1>1, <1>2, <1>5, <1>4 DEF IInv, Sampled
  <2>2. ASSUME NEW a \in DOMAIN reach, NEW j \in DOMAIN reach'[a]
        PROVE  reach'[a][j] = Fair(j)
    <3>1. CASE a = arm
      BY <1>7, <2>2, <3>1
    <3>2. CASE a # arm
      BY <1>8, <2>2, <3>2 DEF IInv, Sampled
    <3>3. QED
      BY <3>1, <3>2
  <2>3. QED
    BY <1>6, <2>1, <2>2 DEF Sampled
<1>11. Kept'
  BY <1>1 DEF IInv, Kept
<1>12. QED
  BY <1>3, <1>9, <1>10, <1>11 DEF IInv

(* Short of a cut, the arms are left when all have been run. *)
LEMMA LeaveArmsKeeps == ASSUME IInv, LeaveArms PROVE IInv'
<1>1. Placed'
  BY DEF LeaveArms, IInv, Placed
<1>2. Counted'
  <2> SUFFICES ASSUME ~expired, NEW a \in DOMAIN reach
      PROVE  Len(reach[a]) = Due(a)'
    BY DEF LeaveArms, Counted
  <2>1. /\ arm \notin DOMAIN cfg.arms /\ DOMAIN reach = DOMAIN cfg.arms
        /\ arm \in Nat \ {0} /\ cfg \in Designs
    BY DEF LeaveArms, IInv, Placed
  <2>2. ~(a >= arm)
    BY <2>1, ArmsNumbered
  <2>3. Len(reach[a]) = rep
    BY <2>2 DEF LeaveArms, IInv, Counted, Due
  <2>4. QED
    BY <2>3 DEF LeaveArms, Due
<1>3. QED
  BY <1>1, <1>2, SamplesKept DEF LeaveArms, IInv, runnerVars

(* What is subtracted was measured on the same world from the same start.   *)
LEMMA FinishKeeps == ASSUME IInv, Finish PROVE IInv'
<1>1. /\ stage' = "idle" /\ UNCHANGED <<rep, arm, reach>>
      /\ last'.diffs = [a \in 2..Len(reach) |-> PairedDiff(reach[1], reach[a])]
  BY DEF Finish
<1>2. Placed' /\ Counted' /\ Sampled'
  BY <1>1 DEF IInv, Placed, Counted, Sampled
<1>3. Kept'
  <2> SUFFICES ASSUME NEW a \in 2..Len(reach), NEW j \in DOMAIN PairedDiff(reach[1], reach[a])
      PROVE  PairedDiff(reach[1], reach[a])[j][1] = PairedDiff(reach[1], reach[a])[j][2]
    BY <1>1 DEF Kept
  <2> DEFINE both == {Len(reach[1]), Len(reach[a])}
  <2>1. reach \in Seq(Seq(Samples)) /\ 1 \in DOMAIN reach /\ a \in DOMAIN reach
    BY DEF IInv, Sampled
  <2>2. \E m \in both : \A n \in both : m <= n
    <3>1. Len(reach[1]) \in Nat /\ Len(reach[a]) \in Nat
      BY <2>1
    <3>2. QED
      BY <3>1
  <2>3. Min(both) \in both /\ \A n \in both : Min(both) <= n
    BY <2>2 DEF Min
  <2>4. j \in DOMAIN reach[1] /\ j \in DOMAIN reach[a]
    BY <2>1, <2>3 DEF PairedDiff
  <2>5. PairedDiff(reach[1], reach[a])[j] = <<reach[1][j], reach[a][j]>>
    BY DEF PairedDiff
  <2>6. QED
    BY <2>1, <2>4, <2>5 DEF IInv, Sampled
<1>4. QED
  BY <1>2, <1>3 DEF IInv

LEMMA NextKeeps == ASSUME IInv, [Next]_vars PROVE IInv'
<1>1. CASE \E d \in Designs : Begin(d)
  BY <1>1, BeginKeeps
<1>2. CASE Progress
  BY <1>2, NextReplicateKeeps, BuildKeeps, BuiltKeeps, BeginArmKeeps, RoundKeeps,
     EndArmKeeps, LeaveArmsKeeps, FinishKeeps DEF Progress
<1>3. CASE UNCHANGED vars
  BY <1>3 DEF vars, runnerVars, localVars, IInv, Placed, Counted, Due, Sampled, Kept
<1>4. QED
  BY <1>1, <1>2, <1>3, ExpireKeeps DEF Next

(* Every sample of every arm is of the world of its replicate and started   *)
(* from rest, and a difference subtracts such a pair, for any designs and   *)
(* wherever the context expires.                                            *)
THEOREM Paired == Spec => []ArmsArePaired
<1>1. IInv => ArmsArePaired
  BY DEF IInv, Sampled, Fair, Kept, ArmsArePaired
<1>2. QED
  BY <1>1, IInvInit, NextKeeps, PTL DEF Spec

-----------------------------------------------------------------------------
(* The books *)

(* How many samples each arm has. *)
Lens(samples) == [a \in DOMAIN samples |-> Len(samples[a])]

Descending(samples) ==
  \A a, b \in DOMAIN samples :
    a < b => Len(samples[a]) - Len(samples[b]) \in {0, 1}

(* Between Begin and Finish the runs counted are the samples taken, no arm  *)
(* has more than there were replicates, and none more than one less than    *)
(* those before it.                                                         *)
Books ==
  stage # "idle" =>
    /\ runs = SumFunction(Lens(reach))
    /\ \A a \in DOMAIN reach : Len(reach[a]) <= rep
    /\ Descending(reach)

BooksIInv == IInv /\ Books /\ ResultAddsUp

LEMMA LensAre ==
  ASSUME Sampled
  PROVE  /\ DOMAIN reach = 1..Len(reach) /\ Len(reach) \in Nat
         /\ IsFiniteSet(DOMAIN reach) /\ Cardinality(DOMAIN reach) = Len(reach)
         /\ \A a \in DOMAIN reach : reach[a] \in Seq(Samples) /\ Len(reach[a]) \in Nat
<1>1. reach \in Seq(Seq(Samples))
  BY DEF Sampled
<1>2. DOMAIN reach = 1..Len(reach) /\ Len(reach) \in Nat
  BY <1>1, LenProperties
<1>3. \A a \in DOMAIN reach : reach[a] \in Seq(Samples) /\ Len(reach[a]) \in Nat
  BY <1>1, <1>2, ElementOfSeq, LenProperties
<1>4. 1 \in Int /\ Len(reach) \in Int
  BY <1>2
<1>5. IsFiniteSet(1..Len(reach))
      /\ Cardinality(1..Len(reach)) = IF 1 > Len(reach) THEN 0 ELSE Len(reach) - 1 + 1
  BY <1>4, FS_Interval
<1>6. Cardinality(1..Len(reach)) = Len(reach)
  BY <1>2, <1>5
<1>7. QED
  BY <1>2, <1>3, <1>5, <1>6

(* Nothing is sampled yet, and nothing counted. *)
LEMMA BeginBooks == ASSUME BooksIInv, NEW d \in Designs, Begin(d) PROVE Books' /\ ResultAddsUp'
<1>1. /\ runs' = 0 /\ rep' = 0 /\ last' = last
      /\ reach' = [a \in DOMAIN d.arms |-> <<>>]
  BY DEF Begin, Zeroed
<1>2. IInv'
  BY BeginKeeps DEF BooksIInv
<1>3. DOMAIN reach' = 1..Len(d.arms) /\ Len(d.arms) \in Nat
  BY <1>1, ArmsNumbered
<1>4. \A a \in DOMAIN reach' : Len(reach'[a]) = 0
  BY <1>1, EmptySeq
<1>5. SumFunction(Lens(reach')) = 0
  <2> DEFINE D == DOMAIN reach'
             f == Lens(reach')
  <2>1. IsFiniteSet(D)
    <3>1. 1 \in Int /\ Len(d.arms) \in Int
      BY <1>3
    <3>2. QED
      BY <1>3, <3>1, FS_Interval
  <2>2. \A x \in D : f[x] = 0
    BY <1>4 DEF Lens
  <2>3. SumFunction(f) = SumFunctionOnSet(f, D)
    BY DEF SumFunction, Lens
  <2> HIDE DEF D, f
  <2>4. \A x \in D : f[x] \in Nat /\ f[x] <= 0
    BY <2>2
  <2>5. SumFunctionOnSet(f, D) \in Nat
    BY <2>1, <2>4, SumNat
  <2>6. SumFunctionOnSet(f, D) <= 0 * Cardinality(D)
    BY <2>1, <2>4, SumBound
  <2>7. Cardinality(D) \in Nat
    BY <2>1, FS_CardinalityType
  <2>8. SumFunctionOnSet(f, D) = 0
    BY <2>5, <2>6, <2>7
  <2>9. QED
    BY <2>3, <2>8 DEF f
<1>6. Descending(reach')
  BY <1>4 DEF Descending
<1>7. Books'
  BY <1>1, <1>4, <1>5, <1>6 DEF Books
<1>8. ResultAddsUp'
  BY <1>1 DEF BooksIInv, ResultAddsUp
<1>9. QED
  BY <1>7, <1>8

(* One more sample, one more run: the arm catches up with those before it.  *)
LEMMA EndArmBooks == ASSUME BooksIInv, EndArm PROVE Books' /\ ResultAddsUp'
<1>1. /\ stage = "rounds" /\ stage' = "arms" /\ arm' = arm + 1 /\ rep' = rep /\ last' = last
      /\ reach' = [reach EXCEPT ![arm] = Append(reach[arm], [world |-> rep, start |-> began])]
      /\ runs' = runs + 1
  BY DEF EndArm
<1>2. IInv /\ IInv' /\ Books /\ Sampled
  BY EndArmKeeps DEF BooksIInv, IInv
<1>3. /\ rep \in Nat /\ rep > 0 /\ arm \in DOMAIN reach /\ began = Rest
  BY <1>1, <1>2 DEF IInv, Placed
<1>4. /\ DOMAIN reach = 1..Len(reach) /\ Len(reach) \in Nat /\ IsFiniteSet(DOMAIN reach)
      /\ \A a \in DOMAIN reach : reach[a] \in Seq(Samples) /\ Len(reach[a]) \in Nat
  BY <1>2, LensAre
<1>5. [world |-> rep, start |-> began] \in Samples
  BY <1>3 DEF Samples
<1>6. /\ DOMAIN reach' = DOMAIN reach
      /\ Len(reach'[arm]) = Len(reach[arm]) + 1
      /\ \A a \in DOMAIN reach : a # arm => reach'[a] = reach[a]
  <2>1. reach'[arm] = Append(reach[arm], [world |-> rep, start |-> began])
    BY <1>1, <1>3
  <2>2. Len(reach'[arm]) = Len(reach[arm]) + 1
    BY <1>3, <1>4, <1>5, <2>1, AppendProperties
  <2>3. QED
    BY <1>1, <2>2
<1>7. \A a \in DOMAIN reach : Len(reach[a]) = IF a >= arm THEN rep - 1 ELSE rep
  BY <1>1, <1>2 DEF IInv, Counted, Due
<1>8. \A a \in DOMAIN reach : Len(reach'[a]) = IF a > arm THEN rep - 1 ELSE rep
  <2> SUFFICES ASSUME NEW a \in DOMAIN reach
      PROVE  Len(reach'[a]) = IF a > arm THEN rep - 1 ELSE rep
    OBVIOUS
  <2>1. a \in Int /\ arm \in Int
    BY <1>3, <1>4
  <2>2. CASE a = arm
    BY <1>3, <1>6, <1>7, <2>1, <2>2
  <2>3. CASE a # arm
    BY <1>3, <1>6, <1>7, <2>1, <2>3
  <2>4. QED
    BY <2>2, <2>3
<1>9. Descending(reach')
  <2> SUFFICES ASSUME NEW a \in DOMAIN reach, NEW b \in DOMAIN reach, a < b
      PROVE  Len(reach'[a]) - Len(reach'[b]) \in {0, 1}
    BY <1>6 DEF Descending
  <2>1. a \in Int /\ b \in Int /\ arm \in Int
    BY <1>3, <1>4
  <2>2. /\ Len(reach'[a]) = IF a > arm THEN rep - 1 ELSE rep
        /\ Len(reach'[b]) = IF b > arm THEN rep - 1 ELSE rep
    BY <1>8
  <2>3. QED
    BY <1>3, <2>1, <2>2
<1>10. \A a \in DOMAIN reach : Len(reach'[a]) <= rep
  BY <1>3, <1>8
<1>11. SumFunction(Lens(reach')) = SumFunction(Lens(reach)) + 1
  <2> DEFINE D == DOMAIN reach
             f == Lens(reach)
             g == Lens(reach')
  <2>1. \A x \in D : /\ f[x] = Len(reach[x]) /\ g[x] = Len(reach'[x])
                     /\ f[x] \in Nat /\ g[x] \in Nat
    BY <1>3, <1>4, <1>6, <1>8 DEF Lens
  <2>2. g[arm] = f[arm] + 1 /\ \A x \in D \ {arm} : f[x] = g[x]
    BY <1>3, <1>6, <2>1
  <2>3. SumFunction(f) = SumFunctionOnSet(f, D) /\ SumFunction(g) = SumFunctionOnSet(g, D)
    BY <1>6 DEF SumFunction, Lens
  <2> HIDE DEF f, g, D
  <2>4. arm \in D /\ IsFiniteSet(D) /\ IsFiniteSet(D \ {arm})
    BY <1>3, <1>4, FS_RemoveElement DEF D
  <2>5. /\ SumFunctionOnSet(f, D) = f[arm] + SumFunctionOnSet(f, D \ {arm})
        /\ SumFunctionOnSet(g, D) = g[arm] + SumFunctionOnSet(g, D \ {arm})
    BY <2>1, <2>4, SumSplit
  <2>6. SumFunctionOnSet(f, D \ {arm}) = SumFunctionOnSet(g, D \ {arm})
    BY <2>1, <2>2, <2>4, SumSame
  <2>7. SumFunctionOnSet(f, D \ {arm}) \in Nat /\ f[arm] \in Nat
    BY <2>1, <2>4, SumNat
  <2>8. SumFunctionOnSet(g, D) = SumFunctionOnSet(f, D) + 1
    BY <2>2, <2>5, <2>6, <2>7
  <2>9. QED
    BY <2>3, <2>8 DEF f, g
<1>12. Books'
  BY <1>1, <1>2, <1>6, <1>9, <1>10, <1>11 DEF Books
<1>13. ResultAddsUp'
  BY <1>1 DEF BooksIInv, ResultAddsUp
<1>14. QED
  BY <1>12, <1>13

(* The result quotes the runs, and what was not cut is complete. *)
LEMMA FinishBooks == ASSUME BooksIInv, Finish PROVE Books' /\ ResultAddsUp'
<1>1. /\ stage = "replicates" /\ (rep = cfg.replicates \/ expired)
      /\ stage' = "idle" /\ last'.samples = reach /\ last'.runs = runs
      /\ last'.cut = expired /\ last'.of = cfg.replicates
  BY DEF Finish
<1>2. IInv /\ Books /\ Sampled
  BY DEF BooksIInv, IInv
<1>3. runs = SumFunction(Lens(reach)) /\ Descending(reach)
  BY <1>1, <1>2 DEF Books
<1>4. ~expired => \A a \in DOMAIN reach : Len(reach[a]) = cfg.replicates
  BY <1>1, <1>2 DEF IInv, Counted, Due
<1>5. ResultAddsUp'
  BY <1>1, <1>3, <1>4 DEF ResultAddsUp, Lens, Descending
<1>6. QED
  BY <1>1, <1>5 DEF Books

LEMMA NextBooks == BooksIInv /\ [Next]_vars => BooksIInv'
<1> SUFFICES ASSUME BooksIInv, [Next]_vars PROVE Books' /\ ResultAddsUp'
  BY NextKeeps DEF BooksIInv
<1>1. ASSUME UNCHANGED <<reach, runs, last>>, rep' = rep,
             stage # "idle" \/ stage' = "idle"
      PROVE  Books' /\ ResultAddsUp'
  BY <1>1 DEF BooksIInv, Books, ResultAddsUp
<1>2. CASE \E d \in Designs : Begin(d)
  BY <1>2, BeginBooks
<1>3. CASE NextReplicate
  <2>1. rep \in Nat /\ rep' = rep + 1 /\ UNCHANGED <<reach, runs, last>> /\ stage # "idle"
    BY <1>3 DEF NextReplicate, runnerVars, BooksIInv, IInv, Placed
  <2>2. \A a \in DOMAIN reach : Len(reach[a]) \in Nat
    BY LensAre DEF BooksIInv, IInv
  <2>3. \A a \in DOMAIN reach : Len(reach[a]) <= rep + 1
    BY <2>1, <2>2 DEF BooksIInv, Books
  <2>4. Books'
    BY <2>1, <2>3 DEF BooksIInv, Books
  <2>5. ResultAddsUp'
    BY <2>1 DEF BooksIInv, ResultAddsUp
  <2>6. QED
    BY <2>4, <2>5
<1>4. CASE EndArm \/ Finish
  BY <1>4, EndArmBooks, FinishBooks
<1>5. CASE Build
  BY <1>1, <1>5 DEF Build, runnerVars, localVars
<1>6. CASE Built \/ BeginArm \/ Round \/ LeaveArms
  BY <1>1, <1>6 DEF Built, BeginArm, Round, LeaveArms, runnerVars
<1>7. CASE Expire \/ UNCHANGED vars
  BY <1>1, <1>7 DEF Expire, vars, runnerVars, localVars
<1>8. QED
  BY <1>2, <1>3, <1>4, <1>5, <1>6, <1>7 DEF Next, Progress

(* A result's runs are the samples it has, wherever the run was cut; and if *)
(* it was not, every arm has one for every replicate.                       *)
THEOREM AddsUp == Spec => []ResultAddsUp
<1>1. Init => BooksIInv
  BY IInvInit DEF Init, BooksIInv, Books, ResultAddsUp
<1>2. BooksIInv => ResultAddsUp
  BY DEF BooksIInv
<1>3. QED
  BY <1>1, <1>2, NextBooks, PTL DEF Spec

-----------------------------------------------------------------------------
(* The graph *)

(* The nodes of a worker's chunk. *)
Mine(w) == First(w)..(Past(w) - 1)

(* What a pass does, piece by piece: <<j, 0>> is what j's own row takes at  *)
(* once, <<j, n>> the n-th tie j proposes, which takes one slot in the      *)
(* target's row.                                                            *)
ItemsOf(j) == {j} \X (0..Len(Proposals[j]))
Items == UNION {ItemsOf(j) : j \in Nodes}

(* How many slots of row i each piece takes. *)
Weight(i) ==
  [x \in Items |->
     IF x[2] = 0 THEN IF x[1] = i THEN Len(Proposals[i]) ELSE 0
                 ELSE IF Proposals[x[1]][x[2]] = i THEN 1 ELSE 0]

Total(i, S) == SumFunctionOnSet(Weight(i), S)

Here(w) == <<row[w], k[w]>>

(* The pieces the workers have behind them, and in pass 2 those for which   *)
(* they have claimed slots.                                                 *)
Before(w) == {x \in Items : /\ x[1] \in Mine(w)
                            /\ x[1] < row[w] \/ (x[1] = row[w] /\ x[2] < k[w])}
Done == UNION {Before(w) : w \in 1..Workers}
Halfway == {w \in 1..Workers : half[w] # Unset}
Claimed == Done \cup {Here(w) : w \in Halfway}

(* Where the workers are. *)
Walking ==
  \A w \in 1..Workers :
    /\ row[w] >= First(w) /\ row[w] \in Nat /\ k[w] \in Nat
    /\ IF AtWork(w) THEN k[w] <= Len(Proposals[row[w]]) ELSE k[w] = 0
    /\ phase \in {"dedup", "built"} => k[w] = 0
    /\ half[w] # Unset => phase = "place" /\ AtWork(w) /\ k[w] > 0

Counting ==
  phase = "count" => \A i \in Nodes : cap[i] = Total(i, Done)

(* The slots of row i that are claimed. *)
Taken(i) == (off[i] + 1)..cur[i]

(* The part of its own row a worker has claimed and not written, and all it *)
(* has claimed and not written.                                             *)
Bulk(w) ==
  IF AtWork(w) /\ k[w] > 0
  THEN (base[w] + k[w] + (IF half[w] = Unset THEN 0 ELSE 1))
         ..(base[w] + Len(Proposals[row[w]]))
  ELSE {}
Owed(w) == Bulk(w) \cup (IF half[w] = Unset THEN {} ELSE {half[w]})
Open == UNION {Owed(w) : w \in 1..Workers}

Fitting ==
  phase \in {"place", "dedup"} =>
    /\ off[0] = 0 /\ \A i \in Nodes : off[i + 1] = off[i] + Total(i, Items)
    /\ DOMAIN adj = 1..off[N]

(* The slots of row i that are filled. *)
Written(i) == Taken(i) \ Open

(* A row has given out the slots its claimed pieces take. *)
Sized == \A i \in Nodes : cur[i] = off[i] + Total(i, Claimed)

(* What a worker owes it has claimed, and nobody else has. *)
Owing ==
  /\ \A w \in 1..Workers : AtWork(w) => Bulk(w) \subseteq Taken(row[w])
  /\ \A w \in Halfway : half[w] \in Taken(Target(w)) \ Bulk(w)
  /\ \A w, v \in 1..Workers : w # v => Owed(w) \cap Owed(v) = {}

(* Only ties are in the rows, and those of the pieces done are in both.     *)
Filled ==
  /\ \A i \in Nodes : \A s \in Written(i) : adj[s] \in Nodes /\ Tied(i, adj[s])
  /\ \A x \in Claimed : x[2] > 0 =>
       \E s \in Written(x[1]) : adj[s] = Proposals[x[1]][x[2]]
  /\ \A x \in Done : x[2] > 0 =>
       \E s \in Written(Proposals[x[1]][x[2]]) : adj[s] = x[1]

Placing == phase = "place" => Sized /\ Owing /\ Filled

Row(i) == {j \in Nodes : Tied(i, j)}

Finishing ==
  /\ phase = "dedup" =>
       \A i \in Nodes : {adj[s] : s \in Slots(i)} \ {i} = Row(i)
  /\ phase = "dedup" =>
       \A w \in 1..Workers : \A i \in Mine(w) : i < row[w] => nbrs[i] = Row(i)
  /\ phase = "built" => \A i \in Nodes : nbrs[i] = Row(i)

Typed == BuildTypeOK /\ Walking

BuildIInv ==
  Typed /\ Counting /\ Fitting /\ Placing /\ Finishing


-----------------------------------------------------------------------------
(* The chunks *)

(* The chunks together are long enough. *)
LEMMA ChunkIsEnough == Chunk \in Nat \ {0} /\ N <= Workers * Chunk
<1>1. N \in Nat /\ Workers \in Nat /\ 1 <= Workers /\ Workers <= N
  BY GraphAssumption
<1> DEFINE a == N + Workers - 1
           q == a \div Workers
<1>2. a \in Nat /\ Workers <= a
  BY <1>1
<1> HIDE DEF a
<1>3. q \in Int /\ Workers * q <= a /\ a < Workers * (q + 1)
  BY <1>1, <1>2
<1> HIDE DEF q
<1>4. Workers * (q + 1) = Workers * q + Workers
  BY <1>1, <1>3
<1>5. Workers * q \in Int
  BY <1>1, <1>3
<1>6. N <= Workers * q
  BY <1>1, <1>3, <1>4, <1>5 DEF a
<1>7. ~(q <= 0)
  <2>1. q <= 0 => Workers * q <= 0
    BY <1>1, <1>3
  <2>2. QED
    BY <1>1, <1>5, <1>6, <2>1
<1>8. QED
  BY <1>3, <1>6, <1>7 DEF q, a, Chunk

LEMMA ChunksAre ==
  ASSUME NEW w \in 1..Workers
  PROVE  /\ First(w) \in Nat /\ Past(w) \in Nat /\ Past(w) <= N
         /\ Mine(w) \subseteq Nodes
<1>1. Chunk \in Nat /\ N \in Nat /\ Workers \in Nat
  BY ChunkIsEnough, GraphAssumption
<1>2. w \in Nat /\ w - 1 \in Nat
  BY <1>1
<1>3. (w - 1) * Chunk \in Nat /\ w * Chunk \in Nat
  BY <1>1, <1>2
<1>4. First(w) \in Nat /\ Past(w) \in Nat /\ Past(w) <= N
  BY <1>1, <1>3 DEF First, Past
<1>5. QED
  BY <1>1, <1>4 DEF Mine, Nodes

(* No node is in two chunks. *)
LEMMA ChunksApart ==
  ASSUME NEW w \in 1..Workers, NEW v \in 1..Workers, w # v
  PROVE  Mine(w) \cap Mine(v) = {}
<1>1. Chunk \in Nat /\ N \in Nat /\ Workers \in Nat
  BY ChunkIsEnough, GraphAssumption
<1>2. ASSUME NEW a \in 1..Workers, NEW b \in 1..Workers, a < b
      PROVE  Past(a) <= First(b)
  <2>1. a \in Nat /\ b \in Nat /\ b - 1 \in Nat /\ a <= b - 1
    BY <1>1, <1>2
  <2>2. a * Chunk <= (b - 1) * Chunk /\ a * Chunk \in Nat /\ (b - 1) * Chunk \in Nat
    BY <1>1, <2>1
  <2>3. QED
    BY <1>1, <2>2 DEF Past, First
<1>3. Past(w) <= First(v) \/ Past(v) <= First(w)
  BY <1>1, <1>2
<1>4. /\ First(w) \in Nat /\ Past(w) \in Nat /\ First(v) \in Nat /\ Past(v) \in Nat
  BY ChunksAre
<1>5. QED
  BY <1>3, <1>4 DEF Mine

(* Every node is in one. *)
LEMMA ChunksCover ==
  ASSUME NEW i \in Nodes
  PROVE  \E w \in 1..Workers : i \in Mine(w)
<1>1. /\ Chunk \in Nat \ {0} /\ N \in Nat /\ Workers \in Nat /\ N <= Workers * Chunk
      /\ i \in Nat /\ i < N
  BY ChunkIsEnough, GraphAssumption DEF Nodes
<1> DEFINE S == {n \in Nat : i >= n * Chunk \/ \E w \in 1..n : i >= (w - 1) * Chunk /\ i < w * Chunk}
<1>2. 0 \in S
  BY <1>1
<1>3. ASSUME NEW n \in Nat, n \in S PROVE n + 1 \in S
  <2>1. (n + 1) - 1 = n /\ n + 1 \in 1..(n + 1) /\ 1..n \subseteq 1..(n + 1)
    OBVIOUS
  <2>2. n * Chunk \in Nat /\ (n + 1) * Chunk \in Nat
    BY <1>1
  <2>3. CASE i >= n * Chunk
    <3>1. CASE i >= (n + 1) * Chunk
      BY <3>1
    <3>2. CASE ~(i >= (n + 1) * Chunk)
      <4>1. i >= ((n + 1) - 1) * Chunk /\ i < (n + 1) * Chunk
        BY <1>1, <2>1, <2>2, <2>3, <3>2
      <4>2. QED
        BY <2>1, <4>1
    <3>3. QED
      BY <3>1, <3>2
  <2>4. CASE ~(i >= n * Chunk)
    BY <1>3, <2>1, <2>4
  <2>5. QED
    BY <2>3, <2>4
<1>4. Workers \in S
  <2> HIDE DEF S
  <2>1. QED
    BY <1>1, <1>2, <1>3, Induction
<1>5. Workers * Chunk \in Nat
  BY <1>1
<1>6. PICK w \in 1..Workers : i >= (w - 1) * Chunk /\ i < w * Chunk
  BY <1>1, <1>4, <1>5
<1>7. i >= First(w) /\ i < Past(w)
  BY <1>1, <1>6 DEF First, Past
<1>8. First(w) \in Nat /\ Past(w) \in Nat
  BY ChunksAre
<1>9. QED
  BY <1>1, <1>7, <1>8 DEF Mine

-----------------------------------------------------------------------------
(* The pieces *)

LEMMA ProposalsAre ==
  ASSUME NEW i \in Nodes
  PROVE  /\ Proposals[i] \in Seq(Nodes) /\ Len(Proposals[i]) \in Nat
         /\ DOMAIN Proposals[i] = 1..Len(Proposals[i])
         /\ \A n \in 1..Len(Proposals[i]) :
              Proposals[i][n] \in Nodes /\ Proposals[i][n] # i
<1>1. Proposals[i] \in Seq(Nodes)
  BY GraphAssumption
<1>2. Len(Proposals[i]) \in Nat /\ DOMAIN Proposals[i] = 1..Len(Proposals[i])
  BY <1>1, LenProperties
<1>3. QED
  BY <1>1, <1>2, GraphAssumption

LEMMA ItemsAre ==
  ASSUME NEW x
  PROVE  x \in Items <=> /\ x = <<x[1], x[2]>> /\ x[1] \in Nodes
                         /\ x[2] \in 0..Len(Proposals[x[1]])
<1>1. \A j : x \in ItemsOf(j) <=>
        x = <<x[1], x[2]>> /\ x[1] = j /\ x[2] \in 0..Len(Proposals[j])
  BY DEF ItemsOf
<1>2. QED
  BY <1>1 DEF Items

LEMMA NodesFinite == IsFiniteSet(Nodes)
<1>1. 0 \in Int /\ N - 1 \in Int
  BY GraphAssumption
<1>2. QED
  BY <1>1, FS_Interval DEF Nodes

LEMMA ItemsFinite == IsFiniteSet(Items)
<1> DEFINE All(S) == UNION {ItemsOf(j) : j \in S}
           U == {S \in SUBSET Nodes : IsFiniteSet(All(S))}
<1>1. ASSUME NEW j \in Nodes PROVE IsFiniteSet(ItemsOf(j))
  <2>1. 0 \in Int /\ Len(Proposals[j]) \in Int
    BY ProposalsAre
  <2>2. IsFiniteSet({j}) /\ IsFiniteSet(0..Len(Proposals[j]))
    BY <2>1, FS_Singleton, FS_Interval
  <2>3. QED
    BY <2>2, FS_Product DEF ItemsOf
<1>2. {} \in U
  <2>1. All({}) = {}
    OBVIOUS
  <2>2. QED
    BY <2>1, FS_EmptySet
<1>3. \A S \in SUBSET Nodes, j \in Nodes : S \in U /\ j \notin S => S \cup {j} \in U
  <2> SUFFICES ASSUME NEW S \in SUBSET Nodes, NEW j \in Nodes, IsFiniteSet(All(S))
      PROVE  IsFiniteSet(All(S \cup {j}))
    OBVIOUS
  <2>1. All(S \cup {j}) = All(S) \cup ItemsOf(j)
    OBVIOUS
  <2>2. IsFiniteSet(ItemsOf(j))
    BY <1>1
  <2> HIDE DEF All
  <2>3. QED
    BY <2>1, <2>2, FS_Union
<1> HIDE DEF U
<1>4. Nodes \in U
  BY <1>2, <1>3, NodesFinite, SetInduction
<1>5. QED
  BY <1>4 DEF U, Items

LEMMA WeightIs ==
  ASSUME NEW i \in Nodes, NEW x \in Items
  PROVE  /\ Weight(i)[x] \in Nat
         /\ Weight(i)[x] = IF x[2] = 0 THEN IF x[1] = i THEN Len(Proposals[i]) ELSE 0
                           ELSE IF Proposals[x[1]][x[2]] = i THEN 1 ELSE 0
  BY ProposalsAre DEF Weight

LEMMA TotalIs ==
  ASSUME NEW i \in Nodes
  PROVE  /\ Total(i, {}) = 0
         /\ \A S \in SUBSET Items : Total(i, S) \in Nat /\ Total(i, S) <= Total(i, Items)
         /\ \A S \in SUBSET Items : \A x \in Items \ S :
              Total(i, S \cup {x}) = Weight(i)[x] + Total(i, S)
<1>1. \A x \in Items : Weight(i)[x] \in Nat
  BY WeightIs
<1>2. \A S \in SUBSET Items : IsFiniteSet(S)
  BY ItemsFinite, FS_Subset
<1>3. Total(i, {}) = 0
  BY SumEmpty DEF Total
<1>4. ASSUME NEW S \in SUBSET Items
      PROVE  Total(i, S) \in Nat /\ Total(i, S) <= Total(i, Items)
  BY <1>1, <1>2, ItemsFinite, SumNat, SumPart DEF Total
<1>5. ASSUME NEW S \in SUBSET Items, NEW x \in Items \ S
      PROVE  Total(i, S \cup {x}) = Weight(i)[x] + Total(i, S)
  BY <1>1, <1>2, SumAdd DEF Total
<1>6. QED
  BY <1>3, <1>4, <1>5

-----------------------------------------------------------------------------
(* The walk *)

LEMMA AtWorkIs ==
  ASSUME Typed, NEW w \in 1..Workers, AtWork(w)
  PROVE  /\ row[w] \in Nodes /\ row[w] \in Mine(w) /\ Here(w) \in Items
         /\ k[w] \in 0..Len(Proposals[row[w]])
         /\ k[w] > 0 => Target(w) \in Nodes /\ Target(w) # row[w]
         /\ Here(w)[1] = row[w] /\ Here(w)[2] = k[w]
<1>1. /\ First(w) \in Nat /\ Past(w) \in Nat /\ Mine(w) \subseteq Nodes
  BY ChunksAre
<1>2. row[w] >= First(w) /\ row[w] \in Nat /\ row[w] < Past(w) /\ k[w] \in Nat
      /\ k[w] <= Len(Proposals[row[w]])
  BY DEF Typed, Walking, AtWork
<1>3. row[w] \in Mine(w)
  BY <1>1, <1>2 DEF Mine
<1>4. row[w] \in Nodes
  BY <1>1, <1>3
<1>5. k[w] \in 0..Len(Proposals[row[w]])
  BY <1>2, <1>4, ProposalsAre
<1>6. Here(w)[1] = row[w] /\ Here(w)[2] = k[w]
  BY DEF Here
<1>7. Here(w) \in Items
  BY <1>4, <1>5, <1>6, ItemsAre DEF Here
<1>8. k[w] > 0 => Target(w) \in Nodes /\ Target(w) # row[w]
  BY <1>4, <1>5, ProposalsAre DEF Target
<1>9. QED
  BY <1>3, <1>4, <1>5, <1>6, <1>7, <1>8

(* One more piece is behind, and it was not. *)
LEMMA OneMore ==
  ASSUME Typed, NEW w \in 1..Workers, AtWork(w), NextTie(w)
  PROVE  /\ Done' = Done \cup {Here(w)} /\ Here(w) \notin Done
         /\ Done \subseteq Items
         /\ \A v \in 1..Workers : v # w => row'[v] = row[v] /\ k'[v] = k[v]
         /\ IF k[w] < Len(Proposals[row[w]])
            THEN row'[w] = row[w] /\ k'[w] = k[w] + 1
            ELSE row'[w] = row[w] + 1 /\ k'[w] = 0 /\ k[w] = Len(Proposals[row[w]])
<1>1. /\ row[w] \in Nodes /\ row[w] \in Mine(w) /\ Here(w) \in Items
      /\ k[w] \in 0..Len(Proposals[row[w]])
      /\ Here(w)[1] = row[w] /\ Here(w)[2] = k[w]
  BY AtWorkIs
<1>2. row[w] \in Nat /\ k[w] \in Nat /\ Len(Proposals[row[w]]) \in Nat
  BY <1>1, ProposalsAre, GraphAssumption DEF Nodes
<1>3. row \in [1..Workers -> Nat] /\ k \in [1..Workers -> Nat]
  BY DEF Typed, BuildTypeOK
<1>4. /\ \A v \in 1..Workers : v # w => row'[v] = row[v] /\ k'[v] = k[v]
      /\ IF k[w] < Len(Proposals[row[w]])
         THEN row'[w] = row[w] /\ k'[w] = k[w] + 1
         ELSE row'[w] = row[w] + 1 /\ k'[w] = 0 /\ k[w] = Len(Proposals[row[w]])
  <2>1. ~(k[w] < Len(Proposals[row[w]])) => k[w] = Len(Proposals[row[w]])
    BY <1>1, <1>2
  <2>2. CASE k[w] < Len(Proposals[row[w]])
    BY <1>3, <2>2 DEF NextTie
  <2>3. CASE ~(k[w] < Len(Proposals[row[w]]))
    BY <1>3, <2>1, <2>3 DEF NextTie
  <2>4. QED
    BY <2>2, <2>3
<1>5. ASSUME NEW v \in 1..Workers, v # w
      PROVE  Before(v)' = Before(v) /\ Here(w) \notin Before(v)
  <2>1. Before(v)' = Before(v)
    BY <1>4, <1>5 DEF Before
  <2>2. Mine(w) \cap Mine(v) = {}
    BY <1>5, ChunksApart
  <2>3. QED
    BY <1>1, <2>1, <2>2 DEF Before
<1>6. Here(w) \notin Before(w)
  BY <1>1, <1>2 DEF Before
<1>7. Before(w)' = Before(w) \cup {Here(w)}
  <2> DEFINE Bef(x) == x[1] < row[w] \/ (x[1] = row[w] /\ x[2] < k[w])
             Aft(x) == x[1] < row'[w] \/ (x[1] = row'[w] /\ x[2] < k'[w])
  <2>1. ASSUME NEW x \in Items
        PROVE  Aft(x) <=> Bef(x) \/ x = Here(w)
    <3>1. /\ x = <<x[1], x[2]>> /\ x[1] \in Nat
          /\ x[2] \in Nat /\ x[2] <= Len(Proposals[x[1]])
      <4>1. x = <<x[1], x[2]>> /\ x[1] \in Nodes /\ x[2] \in 0..Len(Proposals[x[1]])
        BY ItemsAre
      <4>2. Len(Proposals[x[1]]) \in Nat
        BY <4>1, ProposalsAre
      <4>3. QED
        BY <4>1, <4>2 DEF Nodes
    <3>2. x = Here(w) <=> x[1] = row[w] /\ x[2] = k[w]
      BY <3>1 DEF Here
    <3> HIDE DEF Here
    <3>3. CASE k[w] < Len(Proposals[row[w]])
      BY <1>2, <1>4, <3>1, <3>2, <3>3
    <3>4. CASE ~(k[w] < Len(Proposals[row[w]]))
      <4>1. row'[w] = row[w] + 1 /\ k'[w] = 0 /\ k[w] = Len(Proposals[row[w]])
        BY <1>4, <3>4
      <4>2. x[1] = row[w] => x[2] < k[w] \/ x[2] = k[w]
        BY <1>2, <3>1, <4>1
      <4>3. Aft(x) <=> x[1] < row[w] \/ x[1] = row[w]
        BY <1>2, <3>1, <4>1
      <4>4. QED
        BY <3>2, <4>2, <4>3
    <3>5. QED
      BY <3>3, <3>4
  <2>2. Before(w)' = {x \in Items : x[1] \in Mine(w) /\ Aft(x)}
    BY DEF Before
  <2>3. Before(w) = {x \in Items : x[1] \in Mine(w) /\ Bef(x)}
    BY DEF Before
  <2> HIDE DEF Aft, Bef, Here
  <2>4. QED
    BY <1>1, <2>1, <2>2, <2>3
<1>8. Done \subseteq Items
  BY DEF Done, Before
<1>9. Done' = UNION {Before(v)' : v \in 1..Workers}
  BY DEF Done
<1>10. Done' = Done \cup {Here(w)} /\ Here(w) \notin Done
  BY <1>5, <1>6, <1>7, <1>9 DEF Done
<1>11. QED
  BY <1>4, <1>8, <1>10

(* Whoever is through has all of its chunk behind it; at the start of a     *)
(* pass nobody has anything behind.                                         *)
LEMMA AllDone ==
  ASSUME Typed, \A w \in 1..Workers : ~AtWork(w)
  PROVE  Done = Items /\ Halfway = {} /\ Claimed = Items
<1>1. \A w \in 1..Workers : Mine(w) \subseteq Nodes /\ row[w] \in Nat /\ row[w] >= Past(w)
                            /\ Past(w) \in Nat /\ First(w) \in Nat
  BY ChunksAre DEF Typed, Walking, AtWork
<1>2. ASSUME NEW x \in Items PROVE x \in Done
  <2>1. x[1] \in Nodes
    BY ItemsAre
  <2>2. PICK w \in 1..Workers : x[1] \in Mine(w)
    BY <2>1, ChunksCover
  <2>3. x[1] < row[w]
    <3>1. x[1] \in Nat /\ x[1] <= Past(w) - 1
      BY <1>1, <2>2 DEF Mine
    <3>2. QED
      BY <1>1, <3>1
  <2>4. x \in Before(w)
    BY <2>2, <2>3 DEF Before
  <2>5. QED
    BY <2>4 DEF Done
<1>3. Done = Items
  BY <1>2 DEF Done, Before
<1>4. Halfway = {}
  BY DEF Halfway, Typed, Walking
<1>5. QED
  BY <1>3, <1>4 DEF Claimed

LEMMA NoneDone ==
  ASSUME row = Firsts, k = Zero(1..Workers)
  PROVE  Done = {} /\ \A w \in 1..Workers : row[w] = First(w) /\ k[w] = 0
<1>1. \A w \in 1..Workers : row[w] = First(w) /\ k[w] = 0 /\ First(w) \in Nat /\ Past(w) \in Nat
  BY ChunksAre DEF Firsts, Zero
<1>2. ASSUME NEW w \in 1..Workers PROVE Before(w) = {}
  <2>1. \A x \in Items : x[2] \in Nat
    BY ItemsAre
  <2>2. \A n \in Mine(w) : n \in Int /\ First(w) <= n
    BY <1>1 DEF Mine
  <2>3. ASSUME NEW x \in Items, x[1] \in Mine(w) PROVE ~(x[1] < row[w]) /\ ~(x[2] < k[w])
    BY <1>1, <2>1, <2>2, <2>3
  <2>4. QED
    BY <2>3 DEF Before
<1>3. QED
  BY <1>1, <1>2 DEF Done

(* A piece is behind only once, and no two workers are at the same.         *)
LEMMA NotYet ==
  ASSUME Typed, NEW w \in 1..Workers, AtWork(w)
  PROVE  /\ Here(w) \notin Done
         /\ \A v \in Halfway : v # w => Here(v) # Here(w)
<1>1. /\ row[w] \in Nat /\ k[w] \in Nat /\ row[w] \in Mine(w)
      /\ Here(w)[1] = row[w] /\ Here(w)[2] = k[w]
  BY AtWorkIs DEF Typed, Walking
<1>2. \A v \in 1..Workers : v # w => row[w] \notin Mine(v)
  BY <1>1, ChunksApart
<1>3. \A v \in 1..Workers : Here(w) \notin Before(v)
  BY <1>1, <1>2 DEF Before
<1>4. ASSUME NEW v \in Halfway, v # w PROVE Here(v) # Here(w)
  <2>1. v \in 1..Workers /\ AtWork(v)
    BY DEF Halfway, Typed, Walking
  <2>2. row[v] \in Mine(v) /\ Here(v)[1] = row[v]
    BY <2>1, AtWorkIs
  <2>3. QED
    BY <1>1, <1>2, <1>4, <2>1, <2>2
<1>5. QED
  BY <1>3, <1>4 DEF Done

(* The walk goes on, and nobody it leaves is half way. *)
LEMMA WalksOn ==
  ASSUME Typed, NEW w \in 1..Workers, AtWork(w), NextTie(w),
         phase \in {"count", "place"}, phase' = phase,
         half' \in [1..Workers -> Nat \cup {Unset}],
         \A v \in 1..Workers : half'[v] # Unset => half[v] # Unset /\ v # w
  PROVE  /\ row' \in [1..Workers -> Nat] /\ k' \in [1..Workers -> Nat]
         /\ Walking'
<1>1. /\ \A v \in 1..Workers : v # w => row'[v] = row[v] /\ k'[v] = k[v]
      /\ IF k[w] < Len(Proposals[row[w]])
         THEN row'[w] = row[w] /\ k'[w] = k[w] + 1
         ELSE row'[w] = row[w] + 1 /\ k'[w] = 0 /\ k[w] = Len(Proposals[row[w]])
  BY OneMore
<1>2. /\ row \in [1..Workers -> Nat] /\ k \in [1..Workers -> Nat]
      /\ row[w] \in Nodes /\ row[w] \in Nat /\ k[w] \in Nat /\ row[w] >= First(w)
      /\ First(w) \in Nat /\ Past(w) \in Nat /\ Past(w) <= N /\ N \in Nat
  BY AtWorkIs, ChunksAre, GraphAssumption DEF Typed, BuildTypeOK, Walking
<1>3. Len(Proposals[row[w]]) \in Nat
  BY <1>2, ProposalsAre
<1>4. row' \in [1..Workers -> Nat] /\ k' \in [1..Workers -> Nat]
  BY <1>1, <1>2, <1>3 DEF NextTie
<1>5. ASSUME NEW v \in 1..Workers
      PROVE  /\ row'[v] >= First(v) /\ row'[v] \in Nat /\ k'[v] \in Nat
             /\ IF AtWork(v)' THEN k'[v] <= Len(Proposals[row'[v]]) ELSE k'[v] = 0
             /\ half'[v] # Unset => phase = "place" /\ AtWork(v)' /\ k'[v] > 0
  <2>1. CASE v # w
    BY <1>1, <2>1 DEF Typed, Walking, AtWork
  <2>2. CASE v = w /\ k[w] < Len(Proposals[row[w]])
    BY <1>1, <1>2, <1>3, <2>2 DEF AtWork
  <2>3. CASE v = w /\ ~(k[w] < Len(Proposals[row[w]]))
    <3>1. row'[w] = row[w] + 1 /\ k'[w] = 0
      BY <1>1, <2>3
    <3>2. row'[w] < Past(w) => row'[w] \in Nodes
      BY <1>2, <3>1 DEF Nodes
    <3>3. row'[w] < Past(w) => 0 <= Len(Proposals[row'[w]])
      BY <3>2, ProposalsAre
    <3>4. row'[w] >= First(w) /\ row'[w] \in Nat
      BY <1>2, <3>1
    <3>5. QED
      BY <2>3, <3>1, <3>3, <3>4 DEF AtWork
  <2>4. QED
    BY <2>1, <2>2, <2>3
<1>6. Walking'
  BY <1>5 DEF Walking
<1>7. QED
  BY <1>4, <1>6

-----------------------------------------------------------------------------
(* The slots *)

(* Rows follow each other. *)
LEMMA RowsAre ==
  ASSUME Typed, Fitting, phase \in {"place", "dedup"}
  PROVE  /\ off[N] \in Nat
         /\ \A i \in Nodes : /\ i \in Nat /\ i + 1 \in 0..N
                             /\ off[i] \in Nat /\ off[i + 1] \in Nat
                             /\ Slots(i) \subseteq DOMAIN adj
         /\ \A i, j \in Nodes : i # j => Slots(i) \cap Slots(j) = {}
<1>1. /\ N \in Nat /\ off \in [0..N -> Nat] /\ DOMAIN adj = 1..off[N]
      /\ \A i \in Nodes : off[i + 1] = off[i] + Total(i, Items)
  BY GraphAssumption DEF Typed, BuildTypeOK, Fitting
<1>2. /\ off[N] \in Nat
      /\ \A i \in Nodes : /\ i \in Nat /\ i + 1 \in 0..N /\ i \in 0..N
                          /\ off[i] \in Nat /\ off[i + 1] \in Nat
                          /\ off[i] <= off[i + 1]
  <2>1. \A i \in Nodes : i \in Nat /\ i + 1 \in 0..N /\ i \in 0..N
    BY <1>1 DEF Nodes
  <2>2. \A i \in Nodes : Total(i, Items) \in Nat
    BY TotalIs
  <2>3. off[N] \in Nat
    BY <1>1
  <2>4. ASSUME NEW i \in Nodes PROVE off[i] \in Nat /\ off[i + 1] \in Nat /\ off[i] <= off[i + 1]
    <3>1. off[i] \in Nat /\ off[i + 1] \in Nat
      BY <1>1, <2>1
    <3>2. QED
      BY <1>1, <2>2, <3>1
  <2>5. QED
    BY <2>1, <2>3, <2>4
<1>3. \A j \in 0..N : \A i \in 0..j : off[i] <= off[j]
  <2> DEFINE S == {n \in Nat : n <= N => \A i \in 0..n : off[i] <= off[n]}
  <2>1. 0 \in S
    BY <1>1
  <2>2. ASSUME NEW n \in Nat, n \in S PROVE n + 1 \in S
    <3> SUFFICES ASSUME n + 1 <= N, NEW i \in 0..(n + 1) PROVE off[i] <= off[n + 1]
      OBVIOUS
    <3>1. n \in Nodes /\ n + 1 \in 0..N /\ i \in 0..N
      BY <1>1 DEF Nodes
    <3>2. off[i] \in Nat /\ off[n + 1] \in Nat /\ off[n] \in Nat /\ off[n] <= off[n + 1]
      BY <1>1, <1>2, <3>1
    <3>3. i \in 0..n => off[i] <= off[n]
      BY <1>1, <2>2
    <3>4. i \in 0..n \/ i = n + 1
      OBVIOUS
    <3>5. QED
      BY <3>2, <3>3, <3>4
  <2> HIDE DEF S
  <2>3. Nat \subseteq S
    BY <2>1, <2>2, Induction
  <2>4. QED
    BY <1>1, <2>3 DEF S
<1>4. \A i \in Nodes : off[i + 1] <= off[N]
  <2> TAKE i \in Nodes
  <2>1. N \in 0..N /\ i + 1 \in 0..N
    BY <1>1, <1>2
  <2>2. QED
    BY <1>3, <2>1
<1>5. \A i \in Nodes : Slots(i) \subseteq DOMAIN adj
  BY <1>1, <1>2, <1>4 DEF Slots
<1>6. ASSUME NEW i \in Nodes, NEW j \in Nodes, i < j PROVE off[i + 1] <= off[j]
  <2>1. i + 1 \in 0..j /\ j \in 0..N
    BY <1>2, <1>6
  <2>2. QED
    BY <1>3, <2>1
<1>7. ASSUME NEW i \in Nodes, NEW j \in Nodes, i # j PROVE Slots(i) \cap Slots(j) = {}
  <2>1. /\ off[i] \in Nat /\ off[i + 1] \in Nat /\ off[j] \in Nat /\ off[j + 1] \in Nat
        /\ i \in Nat /\ j \in Nat
    BY <1>2
  <2>2. off[i + 1] <= off[j] \/ off[j + 1] <= off[i]
    BY <1>6, <1>7, <2>1
  <2>3. QED
    BY <2>1, <2>2 DEF Slots
<1>8. QED
  BY <1>2, <1>5, <1>7

(* What is claimed of a row fits into it. *)
LEMMA TakenIs ==
  ASSUME Typed, Fitting, Placing, phase = "place"
  PROVE  /\ Done \subseteq Items /\ Claimed \subseteq Items
         /\ \A i \in Nodes : /\ cur[i] \in Nat /\ off[i] <= cur[i] /\ cur[i] <= off[i + 1]
                             /\ Taken(i) \subseteq Slots(i)
         /\ \A s \in Open : \E i \in Nodes : s \in Taken(i)
         /\ \A w \in Halfway : w \in 1..Workers /\ AtWork(w) /\ k[w] > 0
<1>1. \A w \in Halfway : w \in 1..Workers /\ AtWork(w) /\ k[w] > 0
  BY DEF Halfway, Typed, Walking
<1>2. Done \subseteq Items /\ Claimed \subseteq Items
  BY <1>1, AtWorkIs DEF Done, Before, Claimed
<1>3. ASSUME NEW i \in Nodes
      PROVE  /\ cur[i] \in Nat /\ off[i] <= cur[i] /\ cur[i] <= off[i + 1]
             /\ Taken(i) \subseteq Slots(i)
  <2>1. off[i] \in Nat /\ off[i + 1] \in Nat
    BY RowsAre
  <2>2. /\ Total(i, Claimed) \in Nat /\ Total(i, Items) \in Nat
        /\ Total(i, Claimed) <= Total(i, Items)
    BY <1>2, TotalIs
  <2>3. cur[i] = off[i] + Total(i, Claimed) /\ off[i + 1] = off[i] + Total(i, Items)
    BY DEF Placing, Sized, Fitting
  <2>4. cur[i] \in Nat /\ off[i] <= cur[i] /\ cur[i] <= off[i + 1]
    BY <2>1, <2>2, <2>3
  <2>5. QED
    BY <2>1, <2>4 DEF Taken, Slots
<1>4. ASSUME NEW s \in Open PROVE \E i \in Nodes : s \in Taken(i)
  <2>1. PICK w \in 1..Workers : s \in Owed(w)
    BY DEF Open
  <2>2. CASE s \in Bulk(w)
    <3>1. AtWork(w)
      BY <2>2 DEF Bulk
    <3>2. row[w] \in Nodes
      BY <3>1, AtWorkIs
    <3>3. QED
      BY <2>2, <3>1, <3>2 DEF Placing, Owing
  <2>3. CASE half[w] # Unset /\ s = half[w]
    <3>1. w \in Halfway
      BY <2>3 DEF Halfway
    <3>2. Target(w) \in Nodes
      BY <1>1, <3>1, AtWorkIs
    <3>3. QED
      BY <2>3, <3>1, <3>2 DEF Placing, Owing
  <2>4. QED
    BY <2>1, <2>2, <2>3 DEF Owed
<1>5. QED
  BY <1>1, <1>2, <1>3, <1>4

(* The slots a piece takes are in the row still, and nobody's.              *)
LEMMA SlotsFree ==
  ASSUME Typed, Fitting, Placing, phase = "place",
         NEW w \in 1..Workers, AtWork(w), half[w] = Unset
  PROVE  /\ Here(w) \notin Claimed
         /\ \A i \in Nodes : \A s \in (cur[i] + 1)..(cur[i] + Weight(i)[Here(w)]) :
              /\ s \in Slots(i) /\ s \notin Open
              /\ \A j \in Nodes : s \notin Taken(j)
<1> DEFINE x == Here(w)
<1>1. x \in Items \ Claimed
  <2>1. x \in Items /\ x \notin Done /\ \A v \in Halfway : v # w => Here(v) # x
    BY AtWorkIs, NotYet
  <2>2. w \notin Halfway
    BY DEF Halfway
  <2>3. QED
    BY <2>1, <2>2 DEF Claimed
<1>2. ASSUME NEW i \in Nodes, NEW s \in (cur[i] + 1)..(cur[i] + Weight(i)[x])
      PROVE  /\ s \in Slots(i) /\ s \notin Open
             /\ \A j \in Nodes : s \notin Taken(j)
  <2> HIDE DEF x
  <2>1. /\ off[i] \in Nat /\ off[i + 1] \in Nat /\ cur[i] \in Nat /\ off[i] <= cur[i]
        /\ Claimed \subseteq Items
    BY RowsAre, TakenIs
  <2>2. Weight(i)[x] \in Nat
    BY <1>1, WeightIs
  <2>3. Total(i, Claimed \cup {x}) = Weight(i)[x] + Total(i, Claimed)
    BY <1>1, <2>1, TotalIs
  <2>4. Claimed \cup {x} \in SUBSET Items
    BY <1>1, <2>1
  <2>5. /\ Total(i, Claimed \cup {x}) <= Total(i, Items) /\ Total(i, Claimed) \in Nat
        /\ Total(i, Items) \in Nat /\ Total(i, Claimed \cup {x}) \in Nat
    BY <2>1, <2>4, TotalIs
  <2>6. cur[i] = off[i] + Total(i, Claimed) /\ off[i + 1] = off[i] + Total(i, Items)
    BY DEF Placing, Sized, Fitting
  <2>7. cur[i] + Weight(i)[x] <= off[i + 1]
    BY <2>1, <2>2, <2>3, <2>5, <2>6
  <2>8. s \in Slots(i)
    BY <2>1, <2>2, <2>7 DEF Slots
  <2>9. ASSUME NEW j \in Nodes PROVE s \notin Taken(j)
    <3>1. CASE j = i
      BY <2>1, <2>2, <3>1 DEF Taken
    <3>2. CASE j # i
      <4>1. Taken(j) \subseteq Slots(j) /\ Slots(i) \cap Slots(j) = {}
        BY <3>2, RowsAre, TakenIs
      <4>2. QED
        BY <2>8, <4>1
    <3>3. QED
      BY <3>1, <3>2
  <2>10. s \notin Open
    BY <2>9, TakenIs
  <2>11. QED
    BY <2>8, <2>9, <2>10
<1>3. QED
  BY <1>1, <1>2

-----------------------------------------------------------------------------
(* The placing *)

(* What is filled stays so while what was written is only added to.         *)
LEMMA StaysFilled ==
  ASSUME Filled, Done \subseteq Items, Claimed \subseteq Items,
         \A i \in Nodes :
           /\ Written(i) \subseteq Written(i)'
           /\ \A s \in Written(i) : adj'[s] = adj[s]
           /\ \A s \in Written(i)' \ Written(i) : adj'[s] \in Nodes /\ Tied(i, adj'[s]),
         \A x \in Claimed' \ Claimed : x[2] > 0 =>
           \E s \in Written(x[1])' : adj'[s] = Proposals[x[1]][x[2]],
         \A x \in Done' \ Done : x[2] > 0 =>
           \E s \in Written(Proposals[x[1]][x[2]])' : adj'[s] = x[1]
  PROVE  Filled'
<1>1. ASSUME NEW i \in Nodes, NEW s \in Written(i)'
      PROVE  adj'[s] \in Nodes /\ Tied(i, adj'[s])
  BY DEF Filled
<1>2. ASSUME NEW x \in Items, x[2] > 0
      PROVE  x[1] \in Nodes /\ Proposals[x[1]][x[2]] \in Nodes
  <2>1. x[1] \in Nodes /\ x[2] \in 0..Len(Proposals[x[1]])
    BY ItemsAre
  <2>2. QED
    BY <1>2, <2>1, ProposalsAre
<1>3. ASSUME NEW x \in Claimed', x[2] > 0
      PROVE  \E s \in Written(x[1])' : adj'[s] = Proposals[x[1]][x[2]]
  <2>1. CASE x \in Claimed
    <3>1. PICK s \in Written(x[1]) : adj[s] = Proposals[x[1]][x[2]]
      BY <1>3, <2>1 DEF Filled
    <3>2. x[1] \in Nodes
      BY <1>2, <1>3, <2>1
    <3>3. s \in Written(x[1])' /\ adj'[s] = adj[s]
      BY <3>1, <3>2
    <3>4. QED
      BY <3>1, <3>3
  <2>2. QED
    BY <1>3, <2>1
<1>4. ASSUME NEW x \in Done', x[2] > 0
      PROVE  \E s \in Written(Proposals[x[1]][x[2]])' : adj'[s] = x[1]
  <2>1. CASE x \in Done
    <3>1. PICK s \in Written(Proposals[x[1]][x[2]]) : adj[s] = x[1]
      BY <1>4, <2>1 DEF Filled
    <3>2. Proposals[x[1]][x[2]] \in Nodes
      BY <1>2, <1>4, <2>1
    <3>3. s \in Written(Proposals[x[1]][x[2]])' /\ adj'[s] = adj[s]
      BY <3>1, <3>2
    <3>4. QED
      BY <3>1, <3>3
  <2>2. QED
    BY <1>4, <2>1
<1>5. QED
  BY <1>1, <1>3, <1>4 DEF Filled

LEMMA Adjoining ==
  ASSUME NEW a \in Int, NEW b \in Int, NEW c \in Int, a <= b + 1, b <= c
  PROVE  a..c = a..b \cup (b + 1)..c
  OBVIOUS

LEMMA WithoutFirst ==
  ASSUME NEW a \in Int, NEW b \in Int, a <= b
  PROVE  a \in a..b /\ (a + 1)..b = a..b \ {a}
  OBVIOUS

LEMMA WithNext ==
  ASSUME NEW a \in Int, NEW b \in Int, a <= b + 1
  PROVE  a..(b + 1) = a..b \cup {b + 1}
  OBVIOUS

(* What a worker does is no concern of the others'. *)
LEMMA OthersKeep ==
  ASSUME Typed, NEW w \in 1..Workers,
         \A v \in 1..Workers : v # w =>
           row'[v] = row[v] /\ k'[v] = k[v] /\ half'[v] = half[v] /\ base'[v] = base[v]
  PROVE  \A v \in 1..Workers : v # w =>
           /\ AtWork(v)' <=> AtWork(v)
           /\ Bulk(v)' = Bulk(v) /\ Owed(v)' = Owed(v)
           /\ Target(v)' = Target(v) /\ Here(v)' = Here(v)
           /\ v \in Halfway' <=> v \in Halfway
  BY DEF AtWork, Bulk, Owed, Target, Here, Halfway

LEMMA StaysOwing ==
  ASSUME Typed, Fitting, Placing, phase = "place", NEW w \in 1..Workers,
         \A v \in 1..Workers : v # w =>
           row'[v] = row[v] /\ k'[v] = k[v] /\ half'[v] = half[v] /\ base'[v] = base[v],
         \A i \in Nodes : Taken(i) \subseteq Taken(i)',
         AtWork(w)' => Bulk(w)' \subseteq Taken(row[w])',
         w \in Halfway' => half'[w] \in Taken(Target(w))' \ Bulk(w)',
         \A v \in 1..Workers : v # w => Owed(w)' \cap Owed(v) = {}
  PROVE  Owing'
<1>1. \A v \in 1..Workers : v # w =>
        /\ AtWork(v)' <=> AtWork(v)
        /\ Bulk(v)' = Bulk(v) /\ Owed(v)' = Owed(v)
        /\ Target(v)' = Target(v) /\ Here(v)' = Here(v)
        /\ v \in Halfway' <=> v \in Halfway
  BY OthersKeep
<1>2. ASSUME NEW v \in 1..Workers, AtWork(v)' PROVE Bulk(v)' \subseteq Taken(row[v])'
  <2>1. CASE v # w
    <3>1. row'[v] = row[v] /\ AtWork(v) /\ Bulk(v)' = Bulk(v)
      BY <1>1, <1>2, <2>1
    <3>2. row[v] \in Nodes /\ Bulk(v) \subseteq Taken(row[v])
      BY <3>1, AtWorkIs DEF Placing, Owing
    <3>3. PICK i \in Nodes : i = row[v]
      BY <3>2
    <3>4. Taken(row[v])' = Taken(i)' /\ Taken(i) \subseteq Taken(i)'
      BY <3>1, <3>3 DEF Taken
    <3>5. QED
      BY <3>1, <3>2, <3>3, <3>4
  <2>2. QED
    BY <1>2, <2>1
<1>3. ASSUME NEW v \in Halfway' PROVE half'[v] \in Taken(Target(v))' \ Bulk(v)'
  <2>1. CASE v # w
    <3>1. v \in Halfway /\ v \in 1..Workers /\ half'[v] = half[v]
          /\ Bulk(v)' = Bulk(v) /\ Target(v)' = Target(v) /\ Target(v) \in Nodes
      <4>1. v \in 1..Workers
        BY <1>3 DEF Halfway
      <4>2. v \in Halfway
        BY <1>1, <1>3, <2>1, <4>1
      <4>3. AtWork(v) /\ k[v] > 0
        BY <4>2, TakenIs
      <4>4. QED
        BY <1>1, <2>1, <4>1, <4>2, <4>3, AtWorkIs
    <3>2. half[v] \in Taken(Target(v)) \ Bulk(v)
      BY <3>1 DEF Placing, Owing
    <3>3. PICK i \in Nodes : i = Target(v)
      BY <3>1
    <3>4. Taken(Target(v))' = Taken(i)' /\ Taken(i) \subseteq Taken(i)'
      BY <3>1, <3>3 DEF Taken
    <3>5. QED
      BY <3>1, <3>2, <3>3, <3>4
  <2>2. QED
    BY <1>3, <2>1
<1>4. ASSUME NEW v \in 1..Workers, NEW u \in 1..Workers, v # u
      PROVE  Owed(v)' \cap Owed(u)' = {}
  <2>1. Owed(v) \cap Owed(u) = {}
    BY <1>4 DEF Placing, Owing
  <2>2. QED
    BY <1>1, <1>4, <2>1
<1>5. QED
  BY <1>2, <1>3, <1>4 DEF Owing

(* A row is claimed at once: all of the claim is owed. *)
LEMMA ClaimRowPlaces ==
  ASSUME Typed, Fitting, Placing, NEW w \in 1..Workers, ClaimRow(w)
  PROVE  Typed' /\ Placing'
<1> PICK i0 \in Nodes : i0 = row[w]
  BY AtWorkIs DEF ClaimRow
<1> DEFINE L == Len(Proposals[i0])
           x == Here(w)
           fresh == (cur[i0] + 1)..(cur[i0] + L)
<1>1. /\ phase = "place" /\ AtWork(w) /\ k[w] = 0 /\ NextTie(w)
      /\ base' = [base EXCEPT ![w] = cur[i0]]
      /\ cur' = [cur EXCEPT ![i0] = cur[i0] + L]
      /\ UNCHANGED <<phase, half, cap, off, adj, nbrs>>
  BY DEF ClaimRow, BulkClaim
<1>2. /\ i0 \in Nodes /\ x \in Items /\ x[1] = i0 /\ x[2] = 0 /\ L \in Nat
  BY <1>1, AtWorkIs, ProposalsAre
<1>3. half[w] = Unset /\ Bulk(w) = {} /\ Owed(w) = {}
  BY <1>1 DEF Typed, Walking, Bulk, Owed
<1>4. /\ Done' = Done \cup {x} /\ x \notin Done
      /\ \A v \in 1..Workers : v # w => row'[v] = row[v] /\ k'[v] = k[v]
      /\ IF k[w] < L THEN row'[w] = row[w] /\ k'[w] = k[w] + 1
                     ELSE row'[w] = row[w] + 1 /\ k'[w] = 0 /\ k[w] = L
  BY <1>1, OneMore
<1>5. /\ row' \in [1..Workers -> Nat] /\ k' \in [1..Workers -> Nat] /\ Walking'
  <2>1. half' \in [1..Workers -> Nat \cup {Unset}]
    BY <1>1 DEF Typed, BuildTypeOK
  <2>2. \A v \in 1..Workers : half'[v] # Unset => half[v] # Unset /\ v # w
    BY <1>1, <1>3
  <2>3. QED
    BY <1>1, <2>1, <2>2, WalksOn
<1>6. /\ cur \in [Nodes -> Nat] /\ base \in [1..Workers -> Nat] /\ cur[i0] \in Nat
      /\ cur' \in [Nodes -> Nat] /\ base' \in [1..Workers -> Nat]
  BY <1>1, <1>2 DEF Typed, BuildTypeOK
<1>7. Typed'
  BY <1>1, <1>5, <1>6 DEF Typed, BuildTypeOK
<1>8. \A v \in 1..Workers : v # w =>
        /\ AtWork(v)' <=> AtWork(v)
        /\ Bulk(v)' = Bulk(v) /\ Owed(v)' = Owed(v)
        /\ Target(v)' = Target(v) /\ Here(v)' = Here(v)
        /\ v \in Halfway' <=> v \in Halfway
  <2>1. \A v \in 1..Workers : v # w => half'[v] = half[v] /\ base'[v] = base[v]
    BY <1>1, <1>6
  <2>2. QED
    BY <1>4, <2>1, OthersKeep
<1>9. /\ Halfway' = Halfway /\ w \notin Halfway /\ Halfway \subseteq 1..Workers
      /\ Claimed' = Claimed \cup {x}
  <2>1. Halfway' = Halfway /\ w \notin Halfway /\ Halfway \subseteq 1..Workers
    BY <1>1, <1>3 DEF Halfway
  <2>2. \A v \in Halfway : Here(v)' = Here(v)
    BY <1>8, <2>1
  <2>3. Claimed' = Done' \cup {Here(v)' : v \in Halfway'}
    BY DEF Claimed
  <2> HIDE DEF x
  <2>4. QED
    BY <1>4, <2>1, <2>2, <2>3 DEF Claimed
<1>10. /\ Claimed \subseteq Items /\ Done \subseteq Items /\ x \notin Claimed
       /\ \A i \in Nodes : off[i] \in Nat /\ off[i + 1] \in Nat
       /\ \A s \in fresh : s \notin Open /\ \A j \in Nodes : s \notin Taken(j)
  <2>1. Weight(i0)[x] = L
    BY <1>2, WeightIs
  <2>2. QED
    BY <1>1, <1>2, <1>3, <2>1, SlotsFree, TakenIs, RowsAre
<1>11. Sized'
  <2> SUFFICES ASSUME NEW i \in Nodes PROVE cur'[i] = off[i] + Total(i, Claimed)'
    BY <1>1 DEF Sized
  <2>1. Total(i, Claimed)' = Total(i, Claimed \cup {x})
    BY <1>9 DEF Total
  <2>2. Total(i, Claimed \cup {x}) = Weight(i)[x] + Total(i, Claimed) /\ Total(i, Claimed) \in Nat
    BY <1>2, <1>10, TotalIs
  <2>3. Weight(i)[x] = IF i = i0 THEN L ELSE 0
    BY <1>2, WeightIs
  <2>4. cur'[i] = cur[i] + (IF i = i0 THEN L ELSE 0)
    BY <1>1, <1>2, <1>6
  <2>5. cur[i] = off[i] + Total(i, Claimed)
    BY <1>1 DEF Placing, Sized
  <2> HIDE DEF x, L
  <2>6. off[i] \in Nat
    BY <1>10
  <2>7. QED
    BY <1>2, <2>1, <2>2, <2>3, <2>4, <2>5, <2>6
<1>12. Bulk(w)' = fresh /\ Owed(w)' = fresh
  <2>1. half'[w] = Unset /\ base'[w] = cur[i0]
    BY <1>1, <1>3, <1>6
  <2>2. CASE 0 < L
    <3>1. row'[w] = i0 /\ k'[w] = 1
      BY <1>1, <1>4, <2>2
    <3>2. AtWork(w)'
      BY <1>1, <3>1 DEF AtWork
    <3>3. Bulk(w)' = (cur[i0] + 1 + 0)..(cur[i0] + L)
      BY <2>1, <3>1, <3>2 DEF Bulk
    <3>4. Bulk(w)' = fresh
      BY <1>2, <1>6, <3>3
    <3>5. QED
      BY <2>1, <3>4 DEF Owed
  <2>3. CASE ~(0 < L)
    <3>1. k'[w] = 0 /\ L = 0
      BY <1>1, <1>2, <1>4, <2>3
    <3>2. fresh = {}
      BY <1>6, <3>1
    <3>3. QED
      BY <2>1, <3>1, <3>2 DEF Bulk, Owed
  <2>4. QED
    BY <2>2, <2>3
<1>13. /\ Taken(i0)' = Taken(i0) \cup fresh
       /\ \A i \in Nodes : i # i0 => Taken(i)' = Taken(i)
  <2>1. cur'[i0] = cur[i0] + L /\ \A i \in Nodes : i # i0 => cur'[i] = cur[i]
    BY <1>1, <1>2, <1>6
  <2>2. off[i0] <= cur[i0] /\ off[i0] \in Nat
    BY <1>1, <1>2, TakenIs, RowsAre
  <2>3. \A i \in Nodes : Taken(i)' = (off[i] + 1)..cur'[i]
    BY <1>1 DEF Taken
  <2> HIDE DEF L
  <2>4. Taken(i0)' = Taken(i0) \cup fresh
    <3>1. /\ off[i0] + 1 \in Int /\ cur[i0] \in Int /\ cur[i0] + L \in Int
          /\ off[i0] + 1 <= cur[i0] + 1 /\ cur[i0] <= cur[i0] + L
      BY <1>2, <1>6, <2>2
    <3>2. (off[i0] + 1)..(cur[i0] + L) = (off[i0] + 1)..cur[i0] \cup fresh
      BY <3>1, Adjoining
    <3>3. QED
      BY <2>1, <2>3, <3>2 DEF Taken
  <2>5. QED
    BY <2>1, <2>3, <2>4 DEF Taken
<1>14. Open' = Open \cup fresh
  <2>1. Open' = UNION {Owed(v)' : v \in 1..Workers}
    BY DEF Open
  <2> HIDE DEF fresh
  <2>2. QED
    BY <1>3, <1>8, <1>12, <2>1 DEF Open
<1>15. Owing'
  <2>1. \A v \in 1..Workers : v # w => row'[v] = row[v] /\ half'[v] = half[v] /\ base'[v] = base[v]
    BY <1>1, <1>4, <1>6
  <2>2. \A i \in Nodes : Taken(i) \subseteq Taken(i)'
    BY <1>13
  <2>3. Bulk(w)' \subseteq Taken(row[w])'
    <3>1. CASE fresh = {}
      BY <1>12, <3>1
    <3>2. CASE row'[w] = i0
      BY <1>12, <1>13, <3>2 DEF Taken
    <3>3. row'[w] = i0 \/ fresh = {}
      BY <1>1, <1>2, <1>4, <1>6
    <3>4. QED
      BY <3>1, <3>2, <3>3
  <2>4. w \notin Halfway'
    BY <1>9
  <2>5. \A v \in 1..Workers : v # w => Owed(w)' \cap Owed(v) = {}
    BY <1>10, <1>12 DEF Open
  <2>6. QED
    BY <1>1, <1>4, <2>1, <2>2, <2>3, <2>4, <2>5, StaysOwing
<1>16. \A i \in Nodes : Written(i)' = Written(i)
  <2> TAKE i \in Nodes
  <2>1. Written(i)' = Taken(i)' \ Open'
    BY DEF Written
  <2> HIDE DEF fresh
  <2>2. /\ i = i0 => Taken(i)' = Taken(i) \cup fresh
        /\ i # i0 => Taken(i)' = Taken(i)
    BY <1>13
  <2>3. fresh \cap Taken(i) = {}
    BY <1>10
  <2>4. QED
    BY <1>14, <2>1, <2>2, <2>3 DEF Written
<1>17. Filled'
  <2>1. Filled
    BY <1>1 DEF Placing
  <2>2. \A y \in Claimed' \ Claimed : ~(y[2] > 0)
    BY <1>2, <1>9
  <2>3. \A y \in Done' \ Done : ~(y[2] > 0)
    BY <1>2, <1>4
  <2>4. adj' = adj
    BY <1>1
  <2>5. QED
    BY <1>10, <1>16, <2>1, <2>2, <2>3, <2>4, StaysFilled
<1>18. QED
  BY <1>7, <1>11, <1>15, <1>17 DEF Placing

(* A slot of the bulk is filled, and one in the target's row is owed.       *)
LEMMA PlaceForwardPlaces ==
  ASSUME Typed, Fitting, Placing, NEW w \in 1..Workers, PlaceForward(w)
  PROVE  Typed' /\ Placing'
<1> PICK i0 \in Nodes : i0 = row[w]
  BY AtWorkIs DEF PlaceForward
<1> PICK t \in Nodes : t = Target(w)
  BY AtWorkIs DEF PlaceForward
<1> DEFINE L == Len(Proposals[i0])
           x == Here(w)
           s0 == base[w] + k[w]
           n == cur[t] + 1
<1>1. /\ phase = "place" /\ AtWork(w) /\ k[w] > 0 /\ half[w] = Unset
      /\ adj' = [adj EXCEPT ![s0] = t]
      /\ half' = [half EXCEPT ![w] = n]
      /\ cur' = [cur EXCEPT ![t] = n]
      /\ UNCHANGED <<phase, row, k, base, cap, off, nbrs>>
  BY DEF PlaceForward
<1>2. /\ x \in Items /\ x[1] = i0 /\ x[2] = k[w] /\ L \in Nat
      /\ k[w] \in 1..L /\ t # i0 /\ t = Proposals[i0][k[w]]
  BY <1>1, AtWorkIs, ProposalsAre DEF Target
<1>3. /\ cur \in [Nodes -> Nat] /\ cur[t] \in Nat /\ cur' \in [Nodes -> Nat]
      /\ half \in [1..Workers -> Nat \cup {Unset}]
      /\ half' \in [1..Workers -> Nat \cup {Unset}]
      /\ base[w] \in Nat /\ n \in Nat /\ n # Unset
  <2>1. /\ cur \in [Nodes -> Nat] /\ base \in [1..Workers -> Nat]
        /\ half \in [1..Workers -> Nat \cup {Unset}]
    BY DEF Typed, BuildTypeOK
  <2>2. cur[t] \in Nat /\ n \in Nat /\ base[w] \in Nat
    BY <2>1
  <2>3. n # Unset
    BY <2>2, GraphAssumption
  <2> HIDE DEF n
  <2>4. QED
    BY <1>1, <2>1, <2>2, <2>3
<1>4. Typed'
  <2>1. half'[w] = n /\ \A v \in 1..Workers : v # w => half'[v] = half[v]
    BY <1>1, <1>3
  <2>2. Walking'
    BY <1>1, <2>1 DEF Typed, Walking, AtWork
  <2>3. BuildTypeOK'
    BY <1>1, <1>3 DEF Typed, BuildTypeOK
  <2>4. QED
    BY <2>2, <2>3 DEF Typed
<1>5. \A v \in 1..Workers : v # w =>
        row'[v] = row[v] /\ k'[v] = k[v] /\ half'[v] = half[v] /\ base'[v] = base[v]
  BY <1>1, <1>3
<1>6. \A v \in 1..Workers : v # w =>
        /\ AtWork(v)' <=> AtWork(v)
        /\ Bulk(v)' = Bulk(v) /\ Owed(v)' = Owed(v)
        /\ Target(v)' = Target(v) /\ Here(v)' = Here(v)
        /\ v \in Halfway' <=> v \in Halfway
  BY <1>5, OthersKeep
<1>7. Done' = Done /\ Claimed' = Claimed \cup {x}
  <2>1. Done' = Done
    BY <1>1 DEF Done, Before
  <2>2. \A v \in 1..Workers : Here(v)' = Here(v)
    BY <1>1 DEF Here
  <2>3. half'[w] # Unset /\ half[w] = Unset
    BY <1>1, <1>3
  <2>4. Halfway' = Halfway \cup {w} /\ Halfway \subseteq 1..Workers
    BY <1>6, <2>3 DEF Halfway
  <2>5. Claimed' = Done' \cup {Here(v)' : v \in Halfway'}
    BY DEF Claimed
  <2> HIDE DEF x
  <2>6. {Here(v)' : v \in Halfway'} = {Here(v) : v \in Halfway} \cup {Here(w)}
    BY <2>2, <2>4
  <2>7. QED
    BY <2>1, <2>5, <2>6 DEF Claimed, x
<1>8. /\ Claimed \subseteq Items /\ Done \subseteq Items /\ x \notin Claimed
      /\ \A i \in Nodes : off[i] \in Nat /\ off[i + 1] \in Nat
      /\ n \notin Open /\ \A j \in Nodes : n \notin Taken(j)
  <2>1. Weight(t)[x] = 1
    BY <1>2, WeightIs
  <2>2. n \in (cur[t] + 1)..(cur[t] + Weight(t)[x])
    BY <1>3, <2>1
  <2>3. QED
    BY <1>1, <2>2, SlotsFree, TakenIs, RowsAre
<1>9. Sized'
  <2> SUFFICES ASSUME NEW i \in Nodes PROVE cur'[i] = off[i] + Total(i, Claimed)'
    BY <1>1 DEF Sized
  <2>1. Total(i, Claimed)' = Total(i, Claimed \cup {x})
    BY <1>7 DEF Total
  <2>2. Total(i, Claimed \cup {x}) = Weight(i)[x] + Total(i, Claimed) /\ Total(i, Claimed) \in Nat
    BY <1>2, <1>8, TotalIs
  <2>3. Weight(i)[x] = IF i = t THEN 1 ELSE 0
    BY <1>2, WeightIs
  <2>4. cur'[i] = cur[i] + (IF i = t THEN 1 ELSE 0)
    BY <1>1, <1>3
  <2>5. cur[i] = off[i] + Total(i, Claimed)
    BY <1>1 DEF Placing, Sized
  <2> HIDE DEF x
  <2>6. off[i] \in Nat
    BY <1>8
  <2>7. QED
    BY <2>1, <2>2, <2>3, <2>4, <2>5, <2>6
<1>10. /\ Owed(w) = Bulk(w) /\ s0 \in Bulk(w)
       /\ Bulk(w)' = Bulk(w) \ {s0} /\ Owed(w)' = Bulk(w)' \cup {n}
  <2>1. Owed(w) = Bulk(w) /\ Owed(w)' = Bulk(w)' \cup {n}
    BY <1>1, <1>3 DEF Owed
  <2>2. k[w] \in Nat /\ k[w] <= L
    BY <1>2
  <2>3. s0 \in Int /\ s0 + 0 = s0 /\ base[w] + L \in Int /\ s0 <= base[w] + L
    <3>1. base[w] \in Nat /\ L \in Nat
      BY <1>2, <1>3
    <3> HIDE DEF L
    <3>2. QED
      BY <2>2, <3>1
  <2>4. Bulk(w) = (s0 + 0)..(base[w] + L)
    BY <1>1 DEF Bulk
  <2>5. half'[w] # Unset
    BY <1>1, <1>3
  <2>6. Bulk(w)' = (s0 + 1)..(base[w] + L)
    BY <1>1, <2>5 DEF Bulk, AtWork
  <2> HIDE DEF L, s0
  <2>7. QED
    BY <2>1, <2>3, <2>4, <2>6, WithoutFirst
<1>11. Bulk(w) \subseteq Taken(i0)
  BY <1>1 DEF Placing, Owing
<1>12. /\ Taken(t)' = Taken(t) \cup {n}
       /\ \A i \in Nodes : i # t => Taken(i)' = Taken(i)
  <2>1. cur'[t] = n /\ \A i \in Nodes : i # t => cur'[i] = cur[i]
    BY <1>1, <1>3
  <2>2. off[t] <= cur[t] /\ off[t] \in Nat
    BY <1>1, TakenIs, RowsAre
  <2>3. \A i \in Nodes : Taken(i)' = (off[i] + 1)..cur'[i]
    BY <1>1 DEF Taken
  <2>4. Taken(t)' = Taken(t) \cup {n}
    <3>1. off[t] + 1 \in Int /\ cur[t] \in Int /\ off[t] + 1 <= cur[t] + 1
      BY <1>3, <2>2
    <3>2. (off[t] + 1)..n = (off[t] + 1)..cur[t] \cup {n}
      BY <3>1, WithNext
    <3>3. QED
      BY <2>1, <2>3, <3>2 DEF Taken
  <2>5. QED
    BY <2>1, <2>3, <2>4 DEF Taken
<1> HIDE DEF L, n
<1>13. /\ Open' = (Open \ {s0}) \cup {n} /\ s0 \in Open
  <2>1. Open' = UNION {Owed(v)' : v \in 1..Workers}
    BY DEF Open
  <2>2. \A v \in 1..Workers : v # w => s0 \notin Owed(v)
    BY <1>1, <1>10 DEF Placing, Owing
  <2> HIDE DEF s0
  <2>3. ASSUME NEW s PROVE s \in Open' <=> s \in (Open \ {s0}) \cup {n}
    <3>1. s \in Open' <=> \E v \in 1..Workers : s \in Owed(v)'
      BY <2>1
    <3>2. s \in Open <=> \E v \in 1..Workers : s \in Owed(v)
      BY DEF Open
    <3>3. s \in Owed(w)' <=> s = n \/ (s \in Owed(w) /\ s # s0)
      BY <1>10
    <3>4. \A v \in 1..Workers : v # w => (s \in Owed(v)' <=> s \in Owed(v) /\ s # s0)
      BY <1>6, <2>2
    <3>5. QED
      BY <3>1, <3>2, <3>3, <3>4
  <2>4. QED
    BY <1>10, <2>3 DEF Open
<1>14. Owing'
  <2>1. \A i \in Nodes : Taken(i) \subseteq Taken(i)'
    BY <1>12
  <2>2. Bulk(w)' \subseteq Taken(row[w])'
    <3>1. row'[w] = i0
      BY <1>1
    <3>2. Taken(row[w])' = Taken(i0)'
      BY <3>1 DEF Taken
    <3>3. QED
      BY <1>10, <1>11, <2>1, <3>2
  <2>3. half'[w] \in Taken(Target(w))' \ Bulk(w)'
    <3>1. Target(w)' = t /\ half'[w] = n
      BY <1>1, <1>3 DEF Target
    <3>2. Taken(Target(w))' = Taken(t)'
      BY <3>1 DEF Taken
    <3>3. n \notin Bulk(w)
      BY <1>8, <1>11
    <3>4. QED
      BY <1>10, <1>12, <3>1, <3>2, <3>3
  <2>4. \A v \in 1..Workers : v # w => Owed(w)' \cap Owed(v) = {}
    <3>1. \A v \in 1..Workers : v # w => Owed(w) \cap Owed(v) = {} /\ n \notin Owed(v)
      BY <1>1, <1>8 DEF Placing, Owing, Open
    <3>2. QED
      BY <1>10, <3>1
  <2>5. QED
    BY <1>1, <1>5, <2>1, <2>2, <2>3, <2>4, StaysOwing
<1>15. /\ Written(i0)' = Written(i0) \cup {s0}
       /\ \A i \in Nodes : i # i0 => Written(i)' = Written(i)
  <2>1. \A i \in Nodes : Written(i)' = Taken(i)' \ Open'
    BY DEF Written
  <2>2. \A i \in Nodes : i # i0 => s0 \notin Taken(i)
    <3>1. \A i \in Nodes : Taken(i) \subseteq Slots(i)
      BY <1>1, TakenIs
    <3>2. \A i \in Nodes : i # i0 => Slots(i) \cap Slots(i0) = {}
      BY <1>1, RowsAre
    <3>3. QED
      BY <1>10, <1>11, <3>1, <3>2
  <2>3. s0 \in Taken(i0)
    BY <1>10, <1>11
  <2>4. ASSUME NEW i \in Nodes
        PROVE  \A s : s \in Taken(i)' \ Open' <=> (s \in Taken(i) \ Open \/ (i = i0 /\ s = s0))
    <3>1. \A s : s \in Taken(i)' <=> s \in Taken(i) \/ (i = t /\ s = n)
      BY <1>12
    <3>2. \A s : s \in Open' <=> s = n \/ (s \in Open /\ s # s0)
      BY <1>13
    <3>3. s0 \in Taken(i) <=> i = i0
      BY <2>2, <2>3
    <3> HIDE DEF s0
    <3>4. QED
      BY <1>8, <3>1, <3>2, <3>3
  <2>5. QED
    BY <2>1, <2>4 DEF Written
<1>16. adj'[s0] = t /\ \A s : s # s0 /\ s \in DOMAIN adj => adj'[s] = adj[s]
  <2>1. s0 \in DOMAIN adj
    BY <1>1, <1>10, <1>11, TakenIs, RowsAre
  <2> HIDE DEF s0
  <2>2. QED
    BY <1>1, <2>1
<1>17. Filled'
  <2>1. Filled
    BY <1>1 DEF Placing
  <2>2. \A i \in Nodes : Written(i) \subseteq DOMAIN adj /\ s0 \notin Written(i)
    <3>1. \A i \in Nodes : Written(i) \subseteq DOMAIN adj
      BY <1>1, TakenIs, RowsAre DEF Written
    <3>2. QED
      BY <1>13, <3>1 DEF Written
  <2>3. Tied(i0, t)
    <3>1. t \in ToSet(Proposals[i0])
      <4>1. k[w] \in DOMAIN Proposals[i0]
        BY <1>2, ProposalsAre DEF L
      <4>2. QED
        BY <1>2, <4>1 DEF ToSet
    <3>2. QED
      BY <3>1 DEF Tied
  <2> HIDE DEF s0
  <2>4. ASSUME NEW i \in Nodes
        PROVE  /\ Written(i) \subseteq Written(i)'
               /\ \A s \in Written(i) : adj'[s] = adj[s]
               /\ \A s \in Written(i)' \ Written(i) : adj'[s] \in Nodes /\ Tied(i, adj'[s])
    BY <1>15, <1>16, <2>2, <2>3
  <2>5. ASSUME NEW y \in Claimed' \ Claimed, y[2] > 0
        PROVE  \E s \in Written(y[1])' : adj'[s] = Proposals[y[1]][y[2]]
    <3>1. y = x
      BY <1>7, <2>5
    <3>2. y[1] = i0 /\ Proposals[y[1]][y[2]] = t
      BY <1>2, <3>1
    <3> HIDE DEF x
    <3>3. s0 \in Written(y[1])' /\ adj'[s0] = t
      BY <1>15, <1>16, <3>2
    <3>4. QED
      BY <3>2, <3>3
  <2>6. Done' \ Done = {}
    BY <1>7
  <2>7. QED
    BY <1>8, <2>1, <2>4, <2>5, <2>6, StaysFilled
<1>18. QED
  BY <1>4, <1>9, <1>14, <1>17 DEF Placing

(* The slot owed is filled. *)
LEMMA PlaceReversePlaces ==
  ASSUME Typed, Fitting, Placing, NEW w \in 1..Workers, PlaceReverse(w)
  PROVE  Typed' /\ Placing'
<1>1. /\ phase = "place" /\ AtWork(w) /\ half[w] # Unset /\ NextTie(w)
      /\ adj' = [adj EXCEPT ![half[w]] = row[w]]
      /\ half' = [half EXCEPT ![w] = Unset]
      /\ UNCHANGED <<phase, base, cap, off, cur, nbrs>>
  BY DEF PlaceReverse
<1>2. k[w] > 0 /\ w \in Halfway
  BY <1>1 DEF Typed, Walking, Halfway
<1> PICK i0 \in Nodes : i0 = row[w]
  BY <1>1, AtWorkIs
<1> PICK t \in Nodes : t = Target(w)
  BY <1>1, <1>2, AtWorkIs
<1> PICK h : h = half[w]
  OBVIOUS
<1> DEFINE L == Len(Proposals[i0])
           x == Here(w)
<1>3. /\ x \in Items /\ x[1] = i0 /\ x[2] = k[w] /\ L \in Nat
      /\ k[w] \in 1..L /\ t # i0 /\ t = Proposals[i0][k[w]]
  BY <1>1, <1>2, AtWorkIs, ProposalsAre DEF Target
<1>4. /\ half \in [1..Workers -> Nat \cup {Unset}]
      /\ half' \in [1..Workers -> Nat \cup {Unset}]
      /\ half'[w] = Unset
      /\ \A v \in 1..Workers : v # w => half'[v] = half[v]
      /\ base[w] \in Nat
  BY <1>1 DEF Typed, BuildTypeOK
<1>5. /\ Done' = Done \cup {x} /\ x \notin Done
      /\ \A v \in 1..Workers : v # w => row'[v] = row[v] /\ k'[v] = k[v]
      /\ IF k[w] < L THEN row'[w] = row[w] /\ k'[w] = k[w] + 1
                     ELSE row'[w] = row[w] + 1 /\ k'[w] = 0 /\ k[w] = L
  BY <1>1, OneMore
<1>6. Typed'
  <2>1. /\ row' \in [1..Workers -> Nat] /\ k' \in [1..Workers -> Nat] /\ Walking'
    BY <1>1, <1>4, WalksOn
  <2>2. QED
    BY <1>1, <1>4, <2>1 DEF Typed, BuildTypeOK
<1>7. \A v \in 1..Workers : v # w =>
        row'[v] = row[v] /\ k'[v] = k[v] /\ half'[v] = half[v] /\ base'[v] = base[v]
  BY <1>1, <1>4, <1>5
<1>8. \A v \in 1..Workers : v # w =>
        /\ AtWork(v)' <=> AtWork(v)
        /\ Bulk(v)' = Bulk(v) /\ Owed(v)' = Owed(v)
        /\ Target(v)' = Target(v) /\ Here(v)' = Here(v)
        /\ v \in Halfway' <=> v \in Halfway
  BY <1>7, OthersKeep
<1>9. Claimed' = Claimed
  <2>1. Halfway' = Halfway \ {w} /\ Halfway \subseteq 1..Workers
    BY <1>4, <1>8 DEF Halfway
  <2>2. \A v \in Halfway' : Here(v)' = Here(v)
    BY <1>8, <2>1
  <2>3. Claimed' = Done' \cup {Here(v)' : v \in Halfway'}
    BY DEF Claimed
  <2>4. {Here(v)' : v \in Halfway'} = {Here(v) : v \in Halfway'}
    BY <2>2
  <2> HIDE DEF x
  <2>5. {Here(v) : v \in Halfway} = {Here(v) : v \in Halfway'} \cup {Here(w)}
    BY <1>2, <2>1
  <2>6. QED
    BY <1>5, <2>3, <2>4, <2>5 DEF Claimed, x
<1>10. /\ Claimed \subseteq Items /\ Done \subseteq Items
       /\ \A i \in Nodes : off[i] \in Nat /\ off[i + 1] \in Nat
  BY <1>1, TakenIs, RowsAre
<1>11. Sized'
  <2>1. \A i \in Nodes : Total(i, Claimed)' = Total(i, Claimed)
    BY <1>9 DEF Total
  <2>2. QED
    BY <1>1, <2>1 DEF Placing, Sized
<1>12. h \in Taken(t) /\ h \notin Bulk(w) /\ Bulk(w) \subseteq Taken(i0)
  BY <1>1, <1>2 DEF Placing, Owing
<1>13. Owed(w) = Bulk(w) \cup {h} /\ Bulk(w)' = Bulk(w) /\ Owed(w)' = Bulk(w)
  <2>1. Owed(w) = Bulk(w) \cup {h} /\ Owed(w)' = Bulk(w)'
    BY <1>1, <1>4 DEF Owed
  <2>2. Bulk(w) = (base[w] + k[w] + 1)..(base[w] + L)
    BY <1>1, <1>2 DEF Bulk
  <2>3. CASE k[w] < L
    <3>1. row'[w] = i0 /\ k'[w] = k[w] + 1 /\ base'[w] = base[w]
      BY <1>1, <1>5, <2>3
    <3>2. AtWork(w)' /\ k'[w] > 0
      BY <1>1, <1>3, <3>1 DEF AtWork
    <3>3. Bulk(w)' = (base[w] + (k[w] + 1) + 0)..(base[w] + L)
      BY <1>4, <3>1, <3>2 DEF Bulk
    <3>4. base[w] + (k[w] + 1) + 0 = base[w] + k[w] + 1
      BY <1>3, <1>4
    <3>5. QED
      BY <2>1, <2>2, <3>3, <3>4
  <2>4. CASE ~(k[w] < L)
    <3>1. k'[w] = 0 /\ k[w] = L
      BY <1>3, <1>5, <2>4
    <3>2. Bulk(w)' = {}
      BY <3>1 DEF Bulk
    <3> HIDE DEF L
    <3>3. Bulk(w) = {}
      BY <1>3, <1>4, <2>2, <3>1
    <3>4. QED
      BY <2>1, <3>2, <3>3
  <2>5. QED
    BY <2>3, <2>4
<1>14. \A i \in Nodes : Taken(i)' = Taken(i)
  BY <1>1 DEF Taken
<1> HIDE DEF L
<1>15. Open' = Open \ {h} /\ h \in Open
  <2>1. Open' = UNION {Owed(v)' : v \in 1..Workers}
    BY DEF Open
  <2>2. \A v \in 1..Workers : v # w => h \notin Owed(v)
    BY <1>1, <1>13 DEF Placing, Owing
  <2>3. ASSUME NEW s PROVE s \in Open' <=> s \in Open \ {h}
    <3>1. s \in Open' <=> \E v \in 1..Workers : s \in Owed(v)'
      BY <2>1
    <3>2. s \in Open <=> \E v \in 1..Workers : s \in Owed(v)
      BY DEF Open
    <3>3. s \in Owed(w)' <=> s \in Owed(w) /\ s # h
      BY <1>12, <1>13
    <3>4. \A v \in 1..Workers : v # w => (s \in Owed(v)' <=> s \in Owed(v) /\ s # h)
      BY <1>8, <2>2
    <3>5. QED
      BY <3>1, <3>2, <3>3, <3>4
  <2>4. QED
    BY <1>13, <2>3 DEF Open
<1>16. Owing'
  <2>1. \A i \in Nodes : Taken(i) \subseteq Taken(i)'
    BY <1>14
  <2>2. Bulk(w)' \subseteq Taken(row[w])'
    <3>1. CASE Bulk(w)' = {}
      BY <3>1
    <3>2. CASE Bulk(w)' # {}
      <4>1. row'[w] = i0
        <5>1. k'[w] > 0
          BY <3>2 DEF Bulk
        <5>2. QED
          BY <1>3, <1>5, <5>1
      <4>2. Taken(row[w])' = Taken(i0)'
        BY <4>1 DEF Taken
      <4>3. QED
        BY <1>12, <1>13, <1>14, <4>2
    <3>3. QED
      BY <3>1, <3>2
  <2>3. w \notin Halfway'
    BY <1>4 DEF Halfway
  <2>4. \A v \in 1..Workers : v # w => Owed(w)' \cap Owed(v) = {}
    <3>1. \A v \in 1..Workers : v # w => Owed(w) \cap Owed(v) = {}
      BY <1>1 DEF Placing, Owing
    <3>2. QED
      BY <1>13, <3>1
  <2>5. QED
    BY <1>1, <1>7, <2>1, <2>2, <2>3, <2>4, StaysOwing
<1>17. /\ Written(t)' = Written(t) \cup {h}
       /\ \A i \in Nodes : i # t => Written(i)' = Written(i)
  <2>1. \A i \in Nodes : Written(i)' = Taken(i) \ Open'
    BY <1>14 DEF Written
  <2>2. \A i \in Nodes : i # t => h \notin Taken(i)
    <3>1. \A i \in Nodes : Taken(i) \subseteq Slots(i)
      BY <1>1, TakenIs
    <3>2. \A i \in Nodes : i # t => Slots(i) \cap Slots(t) = {}
      BY <1>1, RowsAre
    <3>3. QED
      BY <1>12, <3>1, <3>2
  <2>3. QED
    BY <1>12, <1>15, <2>1, <2>2 DEF Written
<1>18. adj'[h] = i0 /\ \A s : s # h /\ s \in DOMAIN adj => adj'[s] = adj[s]
  <2>1. h \in DOMAIN adj
    BY <1>1, <1>12, TakenIs, RowsAre
  <2>2. QED
    BY <1>1, <2>1
<1>19. Filled'
  <2>1. Filled
    BY <1>1 DEF Placing
  <2>2. \A i \in Nodes : Written(i) \subseteq DOMAIN adj /\ h \notin Written(i)
    <3>1. \A i \in Nodes : Written(i) \subseteq DOMAIN adj
      BY <1>1, TakenIs, RowsAre DEF Written
    <3>2. QED
      BY <1>15, <3>1 DEF Written
  <2>3. Tied(t, i0)
    <3>1. k[w] \in DOMAIN Proposals[i0]
      BY <1>3, ProposalsAre DEF L
    <3>2. t \in ToSet(Proposals[i0])
      BY <1>3, <3>1 DEF ToSet
    <3>3. QED
      BY <3>2 DEF Tied
  <2>4. ASSUME NEW i \in Nodes
        PROVE  /\ Written(i) \subseteq Written(i)'
               /\ \A s \in Written(i) : adj'[s] = adj[s]
               /\ \A s \in Written(i)' \ Written(i) : adj'[s] \in Nodes /\ Tied(i, adj'[s])
    BY <1>17, <1>18, <2>2, <2>3
  <2>5. Claimed' \ Claimed = {}
    BY <1>9
  <2>6. ASSUME NEW y \in Done' \ Done, y[2] > 0
        PROVE  \E s \in Written(Proposals[y[1]][y[2]])' : adj'[s] = y[1]
    <3>1. y = x
      BY <1>5, <2>6
    <3>2. y[1] = i0 /\ Proposals[y[1]][y[2]] = t
      BY <1>3, <3>1
    <3> HIDE DEF x
    <3>3. h \in Written(Proposals[y[1]][y[2]])' /\ adj'[h] = i0
      BY <1>17, <1>18, <3>2
    <3>4. QED
      BY <3>2, <3>3
  <2>7. QED
    BY <1>10, <2>1, <2>4, <2>5, <2>6, StaysFilled
<1>20. QED
  BY <1>6, <1>11, <1>16, <1>19 DEF Placing

-----------------------------------------------------------------------------
(* The passes *)

(* The start of a pass. *)
LEMMA Starts ==
  ASSUME row = Firsts, k = Zero(1..Workers), half = Idle
  PROVE  /\ row \in [1..Workers -> Nat] /\ k \in [1..Workers -> Nat]
         /\ half \in [1..Workers -> Nat \cup {Unset}]
         /\ Walking /\ Done = {} /\ Claimed = {} /\ Open = {} /\ Halfway = {}
         /\ \A w \in 1..Workers : Bulk(w) = {} /\ Owed(w) = {}
<1>1. \A w \in 1..Workers :
        row[w] = First(w) /\ k[w] = 0 /\ half[w] = Unset /\ First(w) \in Nat /\ Past(w) <= N
        /\ Past(w) \in Nat
  BY ChunksAre DEF Firsts, Zero, Idle
<1>2. /\ row \in [1..Workers -> Nat] /\ k \in [1..Workers -> Nat]
      /\ half \in [1..Workers -> Nat \cup {Unset}]
  BY ChunksAre DEF Firsts, Zero, Idle
<1>3. Walking
  <2>1. ASSUME NEW w \in 1..Workers, AtWork(w) PROVE 0 <= Len(Proposals[row[w]])
    <3>1. row[w] \in Nodes
      BY <1>1, <2>1, GraphAssumption DEF AtWork, Nodes
    <3>2. QED
      BY <3>1, ProposalsAre
  <2>2. QED
    BY <1>1, <2>1 DEF Walking
<1>4. Done = {}
  BY NoneDone
<1>5. Halfway = {}
  BY <1>1 DEF Halfway
<1>6. \A w \in 1..Workers : Bulk(w) = {} /\ Owed(w) = {}
  BY <1>1 DEF Bulk, Owed
<1>7. Open = {}
  BY <1>6 DEF Open
<1>8. Claimed = {}
  BY <1>4, <1>5 DEF Claimed
<1>9. QED
  BY <1>2, <1>3, <1>4, <1>5, <1>6, <1>7, <1>8

LEMMA StartsLater ==
  ASSUME row' = Firsts, k' = Zero(1..Workers), half' = Idle
  PROVE  /\ row' \in [1..Workers -> Nat] /\ k' \in [1..Workers -> Nat]
         /\ half' \in [1..Workers -> Nat \cup {Unset}]
         /\ Walking' /\ Done' = {} /\ Claimed' = {} /\ Open' = {} /\ Halfway' = {}
         /\ \A w \in 1..Workers : Bulk(w)' = {} /\ Owed(w)' = {}
<1>1. ((row = Firsts /\ k = Zero(1..Workers) /\ half = Idle) =>
        (/\ row \in [1..Workers -> Nat] /\ k \in [1..Workers -> Nat]
         /\ half \in [1..Workers -> Nat \cup {Unset}]
         /\ Walking /\ Done = {} /\ Claimed = {} /\ Open = {} /\ Halfway = {}
         /\ \A w \in 1..Workers : Bulk(w) = {} /\ Owed(w) = {}))'
  BY Starts, PTL
<1>2. QED
  BY <1>1 DEF Firsts, Zero, Idle

LEMMA BuildInitHolds == BuildInit => BuildIInv
<1> SUFFICES ASSUME BuildInit PROVE BuildIInv
  OBVIOUS
<1>1. /\ phase = "count" /\ row = Firsts /\ k = Zero(1..Workers) /\ half = Idle
      /\ base = Zero(1..Workers) /\ cap = Zero(Nodes)
      /\ off = Zero(0..N) /\ cur = Zero(Nodes) /\ nbrs = [i \in Nodes |-> {}]
  BY DEF BuildInit
<1>2. /\ row \in [1..Workers -> Nat] /\ k \in [1..Workers -> Nat]
      /\ half \in [1..Workers -> Nat \cup {Unset}] /\ Walking /\ Done = {}
  BY <1>1, Starts
<1>3. Typed
  BY <1>1, <1>2 DEF Typed, BuildTypeOK, Zero
<1>4. Counting
  BY <1>1, <1>2, TotalIs DEF Counting, Zero
<1>5. QED
  BY <1>1, <1>3, <1>4 DEF BuildIInv, Fitting, Placing, Finishing

(* What a piece needs is counted. *)
LEMMA CountKeeps ==
  ASSUME BuildIInv, NEW w \in 1..Workers, Count(w)
  PROVE  BuildIInv'
<1> PICK i0 \in Nodes : i0 = row[w]
  BY AtWorkIs DEF Count, BuildIInv
<1> DEFINE x == Here(w)
           L == Len(Proposals[i0])
<1>1. /\ phase = "count" /\ AtWork(w) /\ NextTie(w)
      /\ cap' = IF k[w] = 0 THEN [cap EXCEPT ![i0] = @ + L]
                            ELSE [cap EXCEPT ![Target(w)] = @ + 1]
      /\ UNCHANGED <<phase, half, base, off, cur, adj, nbrs>>
  BY DEF Count
<1>2. /\ Typed /\ x \in Items /\ x[1] = i0 /\ x[2] = k[w] /\ L \in Nat
      /\ k[w] > 0 => Target(w) \in Nodes /\ Target(w) = Proposals[i0][k[w]]
      /\ k[w] \in Nat
  BY <1>1, AtWorkIs, ProposalsAre DEF Target, BuildIInv, Typed, Walking
<1>3. Done' = Done \cup {x} /\ x \notin Done /\ Done \subseteq Items
  BY <1>1, <1>2, OneMore
<1>4. cap \in [Nodes -> Nat]
  BY <1>2 DEF Typed, BuildTypeOK
<1>5. \A i \in Nodes : cap'[i] = Weight(i)[x] + cap[i] /\ cap'[i] \in Nat
  <2> TAKE i \in Nodes
  <2>1. cap[i] \in Nat
    BY <1>4
  <2>2. CASE k[w] = 0
    <3>1. Weight(i)[x] = IF i = i0 THEN L ELSE 0
      BY <1>2, <2>2, WeightIs
    <3>2. cap'[i] = IF i = i0 THEN cap[i] + L ELSE cap[i]
      BY <1>1, <1>4, <2>2
    <3> HIDE DEF L, x
    <3>3. QED
      BY <1>2, <2>1, <3>1, <3>2
  <2>3. CASE k[w] # 0
    <3>1. k[w] > 0
      BY <1>2, <2>3
    <3>2. Weight(i)[x] = IF i = Target(w) THEN 1 ELSE 0
      BY <1>2, <2>3, <3>1, WeightIs
    <3>3. cap'[i] = IF i = Target(w) THEN cap[i] + 1 ELSE cap[i]
      BY <1>1, <1>2, <1>4, <2>3
    <3> HIDE DEF x
    <3>4. QED
      BY <2>1, <3>2, <3>3
  <2>4. QED
    BY <2>2, <2>3
<1>6. cap' \in [Nodes -> Nat]
  BY <1>1, <1>2, <1>4
<1>7. Typed'
  <2>1. half' \in [1..Workers -> Nat \cup {Unset}]
    BY <1>1, <1>2 DEF Typed, BuildTypeOK
  <2>2. \A v \in 1..Workers : half'[v] = Unset
    BY <1>1, <1>2 DEF Typed, Walking
  <2>3. /\ row' \in [1..Workers -> Nat] /\ k' \in [1..Workers -> Nat] /\ Walking'
    BY <1>1, <1>2, <2>1, <2>2, WalksOn
  <2>4. QED
    BY <1>1, <1>2, <1>6, <2>3 DEF Typed, BuildTypeOK
<1>8. Counting'
  <2> SUFFICES ASSUME NEW i \in Nodes PROVE cap'[i] = Total(i, Done)'
    BY DEF Counting
  <2>1. Total(i, Done)' = Total(i, Done \cup {x})
    BY <1>3 DEF Total
  <2>2. Total(i, Done \cup {x}) = Weight(i)[x] + Total(i, Done)
    BY <1>2, <1>3, TotalIs
  <2>3. cap[i] = Total(i, Done)
    BY <1>1 DEF BuildIInv, Counting
  <2>4. QED
    BY <1>5, <2>1, <2>2, <2>3
<1>9. QED
  BY <1>1, <1>7, <1>8 DEF BuildIInv, Fitting, Placing, Finishing

(* The offsets leave every row the room that was counted for it.            *)
LEMMA PrefixSumKeeps == ASSUME BuildIInv, PrefixSum PROVE BuildIInv'
<1> DEFINE room == [j \in Nodes |-> Room(j)]
           sum  == [i \in 0..N |-> SumFunctionOnSet(room, 0..(i - 1))]
<1>1. /\ phase = "count" /\ \A w \in 1..Workers : ~AtWork(w)
      /\ phase' = "place" /\ row' = Firsts /\ k' = Zero(1..Workers)
      /\ off' = sum /\ cur' = [i \in Nodes |-> sum[i]]
      /\ adj' = [s \in 1..sum[N] |-> Unset]
      /\ UNCHANGED <<half, base, cap, nbrs>>
  BY DEF PrefixSum, NextPass
<1>2. Typed /\ Done = Items /\ Halfway = {} /\ N \in Nat
  BY <1>1, AllDone, GraphAssumption DEF BuildIInv
<1>3. \A j \in Nodes : room[j] = Total(j, Items) /\ room[j] \in Nat
  BY <1>1, <1>2, TotalIs DEF BuildIInv, Counting, Room
<1> HIDE DEF room
<1>4. \A i \in 0..N : sum[i] \in Nat
  <2> SUFFICES ASSUME NEW i \in 0..N PROVE SumFunctionOnSet(room, 0..(i - 1)) \in Nat
    OBVIOUS
  <2>1. 0..(i - 1) \subseteq Nodes
    BY <1>2 DEF Nodes
  <2>2. IsFiniteSet(0..(i - 1))
    BY <2>1, NodesFinite, FS_Subset
  <2>3. QED
    BY <1>3, <2>1, <2>2, SumNat
<1>5. sum[0] = 0
  <2>1. 0..(0 - 1) = {} /\ 0 \in 0..N
    BY <1>2
  <2>2. QED
    BY <2>1, SumEmpty
<1>6. ASSUME NEW i \in Nodes PROVE sum[i + 1] = sum[i] + Total(i, Items)
  <2>1. /\ i \in Int /\ i \in 0..N /\ i + 1 \in 0..N /\ (i + 1) - 1 = i
        /\ i \notin 0..(i - 1) /\ 0..(i - 1) \cup {i} = 0..i
        /\ 0..i \subseteq Nodes
    BY <1>2 DEF Nodes
  <2>2. IsFiniteSet(0..(i - 1))
    BY <2>1, NodesFinite, FS_Subset
  <2>3. SumFunctionOnSet(room, 0..(i - 1) \cup {i}) = room[i] + SumFunctionOnSet(room, 0..(i - 1))
    BY <1>3, <2>1, <2>2, SumAdd
  <2>4. /\ sum[i + 1] = SumFunctionOnSet(room, 0..i)
        /\ sum[i] = SumFunctionOnSet(room, 0..(i - 1))
    BY <2>1
  <2>5. sum[i] \in Nat /\ room[i] = Total(i, Items) /\ room[i] \in Nat
    BY <1>3, <1>4, <2>1
  <2> HIDE DEF sum
  <2>6. sum[i + 1] = room[i] + sum[i]
    BY <2>1, <2>3, <2>4
  <2>7. QED
    BY <2>5, <2>6
<1>7. half' = Idle
  <2>1. \A w \in 1..Workers : half[w] = Unset
    BY <1>2 DEF Halfway
  <2>2. half \in [1..Workers -> Nat \cup {Unset}]
    BY <1>2 DEF Typed, BuildTypeOK
  <2>3. QED
    BY <1>1, <2>1, <2>2 DEF Idle
<1>8. DOMAIN sum = 0..N /\ sum \in [0..N -> Nat]
  BY <1>4
<1> HIDE DEF sum
<1>9. /\ row' \in [1..Workers -> Nat] /\ k' \in [1..Workers -> Nat]
      /\ half' \in [1..Workers -> Nat \cup {Unset}]
      /\ Walking' /\ Done' = {} /\ Claimed' = {} /\ Open' = {} /\ Halfway' = {}
      /\ \A w \in 1..Workers : Bulk(w)' = {} /\ Owed(w)' = {}
  <2>1. row' = Firsts /\ k' = Zero(1..Workers) /\ half' = Idle
    BY <1>1, <1>7
  <2>2. QED
    BY <2>1, StartsLater
<1>10. Typed'
  <2>1. cur' \in [Nodes -> Nat]
    <3>1. Nodes \subseteq 0..N
      BY <1>2 DEF Nodes
    <3>2. QED
      BY <1>1, <1>4, <3>1
  <2>2. QED
    BY <1>1, <1>2, <1>8, <1>9, <2>1 DEF Typed, BuildTypeOK
<1>11. Fitting'
  BY <1>1, <1>5, <1>6, <1>8 DEF Fitting, Total
<1>12. \A i \in Nodes : cur'[i] = off'[i] /\ off'[i] \in Nat
  <2>1. Nodes \subseteq 0..N
    BY <1>2 DEF Nodes
  <2>2. QED
    BY <1>1, <1>4, <2>1
<1>13. Sized'
  <2> SUFFICES ASSUME NEW i \in Nodes PROVE cur'[i] = off'[i] + Total(i, Claimed)'
    BY DEF Sized
  <2>1. Total(i, Claimed)' = Total(i, {}) /\ Total(i, {}) = 0
    BY <1>9, TotalIs DEF Total
  <2>2. QED
    BY <1>12, <2>1
<1>14. Owing'
  BY <1>9 DEF Owing
<1>15. Filled'
  <2>1. \A i \in Nodes : Taken(i)' = {}
    BY <1>12 DEF Taken
  <2>2. \A i \in Nodes : Written(i)' = {}
    BY <2>1 DEF Written
  <2>3. QED
    BY <1>9, <2>2 DEF Filled
<1>16. QED
  BY <1>1, <1>10, <1>11, <1>13, <1>14, <1>15 DEF BuildIInv, Counting, Placing, Finishing

(* When all is placed the rows are full, and hold the ties and no more.     *)
LEMMA EndPlaceKeeps == ASSUME BuildIInv, EndPlace PROVE BuildIInv'
<1>1. /\ phase = "place" /\ \A w \in 1..Workers : ~AtWork(w)
      /\ phase' = "dedup" /\ row' = Firsts /\ k' = Zero(1..Workers)
      /\ UNCHANGED <<half, base, cap, off, cur, adj, nbrs>>
  BY DEF EndPlace, NextPass
<1>2. Typed /\ Fitting /\ Placing /\ Done = Items /\ Halfway = {} /\ Claimed = Items
  BY <1>1, AllDone DEF BuildIInv
<1>3. half' = Idle
  <2>1. \A w \in 1..Workers : half[w] = Unset
    BY <1>2 DEF Halfway
  <2>2. half \in [1..Workers -> Nat \cup {Unset}]
    BY <1>2 DEF Typed, BuildTypeOK
  <2>3. QED
    BY <1>1, <2>1, <2>2 DEF Idle
<1>4. /\ row' \in [1..Workers -> Nat] /\ k' \in [1..Workers -> Nat]
      /\ half' \in [1..Workers -> Nat \cup {Unset}] /\ Walking'
  <2>1. row' = Firsts /\ k' = Zero(1..Workers) /\ half' = Idle
    BY <1>1, <1>3
  <2>2. QED
    BY <2>1, StartsLater
<1>5. Typed'
  BY <1>1, <1>2, <1>4 DEF Typed, BuildTypeOK
<1>6. Fitting'
  BY <1>1, <1>2 DEF Fitting, Total
<1>7. Open = {}
  BY <1>1, <1>2 DEF Open, Owed, Bulk, Halfway
<1>8. ASSUME NEW i \in Nodes PROVE Written(i) = Slots(i)
  <2>1. cur[i] = off[i + 1]
    BY <1>1, <1>2 DEF Placing, Sized, Fitting
  <2>2. QED
    BY <1>7, <2>1 DEF Written, Taken, Slots
<1>9. ASSUME NEW i \in Nodes PROVE {adj[s] : s \in Slots(i)} \ {i} = Row(i)
  <2>1. Filled
    BY <1>1, <1>2 DEF Placing
  <2>2. \A s \in Slots(i) : adj[s] \in Nodes /\ Tied(i, adj[s])
    BY <1>8, <2>1 DEF Filled
  <2>3. ASSUME NEW j \in Nodes, j \in ToSet(Proposals[i])
        PROVE  j # i /\ \E s \in Slots(i) : adj[s] = j
    <3>1. PICK n \in 1..Len(Proposals[i]) : Proposals[i][n] = j
      BY <2>3, ProposalsAre DEF ToSet
    <3>2. n \in 0..Len(Proposals[i]) /\ n > 0 /\ j # i
      BY <3>1, ProposalsAre
    <3>3. <<i, n>> \in Items
      BY <3>2, ItemsAre
    <3>4. <<i, n>>[1] = i /\ <<i, n>>[2] = n
      OBVIOUS
    <3>5. \E s \in Written(i) : adj[s] = Proposals[i][n]
      BY <1>2, <2>1, <3>2, <3>3, <3>4 DEF Filled
    <3>6. QED
      BY <1>8, <3>1, <3>2, <3>5
  <2>4. ASSUME NEW j \in Nodes, i \in ToSet(Proposals[j])
        PROVE  j # i /\ \E s \in Slots(i) : adj[s] = j
    <3>1. PICK n \in 1..Len(Proposals[j]) : Proposals[j][n] = i
      BY <2>4, ProposalsAre DEF ToSet
    <3>2. n \in 0..Len(Proposals[j]) /\ n > 0 /\ j # i
      BY <3>1, ProposalsAre
    <3>3. <<j, n>> \in Items
      BY <3>2, ItemsAre
    <3>4. <<j, n>>[1] = j /\ <<j, n>>[2] = n
      OBVIOUS
    <3>5. \E s \in Written(Proposals[j][n]) : adj[s] = j
      BY <1>2, <2>1, <3>2, <3>3, <3>4 DEF Filled
    <3>6. QED
      BY <1>8, <3>1, <3>2, <3>5
  <2>5. ASSUME NEW j \in Nodes, Tied(i, j) PROVE j # i /\ \E s \in Slots(i) : adj[s] = j
    BY <2>3, <2>4, <2>5 DEF Tied
  <2>6. QED
    BY <2>2, <2>5 DEF Row
<1>10. Finishing'
  <2>1. \A i \in Nodes : Slots(i)' = Slots(i)
    BY <1>1 DEF Slots
  <2>2. \A w \in 1..Workers : \A i \in Mine(w) : ~(i < row'[w])
    <3>1. \A w \in 1..Workers : row'[w] = First(w) /\ First(w) \in Nat /\ Past(w) \in Nat
      BY <1>1, ChunksAre DEF Firsts
    <3>2. QED
      BY <3>1 DEF Mine
  <2>3. \A i \in Nodes : ({adj[s] : s \in Slots(i)} \ {i})' = {adj[s] : s \in Slots(i)} \ {i}
    BY <1>1, <2>1
  <2>4. QED
    BY <1>1, <1>9, <2>2, <2>3 DEF Finishing, Row
<1>11. QED
  BY <1>1, <1>5, <1>6, <1>10 DEF BuildIInv, Counting, Placing

LEMMA DedupKeeps ==
  ASSUME BuildIInv, NEW w \in 1..Workers, Dedup(w)
  PROVE  BuildIInv'
<1> PICK i0 \in Nodes : i0 = row[w]
  BY AtWorkIs DEF Dedup, BuildIInv
<1>1. /\ phase = "dedup" /\ AtWork(w)
      /\ nbrs' = [nbrs EXCEPT ![i0] = {adj[s] : s \in Slots(i0)} \ {i0}]
      /\ row' = [row EXCEPT ![w] = i0 + 1]
      /\ UNCHANGED <<phase, k, half, base, cap, off, cur, adj>>
  BY DEF Dedup
<1>2. /\ Typed /\ row \in [1..Workers -> Nat] /\ nbrs \in [Nodes -> SUBSET Nodes]
      /\ i0 \in Nat /\ i0 \in Mine(w) /\ N \in Nat /\ First(w) \in Nat /\ Past(w) \in Nat
      /\ Past(w) <= N
  BY <1>1, AtWorkIs, ChunksAre, GraphAssumption DEF BuildIInv, Typed, BuildTypeOK, Nodes
<1>3. /\ row' \in [1..Workers -> Nat] /\ row'[w] = i0 + 1
      /\ \A v \in 1..Workers : v # w => row'[v] = row[v]
  BY <1>1, <1>2
<1>4. {adj[s] : s \in Slots(i0)} \ {i0} = Row(i0)
  BY <1>1 DEF BuildIInv, Finishing
<1>5. /\ nbrs' \in [Nodes -> SUBSET Nodes] /\ nbrs'[i0] = Row(i0)
      /\ \A i \in Nodes : i # i0 => nbrs'[i] = nbrs[i]
  BY <1>1, <1>2, <1>4 DEF Row
<1>6. Typed'
  <2>1. ASSUME NEW v \in 1..Workers
        PROVE  /\ row'[v] >= First(v) /\ row'[v] \in Nat /\ k'[v] \in Nat /\ k'[v] = 0
               /\ IF AtWork(v)' THEN k'[v] <= Len(Proposals[row'[v]]) ELSE k'[v] = 0
               /\ half'[v] # Unset => phase' = "place" /\ AtWork(v)' /\ k'[v] > 0
    <3>1. k[v] = 0 /\ half[v] = Unset /\ k'[v] = 0 /\ half'[v] = Unset
      BY <1>1, <1>2 DEF Typed, Walking
    <3>2. row'[v] >= First(v) /\ row'[v] \in Nat /\ First(v) \in Nat /\ Past(v) \in Nat
          /\ Past(v) <= N
      <4>1. row[v] >= First(v) /\ row[v] \in Nat /\ First(v) \in Nat /\ Past(v) \in Nat
            /\ Past(v) <= N
        BY <1>2, ChunksAre DEF Typed, Walking
      <4>2. QED
        BY <1>2, <1>3, <4>1
    <3>3. AtWork(v)' => row'[v] \in Nodes
      BY <1>2, <3>2 DEF AtWork, Nodes
    <3>4. AtWork(v)' => 0 <= Len(Proposals[row'[v]])
      BY <3>3, ProposalsAre
    <3>5. QED
      BY <3>1, <3>2, <3>4
  <2>2. Walking'
    BY <2>1 DEF Walking
  <2>3. QED
    BY <1>1, <1>2, <1>3, <1>5, <2>2 DEF Typed, BuildTypeOK
<1>7. Fitting'
  BY <1>1 DEF BuildIInv, Fitting, Total
<1>8. Finishing'
  <2>1. \A i \in Nodes : ({adj[s] : s \in Slots(i)} \ {i})' = {adj[s] : s \in Slots(i)} \ {i}
    BY <1>1 DEF Slots
  <2>2. ASSUME NEW v \in 1..Workers, NEW i \in Mine(v), i < row'[v] PROVE nbrs'[i] = Row(i)
    <3>1. i \in Nodes /\ i \in Nat
      BY ChunksAre DEF Nodes
    <3>2. CASE i = i0
      BY <1>5, <3>2
    <3>3. CASE i # i0
      <4>1. i < row[v]
        BY <1>1, <1>2, <1>3, <2>2, <3>1, <3>3
      <4>2. nbrs[i] = Row(i)
        BY <1>1, <4>1 DEF BuildIInv, Finishing
      <4>3. QED
        BY <1>5, <3>1, <3>3, <4>2
    <3>4. QED
      BY <3>2, <3>3
  <2>3. QED
    BY <1>1, <2>1, <2>2 DEF BuildIInv, Finishing, Row
<1>9. QED
  BY <1>1, <1>6, <1>7, <1>8 DEF BuildIInv, Counting, Placing

LEMMA EndDedupKeeps == ASSUME BuildIInv, EndDedup PROVE BuildIInv'
<1>1. /\ phase = "dedup" /\ \A w \in 1..Workers : ~AtWork(w)
      /\ phase' = "built" /\ row' = Firsts /\ k' = Zero(1..Workers)
      /\ base' = Zero(1..Workers) /\ cur' = Zero(Nodes)
      /\ UNCHANGED <<half, cap, off, nbrs>>
  BY DEF EndDedup, NextPass
<1>2. Typed /\ Finishing /\ Halfway = {}
  BY <1>1, AllDone DEF BuildIInv
<1>3. half' = Idle
  <2>1. \A w \in 1..Workers : half[w] = Unset
    BY <1>2 DEF Halfway
  <2>2. half \in [1..Workers -> Nat \cup {Unset}]
    BY <1>2 DEF Typed, BuildTypeOK
  <2>3. QED
    BY <1>1, <2>1, <2>2 DEF Idle
<1>4. /\ row' \in [1..Workers -> Nat] /\ k' \in [1..Workers -> Nat]
      /\ half' \in [1..Workers -> Nat \cup {Unset}] /\ Walking'
  <2>1. row' = Firsts /\ k' = Zero(1..Workers) /\ half' = Idle
    BY <1>1, <1>3
  <2>2. QED
    BY <2>1, StartsLater
<1>5. Typed'
  BY <1>1, <1>2, <1>4 DEF Typed, BuildTypeOK, Zero
<1>6. \A i \in Nodes : nbrs[i] = Row(i)
  <2> TAKE i \in Nodes
  <2>1. PICK w \in 1..Workers : i \in Mine(w)
    BY ChunksCover
  <2>2. i < row[w]
    <3>1. row[w] \in Nat /\ row[w] >= Past(w) /\ Past(w) \in Nat /\ First(w) \in Nat
      BY <1>1, <1>2, ChunksAre DEF Typed, Walking, AtWork
    <3>2. QED
      BY <2>1, <3>1 DEF Mine
  <2>3. QED
    BY <1>1, <1>2, <2>1, <2>2 DEF Finishing
<1>7. QED
  BY <1>1, <1>5, <1>6 DEF BuildIInv, Counting, Fitting, Placing, Finishing, Row

LEMMA BuildStepKeeps == BuildIInv /\ [BuildStep]_buildVars => BuildIInv'
<1> SUFFICES ASSUME BuildIInv, [BuildStep]_buildVars PROVE BuildIInv'
  OBVIOUS
<1>1. ASSUME NEW w \in 1..Workers, Count(w) \/ Dedup(w) PROVE BuildIInv'
  BY <1>1, CountKeeps, DedupKeeps
<1>2. ASSUME NEW w \in 1..Workers, ClaimRow(w) \/ PlaceForward(w) \/ PlaceReverse(w)
      PROVE  BuildIInv'
  <2>1. Typed' /\ Placing'
    BY <1>2, ClaimRowPlaces, PlaceForwardPlaces, PlaceReversePlaces DEF BuildIInv
  <2>2. phase' = "place" /\ phase = "place" /\ UNCHANGED off /\ DOMAIN adj' = DOMAIN adj
    BY <1>2 DEF ClaimRow, PlaceForward, PlaceReverse
  <2>3. Fitting'
    BY <2>2 DEF BuildIInv, Fitting, Total
  <2>4. QED
    BY <2>1, <2>2, <2>3 DEF BuildIInv, Counting, Finishing
<1>3. CASE PrefixSum \/ EndPlace \/ EndDedup
  BY <1>3, PrefixSumKeeps, EndPlaceKeeps, EndDedupKeeps
<1>4. CASE UNCHANGED buildVars
  <2>1. UNCHANGED <<phase, row, k, half, base, cap, off, cur, adj, nbrs>>
    BY <1>4 DEF buildVars, workVars
  <2>2. /\ Done' = Done /\ Claimed' = Claimed /\ Halfway' = Halfway
        /\ \A i \in Nodes : Taken(i)' = Taken(i)
        /\ \A w \in 1..Workers : /\ AtWork(w)' <=> AtWork(w)
                                 /\ Bulk(w)' = Bulk(w) /\ Owed(w)' = Owed(w)
    BY <2>1 DEF Done, Before, Claimed, Halfway, Here, Taken, AtWork, Bulk, Owed
  <2>3. Open' = Open /\ \A i \in Nodes : Written(i)' = Written(i)
    BY <2>2 DEF Open, Written
  <2>4. Typed' /\ Finishing'
    BY <2>1 DEF BuildIInv, Typed, BuildTypeOK, Walking, AtWork, Finishing, Slots
  <2>5. Counting' /\ Fitting'
    BY <2>1, <2>2 DEF BuildIInv, Counting, Fitting, Total
  <2>6. CASE phase = "place"
    <3>1. Sized'
      BY <2>1, <2>2, <2>6 DEF BuildIInv, Placing, Sized, Total
    <3>2. Filled'
      <4>1. Done \subseteq Items /\ Claimed \subseteq Items /\ Filled
        BY <2>6, TakenIs DEF BuildIInv, Placing
      <4>2. QED
        BY <2>1, <2>2, <2>3, <4>1, StaysFilled
    <3>3. Owing'
      <4>1. 1 \in 1..Workers
        BY GraphAssumption
      <4>2. /\ AtWork(1)' => Bulk(1)' \subseteq Taken(row[1])'
            /\ 1 \in Halfway' => half'[1] \in Taken(Target(1))' \ Bulk(1)'
        <5>1. Taken(row[1])' = Taken(row[1]) /\ Taken(Target(1))' = Taken(Target(1))
          BY <2>1 DEF Taken, Target
        <5>2. QED
          BY <2>1, <2>2, <2>6, <4>1, <5>1 DEF BuildIInv, Placing, Owing
      <4>3. \A v \in 1..Workers : v # 1 => Owed(1)' \cap Owed(v) = {}
        BY <2>2, <2>6, <4>1 DEF BuildIInv, Placing, Owing
      <4>4. QED
        BY <2>1, <2>2, <2>6, <4>1, <4>2, <4>3, StaysOwing DEF BuildIInv
    <3>4. QED
      BY <2>4, <2>5, <3>1, <3>2, <3>3 DEF BuildIInv, Placing
  <2>7. CASE phase # "place"
    BY <2>1, <2>4, <2>5, <2>7 DEF BuildIInv, Placing
  <2>8. QED
    BY <2>6, <2>7
<1>5. QED
  BY <1>1, <1>2, <1>3, <1>4 DEF BuildStep

(* What the invariant says of the graph. *)
LEMMA BuildIInvSays == BuildIInv => BuildTypeOK /\ CursorsFit /\ GraphIsProposed
<1> SUFFICES ASSUME BuildIInv PROVE BuildTypeOK /\ CursorsFit /\ GraphIsProposed
  OBVIOUS
<1>1. BuildTypeOK
  BY DEF BuildIInv, Typed
<1>2. ASSUME phase = "place", NEW i \in Nodes PROVE cur[i] \in off[i]..off[i + 1]
  <2>1. /\ cur[i] \in Nat /\ off[i] <= cur[i] /\ cur[i] <= off[i + 1]
        /\ off[i] \in Nat /\ off[i + 1] \in Nat
    BY <1>2, TakenIs, RowsAre DEF BuildIInv
  <2>2. QED
    BY <2>1
<1>3. CursorsFit
  BY <1>2 DEF CursorsFit
<1>4. GraphIsProposed
  BY DEF BuildIInv, Finishing, Row, GraphIsProposed
<1>5. QED
  BY <1>1, <1>3, <1>4

LEMMA BuildAgainHolds == BuildAgain => BuildIInv'
<1>1. BuildAgain => BuildInit'
  BY DEF BuildAgain, BuildInit
<1>2. (BuildInit => BuildIInv)'
  BY BuildInitHolds, PTL
<1>3. QED
  BY <1>1, <1>2

-----------------------------------------------------------------------------
(* The experiment on its graphs *)

(* Only a builder touches the graph, and each starts anew. *)
LEMMA NextBuilds == BuildIInv /\ [Next]_vars => BuildIInv'
<1> SUFFICES ASSUME BuildIInv, [Next]_vars PROVE BuildIInv'
  OBVIOUS
<1>1. [BuildStep]_buildVars \/ BuildAgain
  BY DEF Next, Progress, Begin, Expire, NextReplicate, Build, Built, BeginArm, Round, EndArm,
     LeaveArms, Finish, vars
<1>2. QED
  BY <1>1, BuildStepKeeps, BuildAgainHolds

LEMMA GraphInvariance == Spec => []BuildIInv
<1>1. Init => BuildIInv
  BY BuildInitHolds DEF Init
<1>2. QED
  BY <1>1, NextBuilds, PTL DEF Spec

(* For any proposals, any number of workers and any interleaving of theirs, *)
(* no cursor of pass 2 leaves its row.                                      *)
THEOREM CursorsStay == Spec => []CursorsFit
  BY GraphInvariance, BuildIInvSays, PTL

(* The graph an arm runs on has the ties that were proposed, each in both   *)
(* rows, whatever the interleaving that built it.                           *)
THEOREM GraphIsRight == Spec => []GraphIsProposed
  BY GraphInvariance, BuildIInvSays, PTL

(* How far Run is. *)
Flags == running \in BOOLEAN /\ expired \in BOOLEAN

Within ==
  /\ runs \in Nat
  /\ running <=> stage # "idle"
  /\ stage \in {"idle", "replicates", "building", "arms", "rounds"}
  /\ stage # "idle" => rep <= cfg.replicates
  /\ IF stage \in {"arms", "rounds"} THEN arm <= Len(cfg.arms) + 1 /\ phase = "built"
                                     ELSE arm = 1
  /\ IF stage = "rounds" THEN round \in 0..cfg.rounds ELSE round = 0

Bounds == Flags /\ Within

LEMMA NextBounds == BooksIInv /\ Bounds /\ [Next]_vars => Bounds'
<1> SUFFICES ASSUME BooksIInv, Bounds, [Next]_vars PROVE Bounds'
  OBVIOUS
<1>0. Flags'
  <2>1. running' = TRUE \/ running' = FALSE \/ running' = running
    BY DEF Next, Progress, Begin, Expire, NextReplicate, Build, Built, BeginArm, Round, EndArm,
       LeaveArms, Finish, vars, runnerVars
  <2>2. expired' = TRUE \/ expired' = FALSE \/ expired' = expired
    BY DEF Next, Progress, Begin, Expire, NextReplicate, Build, Built, BeginArm, Round, EndArm,
       LeaveArms, Finish, vars, localVars
  <2>3. QED
    BY <2>1, <2>2, Zenon DEF Bounds, Flags
<1> SUFFICES Within'
  BY <1>0 DEF Bounds
<1>1. Placed
  BY DEF BooksIInv, IInv
<1>2. \A d \in Designs : /\ d.replicates \in Nat \ {0} /\ d.rounds \in Nat \ {0}
                         /\ DOMAIN d.arms = 1..Len(d.arms) /\ Len(d.arms) \in Nat
  BY ExperimentAssumption, ArmsNumbered
<1>3. ASSUME NEW d \in Designs, Begin(d) PROVE Within'
  BY <1>2, <1>3 DEF Begin, Zeroed, Bounds, Within
<1>4. CASE Expire \/ UNCHANGED vars
  BY <1>4 DEF Expire, vars, runnerVars, localVars, buildVars, Bounds, Within
<1>5. CASE NextReplicate
  <2>1. rep \in Nat /\ cfg \in Designs
    BY <1>1, <1>5 DEF NextReplicate, Placed
  <2>2. rep + 1 <= cfg.replicates
    BY <1>2, <1>5, <2>1 DEF NextReplicate
  <2>3. QED
    BY <1>5, <2>2 DEF NextReplicate, runnerVars, Bounds, Within
<1>6. CASE Build
  BY <1>6 DEF Build, runnerVars, localVars, Bounds, Within
<1>7. CASE Built
  <2>1. cfg \in Designs
    BY <1>1, <1>7 DEF Built, Placed
  <2>2. 1 <= Len(cfg.arms) + 1
    BY <1>2, <2>1
  <2>3. QED
    BY <1>7, <2>2 DEF Built, runnerVars, buildVars, Bounds, Within
<1>8. CASE BeginArm
  <2>1. 0 \in 0..cfg.rounds
    BY <1>1, <1>2, <1>8 DEF BeginArm, Placed
  <2>2. QED
    BY <1>8, <2>1 DEF BeginArm, runnerVars, buildVars, Bounds, Within
<1>9. CASE Round
  <2>1. round + 1 \in 0..cfg.rounds
    BY <1>1, <1>2, <1>9 DEF Round, Placed, Bounds, Within
  <2>2. QED
    BY <1>9, <2>1 DEF Round, runnerVars, buildVars, Bounds, Within
<1>10. CASE EndArm
  <2>1. arm + 1 <= Len(cfg.arms) + 1
    BY <1>1, <1>2, <1>10 DEF EndArm, Placed
  <2>2. QED
    BY <1>10, <2>1 DEF EndArm, buildVars, Bounds, Within
<1>11. CASE LeaveArms
  BY <1>11 DEF LeaveArms, runnerVars, Bounds, Within
<1>12. CASE Finish
  BY <1>12 DEF Finish, ClaimLeft, Bounds, Within
<1>13. QED
  BY <1>3, <1>4, <1>5, <1>6, <1>7, <1>8, <1>9, <1>10, <1>11, <1>12 DEF Next, Progress

LEMMA BoundsSay == BooksIInv /\ Bounds /\ BuildIInv => ExperimentTypeOK
<1> SUFFICES ASSUME BooksIInv, Bounds, BuildIInv PROVE ExperimentTypeOK
  OBVIOUS
<1>1. IInv /\ Placed /\ Sampled /\ Books
  BY DEF BooksIInv, IInv
<1>2. ASSUME running
      PROVE  /\ rep \in 0..cfg.replicates /\ arm \in 1..(Len(cfg.arms) + 1)
             /\ round \in 0..cfg.rounds
             /\ runs <= cfg.replicates * Len(cfg.arms)
  <2>1. /\ stage # "idle" /\ cfg \in Designs /\ DOMAIN reach = DOMAIN cfg.arms
        /\ rep \in Nat /\ arm \in Nat \ {0}
    BY <1>1, <1>2 DEF Bounds, Within, Placed
  <2>2. /\ cfg.replicates \in Nat /\ cfg.rounds \in Nat
        /\ DOMAIN cfg.arms = 1..Len(cfg.arms) /\ Len(cfg.arms) \in Nat
    BY <2>1, ExperimentAssumption, ArmsNumbered
  <2>3. rep <= cfg.replicates
    BY <2>1 DEF Bounds, Within
  <2>4. arm \in 1..(Len(cfg.arms) + 1) /\ round \in 0..cfg.rounds
    BY <2>1, <2>2 DEF Bounds, Within
  <2>5. runs <= rep * Cardinality(DOMAIN reach)
    <3> DEFINE f == Lens(reach)
               D == DOMAIN reach
    <3>1. IsFiniteSet(D) /\ \A a \in D : f[a] \in Nat /\ f[a] <= rep
      BY <1>1, <2>1, LensAre DEF Books, Lens
    <3>2. runs = SumFunctionOnSet(f, D)
      BY <1>1, <2>1 DEF Books, SumFunction, Lens
    <3> HIDE DEF f, D
    <3>3. SumFunctionOnSet(f, D) <= rep * Cardinality(D)
      BY <2>1, <3>1, SumBound
    <3>4. QED
      BY <3>2, <3>3 DEF D
  <2>6. Cardinality(DOMAIN reach) = Len(cfg.arms)
    <3>1. Cardinality(DOMAIN reach) = Len(reach) /\ DOMAIN reach = 1..Len(reach)
          /\ Len(reach) \in Nat
      BY <1>1, LensAre
    <3>2. Len(reach) = Len(cfg.arms)
      BY <2>1, <2>2, <3>1
    <3>3. QED
      BY <3>1, <3>2
  <2>7. rep * Len(cfg.arms) <= cfg.replicates * Len(cfg.arms)
    BY <2>1, <2>2, <2>3
  <2>8. runs <= cfg.replicates * Len(cfg.arms)
    <3>1. runs \in Nat /\ rep * Len(cfg.arms) \in Nat /\ cfg.replicates * Len(cfg.arms) \in Nat
      BY <2>1, <2>2 DEF Bounds, Within
    <3>2. QED
      BY <2>5, <2>6, <2>7, <3>1
  <2>9. rep \in 0..cfg.replicates
    BY <2>1, <2>2, <2>3
  <2>10. QED
    BY <2>4, <2>8, <2>9
<1>3. stage \in {"arms", "rounds"} => sim.tired \subseteq sim.heard /\ phase = "built"
  BY <1>1 DEF Placed, On, Bounds, Within
<1>4. BuildTypeOK
  BY BuildIInvSays
<1>5. {running, expired} \subseteq BOOLEAN
  BY DEF Bounds, Flags
<1>6. QED
  BY <1>2, <1>3, <1>4, <1>5 DEF Bounds, Within, ExperimentTypeOK

(* No counter leaves its range, no arm runs but on a finished graph, and    *)
(* the runs never exceed what was asked for.                                *)
THEOREM Types == Spec => []ExperimentTypeOK
<1>1. Init => BooksIInv /\ Bounds /\ BuildIInv
  <2>1. Init => IInv /\ BuildIInv
    BY IInvInit, BuildInitHolds DEF Init
  <2>2. Init => Flags
    BY Zenon DEF Init, Flags
  <2>3. Init => Books /\ ResultAddsUp /\ Within
    BY DEF Init, Books, ResultAddsUp, Within
  <2>4. QED
    BY <2>1, <2>2, <2>3 DEF BooksIInv, Bounds
<1>2. BooksIInv /\ Bounds /\ BuildIInv /\ [Next]_vars => (BooksIInv /\ Bounds /\ BuildIInv)'
  BY NextBooks, NextBounds, NextBuilds
<1>3. QED
  BY <1>1, <1>2, BoundsSay, PTL DEF Spec

=============================================================================
