------------------------------ MODULE Cascade ------------------------------
(***************************************************************************)
(* What the contagion of internal/sim/contagion.go promises, with no       *)
(* buffers, workers or clocks in sight.  In a round everybody decides at   *)
(* once, on what was visible before it: somebody unaware adopts when the   *)
(* ties that are spreading the story and the feed together confirm it      *)
(* often enough.  An adopter spreads the story for TransmitFor rounds and  *)
(* not one more, and never forgets it.  Contagion.tla shows that the code  *)
(* implements this.                                                        *)
(***************************************************************************)
EXTENDS Integers, FiniteSets, FiniteSetsExt

CONSTANTS
  Nodes,         \* personas
  Ties,          \* Ties[i]: the neighbours of i
  MinReinforce,  \* confirmations nobody adopts without
  TransmitFor,   \* rounds an adopter spreads the story; 0 is for ever
  Feeds,         \* what feeds may show in a round: functions Nodes -> Nat
  Wakes          \* who may be paying attention in a round: sets of nodes

VARIABLES
  age,     \* age[i]: rounds since i adopted, up to TransmitFor; -1 if unaware
  need,    \* need[i]: confirmations i waits for
  simple   \* one exposure may do, as in an epidemic

cascadeVars == <<age, need, simple>>

Unaware(i) == age[i] = -1
Spreading(i) == age[i] >= 0 /\ (TransmitFor = 0 \/ age[i] < TransmitFor)

Confirmations(i, shown) == Cardinality({j \in Ties[i] : Spreading(j)}) + shown[i]

Older(i) == IF TransmitFor = 0 THEN 0 ELSE Min({age[i] + 1, TransmitFor})

MayAdopt(i, shown, awake) ==
  /\ i \in awake /\ Confirmations(i, shown) > 0
  /\ simple \/ Confirmations(i, shown) >= need[i]

(* In a simple contagion it takes luck as well. *)
MayPass(i, shown, awake) == simple \/ ~MayAdopt(i, shown, awake)

CascadeInit ==
  /\ age = [i \in Nodes |-> -1]
  /\ need \in [Nodes -> Nat] /\ \A i \in Nodes : need[i] >= MinReinforce
  /\ simple \in BOOLEAN

Round(shown, awake) ==
  /\ age' \in [Nodes -> Int]
  /\ \A i \in Nodes :
       \/ Unaware(i) /\ MayAdopt(i, shown, awake) /\ age'[i] = 0
       \/ Unaware(i) /\ MayPass(i, shown, awake) /\ age'[i] = -1
       \/ ~Unaware(i) /\ age'[i] = Older(i)
  /\ UNCHANGED <<need, simple>>

(* A story breaks: some of the unaware adopt, and it may be a harder or an  *)
(* easier story than the last.                                              *)
Break ==
  /\ age' \in [Nodes -> Int]
  /\ \A i \in Nodes : age'[i] = age[i] \/ (Unaware(i) /\ age'[i] = 0)
  /\ need' \in [Nodes -> Nat] /\ \A i \in Nodes : need'[i] >= MinReinforce
  /\ UNCHANGED simple

(* People turn out to be easier to convince, or the world is put to rest.   *)
Rethink ==
  /\ need' \in [Nodes -> Nat] /\ \A i \in Nodes : need'[i] >= MinReinforce
  /\ age' = age \/ age' = [i \in Nodes |-> -1]
  /\ UNCHANGED simple

CascadeNext ==
  \/ \E shown \in Feeds, awake \in Wakes : Round(shown, awake)
  \/ Break \/ Rethink

CascadeSpec == CascadeInit /\ [][CascadeNext]_cascadeVars

=============================================================================
