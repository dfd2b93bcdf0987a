----------------------------- MODULE Experiment -----------------------------
(***************************************************************************)
(* Runner.Run of internal/experiment/experiment.go: one experiment at a    *)
(* time, a world and a graph per replicate (module GraphBuild), and on     *)
(* them every arm in turn, each from a Reset of the same simulation        *)
(* (module Simulation).  The context may expire at any step and is looked  *)
(* at between arms and between replicates.                                 *)
(*                                                                         *)
(* A sample is a number in the code; here it is what the number was        *)
(* measured on: the replicate's world, and the state the arm started from. *)
(* The statistics over samples are left out.  So are the progress          *)
(* counters, but the one the result quotes.                                *)
(***************************************************************************)
EXTENDS GraphBuild, Simulation

CONSTANTS
  Designs,     \* what may be asked for: replicates, rounds and arms
  None

(* An arm is a story and whose archetypes reactions were attached for.      *)
Arms == [story : Events, reactions : (SUBSET Nodes) \cup {None}]

ASSUME ExperimentAssumption ==
  /\ People = Nodes
  /\ \A d \in Designs :
       /\ d.replicates \in Nat \ {0} /\ d.rounds \in Nat \ {0}
       /\ d.arms \in Seq(Arms) \ {<<>>}

VARIABLES
  running,    \* Runner.running
  runs,       \* Runner.runs
  last,       \* Runner.last, its samples and its Runs
  stage,      \* where Run is
  cfg,        \* the design it was given
  expired,    \* its context is done
  rep,        \* replicates begun
  arm,        \* the arm it is at
  round,      \* ticks of that arm
  began,      \* what that arm started from
  sim,        \* the replicate's simulation
  reach       \* reach[a]: the samples of arm a

runnerVars == <<running, runs, last>>
localVars  == <<stage, cfg, expired, rep, arm, round, began, sim, reach>>
vars == <<runnerVars, localVars, buildVars>>

Init ==
  /\ running = FALSE /\ runs = 0 /\ last = None
  /\ stage = "idle" /\ cfg = None /\ expired = FALSE
  /\ rep = 0 /\ arm = 1 /\ round = 0 /\ began = None /\ sim = None /\ reach = <<>>
  /\ BuildInit

-----------------------------------------------------------------------------

(* Mutant: the runs of this experiment are counted on top of the last.      *)
Carried == runs

Zeroed == 0

(* Whoever wins the running flag starts over; the others are refused.       *)
Begin(d) ==
  /\ ~running
  /\ running' = TRUE /\ runs' = Zeroed
  /\ stage' = "replicates" /\ cfg' = d /\ expired' = FALSE
  /\ rep' = 0 /\ reach' = [a \in DOMAIN d.arms |-> <<>>]
  /\ UNCHANGED <<last, arm, round, began, sim, buildVars>>

(* The hour is over, or the process is told to stop. *)
Expire ==
  /\ running /\ ~expired
  /\ expired' = TRUE
  /\ UNCHANGED <<runnerVars, stage, cfg, rep, arm, round, began, sim, reach, buildVars>>

NextReplicate ==
  /\ stage = "replicates" /\ rep < cfg.replicates /\ ~expired
  /\ stage' = "building"
  /\ rep' = rep + 1
  /\ BuildAgain
  /\ UNCHANGED <<runnerVars, cfg, expired, arm, round, began, sim, reach>>

Build ==
  /\ stage = "building"
  /\ BuildStep
  /\ UNCHANGED <<runnerVars, localVars>>

(* sim.New: the new simulation is at rest. *)
Built ==
  /\ stage = "building" /\ phase = "built"
  /\ stage' = "arms"
  /\ sim' = Rest /\ arm' = 1
  /\ UNCHANGED <<runnerVars, cfg, expired, rep, round, began, reach, buildVars>>

BeginArm ==
  /\ stage = "arms" /\ arm \in DOMAIN cfg.arms /\ ~expired
  /\ stage' = "rounds" /\ round' = 0
  /\ began' = Reset(sim)
  /\ LET a    == cfg.arms[arm]
         told == Inject(Reset(sim), a.story)
     IN  sim' = IF a.reactions = None THEN told ELSE ApplyReactions(told, a.reactions)
  /\ UNCHANGED <<runnerVars, cfg, expired, rep, arm, reach, buildVars>>

Round ==
  /\ stage = "rounds" /\ round < cfg.rounds
  /\ round' = round + 1
  /\ sim' \in Ticks(sim, nbrs)
  /\ UNCHANGED <<runnerVars, stage, cfg, expired, rep, arm, began, reach, buildVars>>

(* An arm once begun is run to its end. *)
EndArm ==
  /\ stage = "rounds" /\ round = cfg.rounds
  /\ stage' = "arms" /\ arm' = arm + 1 /\ round' = 0 /\ began' = None
  /\ reach' = [reach EXCEPT ![arm] = Append(@, [world |-> rep, start |-> began])]
  /\ runs' = runs + 1
  /\ UNCHANGED <<running, last, cfg, expired, rep, sim, buildVars>>

LeaveArms ==
  /\ stage = "arms" /\ (arm \notin DOMAIN cfg.arms \/ expired)
  /\ stage' = "replicates" /\ arm' = 1 /\ sim' = None
  /\ UNCHANGED <<runnerVars, cfg, expired, rep, round, began, reach, buildVars>>

(* pairedDiff: what is subtracted from what, as far as both arms got.       *)
PairedDiff(a, b) == [j \in 1..Min({Len(a), Len(b)}) |-> <<a[j], b[j]>>]

(* Mutant: the flag is stored where a whole run ends, not deferred, and a   *)
(* cancelled one returns past it.                                           *)
ClaimIfCut == expired

(* The deferred store of the flag, however Run returns. *)
ClaimLeft == FALSE

(* The result is kept, of a cancelled run too, and the flag given up.       *)
Finish ==
  /\ stage = "replicates" /\ (rep = cfg.replicates \/ expired)
  /\ stage' = "idle" /\ running' = ClaimLeft
  /\ last' = [samples |-> reach, runs |-> runs, cut |-> expired, of |-> cfg.replicates,
              diffs |-> [a \in 2..Len(reach) |-> PairedDiff(reach[1], reach[a])]]
  /\ UNCHANGED <<runs, cfg, expired, rep, arm, round, began, sim, reach, buildVars>>

Progress ==
  \/ NextReplicate \/ Build \/ Built
  \/ BeginArm \/ Round \/ EndArm \/ LeaveArms \/ Finish

Next == (\E d \in Designs : Begin(d)) \/ Expire \/ Progress

(* Run is computation on goroutines of its own. *)
Spec == Init /\ [][Next]_vars /\ WF_vars(Progress)

-----------------------------------------------------------------------------

ExperimentTypeOK ==
  /\ BuildTypeOK
  /\ {running, expired} \subseteq BOOLEAN /\ runs \in Nat
  /\ running => /\ rep \in 0..cfg.replicates /\ arm \in 1..(Len(cfg.arms) + 1)
                /\ round \in 0..cfg.rounds
                /\ runs <= cfg.replicates * Len(cfg.arms)
  /\ running <=> stage # "idle"
  /\ stage \in {"idle", "replicates", "building", "arms", "rounds"}
  /\ stage \in {"arms", "rounds"} => sim.tired \subseteq sim.heard /\ phase = "built"

(* Arms are paired: the k-th sample of every arm was measured on the k-th   *)
(* world, from the state that world has before any story, whatever stories  *)
(* and reactions the arms before it brought and wherever a run was cut; so  *)
(* a result subtracts only what was measured alike.                         *)
ArmsArePaired ==
  /\ \A a \in DOMAIN reach : \A j \in DOMAIN reach[a] :
       reach[a][j] = [world |-> j, start |-> Rest]
  /\ last # None => \A a \in DOMAIN last.diffs : \A j \in DOMAIN last.diffs[a] :
       last.diffs[a][j][1] = last.diffs[a][j][2]

(* What a result quotes as its runs is the samples it has; an arm lacks at  *)
(* most one that its predecessors have, and only if the run was cut.        *)
ResultAddsUp ==
  last # None =>
    LET n(a) == Len(last.samples[a])
        A    == DOMAIN last.samples
    IN  /\ last.runs = SumFunction([a \in A |-> n(a)])
        /\ \A a, b \in A : a < b => n(a) - n(b) \in {0, 1}
        /\ ~last.cut => \A a \in A : n(a) = last.of

(* The runner is free again in the end, whether or not the context expires. *)
RunnerFreed == running ~> ~running

=============================================================================
