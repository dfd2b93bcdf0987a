----------------------------- MODULE GraphBuild -----------------------------
(***************************************************************************)
(* BuildGraph of internal/sim/graph.go: the adjacency of a social graph,   *)
(* built in place by workers that share it.                                *)
(*                                                                         *)
(* Pass 1 counts, with atomic adds, how many slots each row needs.  The    *)
(* prefix sum turns the counts into offsets.  Pass 2 claims slots, with    *)
(* atomic adds on one cursor per row, and fills them: a worker fills its   *)
(* own row in one claim and every row it proposes a tie to one slot at a   *)
(* time.  Then each row is sorted and its duplicates go.  Every worker     *)
(* walks its own nodes in order, and a pass ends when all have.            *)
(*                                                                         *)
(* Whom a node proposes to (near neighbours, its archetype, the hubs) is a *)
(* function of the seed and the node, the same in both passes: Proposals.  *)
(* A row's order does not outlive the sort, so a row is a set at the end.  *)
(***************************************************************************)
EXTENDS Naturals, FiniteSets, Sequences, Functions, SequencesExt

CONSTANTS
  N,           \* nodes are 0..N-1
  Workers,     \* chunks are 1..Workers
  Proposals,   \* Proposals[i]: the ties i proposes, in order
  Unset        \* the content of a slot nobody has written

Nodes == 0..(N - 1)

(* Every proposal is of somebody else; the same one may come twice.         *)
ASSUME GraphAssumption ==
  /\ N \in Nat \ {0} /\ Workers \in 1..N
  /\ Proposals \in [Nodes -> Seq(Nodes)]
  /\ \A i \in Nodes : \A k \in DOMAIN Proposals[i] : Proposals[i][k] # i
  /\ Unset \notin Nat

(* parallel: contiguous chunks, of the same size but the last.              *)
Chunk == (N + Workers - 1) \div Workers
First(w) == (w - 1) * Chunk
Past(w)  == IF w * Chunk > N THEN N ELSE w * Chunk

VARIABLES
  phase,      \* "count", "place", "dedup", "built"
  row,        \* row[w]: the node w is at
  k,          \* k[w]: the proposal of that node, 0 before its own row
  half,       \* half[w]: the slot it has claimed and not written, or Unset
  base,       \* base[w]: the first slot of its claim in its own row
  cap,        \* cap32
  off,        \* Graph.Off
  cur,        \* the cursors
  adj,        \* Graph.Adj
  nbrs        \* the finished rows

workVars  == <<row, k, half, base>>
buildVars == <<phase, workVars, cap, off, cur, adj, nbrs>>

Firsts == [w \in 1..Workers |-> First(w)]
Zero(S) == [x \in S |-> 0]
Idle  == [w \in 1..Workers |-> Unset]

BuildInit ==
  /\ phase = "count"
  /\ row = Firsts /\ k = Zero(1..Workers) /\ half = Idle /\ base = Zero(1..Workers)
  /\ cap = Zero(Nodes)
  /\ off = Zero(0..N) /\ cur = Zero(Nodes) /\ adj = <<>>
  /\ nbrs = [i \in Nodes |-> {}]

(* Another graph is built. *)
BuildAgain ==
  /\ phase' = "count"
  /\ row' = Firsts /\ k' = Zero(1..Workers) /\ half' = Idle /\ base' = Zero(1..Workers)
  /\ cap' = Zero(Nodes)
  /\ off' = Zero(0..N) /\ cur' = Zero(Nodes) /\ adj' = <<>>
  /\ nbrs' = [i \in Nodes |-> {}]

AtWork(w) == row[w] < Past(w)

(* The proposal w is at: the k-th of its node. *)
Target(w) == Proposals[row[w]][k[w]]

(* On to the next proposal, or to the next node. *)
NextTie(w) ==
  IF k[w] < Len(Proposals[row[w]])
  THEN k' = [k EXCEPT ![w] = @ + 1] /\ UNCHANGED row
  ELSE k' = [k EXCEPT ![w] = 0] /\ row' = [row EXCEPT ![w] = @ + 1]

(* Back to the first node of every chunk, once everyone is through.         *)
NextPass(from, to) ==
  /\ phase = from /\ \A w \in 1..Workers : ~AtWork(w)
  /\ phase' = to
  /\ row' = Firsts /\ k' = Zero(1..Workers)

-----------------------------------------------------------------------------
(* Pass 1 *)

(* Its own row takes all it proposes; then one slot in each target's. *)
Count(w) ==
  /\ phase = "count" /\ AtWork(w)
  /\ cap' = IF k[w] = 0
            THEN [cap EXCEPT ![row[w]] = @ + Len(Proposals[row[w]])]
            ELSE [cap EXCEPT ![Target(w)] = @ + 1]
  /\ NextTie(w)
  /\ UNCHANGED <<phase, half, base, off, cur, adj, nbrs>>

(* Mutant: a row is given room for what its node proposes and no more.      *)
OwnOnly(i) == Len(Proposals[i])

Room(i) == cap[i]

(* The offsets, and the cursors at the start of each row. *)
PrefixSum ==
  LET sum == [i \in 0..N |-> SumFunctionOnSet([j \in Nodes |-> Room(j)], 0..(i - 1))]
  IN  /\ NextPass("count", "place")
      /\ off' = sum
      /\ cur' = [i \in Nodes |-> sum[i]]
      /\ adj' = [s \in 1..sum[N] |-> Unset]
      /\ UNCHANGED <<half, base, cap, nbrs>>

-----------------------------------------------------------------------------
(* Pass 2 *)

(* Mutant: the bulk claim leaves the cursor where other workers will write. *)
NoClaim(i) == cur

BulkClaim(i) == [cur EXCEPT ![i] = @ + Len(Proposals[i])]

(* One claim for all of w's own row. *)
ClaimRow(w) ==
  /\ phase = "place" /\ AtWork(w) /\ k[w] = 0
  /\ base' = [base EXCEPT ![w] = cur[row[w]]]
  /\ cur' = BulkClaim(row[w])
  /\ NextTie(w)
  /\ UNCHANGED <<phase, half, cap, off, adj, nbrs>>

(* The tie goes into the claimed part of w's row, and a slot is claimed in  *)
(* the target's...                                                          *)
PlaceForward(w) ==
  /\ phase = "place" /\ AtWork(w) /\ k[w] > 0 /\ half[w] = Unset
  /\ adj' = [adj EXCEPT ![base[w] + k[w]] = Target(w)]
  /\ half' = [half EXCEPT ![w] = cur[Target(w)] + 1]
  /\ cur' = [cur EXCEPT ![Target(w)] = @ + 1]
  /\ UNCHANGED <<phase, row, k, base, cap, off, nbrs>>

(* ...which is then written. *)
PlaceReverse(w) ==
  /\ phase = "place" /\ AtWork(w) /\ half[w] # Unset
  /\ adj' = [adj EXCEPT ![half[w]] = row[w]]
  /\ half' = [half EXCEPT ![w] = Unset]
  /\ NextTie(w)
  /\ UNCHANGED <<phase, base, cap, off, cur, nbrs>>

EndPlace ==
  /\ NextPass("place", "dedup")
  /\ UNCHANGED <<half, base, cap, off, cur, adj, nbrs>>

-----------------------------------------------------------------------------
(* Rows *)

Slots(i) == (off[i] + 1)..off[i + 1]

(* Sorted, without the node itself and without duplicates. *)
Dedup(w) ==
  /\ phase = "dedup" /\ AtWork(w)
  /\ nbrs' = [nbrs EXCEPT ![row[w]] = {adj[s] : s \in Slots(row[w])} \ {row[w]}]
  /\ row' = [row EXCEPT ![w] = @ + 1]
  /\ UNCHANGED <<phase, k, half, base, cap, off, cur, adj>>

(* The slices are dropped with the builder; the rows stay. *)
EndDedup ==
  /\ NextPass("dedup", "built")
  /\ base' = Zero(1..Workers) /\ cur' = Zero(Nodes) /\ adj' = <<>>
  /\ UNCHANGED <<half, cap, off, nbrs>>

BuildStep ==
  \/ \E w \in 1..Workers :
       Count(w) \/ ClaimRow(w) \/ PlaceForward(w) \/ PlaceReverse(w) \/ Dedup(w)
  \/ PrefixSum \/ EndPlace \/ EndDedup

BuildSpec == BuildInit /\ [][BuildStep]_buildVars

-----------------------------------------------------------------------------

BuildTypeOK ==
  /\ phase \in {"count", "place", "dedup", "built"}
  /\ row \in [1..Workers -> Nat] /\ k \in [1..Workers -> Nat]
  /\ half \in [1..Workers -> Nat \cup {Unset}] /\ base \in [1..Workers -> Nat]
  /\ cap \in [Nodes -> Nat] /\ off \in [0..N -> Nat] /\ cur \in [Nodes -> Nat]
  /\ nbrs \in [Nodes -> SUBSET Nodes]

(* A cursor never leaves its row: whatever order the workers come in, what  *)
(* pass 2 claims is what pass 1 counted.                                    *)
CursorsFit ==
  phase = "place" => \A i \in Nodes : cur[i] \in off[i]..off[i + 1]

(* The graph does not depend on the schedule: a row ends up with exactly    *)
(* those its node proposed to and those who proposed to it, so every tie is *)
(* in both rows, and no slot was lost, shared or left unwritten.            *)
Tied(i, j) == j \in ToSet(Proposals[i]) \/ i \in ToSet(Proposals[j])
GraphIsProposed ==
  phase = "built" => \A i \in Nodes : nbrs[i] = {j \in Nodes : Tied(i, j)}

=============================================================================
