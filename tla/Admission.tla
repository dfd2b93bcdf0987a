----------------------------- MODULE Admission -----------------------------
(***************************************************************************)
(* What the gateway's admission control promises, with no queue, token or  *)
(* counter in sight: at any moment a set of requests of each lane is at    *)
(* the model server, no more than MaxInFlight in all and no more than      *)
(* BatchCap of them batch traffic.  Gateway.tla shows that the channels    *)
(* and counters of internal/gateway/gateway.go implement it.               *)
(***************************************************************************)
EXTENDS Naturals, FiniteSets

CONSTANTS
  Requests,     \* the requests (one handler goroutine each)
  MaxInFlight,  \* hard cap on the calls at the model server
  BatchCap      \* how many of those may be batch traffic

VARIABLE holding    \* holding[lane]: the requests of that lane at the server

Lanes == {"interactive", "batch"}

AtServer == holding["interactive"] \cup holding["batch"]

AdmInit == holding = [lane \in Lanes |-> {}]

(* A request is let through when its lane has room. *)
Enter(r, lane) ==
  /\ r \notin AtServer
  /\ Cardinality(AtServer) < MaxInFlight
  /\ lane = "batch" => Cardinality(holding["batch"]) < BatchCap
  /\ holding' = [holding EXCEPT ![lane] = @ \cup {r}]

(* Its call has ended. *)
Leave(r, lane) ==
  /\ r \in holding[lane]
  /\ holding' = [holding EXCEPT ![lane] = @ \ {r}]

AdmNext == \E r \in Requests, lane \in Lanes : Enter(r, lane) \/ Leave(r, lane)

AdmSpec == AdmInit /\ [][AdmNext]_holding

=============================================================================
