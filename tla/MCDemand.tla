------------------------------ MODULE MCDemand ------------------------------
(* The connections of two nodes, a reconciler that fetches what its node      *)
(* lacks, and the evidence by which a node believes what was fetched.  One of *)
(* them runs in each behaviour; the others rest, the connections before the   *)
(* first dial, the reconciler without demand and no evidence resident.        *)
EXTENDS MCConnections, MCEvidence

CONSTANT ReconcileUses

VARIABLES part, demand, store, hydrate, rec, tick, misses, passed

Want == INSTANCE MCReconcile WITH
  use <- demand, Uses <- ReconcileUses,
  Handles <- 1..3, Window <- 2, Initial <- 1, Cap <- 2, MaxBypass <- 2, MaxMisses <- 2
Cases == INSTANCE MCReconcile WITH
  use <- demand, Uses <- {},
  Handles <- 1..3, Window <- 2, Initial <- 1, Cap <- 2, MaxBypass <- 2, MaxMisses <- 2
MCReconcileUses == Cases!MCUses

wantVars == <<demand, store, hydrate, rec, tick, misses, passed>>
demandVars == <<part, vars, wantVars, evidenceVars>>

DemandInit ==
  /\ part \in {"connections", "reconciler", "evidence"}
  /\ Init /\ (part # "connections" => use = Crossing)
  /\ Want!Init /\ (part # "reconciler" => demand = Want!Unasked)
  /\ EvidenceInit

Links(Some) == part = "connections" /\ Some /\ UNCHANGED <<part, wantVars, evidenceVars>>
Reconciler == part = "reconciler" /\ Want!Next /\ UNCHANGED <<part, vars, evidenceVars>>
Believing == part = "evidence" /\ EvidenceNext /\ UNCHANGED <<part, vars, wantVars>>

DemandSpec ==
  /\ DemandInit /\ [][Links(Next) \/ Reconciler \/ Believing]_demandVars
  /\ WF_demandVars(Links(Step)) /\ Want!Fairness

-----------------------------------------------------------------------------
(* The properties of Connections and Evidence are checked as they stand,      *)
(* those of Reconcile under these names.                                      *)

(* What the reconciler plans from is what its store says, a pass that has     *)
(* something due fetches something, no want starves another, and no handle is *)
(* fetched again before its wait is over (reconcile.rs, next_work, Hydration  *)
(* and record_unavailable).                                                   *)
PlanIsSound ==
  /\ [](Want!TypeOK /\ Want!MemoIsDerivation /\ Want!WorkIsFound /\ Want!PassedTwiceAtMost)
  /\ Want!AttemptsAreSpaced

(* What stays missing is fetched again and again (next_work). *)
AttemptsContinue == Want!AttemptsContinue
=============================================================================
