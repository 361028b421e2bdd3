--------------------------- MODULE MCReplication ---------------------------
(* The two ways to bring two trees together, over the same variables: by      *)
(* their prefixes (Exchange), or by a cached code of their difference         *)
(* (Cached); and the fold of what arrives into the coverage of a collection   *)
(* (Coverage).  One of the three runs in each behaviour.  The others rest:    *)
(* the fold with nothing to believe, the exchange before it starts.           *)
EXTENDS MCCoverage, MCCached

CONSTANT ExchangeUses

VARIABLES way, agreed

Prefix == INSTANCE MCExchange WITH
  Uses <- ExchangeUses, Bytes <- {0, 1}, KeyBytes <- 2, Window <- 1, Credit <- 2
Cases == INSTANCE MCExchange WITH
  Uses <- {}, Bytes <- {0, 1}, KeyBytes <- 2, Window <- 1, Credit <- 2
MCExchangeUses == Cases!MCUses

replicationVars == <<way, agreed, vars, cachedVars>>

Agreed == agreed = [n \in Sides |-> {}]
ReplicationInit ==
  /\ way \in {"fold", "code", "prefix"}
  /\ Init /\ (way # "fold" => kind = "root")
  /\ \/ way = "fold" /\ CachedInit /\ use = Equal /\ Agreed
     \/ way = "code" /\ CachedInit /\ Agreed
     \/ way = "prefix" /\ Prefix!Init /\ cache = [n \in Sides |-> <<>>]

Fold == way = "fold" /\ Next /\ UNCHANGED <<way, agreed, cachedVars>>
ByCode == way = "code" /\ CachedNext /\ UNCHANGED <<way, agreed, vars>>
ByPrefix == way = "prefix" /\ Prefix!Next /\ UNCHANGED <<way, cache, vars>>

CanContinue(n) ==
  \/ way = "code" /\ CanRun(n)
  \/ way = "prefix" /\ Prefix!CanRun(n)

(* The fairness of the three modules. *)
ReplicationSpec ==
  /\ ReplicationInit /\ [][Fold \/ ByCode \/ ByPrefix]_replicationVars
  /\ []<>(\A n \in Sides : ~CanContinue(n)) \/ []<><<TRUE>>_replicationVars
  /\ WF_vars(Drain)

-----------------------------------------------------------------------------
(* The properties of Coverage are checked as they stand, those of Cached and  *)
(* Exchange, each where its way is taken, under these names.                  *)

(* Whoever has been told that their values landed, by a Landed frame or by    *)
(* the end of the stream, was told the truth (exchange.rs, settle, on_fin).   *)
ReceiptsAreKept ==
  /\ way = "code" => FinIsAReceipt
  /\ way = "prefix" => Prefix!LandedIsAReceipt

(* No honest peer is taken for one that breaks the protocol, whatever the     *)
(* pace of storage and network; windows and credits bound what is in flight;  *)
(* and an exchange nothing failed in ends with both stores confirmed equal    *)
(* (exchange.rs, frame, on_landed_ack; the Broken verdicts).                  *)
PeersBehave ==
  /\ way = "code" => CachedTypeOK /\ NeverMisjudged
  /\ way = "prefix" => Prefix!TypeOK /\ Prefix!NeverMisjudged /\ Prefix!HealthyConfirms

(* Every exchange ends, either way, with the offer window, the request cap    *)
(* and the stream's credit at their limits: neither side waits for a receipt, *)
(* a promised RESUME or an end of the stream that does not come (walk.rs,     *)
(* drive; walk_cached.rs, drive).                                             *)
BothWaysEnd == \A n \in Sides : (way # "fold" /\ Driving(n)) ~> Ended(n)

(* Either way implements what an exchange promises: nothing flows to a side   *)
(* that does not receive, nothing lands that the other does not hold, and an  *)
(* agreement only grows by what both hold (walk.rs, the head of the module).  *)
Promised == INSTANCE Replica WITH
  keys <- IF way = "prefix" THEN Prefix!TreeKeys ELSE Keys,
  held <- [n \in Sides |-> store[n].tree], common <- agreed, own <- use.own,
  receives <- IF way = "prefix" THEN use.receives ELSE [n \in Sides |-> TRUE]
Replicates == Promised!ReplicaSpec
=============================================================================
