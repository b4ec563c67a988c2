------------------------------ MODULE MCIndexer ------------------------------
(* Instances of the indexer for TLC.                                       *)
EXTENDS Indexer

CONSTANTS p1, p2, asp

MCPools == {p1, p2}

\* The second pool is deployed one ledger after the first.
MCDeploymentLedger == [c \in {p1, p2, asp} |-> IF c = p2 THEN 2 ELSE 1]

\* A browser that has met both pools, of which a build may disable one.
BothPools == {{p1, p2}}

\* A browser that has met one pool.
OnePool == {{p1}}

\* Builds that enable the first pool alone, or both.
TwoConfigs == {{p1}, {p1, p2}}

\* Builds change the pools once each contract has a cursor: a pool that is
\* disabled and enabled again is no new pool.
PoolsAreKnown == enabled' # enabled => DOMAIN metadata = Contracts

KnownSpec == Init /\ [][Next /\ PoolsAreKnown]_vars /\ Fairness
=============================================================================
