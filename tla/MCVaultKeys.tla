----------------------------- MODULE MCVaultKeys -----------------------------
\* Small instances of VaultKeys.
EXTENDS VaultKeys, TLC

CONSTANTS alice, bob, carol

MCUsers == {alice, bob, carol}
\* alice re-creates her key: either of her two may come first in primary-key order
ThreeKeys == 1..3
ThreeOwners == [k \in ThreeKeys |-> IF k = 3 THEN bob ELSE alice]
\* alice approves bob, who may approve carol
ChainKeys == 1..3
ChainOwners == [k \in ChainKeys |-> CASE k = 1 -> alice [] k = 2 -> bob [] k = 3 -> carol]
TwoKeys == {1, 2}
TwoOwners == [k \in TwoKeys |-> IF k = 2 THEN bob ELSE alice]
\* The ring by itself, while no credentials are stored
RingSpec == Init /\ [][Next /\ UNCHANGED credVars]_vars
\* workers are interchangeable
Symmetry == Permutations(Workers)
=============================================================================
