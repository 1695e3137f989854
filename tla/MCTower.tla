------------------------------ MODULE MCTower ------------------------------
EXTENDS Tower
=============================================================================
