----------------------------- MODULE MCWarehouse -----------------------------
EXTENDS Warehouse

OneVariant == [l \in Lines |-> 1]
EachItsOwn == [l \in Lines |-> l]
Everywhere == [l \in Lines |-> Warehouses]
Reversed == [w \in Warehouses |-> 2 - w]
LineOneCollects == [l \in Lines |-> IF l = 1 THEN 1 ELSE NoWarehouse]
=============================================================================
