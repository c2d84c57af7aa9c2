------------------------- MODULE MCOrderFulfillment -------------------------
EXTENDS OrderFulfillment

OneVariant == [l \in Lines |-> 1]
EachItsOwn == [l \in Lines |-> l]
Everywhere == [l \in Lines |-> Warehouses]
SecondLineLocal == [l \in Lines |-> IF l = 1 THEN Warehouses ELSE {1}]
NoPoint == [l \in Lines |-> NoWarehouse]
ByNumber == [w \in Warehouses |-> w]
=============================================================================
