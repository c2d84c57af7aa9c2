--------------------------- MODULE MCCheckoutStock ---------------------------
EXTENDS CheckoutStock

OneVariant == [l \in Lines |-> 1]
EachItsOwn == [l \in Lines |-> l]
TwoLinesThenOne == [l \in Lines |-> IF l = 3 THEN 2 ELSE 1]
SecondDiffers == [l \in Lines |-> IF l = 2 THEN 2 ELSE 1]
Everywhere == [l \in Lines |-> Warehouses]
NoPoint == [l \in Lines |-> NoWarehouse]
ByNumber == [w \in Warehouses |-> w]
=============================================================================
