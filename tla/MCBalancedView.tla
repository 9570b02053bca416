--------------------------- MODULE MCBalancedView ---------------------------
EXTENDS BalancedView, TLC

CONSTANTS a, b, c

\* Three tiers, the cheapest is slow.
MCGroups == {a, b, c}
MCSort == a :> 1 @@ b :> 2 @@ c :> 3
MCSlow == {a}
=============================================================================
