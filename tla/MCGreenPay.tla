----------------------------- MODULE MCGreenPay -----------------------------
EXTENDS GreenPay

CONSTANTS d1, d2

\* One donor has a badge from before badges were tokens.
MCBefore == [d \in Donors |-> IF d = d1 THEN 1 ELSE 0]
MCThresholds == <<1, 2, 3, 4>>
=============================================================================
