---------------------------- MODULE MCConversion ----------------------------
EXTENDS ConversionController

CONSTANTS d1, d2, w1, w2

\* What an earlier session left: two plans wait.
TwoWaiting == <<d1, d2>>

OneWaiting == <<d1>>

\* One window works; the other only opens the queue.
Work1 == (w1 :> Ops \ {"recover"}) @@ (w2 :> {"recover"})
=============================================================================
