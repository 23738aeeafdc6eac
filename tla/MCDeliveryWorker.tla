-------------------------- MODULE MCDeliveryWorker --------------------------
\* Small instances of DeliveryWorker: all deliveries go to one host, and the
\* keys are those of one of them.
EXTENDS DeliveryWorker

OneHost == [d \in Deliveries |-> "host"]
OneKey  == LET e == CHOOSE d \in Deliveries : TRUE
           IN  [d \in Deliveries |-> IF d = e THEN Keys ELSE {}]
=============================================================================
