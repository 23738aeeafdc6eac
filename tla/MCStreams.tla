----------------------------- MODULE MCStreams -----------------------------
\* Small instances of Streams: one account, or two with one stream each.
EXTENDS Streams

Owner == CHOOSE f \in [StreamIds -> Accounts] :
            \A s, r \in StreamIds : Cardinality(Accounts) > 1 /\ s # r => f[s] # f[r]

Home == {<<"user", "">>}
=============================================================================
