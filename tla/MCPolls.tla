------------------------------- MODULE MCPolls -------------------------------
\* A local account votes, a remote one votes and its vote is delivered twice.
EXTENDS Polls

Sender == [r \in Requests |-> IF r = "here" THEN "a" ELSE "b"]
==============================================================================
