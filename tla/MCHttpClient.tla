---------------------------- MODULE MCHttpClient ----------------------------
EXTENDS HttpClient, TLC

SharedHost == [r \in Requests |-> "host"]
=============================================================================
