---------------------------- MODULE MCDereference ----------------------------
EXTENDS Dereference

CONSTANTS s1, s2, u1, r1, a1

\* s2 replies to s1, both are by a1; u1 is the URL of s1 and r1 redirects to it.
\* a1's server forms its URIs the way the lock of an account name does.
SmallCanon     == [x \in {s1, s2, u1, r1} |-> IF x = s2 THEN s2 ELSE s1]
SmallAuthor    == [s \in {s1, s2} |-> a1]
SmallInReplyTo == [s \in {s1, s2} |-> IF s = s2 THEN s1 ELSE NoStatus]
SmallNameKey   == [a \in {a1} |-> a1]

ASSUME SmallNamesAsURIs == NamesAsURIs
ASSUME SmallThreadsShort == ThreadsShort
=============================================================================
