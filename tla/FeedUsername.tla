---------------------------- MODULE FeedUsername ----------------------------
(***************************************************************************)
(* The names of the RSS bridge (internal/rss/feed.go, db.go): what is left *)
(* of a webfinger resource after cleaning, and the local username derived  *)
(* from a feed's URL.                                                      *)
(*                                                                         *)
(* A string is a sequence of symbols. A lower-case word or number is one   *)
(* symbol ("www", "xml", "a"); capitals, separators and all other          *)
(* characters are symbols of their own. "A" stands for the capitals.       *)
(***************************************************************************)
EXTENDS Naturals, Sequences, SequencesExt

CONSTANTS LongPath,    \* symbols a path may have before it is hashed (20 characters)
          OwnHost      \* the symbol standing for config.GetHost()

ASSUME LongPathAssumption == LongPath \in Nat

\* A feed's URL without its scheme.
FeedUrl == [host : Seq(STRING), path : Seq(STRING), query : Seq(STRING)]

\* Symbols outside [a-z0-9_\.], the class mastoCharsRg lets through.
NotMasto == {"A", "-", "/", "?", "@", ":"}

StripPrefix(p, s) == IF IsPrefix(p, s) THEN SubSeq(s, Len(p) + 1, Len(s)) ELSE s
StripSuffix(p, s) == IF IsSuffix(p, s) THEN SubSeq(s, 1, Len(s) - Len(p)) ELSE s

TolUsernameDB(s) == [i \in DOMAIN s |-> IF s[i] = "A" THEN "a" ELSE s[i]]

\* hostRg: one of the two prefixes, and the server's own host at the end.
Cleaned(resource) ==
    LET r == StripSuffix(<<"@", OwnHost>>, resource)
    IN  IF IsPrefix(<<"@">>, r) THEN StripPrefix(<<"@">>, r)
                                ELSE StripPrefix(<<"acct", ":">>, r)

HasHttp(s) == IsPrefix(<<"http">>, s)

\* The URL that is fetched: the protocol is added when it is missing.
Url(cleaned) == IF HasHttp(cleaned) THEN cleaned ELSE <<"http", ":", "/", "/">> \o cleaned

\* cleanPathRg: the leftmost match wins, so the longer endings come first.
CleanPath(path) ==
    LET endings == << <<"/", "atom", ".", "xml">>, <<"/", "rss", ".", "xml">>,
                      <<".", "xml">>, <<".", "rss">>, <<".", "atom">> >>
        match == {i \in DOMAIN endings : IsSuffix(endings[i], path)}
    IN  IF match = {} THEN path
        ELSE StripSuffix(endings[CHOOSE i \in match : \A j \in match : i <= j], path)

CleanHost(host) == StripPrefix(<<"www", ".">>, host)

\* xxhash.Sum64String as a number in decimal: one symbol for each argument.
Hash(pathQuery) == FoldLeft(LAMBDA acc, s : acc \o s, "h", pathQuery)

\* The username of a feed: capitals of the path are replaced like any other
\* character outside the class, for the lower-casing comes last.
DbUsername(f) ==
    LET path == CleanPath(f.path)
    IN  IF Len(path) > LongPath \/ f.query # <<>>
        THEN TolUsernameDB(CleanHost(f.host) \o <<".", Hash(f.path \o <<"?">> \o f.query)>>)
        ELSE TolUsernameDB(CleanHost(f.host) \o
                [i \in DOMAIN path |-> IF path[i] \in NotMasto THEN "." ELSE path[i]])

=============================================================================
