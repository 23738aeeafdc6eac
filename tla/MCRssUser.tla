----------------------------- MODULE MCRssUser -----------------------------
\* Small sites for RssUser. Scheme prefixes are the symbols "http", ":", "/", "/".
EXTENDS RssUser, TLC

\* The feeds have names of their own.
ASSUME ServedApart == NamesApart

Scheme == <<"http", ":", "/", "/">>

Feed(h, p) == [host |-> h, path |-> p, query |-> <<>>]

\* a has a page that links to its feed, and a second feed with capitals; the
\* query of the third makes its name a hash.
SitePlain ==
    (Scheme \o <<"A">>) :> Feed(<<"www", ".", "A">>, <<"/", "atom", ".", "xml">>)
    @@ (Scheme \o <<"A", "/", "b", ".", "rss">>) :> Feed(<<"A">>, <<"/", "b", ".", "rss">>)
    @@ (Scheme \o <<"A", "/", "b", "?", "c">>) :>
        [host |-> <<"A">>, path |-> <<"/", "b">>, query |-> <<"c">>]

ResourcesPlain ==
    { <<"A">>, <<"acct", ":", "a", "@", OwnHost>>, <<"A", "/", "b", ".", "rss">>,
      Scheme \o <<"A", "/", "b", ".", "rss">>, <<"@", "a", ".", "b">>,
      <<"A", "/", "b", "?", "c">>, <<"nowhere">> }
=============================================================================
