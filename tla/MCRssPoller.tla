----------------------------- MODULE MCRssPoller -----------------------------
\* RssPoller for TLC: a site may leave items without a readable date.
EXTENDS RssPoller

AnyDated == Dates \cup {Undated}

==============================================================================
