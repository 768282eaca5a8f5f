----------------------------- MODULE MCSiteCrawl -----------------------------
(* Small sites for SiteCrawl.                                               *)
EXTENDS SiteCrawl, TLC

CONSTANTS home, a, b, c, d

\* A sitemap page, links in both directions and a redirect of c to a.
MCLinks == home :> {a, b, c, d} @@ a :> {home} @@ b :> {a} @@ c :> {b}
           @@ d :> {home}
MCFinalUrl == home :> home @@ a :> a @@ b :> b @@ c :> a
              @@ d :> d
MCSitemap == {b}
=============================================================================
