------------------------------ MODULE MCCrawl ------------------------------
(***************************************************************************)
(* Small webs for Crawl.  uaw is a second spelling of ua, as https://www.h *)
(* is of https://h: the same key on another host.  What robots.txt says of *)
(* a page is read from a file by RobotsTxt.                                *)
(***************************************************************************)
EXTENDS Crawl, RobotsTxt, TLC

CONSTANTS ua, uaw, ub, uc, ud, ue, uf, ug, h1, h2, hw

\* A robots.txt as sites write it, one whose last line repeats the agent, and one that
\* is not there.
UsualFile == << <<"user-agent:", "*">>, <<"crawl-delay:", 5>>, <<"disallow:", "/d">> >>
RepeatingFile == Append(UsualFile, <<"user-agent:", "*">>)
NoFile == <<>>

\* The delay that fetchPageRulesAndOffers takes from a file.
DelayOf(file) == IF file = NoFile THEN None ELSE RuleFor(ParseRobotsTxt(file)).delay

DisallowedBy(file, path) == {u \in DOMAIN path : ~IsAllowed(ParseRobotsTxt(file), path[u])}

\* A web with a cycle, a diamond, pages found again nearer to the start, a page with a
\* sitemap (ug), a second site (uc, ue and uf), and one level too many for MaxDepth = 3 (uf).
WebURLs == {ua, uaw, ub, uc, ud, ue, uf, ug}
WebKeys == WebURLs \ {uaw}
WebKey == [u \in WebURLs |-> IF u = uaw THEN ua ELSE u]
WebHosts == {h1, hw, h2}
WebHost == [u \in WebURLs |-> IF u = uaw THEN hw ELSE IF u \in {uc, ue, uf} THEN h2 ELSE h1]
WebLinks ==
  (ua :> <<ub, uc>>) @@ (uaw :> <<ub, uc>>) @@ (ub :> <<uc, ud, ug>>) @@ (uc :> <<uaw, ue>>)
    @@ (ud :> <<ua>>) @@ (ue :> <<ub, uf>>) @@ (uf :> <<>>) @@ (ug :> <<ua>>)
WebOrigin == {<<l, p>> \in WebURLs \X WebURLs : (l \in {uc, ue, uf}) <=> (p \in {uc, ue, uf})}
WebSitemaps == {ug}
WebFile == [u \in WebURLs |-> CASE u = ub -> RepeatingFile [] u = ue -> UsualFile [] OTHER -> NoFile]
WebDelay == [u \in WebURLs |-> DelayOf(WebFile[u])]

\* Four pages of one site: a chain from ub with a shortcut and a way back, whose second page
\* comes under either of its spellings first.
ChainURLs == {ua, uaw, ub, uc, ud}
ChainKeys == ChainURLs \ {uaw}
ChainLinks ==
  (ub :> <<ud, ua>>) @@ (ud :> <<uaw>>) @@ (ua :> <<uc, ub>>) @@ (uaw :> <<uc, ub>>) @@ (uc :> <<ud>>)
ChainKey == [u \in ChainURLs |-> IF u = uaw THEN ua ELSE u]
ChainHosts == {h1, hw}
ChainHost == [u \in ChainURLs |-> IF u = uaw THEN hw ELSE h1]
ChainOrigin == ChainURLs \X ChainURLs

\* A tree of three levels on one site, but for uf.  The robots.txt of the site disallows uc.
TreeURLs == {ua, ub, uc, ud, ue, uf, uaw}
TreeLinks ==
  [u \in TreeURLs |-> CASE u = ua -> <<ub, uc>> [] u = ub -> <<ud, uf, ue>> [] u = uc -> <<uaw>>
                       [] OTHER -> <<>>]
TreeKey == [u \in TreeURLs |-> u]
TreeHosts == {h1, h2}
TreeHost == [u \in TreeURLs |-> IF u = uf THEN h2 ELSE h1]
TreeOrigin == {<<l, p>> \in TreeURLs \X TreeURLs : (l = uf) <=> (p = uf)}
TreeDelay == [u \in TreeURLs |-> DelayOf(RepeatingFile)]
TreePath == [u \in TreeURLs |-> IF u = uc THEN "/d/e" ELSE "/b"]
TreeDisallowed == DisallowedBy(RepeatingFile, TreePath)

NoDelay == [u \in URLs |-> DelayOf(NoFile)]

NoURLs == {}
StartA == <<ua>>
StartB == <<ub>>
StartAlias == <<ua, uaw>>
=============================================================================
