------------------------------- MODULE MCCrawl -------------------------------
(***************************************************************************)
(* The passive pass for TLC: a website and a channel, two at a time.  The  *)
(* sitemap index of the site leads to itself and to a document that lists  *)
(* a contacts page before an offer page; that is too little, so links are  *)
(* followed, through a page that is no target, to a second offer page, to  *)
(* its English variant and past pages to be left alone.  The cap leaves    *)
(* room for the homepage and two of them.  Without robots.txt the default  *)
(* sitemap is read, which is not there: the first offer page is not found. *)
(***************************************************************************)
EXTENDS Crawl

pageSet == {"home", "offers", "akcii", "akcii_en", "contact", "hub", "cart", "spb", "chan"}
robotsOf == [h \in {"home"} |-> "robots"]
sitemapsOf == [h \in {"home"} |-> <<"index">>]
defaultSitemap == [h \in {"home"} |-> "sitemap"]
locsOf == [d \in {"robots", "index", "urls", "sitemap"} |->
             CASE d = "index" -> <<"index", "urls">>
               [] d = "urls" -> <<"contact", "offers", "cart">>
               [] OTHER -> <<>>]
linksOf == [p \in pageSet |->
              CASE p = "home" -> <<"home", "hub", "spb">>
                [] p = "hub" -> <<"akcii_en", "akcii", "cart">>
                [] OTHER -> <<>>]
keyOf == [p \in pageSet |-> IF p = "akcii_en" THEN "akcii" ELSE p]
homeOf == [s \in {"site", "tg"} |-> IF s = "site" THEN "home" ELSE "chan"]
=============================================================================
