------------------------------- MODULE Walk -------------------------------
(***************************************************************************)
(* The plan of pages that DomainWalker draws up for one website            *)
(* (discovery/walker.py, sitemap.py, robots.py, language_gate.py): read    *)
(* the sitemaps; when they name too few promising pages follow links from  *)
(* the homepage; put the offer pages first; drop what may not be fetched;  *)
(* cut to the page cap.                                                    *)
(*                                                                         *)
(* A page is a model value, and what the code reads off its URL is a set   *)
(* it belongs to.  Every request may fail: "lost" is the set of pages and  *)
(* documents this walk does not get.  That of the robots.txt may have      *)
(* failed in an earlier walk: an empty file was cached then (Crawl).       *)
(***************************************************************************)
EXTENDS Naturals, Sequences, FiniteSets, SequencesExt

CONSTANTS
    Page,           \* the pages of all sites
    Doc,            \* robots.txt files and sitemap documents
    RobotsOf,       \* [homepage -> Doc]
    SitemapsOf,     \* [homepage -> Seq(Doc)], what its robots.txt names
    DefaultSitemap, \* [homepage -> Doc], its /sitemap.xml
    IndexDocs,      \* the documents that are sitemap indexes
    LocsOf,         \* [sitemap -> Seq(Doc) of an index, Seq(Page) otherwise]
    LinksOf,        \* [Page -> Seq(Page)], the links of the page's own domain
    KeyOf,          \* [Page -> key], equal for the language or www variants of a page
    Disallowed,     \* pages that their robots.txt refuses
    ForeignSites,   \* homepages in another language
    PromoPages,     \* url_is_promo: the slug of an offer page
    InfoPages,      \* other page types worth a fetch (contacts, loyalty, about)
    Anchored,       \* pages whose link text promises one of those
    ExcludedPages,  \* carts, blogs, product cards
    GeoPages,       \* Russian or Belarusian pages
    CatalogPages,   \* categories of goods, never followed
    Malformed,      \* pages and documents that hold an address urlsplit refuses
    PageCap, SitemapMaxDocs, CollectCap, BfsTriggerMin, BfsMaxDepth, BfsMaxPages

ASSUME WalkAssumption ==
    /\ PageCap \in Nat \ {0}
    /\ {SitemapMaxDocs, CollectCap, BfsTriggerMin, BfsMaxDepth, BfsMaxPages} \subseteq Nat

\* A document that is no sitemap has no addresses.
ASSUME DocumentsAssumption ==
    /\ LinksOf \in [Page -> Seq(Page)]
    /\ \A d \in Doc : LocsOf[d] \in IF d \in IndexDocs THEN Seq(Doc) ELSE Seq(Page)

----------------------------------------------------------------------------
(* Loops over a list.                                                      *)

\* What the list makes of base, one step after the other: step maps what was
\* made of the list so far, and its next element.
Fold(step, base, list) ==
    LET after[n \in 0 .. Len(list)] ==
            IF n = 0 THEN base ELSE step[<<after[n - 1], list[n]>>]
    IN  after[Len(list)]

\* What is in S of a list, in its order.
Only(list, S) ==
    LET kept == S \cap ToSet(list)
    IN  Fold([x \in Seq(kept) \X ToSet(list) |->
                IF x[2] \in S THEN Append(x[1], x[2]) ELSE x[1]], <<>>, list)

Steps(n) == [i \in 1 .. n |-> i]

----------------------------------------------------------------------------
(* What the URL of a page says.                                            *)

Targets == (PromoPages \cup InfoPages) \ ExcludedPages

PageIsTarget(p) == p \in Targets

LinkIsTarget(p) == PageIsTarget(p) \/ p \in Anchored \ ExcludedPages

SeedIsTarget(home) == home \in DOMAIN RobotsOf \/ PageIsTarget(home)

(* A robots.txt that could not be fetched is taken for an empty one: it    *)
(* allows everything and names no sitemap.                                 *)
CanFetch(home, p, lost) == p \in Disallowed => RobotsOf[home] \in lost

IsForeign(home, lost) == home \in ForeignSites \ lost

----------------------------------------------------------------------------
(* The sitemaps: a queue of documents, indexes adding to it, until the     *)
(* document limit or until enough promising pages were collected.          *)

\* The documents still to be read, those read, the pages they name.
Collection == [queue : Seq(Doc), visited : SUBSET Doc, pages : Seq(Page)]

Enough(pages) == CollectCap > 0 /\ Len(Only(pages, Targets)) >= CollectCap

AddLoc(pages, loc) ==
    IF Enough(pages) \/ loc \in ToSet(pages) THEN pages ELSE Append(pages, loc)

AddLocs(pages, locs) == Fold([x \in Seq(Page) \X Page |-> AddLoc(x[1], x[2])], pages, locs)

ReadDoc(c, lost) ==
    LET queue == Only(c.queue, Doc \ c.visited)
        doc   == Head(queue)
        next  == [c EXCEPT !.queue = Tail(queue), !.visited = @ \cup {doc}]
    IN  IF queue = <<>> \/ Enough(c.pages) THEN c
        ELSE IF doc \in lost THEN next
        ELSE IF doc \in IndexDocs THEN [next EXCEPT !.queue = @ \o LocsOf[doc]]
        ELSE [next EXCEPT !.pages = AddLocs(@, LocsOf[doc])]

SitemapList(home, lost) ==
    IF RobotsOf[home] \in lost \/ SitemapsOf[home] = <<>>
    THEN <<DefaultSitemap[home]>>
    ELSE SitemapsOf[home]

CollectSitemaps(home, lost) ==
    Fold([x \in Collection \X Nat |-> ReadDoc(x[1], lost)],
         [queue |-> SitemapList(home, lost), visited |-> {}, pages |-> <<>>], Steps(SitemapMaxDocs))

----------------------------------------------------------------------------
(* Following links: breadth first, a limited depth and number of pages.    *)

Search == [found : Seq(Page), seen : SUBSET Page, visited : SUBSET Page, fetched : Nat,
           frontier : Seq(Page)]

FollowLink(b, p) ==
    LET marked == [b EXCEPT !.seen = @ \cup {p}]
    IN  IF p \in b.seen THEN b
        ELSE IF p \in ExcludedPages \cup GeoPages THEN marked
        ELSE IF LinkIsTarget(p) THEN [marked EXCEPT !.found = Append(@, p)]
        ELSE IF p \in CatalogPages THEN marked
        ELSE [marked EXCEPT !.frontier = Append(@, p)]

VisitPage(b, p, home, lost) ==
    IF b.fetched >= BfsMaxPages \/ ~CanFetch(home, p, lost)
    THEN b
    ELSE Fold([x \in Search \X Page |-> FollowLink(x[1], x[2])],
              [b EXCEPT !.fetched = @ + 1, !.visited = @ \cup {p}],
              IF p \in lost THEN <<>> ELSE LinksOf[p])

Level(b, home, lost) ==
    Fold([x \in Search \X Page |-> VisitPage(x[1], x[2], home, lost)],
         [b EXCEPT !.frontier = <<>>], b.frontier)

Bfs(home, lost) ==
    Fold([x \in Search \X Nat |-> Level(x[1], home, lost)],
         [found |-> <<>>, seen |-> {}, visited |-> {}, fetched |-> 0, frontier |-> <<home>>],
         Steps(BfsMaxDepth))

----------------------------------------------------------------------------
(* The plan.                                                               *)

Found(home, lost) ==
    LET listed == Only(CollectSitemaps(home, lost).pages, Targets)
    IN  IF Len(listed) < BfsTriggerMin THEN listed \o Bfs(home, lost).found ELSE listed

\* Mutant: the pages stay in the order they were found in.
AsFound(pages) == pages

PromoFirst(pages) ==
    Only(pages, PromoPages) \o Only(pages, Page \ PromoPages)

\* Pages the plan must not have.
Refused(home, p, lost) ==
    \/ p = home /\ ~SeedIsTarget(home)
    \/ p \in GeoPages
    \/ ~CanFetch(home, p, lost)

\* Of the variants of a page the first is planned.
Covered(plan, p) == \E q \in ToSet(plan) : KeyOf[q] = KeyOf[p]

Take(plan, p, home, lost) ==
    IF Refused(home, p, lost) \/ Covered(plan, p) \/ Len(plan) >= PageCap
    THEN plan
    ELSE Append(plan, p)

Finalize(home, pages, lost) ==
    Fold([x \in Seq(Page) \X Page |-> Take(x[1], x[2], home, lost)], <<>>, <<home>> \o pages)

(* An address that urlsplit refuses raises outside the handlers that guard *)
(* one document and one page, wherever in the walk it is read.             *)
WalkRaises(home, lost) ==
    LET collected == CollectSitemaps(home, lost)
        followed  == Bfs(home, lost).visited
        listed    == Only(collected.pages, Targets)
    IN  \/ (collected.visited \ lost) \cap Malformed # {}
        \/ Len(listed) < BfsTriggerMin /\ (followed \ lost) \cap Malformed # {}

WalkPlan(home, lost) ==
    IF CanFetch(home, home, lost) /\ IsForeign(home, lost) THEN <<>>
    ELSE IF WalkRaises(home, lost) THEN <<home>>
    ELSE Finalize(home, PromoFirst(Found(home, lost)), lost)

============================================================================
