------------------------- MODULE MCOffersPromote -------------------------
(***************************************************************************)
(* A deal first found by active search, published, promoted to a source of *)
(* its shop and then crawled again under that source, unchanged or with a  *)
(* new discount.  Two rows of sources may hold the shop's origin or a      *)
(* deeper URL of it, and an admin may change which.                        *)
(***************************************************************************)
EXTENDS Offers

CONSTANTS shop, dealPage, s1, s2, origin, inner, ten, twenty

page(h, m) == [hash |-> h, article |-> dealPage, target |-> None, site |-> shop,
               page |-> shop, provider |-> None, mags |-> {m}, words |-> {h}]
p10 == page("h10", ten)
p20 == page("h20", twenty)

MCSource == {s1, s2}
MCAddress == {origin, inner}
MCHost == {shop}
MCUnder == [h \in MCHost |-> {h}]
MCPayload == {p10, p20}
MCSighting == {<<p10, None>>, <<p10, s1>>, <<p20, s1>>}
MCDeep == {dealPage}
MCHostOf == [a \in MCAddress |-> shop]
MCOrigin == {origin}
MCEntry == {p10}
Empty == {}
===========================================================================
