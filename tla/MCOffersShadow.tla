-------------------------- MODULE MCOffersShadow --------------------------
(***************************************************************************)
(* One sourced page whose discount changes and changes back, with every    *)
(* ruling an admin or the judge can make: the page says 10, 20, or both    *)
(* (which still covers either).  Three rows are a live offer, its shadow   *)
(* and an older generation.  StaleAge is 0: a live offer may go stale at   *)
(* any moment, which is every timing of the daily expiry at once.          *)
(***************************************************************************)
EXTENDS Offers

CONSTANTS s1, h1, a1, ten, twenty

page(h, m) == [hash |-> h, article |-> a1, target |-> None, site |-> h1,
               page |-> h1, provider |-> None, mags |-> m, words |-> {h}]
p10 == page("h10", {ten})
p20 == page("h20", {twenty})
both == page("h30", {ten, twenty})

MCSource == {s1}
MCHost == {h1}
MCUnder == [h \in MCHost |-> {h}]
MCPayload == {p10, p20, both}
MCSighting == MCPayload \X {s1}
MCHostOf == [a \in {a1} |-> h1]
MCDeep == {a1}
Empty == {}
===========================================================================
