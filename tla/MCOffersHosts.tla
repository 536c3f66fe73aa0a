-------------------------- MODULE MCOffersHosts --------------------------
(***************************************************************************)
(* Active search (no source): a shop's deal page, the shop's apex page     *)
(* that repeats the deal in other words, and a catalogue host that lists   *)
(* the same target under the name of the shop's subdomain.  Hosts are      *)
(* blocked, unblocked, learned from rejections and registered as           *)
(* directories; sweeps can be lost.                                        *)
(***************************************************************************)
EXTENDS Offers

CONSTANTS shop, sub, cat, dealPage, apex, catPage, t1, ten

deal == [hash |-> "deal", article |-> dealPage, target |-> t1, site |-> shop,
         page |-> shop, provider |-> None, mags |-> {ten}, words |-> {"w", "x"}]
hub == [hash |-> "hub", article |-> apex, target |-> None, site |-> None,
        page |-> shop, provider |-> None, mags |-> {ten}, words |-> {"y"}]
listed == [hash |-> "listed", article |-> catPage, target |-> t1, site |-> cat,
           page |-> cat, provider |-> sub, mags |-> {ten}, words |-> {"x", "w"}]

MCHost == {shop, sub, cat}
MCUnder == [h \in MCHost |-> IF h = shop THEN {shop, sub} ELSE {h}]
MCPayload == {deal, hub, listed}
MCSighting == MCPayload \X {None}
MCHub == {<<apex, dealPage>>}
MCDeep == {dealPage, catPage}
MCBlockable == {shop}
MCDirectory == {cat}
MCHostOf == [a \in {} |-> None]
Empty == {}
===========================================================================
