----------------------------- MODULE MCHarvest -----------------------------
(***************************************************************************)
(* The active pass for TLC: a shop that is a source already, is searched   *)
(* by its site: query and also has a news page and a catalogue of other    *)
(* businesses; a medium that carries other people's offers; a site in      *)
(* English, which the catalogue names and of which the search may find a   *)
(* page about a Russian city.  The feed rotates through the last two.      *)
(***************************************************************************)
EXTENDS Harvest

shop == <<"shop", "ua">>
medium == <<"medium", "com">>
english == <<"english", "com">>

page(h, p, bypass) == [url |-> [host |-> h, path |-> {p}], ref |-> Append(h, p), bypass |-> bypass]

sites == {shop, medium, english}
kinds == [h \in sites |-> CASE h = shop -> {"business", "portal", "catalogue"}
                            [] h = medium -> {"offer"}
                            [] h = english -> {"foreign"}]
credits == [h \in sites |-> h]
active == {shop}
tagged == {shop}
moderated == {medium}
named == {english}
rotation == <<Root(medium), Root(english)>>
searches == {<<page(english, "spb", FALSE)>>, <<>>}
results == {page(english, "spb", FALSE), page(shop, "promo", TRUE), page(shop, "blog", TRUE)}
candidates == results \cup {Root(h) : h \in sites}
answers == {<<page(shop, "promo", TRUE), page(shop, "blog", TRUE)>>}
============================================================================
