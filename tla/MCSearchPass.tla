---------------------------- MODULE MCSearchPass ----------------------------
(***************************************************************************)
(* The search pass for TLC, with both providers in their default order.    *)
(* DuckDuckGo finds one website for both phrases, and attributes it to the *)
(* first; what SearXNG finds for the second can be told apart from it.     *)
(* The channel is not protected by a revisit cooldown.                     *)
(***************************************************************************)
EXTENDS SearchPass

both == <<"ddg", "searxng">>

first == <<"site", "chan">>

second == [ddg |-> <<"site">>, searxng |-> <<"shop", "chan">>]

serp == [by \in Engines |-> [k \in Keys |-> IF k[1] = 1 THEN second[by]
                                            ELSE IF by = "ddg" THEN first ELSE <<>>]]
=============================================================================
