--------------------------- MODULE MCMarketplace ---------------------------
(***************************************************************************)
(* Two auctions.  The search for active ones, where the index finds one    *)
(* auction and the text match of the page both, with room for one card;    *)
(* and the list of upcoming ones without a search.                         *)
(***************************************************************************)
EXTENDS Marketplace, TLC
CONSTANTS a1, a2
MCArgs == {[limit |-> 1, status |-> "ACTIVE", search |-> TRUE],
           [limit |-> 2, status |-> "UPCOMING", search |-> FALSE]}
Filled == [text |-> TRUE, starting |-> 0, increment |-> 1, minutes |-> 10080,
           start |-> "now", image |-> "file", bytes |-> 1874982]
Scheduled == [Filled EXCEPT !.start = "future", !.image = "url"]
\* Each beyond what the API takes in one respect.
Refusable == {[Filled EXCEPT !.text = FALSE], [Filled EXCEPT !.starting = 700001],
              [Filled EXCEPT !.minutes = 10081], [Filled EXCEPT !.start = "past"],
              [Filled EXCEPT !.image = "localUrl"], [Filled EXCEPT !.bytes = 0],
              [Filled EXCEPT !.bytes = 1874983]}
MCForm == {Filled, Scheduled} \union Refusable
============================================================================
