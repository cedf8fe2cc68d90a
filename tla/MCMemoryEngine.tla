--------------------------- MODULE MCMemoryEngine ---------------------------
EXTENDS MemoryEngine
Offer(names, session, tier) == [names |-> names, session |-> session, tier |-> tier]
MCOffers ==
  <<{Offer({"y"}, "", "core"), Offer({"y"}, "s1", "general")},
    {Offer({"x", "y"}, "s1", "general"), Offer({"y"}, "", "core")}>>
MCNameSeq == <<"x", "y">>
MCSession == {"s1", "s2", ""}
MCNoSource == <<0, "none">>
MCStacks ==
  {[graph |-> "inmemory", vector |-> "inmemory", consistent |-> TRUE],
   [graph |-> "sqlite", vector |-> "sqlite", consistent |-> TRUE],
   [graph |-> "redis", vector |-> "redis", consistent |-> FALSE],
   [graph |-> "neo4j", vector |-> "qdrant", consistent |-> FALSE]}
MCRequests ==
  {[session |-> "s1", relate |-> <<"x", "y">>, forget |-> <<>>, tell |-> {}],
   [session |-> "s2", relate |-> <<>>, forget |-> <<"y">>, tell |-> {"x", "y"}]}
=============================================================================
