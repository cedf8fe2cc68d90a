----------------------------- MODULE MCProviders -----------------------------
EXTENDS Providers, TLC
Op(op, of) == [op |-> op, of |-> of, texts |-> <<>>]
Embed(texts) == [op |-> IF Len(texts) = 1 THEN "embed" ELSE "batch", of |-> "none", texts |-> texts]
Plan(a, b) ==
  [calls |-> "c1" :> a @@ "c2" :> b, priority |-> [a |-> 1, b |-> 2, c |-> 3], failover |-> TRUE, balancing |-> "priority",
   primary |-> "p", turns |-> 0, reaches |-> 0, expiries |-> 0, cancels |-> 0]
Register == <<Op("register", "a"), Op("register", "b")>>
Failover == Op("failover", "none")
Execute == Op("execute", "none")
Managed ==
  {[Plan(Register \o <<Failover>>, <<Op("check", "none"), Failover>>) EXCEPT !.turns = 2],
   [Plan(Register \o <<Failover, Failover>>, <<Op("unregister", "a"), Op("register", "a")>>) EXCEPT !.turns = 2],
   [Plan(Register \o <<Failover>>, <<Op("start", "none"), Op("stop", "none")>>)
      EXCEPT !.turns = 1, !.failover = FALSE, !.balancing = "random"],
   [Plan(<<Op("start", "none"), Op("register", "a"), Failover>>, <<>>) EXCEPT !.turns = 2],
   [Plan(<<Op("start", "none"), Op("register", "a"), Failover, Op("stop", "none")>>, <<Op("start", "none"), Op("stop", "none")>>)
      EXCEPT !.turns = 2],
   [Plan(Register \o <<Execute>>, <<Op("register", "a")>>) EXCEPT !.turns = 2, !.cancels = 1, !.priority["a"] = 3],
   [Plan(Register \o <<Execute>>, <<Op("unregister", "a"), Op("check", "none")>>) EXCEPT !.turns = 2],
   [Plan(<<Op("register", "a"), Op("regcheck", "none")>>,
         <<Op("register", "b"), Op("unregister", "a"), Op("register", "a")>>) EXCEPT !.turns = 2],
   [Plan(Register \o <<Op("regcheck", "none")>>, <<Op("unregister", "b"), Failover>>)
      EXCEPT !.turns = 1, !.failover = FALSE],
   [Plan(<<Op("register", "c")>> \o Register \o <<Failover>>, <<Execute>>) EXCEPT !.turns = 1]}
SetUp == <<Op("add", "p"), Op("add", "q"), Op("fallback", "q")>>
Embedding2 ==
  {[Plan(SetUp \o <<Embed(<<"s", "t">>)>>, <<Op("primary", "q"), Embed(<<"t">>)>>) EXCEPT !.reaches = 2, !.expiries = 1],
   [Plan(SetUp \o <<Embed(<<"s", "t", "s">>)>>, <<Embed(<<"t">>), Embed(<<"s">>)>>) EXCEPT !.reaches = 2],
   [Plan(<<Op("add", "p"), Embed(<<"s", "t">>)>>,
         <<Op("add", "q"), Op("fallback", "p"), Op("primary", "q"), Embed(<<"s">>)>>)
      EXCEPT !.reaches = 2, !.primary = "q"]}
MCPlans == Managed \cup Embedding2
\* What the failover order comes to: right for two names, wrong for some three.
ASSUME SortedNames(<<"b", "a">>, [a |-> 1, b |-> 2]) = <<"a", "b">>
ASSUME SortedNames(<<"b", "c", "a">>, [a |-> 1, b |-> 2, c |-> 3]) = <<"b", "a", "c">>
=============================================================================
