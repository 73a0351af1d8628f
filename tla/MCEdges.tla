------------------------------- MODULE MCEdges -------------------------------
(* Six parts that share no state, one a behaviour: the Redis connection, *)
(* the route limiter, Google tokens, System One, the usage poller and the  *)
(* authentication cache.                                                   *)
EXTENDS Connection, RateLimit, GcpTokens, SystemOne, Poller, AuthCache, TLC

CONSTANTS codexSeat, grokSeat, theKey, xaiKey, k1, k2, k3, someone
VARIABLE part

\* System One: two providers, a model of each that is priced by its own row, and
\* a row whose id is not the name its upstream takes.
N(prefix, name) == [prefix |-> prefix, name |-> name]
R1 == [id |-> N("merge", "m"), provider |-> "merge", upstream |-> "m", price |-> 1]
R2 == [id |-> N("jev", "l"), provider |-> "jev", upstream |-> "l", price |-> 2]
R3 == [id |-> N("merge", "fast"), provider |-> "merge", upstream |-> "v", price |-> 3]
TheCatalogs == {{R1, R2, R3}, {R2}}
TheHostSets == {{"jev"}, {"jev", "merge"}}
TheOwnerOf == [key \in Keys |-> IF key = k3 THEN "jev" ELSE "merge"]
TheAskedFor == {N("any", ""), N("merge", "v"), N("merge", "m"), N("merge", "x")}

\* The poller: bodies that leave a figure out, that disagree, that say a seat is spent or more.
Pool(used, resets) == [there |-> TRUE, used |-> used, resets |-> resets]
NoPool == [there |-> FALSE, used |-> Unsaid, resets |-> Unsaid]
Metered(primary, secondary, allowed) == [primary |-> primary, secondary |-> secondary, allowed |-> allowed]
TheCodexBodies == {Metered(Pool(Unsaid, 1), NoPool, "unsaid"), Metered(Pool(10, 1), Pool(100, 2), "no"),
                   Metered(Pool(10, 1), Pool(140, 2), "yes")}
TheGrokBodies == {[weekly |-> TRUE, used |-> Unsaid, resets |-> Unsaid], [weekly |-> FALSE, used |-> 5, resets |-> 1],
                  [weekly |-> TRUE, used |-> 100, resets |-> 1]}
TheModelLists == {{}} \cup {{[named |-> n, callable |-> may]} : n, may \in BOOLEAN}
TheEnrolments == {{codexSeat}, {grokSeat}, {theKey}, {xaiKey}}

TheOwner == [key \in Key |-> someone]
TheExpires == [key \in Key |-> 1]

Swap == Permutations(Callers) \cup Permutations(Dials)

\* A part that is not being run stays where it may start.
EdgesInit ==
    /\ part \in {"connection", "rate", "mint", "one", "poll", "auth"}
    /\ ConnInit /\ RateInit /\ GcpInit
    /\ OneInit /\ (part # "one" => rowsNow = {R2} /\ hostsNow = {"jev"})
    /\ PollInit /\ (part # "poll" => enrolled = {codexSeat})
    /\ Init /\ (part # "auth" => role = [q \in Principal |-> "member"] /\ \A key \in Key : l2[key] = Nothing)
EdgesNext ==
    /\ UNCHANGED part
    /\ IF part = "connection" THEN ConnNext ELSE UNCHANGED connVars
    /\ IF part = "rate" THEN RateNext ELSE UNCHANGED rateVars
    /\ IF part = "mint" THEN GcpNext ELSE UNCHANGED gcpVars
    /\ IF part = "one" THEN OneNext ELSE UNCHANGED oneVars
    /\ IF part = "poll" THEN PollNext ELSE UNCHANGED pollVars
    /\ IF part = "auth" THEN Next ELSE UNCHANGED vars
EdgesSpec == EdgesInit /\ [][EdgesNext]_<<part, connVars, rateVars, gcpVars, oneVars, pollVars, vars>>
=============================================================================
