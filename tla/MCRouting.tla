------------------------------ MODULE MCRouting ------------------------------
(* Three parts that share no state, one a behaviour: routing, the schema's  *)
(* deploys and readiness, and what operators enrol from the command line.  *)
EXTENDS Routing, Schema, Enrolment

CONSTANTS d1, d2, d3
VARIABLE part

Spec(id, provider, upstream, price, window, caps, order) ==
    [id |-> id, provider |-> provider, upstream |-> upstream, input |-> price, output |-> price,
     window |-> window, caps |-> caps, order |-> order]
A == Plain(<<"anthropic", "m">>)
O == Plain(<<"openai", "m">>)
E == Plain(<<"box", "m">>)
V == [path |-> <<"openai", "v">>, at |-> <<"1">>]
M == Plain(<<"m">>)
K == Plain(<<"k">>)
\* m at two built-ins, one of them renamed to k; the same name at an endpoint; an id that
\* holds an @; and a row that has another's alias for its id and its id for an upstream name.
MCSpecs == {Spec(A, "anthropic", M, 1, 4, {}, 1), Spec(A, "anthropic", K, 1, 4, {}, 1),
            Spec(O, "openai", M, 2, 4, {"vision"}, 2), Spec(E, "box", M, 0, 2, {"vision"}, 3),
            Spec(V, "openai", [path |-> <<"v">>, at |-> <<"1">>], 3, 8, {"vision"}, 4),
            Spec(Alias(O), "anthropic", Plain(<<"openai", "m">>), 1, 4, {}, 5)}
Rung(name, ids) == [name |-> name, models |-> ids]
MCLadders == {<<Rung("cheap", <<A>>), Rung("balanced", <<E, A>>), Rung("frontier", <<O, V>>)>>,
              <<Rung("cheap", <<O, E>>), Rung("top", <<V, A>>)>>}
MCAccepts == [anthropic |-> {"api", "sub"}, openai |-> {"api"}, box |-> {"api"}]
Row(provider, kind, mine, schedulable, limited, remaining, reserve, served) ==
    [provider |-> provider, kind |-> kind, mine |-> mine, schedulable |-> schedulable, limited |-> limited,
     remaining |-> remaining, reserve |-> reserve, served |-> served]
MCRows == {Row("anthropic", "sub", "yes", TRUE, FALSE, 2, 2, {M}), Row("anthropic", "sub", "yes", TRUE, FALSE, 2, -1, {M}),
           Row("anthropic", "sub", "nobody", TRUE, FALSE, -1, -1, Unasked),
           Row("anthropic", "api", "nobody", TRUE, FALSE, -1, -1, Unasked),
           Row("openai", "api", "nobody", TRUE, FALSE, -1, -1, Unasked),
           Row("openai", "api", "nobody", TRUE, TRUE, 0, -1, {M}), Row("box", "api", "yes", FALSE, FALSE, -1, -1, {M})}
Ask(name, header, caps, prompt) ==
    [name |-> name, header |-> header,
     signal |-> [tier |-> "", caps |-> caps, prompt |-> prompt, output |-> 1, agentic |-> FALSE]]
MCAsks == {Ask(A, "", {}, 1), Ask(M, "", {}, 1), Ask(Plain(<<"anthropic", "m">>), "cheap", {"vision"}, 1),
               Ask([A EXCEPT !.at = <<"sub">>], "", {}, 1), Ask([O EXCEPT !.at = <<"sub">>], "", {}, 1), Ask([K EXCEPT !.at = <<"x">>], "", {}, 1),
               Ask(Alias(O), "", {}, 5), Ask(V, "", {}, 3), Ask(Plain(<<"oag", "auto">>), "nonsense", {}, 3),
               Ask(Plain(<<"oag", "cheap">>), "", {"vision"}, 1), Ask(Plain(<<"oag", "auto">>), "frontier", {}, 1),
               Ask(Plain(<<"anthropic", "oag", "top">>), "", {}, 1), Ask(Plain(<<"box", "z">>), "", {}, 1),
               Ask(Plain(<<"nobody", "z">>), "", {}, 1)}
\* Two releases deploy beside a gateway of an age between them.
TheEmbeds == [m1 |-> 1, m2 |-> 3, g1 |-> 2]

\* Keys and sessions under names that collide, an import of two sessions whose
\* rows are numbered, and a box whose key is one person's.
TheOffers == [anthropic |-> <<"api_key">>, xai |-> <<"api_key", "oauth">>, openai |-> <<"api_key", "oauth">>,
              box |-> <<"api_key">>]
TheBoxes == [box |-> TRUE]
Add(source, name, provider, owner, way) ==
    [does |-> "add", source |-> source, name |-> name, provider |-> provider, owner |-> owner, route |-> "r",
     shared |-> FALSE, typed |-> way = "typed", env |-> way = "env", sessions |-> IF way = "two" THEN 2 ELSE 1]
TheAdds == {Add("key", <<"a">>, "anthropic", NoOne, "typed"), Add("key", <<"a", "1">>, "box", "p", "env"),
            Add("grok", <<"a">>, "xai", "p", "two"), Add("codex", <<"b">>, "openai", "p", "env"),
            Add("key", <<"b">>, "box", NoOne, "typed")}
TheBinds == {[does |-> "bind", name |-> <<"a">>, owner |-> "p"]}
TheRenames == {[does |-> "rename", from |-> <<"a">>, to |-> <<"b">>], [does |-> "rename", from |-> <<"b">>, to |-> <<"a">>]}
TheReserves == {-1, 0, 50, 101}
TheRungs == {<<{"anthropic"}, {"xai", "anthropic"}>>, <<{"anthropic"}>>, <<{}>>}
Enrolee(name, provider, kind, owner) ==
    [there |-> TRUE, name |-> name, provider |-> provider, kind |-> kind, owner |-> owner,
     schedulable |-> TRUE, cooling |-> FALSE, held |-> FALSE, on |-> {"r"}]
TheLegacy == {<< >>,
              (d1 :> Enrolee(<<"a">>, "anthropic", "api_key", NoOne)) @@ (d2 :> Enrolee(<<"b">>, "box", "api_key", "q")),
              (d1 :> Enrolee(<<"a">>, "xai", "oauth", NoOne)) @@ (d2 :> Enrolee(<<"a">>, "anthropic", "api_key", NoOne))}

Swap == Permutations(Accounts) \cup Permutations(Operators)

\* A part that is not being run stays where it may start.
MCInit ==
    /\ part \in {"routing", "schema", "enrolment"}
    /\ IF part = "routing" THEN RoutingInit
       ELSE /\ models = << >> /\ byUpstream = << >> /\ pressure = "normal" /\ request = None /\ decision = None
            /\ inserts = 0 /\ edits = 0
            /\ route = [ladder |-> CHOOSE l \in Ladders : TRUE, mode |-> "managed", floor |-> "", keyFloor |-> ""]
            /\ account = [a \in Accounts |-> Row("openai", "api", "nobody", TRUE, FALSE, -1, -1, Unasked)]
    /\ SchemaInit /\ (part # "schema" => applied = << >>)
    /\ EnrolInit /\ (part # "enrolment" => Enrolled = {} /\ people = {"p"} /\ routes = << >>)
MCNext ==
    /\ UNCHANGED part
    /\ IF part = "routing" THEN RoutingNext ELSE UNCHANGED routingVars
    /\ IF part = "schema" THEN SchemaNext ELSE UNCHANGED schemaVars
    /\ IF part = "enrolment" THEN EnrolNext ELSE UNCHANGED enrolVars
MCSpec == MCInit /\ [][MCNext]_<<part, routingVars, schemaVars, enrolVars>>
==============================================================================
