------------------------------- MODULE MCFleet -------------------------------
(* The rows a gateway is configured by, one part a behaviour: endpoints,   *)
(* all that can be written by one writer (rules) and few rows by writers   *)
(* that race (races); the models of an endpoint and of a built-in provider,*)
(* with two jobs at once (rows); the services operators list (services).   *)
EXTENDS Endpoints, ModelRows, Services, TLC

VARIABLE part

Url(host, https, tidy, more, flaw) == [host |-> host, https |-> https, tidy |-> tidy, more |-> more, flaw |-> flaw]
Own == Url("own", FALSE, TRUE, TRUE, "")
Endp(name, dialect, platform, url, auth, region, project) ==
    [name |-> name, dialect |-> dialect, platform |-> platform, url |-> url, auth |-> auth, region |-> region,
     project |-> project, version |-> "", path |-> "", headers |-> "", label |-> "", stamp |-> 0]
Chat == Endp("e", "openai", "plain", Own, "bearer", "", "")
Urls == {NoUrl, Own, Url("own", FALSE, FALSE, TRUE, ""), Url("builtin", TRUE, TRUE, FALSE, ""), Url("azure", TRUE, FALSE, FALSE, ""),
         Url("azure", TRUE, TRUE, TRUE, ""), Url("loopback", FALSE, TRUE, FALSE, ""), Url("own", TRUE, TRUE, FALSE, "query"), Url("own", TRUE, TRUE, FALSE, "metadata")}
\* One of each kind that is right, and what is wrong with it one column at a time.
Right == {Chat, Endp("e", "system_one", "plain", Own, "none", "", ""),
          Endp("e", "openai", "azure", Url("azure", TRUE, TRUE, FALSE, ""), "api_key_header", "", ""),
          Endp("e", "bedrock_converse", "aws", NoUrl, "none", "aws-region", ""),
          Endp("e", "gemini", "gcp", NoUrl, "bearer", "gcp-region", "project"),
          Endp("e", "anthropic", "gcp", Url("loopback", FALSE, TRUE, FALSE, ""), "bearer", "multi", "project")}
ManyDrafts ==
    UNION {{[row EXCEPT !.url = url] : url \in Urls}
           \cup {[row EXCEPT !.dialect = d] : d \in {"openai", "anthropic", "system_one", "bedrock_converse", "responses"}}
           \cup {[row EXCEPT !.platform = p] : p \in {"plain", "aws", "gcp", "azure", "other"}}
           \cup {[row EXCEPT !.auth = a] : a \in {"", "bearer", "none", "x_api_key", "other"}}
           \cup {[row EXCEPT !.region = g] : g \in {"", "aws-region", "gcp-region", "multi", "bad"}}
           \cup {[row EXCEPT !.project = p] : p \in {"", "bad"}}
           \cup {[row EXCEPT !.path = p] : p \in {"segments", "dots"}}
           \cup {[row EXCEPT !.version = v] : v \in {"date", "bad"}}
           \cup {[row EXCEPT !.headers = h] : h \in {"plain", "reserved", "x-amz", "not strings"}}
           \cup {[row EXCEPT !.name = "openai"]} : row \in Right}
Patch(field, value, moveKeys) == [field |-> field, value |-> value, moveKeys |-> moveKeys]
MorePatches == {Patch("dialect", "anthropic", FALSE), Patch("label", "a", FALSE), Patch("label", "b", FALSE), Patch("auth", "none", FALSE), Patch("headers", "x-amz", FALSE),
              Patch("url", Url("own", TRUE, FALSE, FALSE, ""), FALSE), Patch("url", Url("loopback", FALSE, FALSE, FALSE, ""), TRUE)}
MCHandwritten == {[Chat EXCEPT !.headers = "reserved"], [Chat EXCEPT !.url.tidy = FALSE],
                  [Endp("e", "system_one", "plain", Own, "none", "", "") EXCEPT !.path = "dots"]}
FewPatches == {Patch("label", "a", FALSE), Patch("url", Url("own", TRUE, FALSE, FALSE, ""), FALSE)}
FewDrafts == {[Chat EXCEPT !.url.tidy = FALSE]}
Rules == INSTANCE Endpoints WITH Drafts <- ManyDrafts, Editors <- {CHOOSE e \in Editors : TRUE}, Referrers <- {},
                                 MaxReloads <- 1, Patches <- MorePatches

A == [provider |-> "ep", vendor |-> "zai", model |-> "m"]
B == [provider |-> "ep", vendor |-> "", model |-> "m"]
S == [provider |-> "ep", vendor |-> "zai", model |-> "s"]
C == [provider |-> "xai", vendor |-> "", model |-> "m"]
TheIds == {A, B, S, C}

Vendor(chat, callable, price) == [chat |-> chat, callable |-> callable, price |-> price]
Entry(id, vendors) == [id |-> id, callable |-> TRUE, vendors |-> vendors]
Sold(id) == Entry(id, << Vendor(TRUE, TRUE, 2), Vendor(TRUE, TRUE, 1) >>)
Freebie(id) == Entry(id, << Vendor(TRUE, TRUE, 0), Vendor(FALSE, TRUE, 1), Vendor(TRUE, TRUE, 2) >>)
Unserved(id) == [id |-> id, callable |-> FALSE, vendors |-> << Vendor(TRUE, TRUE, 1) >>]
Page(entries, next) == [entries |-> entries, next |-> next]
TheLists ==
    { << Page({Entry(B, << >>)}, 0) >>,
      << Page({Sold(A), Freebie(B), Sold(S)}, 0) >>,
      << Page({Freebie(A)}, 0) >>,
      << Page({Sold(B)}, 2), Page({Unserved(A)}, 0) >>,
      << Page({Sold(A)}, 2), Page({Sold(B)}, 1) >>,
      << Page({Sold(A)}, -1) >>,
      << Page({Sold(A)}, 2), Page({}, 3), Page({Sold(B)}, 0) >> }
TheXaiLists == { << >>, [id \in {C} |-> -1], [id \in {C} |-> 1] }
ThePublished == [id \in {C} |-> 2]
TheOverrides == [id \in {A} |-> "table"]
TheSnapshot == [name \in {<<"zai", "m">>, <<"xai", "m">>} |-> "listed"]
TheOptions ==
    { [shrink |-> FALSE, choice |-> "cheapest", manages |-> {"zai", ""}],
      [shrink |-> TRUE, choice |-> "first", manages |-> {"zai"}] }
TheStray == {S}

Swap == Permutations(Editors) \cup Permutations(Referrers) \cup Permutations(Reloaders)

Init ==
    /\ EndpointInit /\ ModelInit /\ ServiceInit /\ part \in {"rules", "races", "rows", "services"}
    /\ part \in {"rows", "services"} => \A n \in Names : table[n] = Absent
    /\ part = "races" => \A n \in Names : table[n] \in {Absent, [Chat EXCEPT !.url.tidy = FALSE]}
Next ==
    /\ \/ part = "rules" /\ Rules!EndpointNext /\ UNCHANGED <<modelVars, serviceVars>>
       \/ part = "races" /\ EndpointNext /\ UNCHANGED <<modelVars, serviceVars>>
       \/ part = "rows" /\ ModelNext /\ UNCHANGED <<endpointVars, serviceVars>>
       \/ part = "services" /\ ServiceNext /\ UNCHANGED <<endpointVars, modelVars>>
    /\ UNCHANGED part
Spec == Init /\ [][Next]_<<endpointVars, modelVars, serviceVars, part>>
=============================================================================
