------------------------------ MODULE Endpoints ------------------------------
(***************************************************************************)
(* Upstreams an operator registers: the endpoint table, its writers (the   *)
(* admin API and the CLI, under one set of rules), the credentials and     *)
(* models that name an endpoint, and the replica that reloads the table    *)
(* into the registry names are parsed by and the maps requests are served  *)
(* from.                                                                   *)
(*                                                                         *)
(* An absent text column is "".  A base URL is [host, https, tidy, more,   *)
(* flaw]: whose host it is, the scheme, whether it is spelt as the parser  *)
(* spells it, whether a path or a port follows the host, and what is wrong *)
(* with the text, "" for nothing.                                          *)
(***************************************************************************)
EXTENDS Integers, FiniteSets

CONSTANTS
    Names,        \* endpoint names
    Drafts,       \* what writers try to register
    Patches,      \* what writers try to change: [field, value, moveKeys]
    Handwritten,  \* rows put in the table past the writers' rules
    Editors,      \* admin handlers and CLI commands
    Referrers,    \* transactions that write a credential or a model
    Reloaders,    \* tasks of the replica that reload
    MaxEdits,     \* bound: changes to the table
    MaxRefs,      \* bound: credentials and models written
    MaxReloads    \* bound: reloads

VARIABLES
    table,      \* name -> its row, or None
    clock,      \* now()
    refs,       \* committed rows naming an endpoint; url is a ghost, see KeysStay
    edit,       \* what each writer is doing
    refer,      \* what each transaction is doing
    locked,     \* name -> the editor holding it FOR UPDATE, or Nobody
    meant,      \* ghost: name -> the fields successful writers last asked for
    registry,   \* EndpointRegistry: name -> the row it was made from
    adapters,   \* the chat adapters, by name
    upstreams,  \* the System One upstreams, by name
    reload,     \* what each reload is at
    turn,       \* who holds RELOADS
    edits, referred, reloads
endpointVars == <<table, clock, refs, edit, refer, locked, meant, registry, adapters, upstreams, reload, turn,
                  edits, referred, reloads>>
tableVars == <<table, clock, meant, edits>>
replicaVars == <<registry, adapters, upstreams, reload, turn, reloads>>

Absent == [name |-> ""]
Nobody == "nobody"
Idle == [pc |-> "idle"]
Over(new, old) == [x \in DOMAIN new \cup DOMAIN old |-> IF x \in DOMAIN new THEN new[x] ELSE old[x]]

(***************************************************************************)
(* What an endpoint row may say.  The rules of the columns, each under the *)
(* reason it refuses for.                                                  *)
(***************************************************************************)
NoUrl == [host |-> "", https |-> FALSE, tidy |-> TRUE, more |-> FALSE, flaw |-> ""]

IsUrl(url) == url = [part \in {"host", "https", "tidy", "more", "flaw"} |-> url[part]] /\ (url.host = "" => url = NoUrl)
Columns == {"name", "dialect", "platform", "auth", "region", "project", "version", "path", "headers", "label"}
IsEndpoint(row) ==
    row = [column \in Columns \cup {"url", "stamp"} |-> row[column]] /\ IsUrl(row.url) /\ row.stamp \in Nat

(* A name is no built-in's, canonical or alias, and none kept for later.   *)
Builtin(name) == name \in {"openai", "grok"}
ValidateName(name) == ~ Builtin(name) /\ name \notin {"oag", "codex"}
ASSUME EndpointAssumption ==
    /\ \A row \in Drafts \cup Handwritten : IsEndpoint(row)
    /\ \A input \in Drafts : ValidateName(input.name) => input.name \in Names
    /\ \A patch \in Patches : patch.field \in Columns \/ (patch.field = "url" /\ IsUrl(patch.value))
    /\ Nobody \notin Editors \cup Reloaders
FromEndpointColumn == {"openai", "anthropic", "gemini", "system_one", "bedrock_converse"}

Speaks(platform, dialect) ==
    CASE platform = "plain" -> dialect \in {"openai", "anthropic", "gemini", "system_one"}
      [] platform = "azure" -> dialect = "openai"
      [] platform = "aws" -> dialect \in {"anthropic", "bedrock_converse"}
      [] platform = "gcp" -> dialect \in {"gemini", "anthropic"}
      [] OTHER -> FALSE
AuthStyles == {"bearer", "x_api_key", "x_goog_api_key", "api_key_header", "none"}
DefaultAuth(platform) ==
    CASE platform = "azure" -> "api_key_header"
      [] platform = "aws" -> "none"
      [] OTHER -> "bearer"
Suits(auth, platform) == auth \in AuthStyles /\ (platform # "plain" => auth = DefaultAuth(platform))
Regional(platform) == platform \in {"aws", "gcp"}

(* A region is a label; only some labels are an AWS region's, and Vertex   *)
(* serves a multi-region at a host of its own.                             *)
IsLocation(value) == value \in {"aws-region", "gcp-region", "multi", "project"}
IsAwsRegion(value) == value = "aws-region"
LocationBroken(value, required) == IF value = "" THEN required ELSE ~ IsLocation(value)
PathBroken(value, dialect) == value # "" /\ (dialect # "system_one" \/ value # "segments")
VersionBroken(value, platform) == platform = "azure" /\ value \notin {"", "date"}
HeaderPairsBroken(headers) == headers = "not strings"

(* A base URL that is one at all, where it may point, and how it is stored. *)
CatalogUrl(url) == url.flaw \notin {"credentials", "metadata", "scheme"}
NormaliseBaseUrl(url) == url.flaw # "query"
PlainRefusedHost(url, platform) == platform = "plain" /\ url.host = "builtin"
AzureBaseUrl(url) == url.host = "azure" /\ url.https /\ ~ url.more
IsHttpsOrLoopback(url) == url.https \/ url.host = "loopback"
EndpointBaseUrl(url, platform) ==
    IF /\ url.flaw # "control" /\ CatalogUrl(url) /\ NormaliseBaseUrl(url)
       /\ ~ PlainRefusedHost(url, platform)
       /\ platform = "azure" => AzureBaseUrl(url)
       /\ platform = "gcp" => IsHttpsOrLoopback(url)
    THEN [url EXCEPT !.tidy = TRUE] ELSE Absent

Reasons == {"name", "dialect", "platform", "auth", "base_url", "region", "project", "path", "api_version", "headers"}
Broken(row) ==
    {reason \in Reasons :
        CASE reason = "name" -> ~ ValidateName(row.name)
          [] reason = "dialect" -> row.dialect \notin FromEndpointColumn
          [] reason = "platform" -> ~ Speaks(row.platform, row.dialect)
          [] reason = "auth" -> ~ Suits(row.auth, row.platform)
          [] reason = "base_url" -> IF row.url = NoUrl THEN ~ Regional(row.platform)
                                    ELSE EndpointBaseUrl(row.url, row.platform) = Absent
          [] reason = "region" -> \/ LocationBroken(row.region, Regional(row.platform))
                                  \/ row.platform = "aws" /\ ~ IsAwsRegion(row.region)
                                  \/ row.platform = "gcp" /\ row.url = NoUrl /\ row.region = "multi"
          [] reason = "project" -> LocationBroken(row.project, row.platform = "gcp")
          [] reason = "path" -> PathBroken(row.path, row.dialect)
          [] reason = "api_version" -> VersionBroken(row.version, row.platform)
          [] OTHER -> HeaderPairsBroken(row.headers)}

(* Headers an endpoint may not add: the transport's and the key's, and on  *)
(* aws the ones SigV4 signs.                                               *)
HeadersRefused(row) == row.headers = "reserved" \/ (row.headers = "x-amz" /\ row.platform = "aws")

(* checked: the row a writer stores for a draft, or Absent.                *)
CheckedColumnsOnly(draft) ==
    IF Broken(draft) # {} THEN Absent
    ELSE [draft EXCEPT !.url = IF @ = NoUrl THEN NoUrl ELSE EndpointBaseUrl(@, draft.platform)]
Checked(draft) ==
    IF Broken(draft) # {} \/ HeadersRefused(draft) THEN Absent
    ELSE [draft EXCEPT !.url = IF @ = NoUrl THEN NoUrl ELSE EndpointBaseUrl(@, draft.platform)]

(* The factory: the adapter, or the System One upstream, a row is served by. *)
AwsServes(row) == IsAwsRegion(row.region) /\ row.dialect \in {"anthropic", "bedrock_converse"}
AzureServes(row) == row.dialect = "openai" /\ Suits(row.auth, "azure")
GcpServes(row) == IsLocation(row.region) /\ IsLocation(row.project) /\ row.dialect \in {"gemini", "anthropic"}
Adapter(row) ==
    CASE row.platform = "aws" -> AwsServes(row)
      [] row.platform = "azure" -> AzureServes(row)
      [] row.platform = "gcp" -> GcpServes(row)
      [] OTHER -> row.dialect \in {"openai", "anthropic", "gemini"}
SystemOne(row) == row.dialect = "system_one" /\ row.platform = "plain"
Served(row) ==
    IF row.dialect = "system_one" THEN (IF SystemOne(row) THEN "system_one" ELSE "nothing")
    ELSE IF Adapter(row) THEN "chat" ELSE "nothing"
Refusal(row) == Broken(row) # {} \/ HeadersRefused(row) \/ Served(row) = "nothing"

(* The schema's CHECKs.                                                    *)
Admits(row) ==
    /\ row.auth \in AuthStyles
    /\ Speaks(row.platform, row.dialect)
    /\ row.url = NoUrl => Regional(row.platform)
    /\ Regional(row.platform) => row.region # ""
    /\ row.platform = "gcp" => row.project # ""

(* Whether the change sends requests somewhere else: the stored URL in its *)
(* normal spelling against the new one.                                    *)
MovesBaseUrl(stored, to) ==
    LET from == IF stored.url = NoUrl THEN NoUrl ELSE EndpointBaseUrl(stored.url, stored.platform)
    IN (IF from = Absent THEN stored.url ELSE from) # to

(***************************************************************************)
(* Writers.                                                                *)
(***************************************************************************)
References(name) == {r \in refs : r.name = name}
Accounts(name) == {r \in References(name) : r.kind \in {"account", "disabled"}}
Apply(row, patch) == [row EXCEPT ![patch.field] = patch.value]
CanEdit(e) == edit[e] = Idle /\ edits < MaxEdits
Goes(e, to) == edit' = [edit EXCEPT ![e] = to]

(* register: the rules, then the insert, which a name in use or the        *)
(* schema's CHECKs refuse.  A draft with no key style has its platform's.  *)
Insertable(row) == row # Absent /\ Admits(row) /\ table[row.name] = Absent
Draft(input) == [input EXCEPT !.auth = IF @ = "" THEN DefaultAuth(input.platform) ELSE @]
Register(e) ==
    /\ CanEdit(e)
    /\ \E input \in Drafts :
          LET row == Checked(Draft(input))
          IN /\ Insertable(row)
             /\ table' = [table EXCEPT ![row.name] = [row EXCEPT !.stamp = clock]]
             /\ meant' = [meant EXCEPT ![row.name] = << >>]
    /\ edits' = edits + 1
    /\ UNCHANGED <<clock, refs, edit, refer, locked, replicaVars, referred>>

(* PATCH and the CLI's set read the row their draft is made from.  Only    *)
(* set may move keys, and only it reads once more when someone else wrote  *)
(* the row meanwhile.                                                      *)
Reads(e, patch, again) ==
    \E name \in Names :
       /\ table[name] # Absent
       /\ Goes(e, [pc |-> "read", stored |-> table[name], patch |-> patch, again |-> again])
Fixed == {"name", "dialect", "platform"}
UpdateEndpoint(e) ==
    /\ CanEdit(e)
    /\ \E patch \in Patches : ~ patch.moveKeys /\ patch.field \notin Fixed /\ Reads(e, patch, FALSE)
    /\ UNCHANGED <<tableVars, refs, refer, locked, replicaVars, referred>>
SetEndpoint(e) ==
    /\ CanEdit(e)
    /\ \E patch \in Patches : patch.field \notin Fixed /\ Reads(e, patch, TRUE)
    /\ UNCHANGED <<tableVars, refs, refer, locked, replicaVars, referred>>
ReadAgain(e, row) ==
    IF row = Absent \/ ~ edit[e].again THEN Idle
    ELSE [pc |-> "read", stored |-> row, patch |-> edit[e].patch, again |-> FALSE]

(* change, up to the write: the rules, and the keys that would move.       *)
CountKeys(e, stored, patch, draft) ==
    MovesBaseUrl(stored, draft.url) /\ ~ patch.moveKeys => Accounts(stored.name) = {}
Check(e) ==
    /\ edit[e].pc = "read"
    /\ LET draft == Checked(Apply(edit[e].stored, edit[e].patch))
       IN IF draft = Absent \/ ~ CountKeys(e, edit[e].stored, edit[e].patch, draft) THEN Goes(e, Idle)
          ELSE Goes(e, [pc |-> "checked", stored |-> edit[e].stored, patch |-> edit[e].patch,
                        again |-> edit[e].again, draft |-> draft, keys |-> Accounts(draft.name)])
    /\ UNCHANGED <<tableVars, refs, refer, locked, replicaVars, referred>>

Later(stamp) == IF clock > stamp THEN clock ELSE stamp + 1

(* update_endpoint: over the row that was read, and no other.              *)
UpdatedBlind(row, seen) == row # Absent
Updated(row, seen) == row # Absent /\ row.stamp = seen
Write(e) ==
    /\ edit[e].pc = "checked"
    /\ LET name == edit[e].stored.name
           row == table[name]
           patch == edit[e].patch
       IN /\ locked[name] = Nobody
          /\ IF Updated(row, edit[e].stored.stamp)
             THEN /\ table' = [table EXCEPT ![name] = [edit[e].draft EXCEPT !.stamp = Later(row.stamp)]]
                  /\ meant' = [meant EXCEPT ![name] = Over([f \in {patch.field} |-> edit[e].draft[f]], @)]
                  /\ refs' = {[r EXCEPT !.url = IF r.name = name /\ (patch.moveKeys \/ r \notin edit[e].keys)
                                                 THEN edit[e].draft.url ELSE @] : r \in refs}
                  /\ edits' = edits + 1
                  /\ Goes(e, Idle)
             ELSE /\ Goes(e, ReadAgain(e, row))
                  /\ UNCHANGED <<table, meant, refs, edits>>
    /\ UNCHANGED <<clock, refer, locked, replicaVars, referred>>

(* delete_endpoint: the lock, the count, the delete, in one transaction.   *)
Sharing(name) == {t \in Referrers : refer[t].pc = "holding" /\ refer[t].ref.held /\ refer[t].ref.name = name}
Lock(e) ==
    \E name \in Names :
       /\ table[name] # Absent /\ locked[name] = Nobody /\ Sharing(name) = {}
       /\ Goes(e, [pc |-> "locked", name |-> name])
       /\ locked' = [locked EXCEPT ![name] = e]
DeleteLocks(e) ==
    /\ CanEdit(e) /\ Lock(e)
    /\ UNCHANGED <<tableVars, refs, refer, replicaVars, referred>>

DeleteCounts(e) ==
    /\ edit[e].pc = "locked"
    /\ LET name == edit[e].name
       IN IF References(name) # {}
          THEN Goes(e, Idle) /\ locked' = [locked EXCEPT ![name] = Nobody]
          ELSE Goes(e, [pc |-> "counted", name |-> name]) /\ UNCHANGED locked
    /\ UNCHANGED <<tableVars, refs, refer, replicaVars, referred>>

DeleteCommits(e) ==
    /\ edit[e].pc = "counted"
    /\ table' = [table EXCEPT ![edit[e].name] = Absent]
    /\ locked' = [locked EXCEPT ![edit[e].name] = Nobody]
    /\ meant' = [meant EXCEPT ![edit[e].name] = << >>]
    /\ Goes(e, Idle)
    /\ edits' = edits + 1
    \* Registered again, it is registered later.
    /\ clock' = IF table[edit[e].name] = Absent THEN clock ELSE Later(table[edit[e].name].stamp)
    /\ UNCHANGED <<refs, refer, replicaVars, referred>>

(***************************************************************************)
(* A credential or a catalog model naming an endpoint: the trigger locks   *)
(* the row it names, if there is one, and finds it gone if it waited for a *)
(* delete.                                                                 *)
(***************************************************************************)
ReferBegins(t) ==
    /\ refer[t] = Idle /\ referred < MaxRefs
    /\ \E name \in Names, kind \in {"account", "disabled", "model"} :
          LET ref == [name |-> name, kind |-> kind, held |-> table[name] # Absent,
                      url |-> IF table[name] # Absent THEN table[name].url ELSE NoUrl]
          IN refer' = [refer EXCEPT ![t] = [pc |-> IF ref.held THEN "asking" ELSE "holding", ref |-> ref]]
    /\ referred' = referred + 1
    /\ UNCHANGED <<tableVars, refs, edit, locked, replicaVars>>

ReferLocks(t) ==
    /\ refer[t].pc = "asking" /\ locked[refer[t].ref.name] = Nobody
    /\ refer' = [refer EXCEPT ![t] = IF table[@.ref.name] = Absent THEN Idle ELSE [@ EXCEPT !.pc = "holding"]]
    /\ UNCHANGED <<tableVars, refs, edit, locked, replicaVars, referred>>

ReferCommits(t) ==
    /\ refer[t].pc = "holding"
    /\ refs' = refs \cup {LET row == table[refer[t].ref.name]
                          IN IF row = Absent THEN refer[t].ref ELSE [refer[t].ref EXCEPT !.url = row.url]}
    /\ refer' = [refer EXCEPT ![t] = Idle]
    /\ UNCHANGED <<tableVars, edit, locked, replicaVars, referred>>

Unrefer ==
    /\ \E r \in refs : refs' = refs \ {r}
    /\ UNCHANGED <<tableVars, edit, refer, locked, replicaVars, referred>>

(***************************************************************************)
(* The replica: reload_catalog, one at a time.                             *)
(***************************************************************************)
Loaded(rows, kind) ==
    LET names == {n \in Names : rows[n] # Absent /\ ~ Refusal(rows[n]) /\ Served(rows[n]) \in kind}
    IN [n \in names |-> rows[n]]
TakeTurn == turn = Nobody
At(r, step) == reload[r].pc = step
Step(r, to) == reload' = [reload EXCEPT ![r].pc = to]
ReloadReads(r) ==
    /\ At(r, "idle") /\ TakeTurn /\ reloads < MaxReloads
    /\ turn' = r /\ reloads' = reloads + 1
    /\ reload' = [reload EXCEPT ![r] = [pc |-> "read", rows |-> table]]
    /\ UNCHANGED <<tableVars, refs, edit, refer, locked, referred, registry, adapters, upstreams>>

(* A table that cannot be read keeps the endpoints already loaded.         *)
ReloadFails(r) ==
    /\ At(r, "idle") /\ TakeTurn /\ reloads < MaxReloads
    /\ reloads' = reloads + 1
    /\ UNCHANGED <<tableVars, refs, edit, refer, locked, referred, registry, adapters, upstreams, reload, turn>>

Bridge(r, kind, current) == Over(Loaded(reload[r].rows, kind), current)
BridgeAdapters(r) ==
    /\ At(r, "read") /\ Step(r, "adapters")
    /\ adapters' = Bridge(r, {"chat"}, adapters)
    /\ UNCHANGED <<tableVars, refs, edit, refer, locked, referred, registry, upstreams, turn, reloads>>
BridgeUpstreams(r) ==
    /\ At(r, "adapters") /\ Step(r, "upstreams")
    /\ upstreams' = Bridge(r, {"system_one"}, upstreams)
    /\ UNCHANGED <<tableVars, refs, edit, refer, locked, referred, registry, adapters, turn, reloads>>
Install(r) ==
    /\ At(r, "upstreams") /\ Step(r, "installed")
    /\ registry' = Loaded(reload[r].rows, {"chat", "system_one"})
    /\ UNCHANGED <<tableVars, refs, edit, refer, locked, referred, adapters, upstreams, turn, reloads>>
DropAdapters(r) ==
    /\ At(r, "installed") /\ Step(r, "dropped")
    /\ adapters' = Loaded(reload[r].rows, {"chat"})
    /\ UNCHANGED <<tableVars, refs, edit, refer, locked, referred, registry, upstreams, turn, reloads>>
DropUpstreams(r) ==
    /\ At(r, "dropped")
    /\ upstreams' = Loaded(reload[r].rows, {"system_one"})
    /\ reload' = [reload EXCEPT ![r] = Idle]
    /\ turn' = Nobody
    /\ UNCHANGED <<tableVars, refs, edit, refer, locked, referred, registry, adapters, reloads>>

------------------------------------------------------------------------------
Nothing == [n \in {} |-> Absent]
EndpointInit ==
    /\ table \in {t \in [Names -> Handwritten \cup {Absent}] : \A n \in Names : t[n] # Absent => t[n].name = n}
    /\ clock = 1 /\ refs = {} /\ locked = [n \in Names |-> Nobody] /\ meant = [n \in Names |-> << >>]
    /\ edit = [e \in Editors |-> Idle] /\ refer = [t \in Referrers |-> Idle]
    /\ registry = Nothing /\ adapters = Nothing /\ upstreams = Nothing
    /\ reload = [r \in Reloaders |-> Idle] /\ turn = Nobody
    /\ edits = 0 /\ referred = 0 /\ reloads = 0

EditorStep(e) ==
    Register(e) \/ UpdateEndpoint(e) \/ SetEndpoint(e) \/ Check(e) \/ Write(e) \/ DeleteLocks(e) \/ DeleteCounts(e) \/ DeleteCommits(e)
ReferrerStep(t) == ReferBegins(t) \/ ReferLocks(t) \/ ReferCommits(t)
ReloaderStep(r) ==
    \/ ReloadReads(r) \/ ReloadFails(r) \/ BridgeAdapters(r) \/ BridgeUpstreams(r)
    \/ Install(r) \/ DropAdapters(r) \/ DropUpstreams(r)
EndpointNext ==
    \/ \E e \in Editors : EditorStep(e)
    \/ \E t \in Referrers : ReferrerStep(t)
    \/ Unrefer
    \/ \E r \in Reloaders : ReloaderStep(r)
EndpointSpec == EndpointInit /\ [][EndpointNext]_endpointVars

------------------------------------------------------------------------------
(* Three readers judge one row: the writer, the schema and the reload.     *)
(* What a writer stored, or changed, the schema admits, every reload       *)
(* serves, and writing it again as it stands moves nothing.                *)
WrittenIsServed ==
    \A n \in Names : table[n] # Absent /\ table[n] \notin Handwritten =>
        /\ Admits(table[n]) /\ ~ Refusal(table[n])
        /\ Checked(table[n]) = table[n] /\ ~ MovesBaseUrl(table[n], table[n].url)

(* No successful change is undone by another that never saw it: each field *)
(* holds what the last writer who asked for that field asked for, however  *)
(* reads and writes of several writers interleave, a delete and a new      *)
(* registration of the name between them included.                        *)
NoLostUpdate ==
    \A n \in Names : table[n] # Absent =>
        \A field \in DOMAIN meant[n] : table[n][field] = meant[n][field]

(* A removed endpoint leaves no credential and no model naming it, but for *)
(* one whose write began before the endpoint was there.                    *)
NothingStranded == \A r \in refs : r.held => table[r.name] # Absent

(* A key goes where its endpoint pointed when it was filed, unless someone *)
(* who may move keys moved it, or it was filed while the change that moved *)
(* the endpoint was already past its count.                                *)
KeysStay ==
    \A r \in refs : r.kind # "model" /\ r.held /\ table[r.name] # Absent =>
        [r.url EXCEPT !.tidy = TRUE] = [table[r.name].url EXCEPT !.tidy = TRUE]

(* At no instant of a reload does a name parse to an endpoint that nothing *)
(* here serves, in the map its dialect is looked up in; and when no reload *)
(* is under way the registry and the maps are of one reading of the table. *)
RegisteredIsServed ==
    /\ \A n \in DOMAIN registry :
          n \in IF registry[n].dialect = "system_one" THEN DOMAIN upstreams ELSE DOMAIN adapters
    /\ (\A r \in Reloaders : reload[r] = Idle) =>
          /\ DOMAIN registry = DOMAIN adapters \cup DOMAIN upstreams
          /\ \A n \in DOMAIN registry :
                registry[n] = IF n \in DOMAIN upstreams THEN upstreams[n] ELSE adapters[n]

(* What was written is served: a row a writer stored loads on every        *)
(* reload, and while one is being loaded none that was served goes away.   *)
ServedAsWritten == WrittenIsServed /\ RegisteredIsServed

(* Writers that race leave what one of them after the other would have:    *)
(* no lost change, nothing that names a deleted endpoint, no key on        *)
(* another's host.                                                         *)
WritersSerialise == NoLostUpdate /\ NothingStranded /\ KeysStay
=============================================================================
