------------------------------ MODULE ModelRows ------------------------------
(***************************************************************************)
(* The model catalog's table and everything that writes it: `catalog seed`, *)
(* `catalog add`, the console's labels, a built-in provider's price sync,  *)
(* the poller's discovery of new models, an endpoint's list synced with    *)
(* `endpoint sync`, and the reasoning-effort levels; with the ladders that *)
(* name its models.                                                        *)
(*                                                                         *)
(* An id is [provider, vendor, model]: `<provider>/<model>` for a built-in *)
(* provider, `<endpoint>/<vendor>/<model>` for an endpoint.  A price is    *)
(* one number, and a context window is either one somebody stated or the   *)
(* assumed one.                                                            *)
(***************************************************************************)
EXTENDS Integers, Sequences, FiniteSets

CONSTANTS
    Endpoint,        \* the endpoint whose list is synced
    ModelIds,        \* catalog ids, under it and under a built-in provider
    Prices,          \* what a price can be, 0 among them
    Lists,           \* what a list URL may answer: page -> [entries, next]
    XaiLists,        \* what a list of xAI's may say: id -> price, or -1
    Published,       \* PUBLISHED: id -> price
    Overrides,       \* the committed table: id -> levels
    Snapshot,        \* OpenRouter's list: vendor name -> levels
    Stray,           \* ids under the endpoint that another provider's row holds
    Options,         \* [shrink, choice, manages] a sync is run with
    Jobs,            \* commands and sweeps under way
    MaxPages,        \* MAX_PAGES
    MaxWrites,       \* bound: writes of one row, by anyone
    MaxJobs          \* bound: jobs started

VARIABLES
    rows,       \* model_catalog: id -> row, or NoRow
    ladder,     \* ids some route's ladder names
    job,        \* what each job is at
    report,     \* what the last endpoint sync reported, and did
    stated,     \* ghost: id -> the price `catalog add` stated, while no sync has rewritten it
    named,      \* ghost: id -> the label the operator gave
    offered,    \* ghost: id -> the list entry its row was last synced from
    late,       \* ghost: ids put on a ladder after a sync had deleted their row and before it committed
    writes, jobs
modelVars == <<rows, ladder, job, report, stated, named, offered, late, writes, jobs>>

NoRow == [provider |-> ""]
None == "none"
Waiting == [pc |-> "idle"]
Row(provider, price, window, override, label, synced) ==
    [provider |-> provider, price |-> price, window |-> window, override |-> override, label |-> label,
     synced |-> synced, efforts |-> None]

(***************************************************************************)
(* The statements.                                                         *)
(***************************************************************************)
(* upsert_model: never over an override, and never the label.              *)
UpsertUnguarded(row, m) ==
    IF row = NoRow THEN m ELSE [row EXCEPT !.provider = m.provider, !.price = m.price, !.window = m.window]
Upsert(row, m) ==
    IF row = NoRow THEN m
    ELSE IF row.override THEN row
    ELSE [row EXCEPT !.provider = m.provider, !.price = m.price, !.window = m.window]

(* override_model: exactly as the operator states it, and theirs.          *)
Override(row, m) ==
    IF row = NoRow THEN m
    ELSE [m EXCEPT !.label = IF @ = None THEN row.label ELSE @, !.efforts = row.efforts]

UpdatePrices(row, price) == IF row = NoRow \/ row.override THEN row ELSE [row EXCEPT !.price = price]

(* SYNC_MODEL_SQL: over an override too, and only over its own provider's. *)
Mine(row) == row = NoRow \/ row.provider = Endpoint
SyncModel(row, m) ==
    IF row = NoRow THEN m
    ELSE [m EXCEPT !.label = IF row.label = None THEN @ ELSE row.label, !.efforts = row.efforts]

(* DELETE_STALE_SQL: decided in the statement.                             *)
Stale(id) ==
    /\ rows[id] # NoRow /\ rows[id].provider = Endpoint /\ rows[id].synced = Endpoint
    /\ id \notin ladder

(***************************************************************************)
(* Reasoning-effort levels.                                                *)
(***************************************************************************)
Canonical(vendor) == IF vendor = "z-ai" THEN "zai" ELSE vendor
VendorName(id) ==
    IF id.provider # Endpoint THEN <<Canonical(id.provider), id.model>>
    ELSE IF id.vendor = "" THEN << >> ELSE <<Canonical(id.vendor), id.model>>
EffortsOf(id) ==
    IF id \in DOMAIN Overrides THEN Overrides[id]
    ELSE IF VendorName(id) \in DOMAIN Snapshot THEN Snapshot[VendorName(id)] ELSE None

(***************************************************************************)
(* Reading an endpoint's list: every page, or nothing.  A page names the   *)
(* next by a cursor, is the last (0), or claims more and names none (-1).  *)
(***************************************************************************)
NextPage(list, seen, at) ==
    IF list[at].next = 0 THEN "end"
    ELSE IF list[at].next = -1 \/ Cardinality(seen) >= MaxPages \/ list[at].next \in seen THEN "broken"
    ELSE "more"
ReadPages(list) ==
    LET read[at \in DOMAIN list, seen \in SUBSET DOMAIN list] ==
            CASE NextPage(list, seen \cup {at}, at) = "end" -> seen \cup {at}
              [] NextPage(list, seen \cup {at}, at) = "more" -> read[list[at].next, seen \cup {at}]
              [] OTHER -> {}
    IN read[1, {}]
Listed(list) == UNION {list[at].entries : at \in ReadPages(list)}

(* None is a NULL and no endpoint's name, and every page of a list is one  *)
(* its cursors lead to.                                                    *)
ASSUME ModelAssumption ==
    /\ Endpoint # None
    /\ \A list \in Lists :
          /\ ReadPages(list) \in {{}, DOMAIN list}
          /\ \A at \in DOMAIN list : \A e \in list[at].entries :
                e.vendors \in Seq([chat : BOOLEAN, callable : BOOLEAN, price : Int])

(* priced: of the dialect's own list and the one at the origin, the first  *)
(* whose first page prices a model.  One that could not be read (<<>>),    *)
(* names no price or is empty is passed over; one that prices its models   *)
(* and then breaks off is an error, whatever the other says.               *)
Shape(list) ==
    CASE list = << >> -> "unread"
      [] list # << >> /\ list[1].entries = {} -> "empty"
      [] OTHER -> IF \E e \in list[1].entries : e.vendors # << >> THEN "priced" ELSE "unpriced"
PricedList(own, origin) ==
    IF Shape(own) = "priced" THEN own ELSE IF Shape(origin) = "priced" THEN origin ELSE << >>
PricedLists == {PricedList(own, origin) : own, origin \in Lists \cup {<< >>}}

(* choose: the vendor an entry is priced by, or none.  A vendor is         *)
(* [chat, callable, price], with -1 for no price stated.                   *)
Callable(v) == v.chat /\ v.callable
Preferred(vendors, among, choice) ==
    CHOOSE i \in among :
        \A k \in among : IF choice = "first" THEN i <= k ELSE vendors[i].price <= vendors[k].price
PriceOf(entry, among, choice) ==
    IF ~ entry.callable \/ among = {} THEN -1 ELSE entry.vendors[Preferred(entry.vendors, among, choice)].price
ChooseAnyVendor(entry, choice) ==
    PriceOf(entry, {i \in DOMAIN entry.vendors : entry.vendors[i].price > 0}, choice)
Choose(entry, choice) ==
    PriceOf(entry, {i \in DOMAIN entry.vendors : Callable(entry.vendors[i]) /\ entry.vendors[i].price > 0}, choice)

(***************************************************************************)
(* The plan of a sync: what the list says against the rows as they were    *)
(* read.                                                                   *)
(***************************************************************************)
UnderEndpoint == {id \in ModelIds : id.provider = Endpoint}
CatalogRow(price) == Row(Endpoint, price, "stated", TRUE, "listed", Endpoint)
Unchanged(stored, m) ==
    stored.override /\ stored.price = m.price /\ stored.window = m.window /\ stored.label # None

Admitted(j) == {e \in Listed(job[j].list) : e.id \in job[j].manages}
Offers(j) == {e \in Admitted(j) : Choose(e, job[j].choice) > 0}
Fresh(j, e) == CatalogRow(Choose(e, job[j].choice))
Held(j) == {e \in Offers(j) : ~ Mine(job[j].existing[e.id])}
Same(j) == {e \in Offers(j) \ Held(j) : job[j].existing[e.id] # NoRow /\ Unchanged(job[j].existing[e.id], Fresh(j, e))}
ToWrite(j) == Offers(j) \ (Held(j) \cup Same(j))
Synced(j) ==
    {id \in job[j].manages :
        job[j].existing[id] # NoRow /\ job[j].existing[id].provider = Endpoint /\ job[j].existing[id].synced = Endpoint}
Gone(j) == Synced(j) \ {e.id : e \in Admitted(j)}
Ids(entries) == {e.id : e \in entries}
Refused(j, remove) ==
    \/ Offers(j) = {}
    \/ Cardinality(remove) * 2 > Cardinality(Synced(j)) /\ ~ job[j].shrink
Planned(j) ==
    [added |-> Ids({e \in ToWrite(j) : job[j].existing[e.id] = NoRow}),
     updated |-> Ids({e \in ToWrite(j) : job[j].existing[e.id] # NoRow}),
     unchanged |-> Ids(Same(j)), held |-> Ids(Held(j)), removed |-> Gone(j) \ ladder, kept |-> Gone(j) \cap ladder]

(* settle: the report corrected by what the write found.                   *)
Settle(planned, held, removed) ==
    [planned EXCEPT !.added = @ \ held, !.updated = @ \ held, !.held = @ \cup held,
                    !.removed = removed, !.kept = @ \cup (planned.removed \ removed)]

(***************************************************************************)
(* One row at a time.  A row a sync has written or deleted and not         *)
(* committed is locked.                                                    *)
(***************************************************************************)
Taken == UNION {IF job[j].pc \in {"written", "deleted"} THEN job[j].locks ELSE {} : j \in Jobs}
CanWrite(id) == id \notin Taken /\ writes < MaxWrites
Puts(id, row) == rows' = [rows EXCEPT ![id] = row]
JobGoes(j, to) == job' = [job EXCEPT ![j] = to]
CanStart(j) == job[j] = Waiting /\ jobs < MaxJobs

(* A LiteLLM table keeps the last part of a name alone, and no free model. *)
Seed(id) ==
    /\ CanWrite(id) /\ id.vendor = ""
    /\ \E price \in Prices \ {0} : Puts(id, Upsert(rows[id], Row(id.provider, price, "stated", FALSE, None, None)))
    /\ writes' = writes + 1
    /\ UNCHANGED <<ladder, job, report, stated, named, offered, late, jobs>>

AddModel(id) ==
    /\ CanWrite(id)
    /\ \E price \in Prices, label \in {None, "operator's"}, free \in BOOLEAN :
          /\ free <=> price = 0
          /\ Puts(id, Override(rows[id], Row(id.provider, price, "stated", TRUE, label, None)))
          /\ stated' = [stated EXCEPT ![id] = price]
          /\ named' = IF label = None THEN named ELSE [named EXCEPT ![id] = label]
    /\ writes' = writes + 1
    /\ UNCHANGED <<ladder, job, report, offered, late, jobs>>

SetLabel(id) ==
    /\ CanWrite(id) /\ rows[id] # NoRow
    /\ \E label \in {None, "operator's"} :
          /\ Puts(id, [rows[id] EXCEPT !.label = label])
          /\ named' = [named EXCEPT ![id] = label]
    /\ writes' = writes + 1
    /\ UNCHANGED <<ladder, job, report, stated, offered, late, jobs>>

SetTiers(id) ==
    /\ writes < MaxWrites
    /\ ladder' = IF id \in ladder THEN ladder \ {id} ELSE ladder \cup {id}
    /\ late' = IF \E j \in Jobs : job[j].pc = "deleted" /\ id \in job[j].removed THEN late \cup {id} ELSE late
    /\ writes' = writes + 1
    /\ UNCHANGED <<rows, job, report, stated, named, offered, jobs>>

(***************************************************************************)
(* A price sync, and the poller's discovery, read which models are known   *)
(* and then write one row at a time.                                       *)
(***************************************************************************)
Builtins == {id \in ModelIds : id.provider # Endpoint}
PlanPriceSync(id, price, known) == [id |-> id, price |-> price, insert |-> id \notin known]
Known == {id \in Builtins : rows[id] # NoRow}
PricesRead(j) ==
    /\ CanStart(j) /\ jobs' = jobs + 1
    /\ \E price \in Prices \ {0} :
          JobGoes(j, [pc |-> "pricing", changes |-> {PlanPriceSync(id, price, Known) : id \in Builtins}])
    /\ UNCHANGED <<rows, ladder, report, stated, named, offered, late, writes>>

(* The first of the two lists that names a model; -1 where a list states   *)
(* no price.                                                               *)
ProxyList(first, second) == IF DOMAIN first # {} THEN first ELSE second

(* inserts_for: the names the catalog has never seen, priced by the list,  *)
(* by xAI's published table or by the dearest row; and by none, not added. *)
Dearest == LET donors == {rows[id].price : id \in Known} IN
    IF donors = {} THEN 0 ELSE CHOOSE p \in donors : \A q \in donors : q <= p
PriceFor(id, said) == IF said # -1 THEN said ELSE IF id \in DOMAIN Published THEN Published[id] ELSE Dearest
InsertOne(id, price) == [id |-> id, price |-> price, insert |-> TRUE]
InsertsFor(list) ==
    {InsertOne(id, PriceFor(id, list[id])) : id \in {id \in DOMAIN list \ Known : PriceFor(id, list[id]) # 0}}
DiscoverReads(j) ==
    /\ CanStart(j) /\ jobs' = jobs + 1
    /\ \E list \in {ProxyList(first, second) : first, second \in XaiLists} :
          JobGoes(j, [pc |-> "pricing", changes |-> InsertsFor(list)])
    /\ UNCHANGED <<rows, ladder, report, stated, named, offered, late, writes>>

PricesApply(j) ==
    /\ job[j].pc = "pricing"
    /\ IF job[j].changes = {} THEN JobGoes(j, Waiting) /\ UNCHANGED rows
       ELSE \E c \in job[j].changes :
               /\ c.id \notin Taken
               /\ JobGoes(j, [job[j] EXCEPT !.changes = @ \ {c}])
               /\ Puts(c.id, IF c.insert THEN Upsert(rows[c.id], Row(c.id.provider, c.price, "assumed", FALSE, None, None))
                             ELSE UpdatePrices(rows[c.id], c.price))
    /\ UNCHANGED <<ladder, report, stated, named, offered, late, writes, jobs>>

EffortsRead(j) ==
    /\ CanStart(j) /\ jobs' = jobs + 1
    /\ JobGoes(j, [pc |-> "efforts", ids |-> {id \in ModelIds : rows[id] # NoRow}])
    /\ UNCHANGED <<rows, ladder, report, stated, named, offered, late, writes>>
WithEfforts(row, id) == IF row = NoRow THEN row ELSE [row EXCEPT !.efforts = EffortsOf(id)]
EffortsWrite(j) ==
    /\ job[j].pc = "efforts" /\ job[j].ids \cap Taken = {}
    /\ rows' = [id \in ModelIds |-> IF id \in job[j].ids THEN WithEfforts(rows[id], id) ELSE rows[id]]
    /\ JobGoes(j, Waiting)
    /\ UNCHANGED <<ladder, report, stated, named, offered, late, writes, jobs>>

(***************************************************************************)
(* An endpoint's sync: the list, the rows, the ladders; the plan; then one *)
(* transaction of writes, levels and removals.                             *)
(***************************************************************************)
SyncReads(j) ==
    /\ CanStart(j) /\ jobs' = jobs + 1
    /\ \E list \in PricedLists \ {<< >>}, o \in Options :
          /\ ReadPages(list) # {}
          /\ JobGoes(j, [pc |-> "listed", list |-> list, shrink |-> o.shrink, choice |-> o.choice,
                         manages |-> {id \in UnderEndpoint : id.vendor \in o.manages},
                         existing |-> [id \in UnderEndpoint |-> rows[id]]])
    /\ UNCHANGED <<rows, ladder, report, stated, named, offered, late, writes>>

SyncPlans(j) ==
    /\ job[j].pc = "listed"
    /\ JobGoes(j, IF Refused(j, Gone(j) \ ladder) THEN Waiting
                  ELSE [pc |-> "planned", planned |-> Planned(j), write |-> ToWrite(j), manages |-> Ids(ToWrite(j) \cup Same(j)),
                        choice |-> job[j].choice, list |-> job[j].list])
    /\ UNCHANGED <<rows, ladder, report, stated, named, offered, late, writes, jobs>>

SyncDryRun(j) ==
    /\ job[j].pc = "planned"
    /\ JobGoes(j, Waiting)
    /\ UNCHANGED <<rows, ladder, report, stated, named, offered, late, writes, jobs>>

(* The transaction's upserts and levels, seen by nobody yet.               *)
SyncWrites(j) ==
    /\ job[j].pc = "planned" /\ (Ids(job[j].write) \cup job[j].manages) \cap Taken = {}
    /\ LET written == {e \in job[j].write : Mine(rows[e.id])}
           levelled == {id \in job[j].manages : Mine(rows[id]) /\ (rows[id] # NoRow \/ id \in Ids(written))}
           put == [id \in Ids(written) \cup levelled |->
                      WithEfforts(IF id \in Ids(written)
                                  THEN SyncModel(rows[id], Fresh(j, CHOOSE e \in written : e.id = id))
                                  ELSE rows[id], id)]
       IN JobGoes(j, [pc |-> "written", planned |-> job[j].planned, put |-> put, locks |-> DOMAIN put,
                      from |-> written, held |-> Ids(job[j].write \ written), list |-> job[j].list])
    /\ UNCHANGED <<rows, ladder, report, stated, named, offered, late, writes, jobs>>

SyncDeletes(j) ==
    /\ job[j].pc = "written"
    /\ LET removed == {id \in job[j].planned.removed : Stale(id)}
       IN /\ removed \cap (Taken \ job[j].locks) = {}
          /\ JobGoes(j, [pc |-> "deleted", planned |-> job[j].planned, put |-> job[j].put, from |-> job[j].from,
                         held |-> job[j].held, removed |-> removed, locks |-> job[j].locks \cup removed,
                         list |-> job[j].list])
    /\ UNCHANGED <<rows, ladder, report, stated, named, offered, late, writes, jobs>>

Forget(f, ids, to) == [id \in ModelIds |-> IF id \in ids THEN to ELSE f[id]]
SyncCommits(j) ==
    /\ job[j].pc = "deleted"
    /\ LET written == Ids(job[j].from)
           removed == job[j].removed
       IN /\ rows' = [id \in ModelIds |-> IF id \in removed THEN NoRow
                                          ELSE IF id \in DOMAIN job[j].put THEN job[j].put[id] ELSE rows[id]]
          /\ report' = [says |-> Settle(job[j].planned, job[j].held, removed), written |-> written, removed |-> removed,
                        held |-> job[j].held, list |-> job[j].list, stranded |-> (removed \cap ladder) \ late]
          /\ stated' = Forget(stated, written \cup removed, -1)
          /\ named' = Forget(named, removed, None)
          /\ offered' = [id \in ModelIds |-> IF id \in written THEN {CHOOSE e \in job[j].from : e.id = id}
                                             ELSE IF id \in removed THEN {} ELSE offered[id]]
          /\ late' = late \ removed
    /\ JobGoes(j, Waiting)
    /\ UNCHANGED <<ladder, writes, jobs>>

------------------------------------------------------------------------------
NoReport == [says |-> None]
ModelInit ==
    /\ rows = [id \in ModelIds |-> IF id \in Stray THEN Row("other", 1, "stated", FALSE, None, None) ELSE NoRow]
    /\ ladder = {} /\ job = [j \in Jobs |-> Waiting] /\ report = NoReport
    /\ stated = [id \in ModelIds |-> -1] /\ named = [id \in ModelIds |-> None] /\ offered = [id \in ModelIds |-> {}]
    /\ late = {} /\ writes = 0 /\ jobs = 0

JobStep(j) ==
    \/ PricesRead(j) \/ DiscoverReads(j) \/ PricesApply(j) \/ EffortsRead(j) \/ EffortsWrite(j)
    \/ SyncReads(j) \/ SyncPlans(j) \/ SyncDryRun(j) \/ SyncWrites(j) \/ SyncDeletes(j) \/ SyncCommits(j)
ModelNext ==
    \/ \E id \in ModelIds : Seed(id) \/ AddModel(id) \/ SetLabel(id) \/ SetTiers(id)
    \/ \E j \in Jobs : JobStep(j)
ModelSpec == ModelInit /\ [][ModelNext]_modelVars

------------------------------------------------------------------------------
(* What an operator stated with `catalog add` stays as stated through      *)
(* every seed, price sync, discovery and level write, planned before it or *)
(* after it, until a sync of a list that prices the same id rewrites it.   *)
OperatorsRowKept ==
    \A id \in ModelIds : stated[id] >= 0 =>
        rows[id] # NoRow /\ rows[id].price = stated[id] /\ rows[id].override

(* A label the operator gave a model survives every other writer.          *)
LabelsSurvive == \A id \in ModelIds : named[id] # None => rows[id] # NoRow /\ rows[id].label = named[id]

(* An endpoint's sync takes no model out from under a ladder, however old  *)
(* its plan, unless the ladder was written while the removal was already   *)
(* executed and not yet committed; and removes nothing that any page of    *)
(* the list it read names.                                                 *)
SyncRemovesOnlyStale ==
    report # NoReport =>
        /\ report.removed \cap UNION {Ids(report.list[at].entries) : at \in DOMAIN report.list} = {}
        /\ report.stranded = {}

(* The report of a sync says what its transaction did, not what its plan   *)
(* meant to: written, removed and left to another provider.                *)
ReportIsTrue ==
    report # NoReport =>
        /\ report.says.added \cup report.says.updated = report.written
        /\ report.says.removed = report.removed
        /\ report.held \subseteq report.says.held

(* A row a list priced costs what the cheapest vendor that can serve it    *)
(* for chat charges, or the first one where that was asked for, and never  *)
(* nothing; and its levels are the committed table's wherever that names   *)
(* it.                                                                     *)
PricedByAVendor ==
    \A id \in ModelIds : rows[id] # NoRow =>
        /\ rows[id].synced = Endpoint =>
             /\ rows[id].price > 0
             /\ \E e \in offered[id] : \E i \in DOMAIN e.vendors :
                   Callable(e.vendors[i]) /\ e.vendors[i].price = rows[id].price
        /\ rows[id].efforts # None /\ id \in DOMAIN Overrides => rows[id].efforts = Overrides[id]

(* What an operator stated or labelled survives seeds, syncs and jobs.     *)
RowsKept == OperatorsRowKept /\ LabelsSurvive

(* A sync removes only what the list no longer has, reports what it did    *)
(* and prices a model as some vendor of it does.                           *)
SyncIsTrue == SyncRemovesOnlyStale /\ ReportIsTrue /\ PricedByAVendor
=============================================================================
