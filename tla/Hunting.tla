------------------------------ MODULE Hunting ------------------------------
(***************************************************************************)
(* Threat hunting (backend/app/services/hunting.py, hunting/query.py and   *)
(* hunting/pivots.py behind api/hunting.py): searches and pivots over the  *)
(* event store that all tenants share, hunts that are saved and run later, *)
(* and exports (their ration and record are in HuntExports).               *)
(*                                                                         *)
(* A request that is refused (a field the mapping does not declare, an     *)
(* operator without a translation, somebody else's hunt, a query that      *)
(* OpenSearch rejects) changes nothing and is left out. Saved hunts are    *)
(* audited as well; nothing reads that.                                    *)
(* Free text in command_line is an analyzed match and is not modelled.     *)
(***************************************************************************)
EXTENDS Conditions, HuntExports

CONSTANTS
    StoredEvent,      \* event ids
    EventDoc,         \* the normalized document of each
    Hunt,             \* ids of saved hunts
    PivotValue,       \* the values they pivot on
    MappedField,      \* paths the mapping declares at first
    Limit,            \* the limits requests ask for
    MAX_VALUE_LIMIT,  \* 500: the most values a pivot lists
    TRACKED,          \* how far OpenSearch counts hits: 10000 by default
    MaxHuntWork       \* bound: requests altogether

ASSUME HuntConstants ==
    /\ MAX_VALUE_LIMIT \in 1..MAX_LIMIT /\ TRACKED \in Nat \ {0}
    /\ MaxHuntWork \in Nat
    /\ \A d, e \in StoredEvent :
         EventDoc[d].object["timestamp"] = EventDoc[e].object["timestamp"] => d = e

VARIABLES
    store,            \* events that are indexed
    known,            \* the paths normalized_mapping declares
    saved,            \* rows of saved_hunts
    answer,           \* the answer the last step gave, with the store it was asked of
    huntWork          \* requests so far

huntVars == <<store, known, saved, answer, exportVars, huntWork>>

NoFilter == [none |-> TRUE]
NoHunt == [owner |-> <<>>]
NoAnswer == [asked |-> [nothing |-> TRUE]]

HuntInit ==
    /\ store = {}
    /\ known = MappedField
    /\ saved = [h \in Hunt |-> NoHunt]
    /\ answer = NoAnswer
    /\ ExportsInit

HuntRequest == huntWork < MaxHuntWork /\ huntWork' = huntWork + 1

(* The indexer worker. *)
IndexEvent(e) ==
    /\ e \notin store
    /\ store' = store \cup {e}
    /\ answer' = NoAnswer
    /\ UNCHANGED <<known, saved, exportVars, huntWork>>

(* A release whose mapping declares one field less. *)
Deploy(f) ==
    /\ known = MappedField
    /\ known' = known \ {f}
    /\ answer' = NoAnswer
    /\ UNCHANGED <<store, saved, exportVars, huntWork>>

-----------------------------------------------------------------------------
FREE_TEXT_FIELDS ==
    <<<<"hostname">>, <<"user", "name">>, <<"process", "name">>, <<"process", "cmd_line">>,
     <<"domain">>, <<"url">>,
     <<"hash", "md5">>, <<"hash", "sha1">>, <<"hash", "sha256">>, <<"source_ip">>,
     <<"destination_ip">>, <<"mitre_techniques">>, <<"event_code">>, <<"class">>>>

validate_filter_fields(n) == {c.path : c \in _leaf_conditions(n)} \subseteq known

(* compile_filters: whether it compiles; compile_conditions is the result. *)
compile_filters(n) == validate_filter_fields(n) /\ unsupported_operators(n) = {}

_validate_query(q) == q.filters # NoFilter => compile_filters(q.filters)

compile_free_text(text) ==
    LET pattern == <<"*">> \o _escape_wildcard(text) \o <<"*">>
        fields == SelectSeq(FREE_TEXT_FIELDS, LAMBDA f : TypeOf(f) = "keyword") IN
    Should([k \in DOMAIN fields |-> Wildcard(fields[k], pattern, TRUE)])

(* compile_time_range: 0 stands for a bound that is not given. *)
compile_time_range(since, until) ==
    LET At(op, n) == [range |-> <<"timestamp">>, op |-> op, value |-> Number(n)] IN
    Bool((IF since = 0 THEN <<>> ELSE <<At("gte", since)>>)
           \o (IF until = 0 THEN <<>> ELSE <<At("lte", until)>>), <<>>)

TenantTerm(t) == Term(<<"tenant_id">>, Text(t), FALSE)

(* Mutant of build_query: the tenant's term is left out. *)
BuildUnscoped(t, q) ==
    Bool((IF q.free_text = <<>> THEN <<>> ELSE <<compile_free_text(q.free_text)>>)
         \o (IF q.filters = NoFilter THEN <<>> ELSE <<compile_conditions(q.filters)>>)
         \o <<compile_time_range(q.since, q.until)>>, <<>>)

build_query(t, q) ==
    Bool(<<TenantTerm(t)>>
         \o (IF q.free_text = <<>> THEN <<>> ELSE <<compile_free_text(q.free_text)>>)
         \o (IF q.filters = NoFilter THEN <<>> ELSE <<compile_conditions(q.filters)>>)
         \o <<compile_time_range(q.since, q.until)>>, <<>>)

Time(e) == EventDoc[e].object["timestamp"].number
Clamped(limit, most) == IF limit < 1 THEN 1 ELSE Least(limit, most)
(* The request schemas refuse any other; run_saved takes a bare number. *)
LimitIsValid(limit) == limit \in 1..MAX_LIMIT

(* OpenSearch: the first of the hits in order of time, and their number as *)
(* far as it is counted.                                                   *)
Found(clause) == {e \in store : Hits(clause, EventDoc[e])}

Page(hits, limit, ascending) ==
    LET sorted == SetToSortSeq(hits, LAMBDA d, e : IF ascending THEN Time(d) < Time(e)
                                                   ELSE Time(d) > Time(e)) IN
    SubSeq(sorted, 1, Least(limit, Len(sorted)))

(* Whether the cluster answers at all: it rejects a value its field cannot *)
(* take, which _validate_query does not look at, and the request fails.    *)
Answerable(t, q) == ~Refused(build_query(t, q))

execute_search(t, q, limit) ==
    LET hits == Found(build_query(t, q)) IN
    [asked |-> [query |-> q], tenant |-> t, owner |-> t, limit |-> limit, of |-> store,
     total |-> Least(Cardinality(hits), TRACKED), events |-> Page(hits, limit, FALSE)]

search_events(t, q, limit) ==
    /\ HuntRequest
    /\ LimitIsValid(limit)
    /\ _validate_query(q)
    /\ Answerable(t, q)
    /\ answer' = execute_search(t, q, limit)
    /\ UNCHANGED <<store, known, saved, exportVars>>

-----------------------------------------------------------------------------
get_saved_hunt(t, h) == saved[h].owner = t

create_saved(t, h, q) ==
    /\ saved[h] = NoHunt
    /\ _validate_query(q)
    /\ HuntRequest
    /\ saved' = [saved EXCEPT ![h] = [owner |-> t, query |-> q]]
    /\ answer' = NoAnswer
    /\ UNCHANGED <<store, known, exportVars>>

update_saved(t, h, q) ==
    /\ get_saved_hunt(t, h)
    /\ _validate_query(q)
    /\ HuntRequest
    /\ saved' = [saved EXCEPT ![h].query = q]
    /\ answer' = NoAnswer
    /\ UNCHANGED <<store, known, exportVars>>

delete_saved(t, h) ==
    /\ get_saved_hunt(t, h)
    /\ HuntRequest
    /\ saved' = [saved EXCEPT ![h] = NoHunt]
    /\ answer' = NoAnswer
    /\ UNCHANGED <<store, known, exportVars>>

(* run_saved: the query is validated again, against the fields of today. *)
run_saved(t, h, limit) ==
    /\ HuntRequest
    /\ get_saved_hunt(t, h)
    /\ _validate_query(saved[h].query)
    /\ Answerable(t, saved[h].query)
    /\ answer' = [execute_search(t, saved[h].query, Clamped(limit, MAX_LIMIT))
                    EXCEPT !.owner = saved[h].owner]
    /\ UNCHANGED <<store, known, saved, exportVars>>

-----------------------------------------------------------------------------
(* The seven pivots: the fields the entity is looked for in, whole or as a *)
(* part, and what is returned.                                             *)
Addresses == <<<<"source_ip">>, <<"destination_ip">>, <<"device", "ip">>>>
Pivot(fields, part, result, ascending) ==
    [fields |-> fields, part |-> part, result |-> result, ascending |-> ascending]

_PIVOTS ==
    [ip_to_events      |-> Pivot(Addresses, <<>>, <<>>, FALSE),
     ip_to_users       |-> Pivot(Addresses, <<>>, <<"user", "name">>, FALSE),
     user_to_hosts     |-> Pivot(<<<<"user", "name">>>>, <<>>, <<"hostname">>, FALSE),
     host_to_processes |-> Pivot(<<<<"hostname">>>>, <<>>, <<"process", "name">>, FALSE),
     hash_to_events    |-> Pivot(<<<<"hash", "md5">>, <<"hash", "sha1">>, <<"hash", "sha256">>>>,
                                 <<>>, <<>>, FALSE),
     domain_to_events  |-> Pivot(<<<<"domain">>>>, <<<<"url">>>>, <<>>, FALSE),
     user_to_timeline  |-> Pivot(<<<<"user", "name">>>>, <<>>, <<>>, TRUE)]

_term(path, value) == Term(path, Text(value), case_insensitive_allowed(path, TRUE))

(* _term_or, and the substring search of domain_to_events: its value is    *)
(* not escaped.                                                            *)
_term_or(p, value) ==
    Should([k \in DOMAIN p.fields |-> _term(p.fields[k], value)]
           \o [k \in DOMAIN p.part |-> Wildcard(p.part[k], <<"*">> \o value \o <<"*">>, TRUE)])

(* _distinct_values: the buckets with the most events, ties either way. *)
_distinct_values(hits, path, limit) ==
    LET keys == UNION {Indexed(path, EventDoc[e]) : e \in hits}
        count == [k \in keys |-> Cardinality({e \in hits : k \in Indexed(path, EventDoc[e])})] IN
    {[k \in B |-> count[k]] : B \in {C \in SUBSET keys :
        /\ Cardinality(C) = Least(limit, Cardinality(keys))
        /\ \A k \in C, l \in keys \ C : count[k] >= count[l]}}

run_pivot(t, name, value, limit) ==
    LET p == _PIVOTS[name]
        clause == Bool(<<TenantTerm(t), _term_or(p, value)>>, <<>>)
        hits == Found(clause)
        most == Clamped(limit, IF p.result = <<>> THEN MAX_LIMIT ELSE MAX_VALUE_LIMIT)
        reply == [asked |-> [pivot |-> name, value |-> value], tenant |-> t, owner |-> t,
                  limit |-> most, of |-> store,
                  total |-> Least(Cardinality(hits), TRACKED)] IN
    /\ HuntRequest
    /\ LimitIsValid(limit)
    /\ value # <<>>
    /\ ~Refused(clause)
    /\ \/ /\ p.result = <<>>
          /\ answer' = reply @@ [events |-> Page(hits, most, p.ascending)]
       \/ /\ p.result # <<>>
          /\ \E values \in _distinct_values(hits, p.result, most) :
               answer' = reply @@ [values |-> values]
    /\ UNCHANGED <<store, known, saved, exportVars>>

-----------------------------------------------------------------------------
(* export up to its quota: a query that does not compile is refused first. *)
StartExport(x, t, q, rows) ==
    /\ _validate_query(q)
    /\ HuntRequest
    /\ _within_export_rate_limit(x, t, q, rows)
    /\ answer' = NoAnswer
    /\ UNCHANGED <<store, known, saved>>

(* If the cluster rejects its query, it ends in ExportFails. *)
export_hunt(x) ==
    /\ HandOut(x)
    /\ Answerable(exporting[x].tenant, exporting[x].query)
    /\ answer' = execute_search(exporting[x].tenant, exporting[x].query, exporting[x].rows)
    /\ UNCHANGED <<store, known, saved, huntWork>>

(* Time, and failing exports, are nobody's request. *)
ExportsPass ==
    /\ NextHour \/ \E x \in ExportRequest : ExportFails(x)
    /\ answer' = NoAnswer
    /\ UNCHANGED <<store, known, saved, huntWork>>

HuntNext ==
    \/ \E e \in StoredEvent : IndexEvent(e)
    \/ \E f \in MappedField : Deploy(f)
    \/ \E t \in Tenant :
         \/ \E q \in Query, n \in Limit : search_events(t, q, n)
         \/ \E h \in Hunt, q \in Query : create_saved(t, h, q) \/ update_saved(t, h, q)
         \/ \E h \in Hunt : delete_saved(t, h) \/ \E n \in Limit : run_saved(t, h, n)
         \/ \E name \in DOMAIN _PIVOTS, v \in PivotValue, n \in Limit : run_pivot(t, name, v, n)
         \/ \E x \in ExportRequest, q \in Query, n \in Rows : StartExport(x, t, q, n)
    \/ \E x \in ExportRequest : export_hunt(x)
    \/ ExportsPass

-----------------------------------------------------------------------------
Values(e, path) == {v \in resolve_path(EventDoc[e], path) : ~Is("null", v)}
HasPart(e, path, text) ==
    \E v \in Values(e, path) : \E p \in _text_pair(v, Text(text), FALSE) : Within(p)

(* What a hunt asks of an event, by the evaluator that streaming rules use. *)
Asked(q, e) ==
    /\ q.filters # NoFilter => evaluate_node(q.filters, EventDoc[e])
    /\ q.free_text # <<>> => \E f \in ToSet(FREE_TEXT_FIELDS) : TypeOf(f) = "keyword"
                                                         /\ HasPart(e, f, q.free_text)
    /\ q.since # 0 => Time(e) >= q.since
    /\ q.until # 0 => Time(e) <= q.until

(* What a pivot asks: the entity in one of its fields. *)
Concerns(p, value, e) ==
    \/ \E f \in ToSet(p.fields) : \E v \in Values(e, f) :
         IF TypeOf(f) = "ip" THEN _cidr_match(v, Text(value)) ELSE _equal(v, Text(value), FALSE)
    \/ \E f \in ToSet(p.part) : HasPart(e, f, value)

(* Whether the two readings of the question agree on an event. *)
Plain(asked, e) ==
    IF "query" \in DOMAIN asked
    THEN asked.query.filters # NoFilter =>
           \A c \in _leaf_conditions(asked.query.filters) : ~Diverges(c, EventDoc[e])
    ELSE "*" \notin ToSet(asked.value)

(* An answer is the asker's own events and no other tenant's, all that the *)
(* evaluator would match and nothing else, the newest first (a timeline    *)
(* the oldest), cut off at the limit without a gap, with the true number   *)
(* as far as OpenSearch counts; a saved hunt answers its owner only; a     *)
(* pivot to values counts the events of each and leaves out no larger one  *)
(* (build_query, execute_search, _search_events, _distinct_values).        *)
AnswersAreTheTenants ==
    LET a == answer.asked
        isPivot == "pivot" \in DOMAIN a
        p == _PIVOTS[a.pivot]
        want == {e \in answer.of :
                   /\ EventDoc[e].object["tenant_id"] = Text(answer.tenant)
                   /\ IF isPivot THEN Concerns(p, a.value, e) ELSE Asked(a.query, e)}
        Before(d, e) == IF isPivot /\ p.ascending THEN Time(d) < Time(e) ELSE Time(d) > Time(e)
        Count(k) == Cardinality({e \in want : k \in UNION {_as_text(v) : v \in Values(e, p.result)}})
        keys == UNION {UNION {_as_text(v) : v \in Values(e, p.result)} : e \in want} IN
    "nothing" \in DOMAIN a \/ (\E e \in answer.of : ~Plain(a, e)) \/
      /\ answer.owner = answer.tenant
      /\ answer.total = Least(Cardinality(want), TRACKED)
      /\ "events" \in DOMAIN answer =>
           LET list == answer.events IN
           /\ ToSet(list) \subseteq want
           /\ Len(list) = Least(Cardinality(want), answer.limit)
           /\ \A k \in DOMAIN list : \A e \in want \ ToSet(SubSeq(list, 1, k)) : Before(list[k], e)
      /\ "values" \in DOMAIN answer =>
           /\ Cardinality(DOMAIN answer.values) = Least(Cardinality(keys), answer.limit)
           /\ \A k \in DOMAIN answer.values :
                /\ answer.values[k] = Count(k)
                /\ \A l \in keys \ DOMAIN answer.values : Count(l) <= Count(k)

(* Hunting shows a tenant its own events, all of them and as asked, and    *)
(* takes none out unrecorded.                                              *)
HuntsAreFaithful == AnswersAreTheTenants /\ ExportsAreOnRecord
=============================================================================
