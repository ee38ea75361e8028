----------------------------- MODULE Conditions -----------------------------
(***************************************************************************)
(* The condition language of rules, exceptions and hunts, in its two       *)
(* readings: backend/app/detection/conditions.py evaluates a tree on a     *)
(* document, detection/query.py compiles it to an OpenSearch query.        *)
(*                                                                         *)
(* A value is a record with one field that names its type. A text is a     *)
(* sequence of tokens: letters, digits, "*" for the metacharacters of a    *)
(* wildcard, and the octets of an address. A result that may be absent is  *)
(* a set with at most one member. What OpenSearch does, the queries it     *)
(* rejects included, is external. Not modelled: blanks that are stripped,  *)
(* other spellings of an address or a number, letters case folds beyond    *)
(* ASCII, fields of type boolean and text (command_line), texts too long   *)
(* for a keyword field, lists as the value of an operator that takes one   *)
(* value, and regular expressions beyond the search for a literal.         *)
(***************************************************************************)
EXTENDS Integers, FiniteSets, Sequences, SequencesExt

Lowered == [A |-> "a", B |-> "b"]
DigitOf == [k \in {"0", "1", "2"} |-> CASE k = "0" -> 0 [] k = "1" -> 1 [] k = "2" -> 2]
Octet == {"10", "20", "30"}

casefold(text) == [k \in DOMAIN text |-> IF text[k] \in DOMAIN Lowered THEN Lowered[text[k]]
                                         ELSE text[k]]

Is(type, v) == type \in DOMAIN v
Text(t) == [text |-> t]
Number(n) == [number |-> n]
Null_ == [null |-> TRUE]
Object(fields) == [object |-> fields]
List(items) == [list |-> items]

-----------------------------------------------------------------------------
(* The values one segment of a path reaches from one node: a key of an     *)
(* object, or of every object in a list.                                   *)
Segment(node, name) ==
    LET objects == IF Is("object", node) THEN {node}
                   ELSE IF Is("list", node) THEN {i \in ToSet(node.list) : Is("object", i)}
                   ELSE {} IN
    {o.object[name] : o \in {p \in objects : name \in DOMAIN p.object}}

(* resolve_path: as a set, since only "any of them" is ever asked. *)
resolve_path(document, path) ==
    LET reached == FoldLeft(LAMBDA nodes, name : UNION {Segment(n, name) : n \in nodes},
                            {document}, path) IN
    UNION {IF Is("list", n) THEN ToSet(n.list) ELSE {n} : n \in reached}

_as_text(v) ==
    IF Is("text", v) THEN {v.text}
    ELSE IF Is("bool", v) THEN {<<IF v.bool THEN "true" ELSE "false">>}
    ELSE IF Is("number", v) THEN {<<ToString(v.number)>>}
    ELSE {}

_as_number(v) ==
    IF Is("number", v) THEN {v.number}
    ELSE IF Is("text", v) /\ v.text # <<>> /\ ToSet(v.text) \subseteq DOMAIN DigitOf
    THEN {FoldLeft(LAMBDA n, d : 10 * n + DigitOf[d], 0, v.text)}
    ELSE {}

(* _text_pair: the two texts to compare, if both values have one. *)
_text_pair(left, right, cs) ==
    LET Cased(s) == IF cs THEN s ELSE casefold(s) IN
    {<<Cased(l), Cased(r)>> : l \in _as_text(left), r \in _as_text(right)}

(* Whether the second text of a pair is in the first. *)
Within(p) ==
    \E k \in 1..(Len(p[1]) - Len(p[2]) + 1) : SubSeq(p[1], k, k + Len(p[2]) - 1) = p[2]

_equal(left, right, cs) ==
    IF _as_number(left) # {} /\ _as_number(right) # {} THEN _as_number(left) = _as_number(right)
    ELSE IF _as_text(left) # {} /\ _as_text(right) # {}
    THEN \E p \in _text_pair(left, right, cs) : p[1] = p[2]
    ELSE left = right

Ordered(op, l, r) ==
    CASE op = "gt" -> l > r [] op = "gte" -> l >= r [] op = "lt" -> l < r [] op = "lte" -> l <= r

(* _compare: not a number is not a match. *)
_compare(left, right, op) ==
    \E l \in _as_number(left), r \in _as_number(right) : Ordered(op, l, r)

(* A value that may be one or a list of them. *)
Candidates(v) == IF Is("list", v) THEN ToSet(v.list) ELSE {v}

(* _cidr_match: a network is the octets it fixes. *)
Address(t) == Len(t) = 2 /\ ToSet(t) \subseteq Octet
Network(t) == Len(t) <= 2 /\ ToSet(t) \subseteq Octet
_cidr_match(v, networks) ==
    \E a \in _as_text(v), n \in UNION {_as_text(c) : c \in Candidates(networks)} :
        Address(a) /\ Network(n) /\ IsPrefix(n, a)

_regex_match(v, pattern, cs) == \E p \in _text_pair(v, pattern, cs) : Within(p)

_matches_value(c, v) ==
    LET found == \E e \in Candidates(c.value) : _equal(v, e, c.cs)
        pairs == _text_pair(v, c.value, c.cs)
        contained == \E p \in pairs : Within(p) IN
    CASE c.op = "equals"       -> _equal(v, c.value, c.cs)
      [] c.op = "not_equals"   -> ~_equal(v, c.value, c.cs)
      [] c.op = "contains"     -> contained
      [] c.op = "not_contains" -> ~contained
      [] c.op = "starts_with"  -> \E p \in pairs : IsPrefix(p[2], p[1])
      [] c.op = "ends_with"    -> \E p \in pairs : IsSuffix(p[2], p[1])
      [] c.op = "matches"      -> _regex_match(v, c.value, c.cs)
      [] c.op = "in"           -> found
      [] c.op = "not_in"       -> ~found
      [] c.op \in {"gt", "gte", "lt", "lte"} -> _compare(v, c.value, c.op)
      [] c.op = "cidr"         -> _cidr_match(v, c.value)

evaluate_condition(c, document) ==
    LET values == {v \in resolve_path(document, c.path) : ~Is("null", v)} IN
    IF c.op = "exists" THEN (values # {}) = c.value.bool
    ELSE \E v \in values : _matches_value(c, v)

RECURSIVE evaluate_node(_, _)
evaluate_node(n, document) ==
    CASE "all" \in DOMAIN n -> \A k \in DOMAIN n.all : evaluate_node(n.all[k], document)
      [] "any" \in DOMAIN n -> \E k \in DOMAIN n.any : evaluate_node(n.any[k], document)
      [] "not" \in DOMAIN n -> ~evaluate_node(n.not, document)
      [] OTHER -> evaluate_condition(n, document)

-----------------------------------------------------------------------------
(* The type normalized_mapping gives a field; <<"vendor">> stands for the  *)
(* fields it does not declare, which are stored and not indexed.           *)
TypeOf(path) ==
    CASE path \in {<<"source_ip">>, <<"destination_ip">>, <<"device", "ip">>} -> "ip"
      [] path \in {<<"source_port">>, <<"timestamp">>} -> "long"   \* timestamp: a date
      [] path = <<"vendor">> -> "none"
      [] OTHER -> "keyword"

(* non_textual_fields has only fields that are declared. *)
case_insensitive_allowed(path, requested) == requested /\ TypeOf(path) \notin {"ip", "long"}

_NEGATIVE_OPERATORS == [not_equals |-> "equals", not_contains |-> "contains", not_in |-> "in"]

_escape_wildcard(text) == [k \in DOMAIN text |-> IF text[k] = "*" THEN "\\*" ELSE text[k]]

_text(v) == CHOOSE t \in _as_text(v) : TRUE

Term(path, v, ci) == [term |-> path, value |-> _text(v), ci |-> ci]
Wildcard(path, pattern, ci) == [wildcard |-> path, value |-> pattern, ci |-> ci]
Exists(path) == [exists |-> path]
Should(clauses) == [should |-> clauses]
Bool(must, must_not) == [must |-> must, must_not |-> must_not]

_positive_clause(c) ==
    LET ci == case_insensitive_allowed(c.path, ~c.cs)
        items == IF Is("list", c.value) THEN c.value.list ELSE <<c.value>> IN
    CASE c.op = "equals" -> Term(c.path, c.value, ci)
      [] c.op = "in" -> Should([k \in DOMAIN items |-> Term(c.path, items[k], ci)])
      [] c.op = "contains" ->
           Wildcard(c.path, <<"*">> \o _escape_wildcard(_text(c.value)) \o <<"*">>, ci)
      [] c.op = "starts_with" -> [prefix |-> c.path, value |-> _text(c.value), ci |-> ci]
      [] c.op = "ends_with" ->
           Wildcard(c.path, <<"*">> \o _escape_wildcard(_text(c.value)), ci)
      [] c.op \in {"gt", "gte", "lt", "lte"} ->
           [range |-> c.path, op |-> c.op, value |-> c.value]
      [] c.op = "cidr" -> Should([k \in DOMAIN items |-> Term(c.path, items[k], FALSE)])
      [] c.op = "exists" -> IF c.value.bool THEN Exists(c.path)
                            ELSE Bool(<<>>, <<Exists(c.path)>>)

Positive(c) == [c EXCEPT !.op = _NEGATIVE_OPERATORS[c.op]]

(* Mutant of compile_condition: a bare must_not. *)
CompileBareNegation(c) ==
    IF c.op \notin DOMAIN _NEGATIVE_OPERATORS THEN _positive_clause(c)
    ELSE Bool(<<>>, <<_positive_clause(Positive(c))>>)

(* compile_condition: a negative operator needs the field to exist. *)
compile_condition(c) ==
    IF c.op \notin DOMAIN _NEGATIVE_OPERATORS THEN _positive_clause(c)
    ELSE Bool(<<Exists(c.path)>>, <<_positive_clause(Positive(c))>>)

RECURSIVE compile_conditions(_)
compile_conditions(n) ==
    CASE "all" \in DOMAIN n -> Bool([k \in DOMAIN n.all |-> compile_conditions(n.all[k])], <<>>)
      [] "any" \in DOMAIN n -> Should([k \in DOMAIN n.any |-> compile_conditions(n.any[k])])
      [] "not" \in DOMAIN n -> Bool(<<>>, <<compile_conditions(n.not)>>)
      [] OTHER -> compile_condition(n)

(* The conditions at the leaves of a tree. *)
RECURSIVE _leaf_conditions(_)
_leaf_conditions(n) ==
    CASE "all" \in DOMAIN n -> UNION {_leaf_conditions(n.all[k]) : k \in DOMAIN n.all}
      [] "any" \in DOMAIN n -> UNION {_leaf_conditions(n.any[k]) : k \in DOMAIN n.any}
      [] "not" \in DOMAIN n -> _leaf_conditions(n.not)
      [] OTHER -> {n}

UNSUPPORTED_IN_QUERY == {"matches"}

unsupported_operators(n) == {c.op : c \in _leaf_conditions(n)} \cap UNSUPPORTED_IN_QUERY

-----------------------------------------------------------------------------
(* OpenSearch: what is indexed for a field, and which documents a clause   *)
(* finds. A number in a keyword field is its text, and the other way round *)
(* in a long field; a list is all of its values; null is not indexed.      *)
Indexed(path, document) ==
    LET values == {v \in resolve_path(document, path) : ~Is("null", v)} IN
    CASE TypeOf(path) = "none" -> {}
      [] TypeOf(path) = "long" -> UNION {_as_number(v) : v \in values}
      [] OTHER -> UNION {_as_text(v) : v \in values}

(* The order of texts, which is also that of addresses. *)
Alphabet == <<"*", "0", "1", "2", "10", "20", "30", "A", "B", "a", "b">>
Rank(token) == CHOOSE k \in DOMAIN Alphabet : Alphabet[k] = token
TextBefore(s, t) ==
    \/ IsStrictPrefix(s, t)
    \/ \E k \in DOMAIN s \cap DOMAIN t : /\ SubSeq(s, 1, k - 1) = SubSeq(t, 1, k - 1)
                                        /\ Rank(s[k]) < Rank(t[k])
TextOrdered(op, s, t) ==
    CASE op = "gt" -> TextBefore(t, s) [] op = "gte" -> s = t \/ TextBefore(t, s)
      [] op = "lt" -> TextBefore(s, t) [] op = "lte" -> s = t \/ TextBefore(s, t)

RECURSIVE WildcardFinds(_, _)
WildcardFinds(p, t) ==
    IF p = <<>> THEN t = <<>>
    ELSE IF Head(p) = "*"
    THEN \E k \in 0..Len(t) : WildcardFinds(Tail(p), SubSeq(t, k + 1, Len(t)))
    ELSE t # <<>> /\ Head(t) = (IF Head(p) = "\\*" THEN "*" ELSE Head(p))
                  /\ WildcardFinds(Tail(p), Tail(t))

Folded(ci, t) == IF ci THEN casefold(t) ELSE t

(* A query with a clause that the type of its field cannot take is         *)
(* rejected as a whole.                                                    *)
RECURSIVE Refused(_)
Refused(q) ==
    CASE "term" \in DOMAIN q ->
           CASE TypeOf(q.term) = "ip" -> ~Network(q.value)
             [] TypeOf(q.term) = "long" -> _as_number(Text(q.value)) = {}
             [] OTHER -> FALSE
      [] "wildcard" \in DOMAIN q -> TypeOf(q.wildcard) \in {"ip", "long"}
      [] "prefix" \in DOMAIN q -> TypeOf(q.prefix) \in {"ip", "long"}
      [] "range" \in DOMAIN q ->
           CASE TypeOf(q.range) = "ip" -> ~Address(_text(q.value))
             [] TypeOf(q.range) = "long" -> _as_number(q.value) = {}
             [] OTHER -> FALSE
      [] "exists" \in DOMAIN q -> FALSE
      [] "should" \in DOMAIN q -> \E k \in DOMAIN q.should : Refused(q.should[k])
      [] "must" \in DOMAIN q -> \/ \E k \in DOMAIN q.must : Refused(q.must[k])
                                \/ \E k \in DOMAIN q.must_not : Refused(q.must_not[k])

(* Of one that is not; an empty bool query finds everything. *)
RECURSIVE Hits(_, _)
Hits(q, d) ==
    CASE "term" \in DOMAIN q ->
           LET type == TypeOf(q.term) IN
           \E t \in Indexed(q.term, d) :
              CASE type = "long" -> {t} = _as_number(Text(q.value))
                [] type = "ip" -> Network(q.value) /\ IsPrefix(q.value, t)
                [] OTHER -> Folded(q.ci, t) = Folded(q.ci, q.value)
      [] "wildcard" \in DOMAIN q ->
           \E t \in Indexed(q.wildcard, d) : WildcardFinds(Folded(q.ci, q.value), Folded(q.ci, t))
      [] "prefix" \in DOMAIN q ->
           \E t \in Indexed(q.prefix, d) : IsPrefix(Folded(q.ci, q.value), Folded(q.ci, t))
      [] "range" \in DOMAIN q ->
           \E t \in Indexed(q.range, d) :
              IF TypeOf(q.range) = "long"
              THEN \E n \in _as_number(q.value) : Ordered(q.op, t, n)
              ELSE TextOrdered(q.op, t, _text(q.value))
      [] "exists" \in DOMAIN q -> Indexed(q.exists, d) # {}
      [] "should" \in DOMAIN q -> \/ q.should = <<>>
                                  \/ \E k \in DOMAIN q.should : Hits(q.should[k], d)
      [] "must" \in DOMAIN q -> /\ \A k \in DOMAIN q.must : Hits(q.must[k], d)
                                /\ \A k \in DOMAIN q.must_not : ~Hits(q.must_not[k], d)

-----------------------------------------------------------------------------
Equality == {"equals", "not_equals", "in", "not_in"}
Ordering == {"gt", "gte", "lt", "lte"}
PartOfText == {"contains", "not_contains", "starts_with", "ends_with"}

(* A condition whose operator or value the type of its field cannot take:  *)
(* the evaluator answers, since a condition never raises, and OpenSearch   *)
(* rejects its translation. Nothing checks this when a rule is written.    *)
Mistyped(c) ==
    LET type == TypeOf(c.path)
        Numeric(v) == _as_number(v) # {} IN
    \/ c.op \in PartOfText /\ type \in {"ip", "long"}
    \/ c.op \in Equality \cup {"cidr"} /\ type = "ip"
         /\ \E v \in Candidates(c.value) : ~Network(_text(v))
    \/ c.op \in Equality \cup {"cidr"} /\ type = "long"
         /\ \E v \in Candidates(c.value) : ~Numeric(v)
    \/ c.op \in Ordering /\ type = "ip" /\ ~Address(_text(c.value))
    \/ c.op \in Ordering /\ type = "long" /\ ~Numeric(c.value)

(* Where a condition that both paths answer may be answered differently:   *)
(* the evaluator asks of a negative operator whether some value differs,   *)
(* the query whether none is equal; the evaluator takes "01" and "1" for   *)
(* one number, which a keyword field does not; a term query on an address  *)
(* takes a network, which the evaluator compares as text; elsewhere cidr   *)
(* is a comparison of texts or numbers to the query; an order of texts or  *)
(* addresses is none to the evaluator; an empty list is matched by nothing *)
(* there, and by everything in a query; and a field that is not declared   *)
(* has no values for a query.                                              *)
Diverges(c, document) ==
    LET type == TypeOf(c.path)
        values == Candidates(c.value) IN
    \/ /\ c.op \in DOMAIN _NEGATIVE_OPERATORS
       /\ Cardinality({v \in resolve_path(document, c.path) : ~Is("null", v)}) > 1
    \/ c.op \in Equality /\ type = "keyword" /\ \E v \in values : _as_number(v) # {}
    \/ c.op \in Equality /\ type = "ip" /\ \E v \in values : ~Address(_text(v))
    \/ c.op = "cidr" /\ type # "ip"
    \/ c.op \in Ordering /\ type \in {"keyword", "ip"}
    \/ c.op \in {"in", "not_in", "cidr"} /\ values = {}
    \/ type = "none"
=============================================================================
